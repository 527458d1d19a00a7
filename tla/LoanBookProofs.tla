--------------------------- MODULE LoanBookProofs ---------------------------
(***************************************************************************)
(* The invariants of LoanBook for every set of members, communities, loans, *)
(* amounts, rates and hashes.                                              *)
(***************************************************************************)
EXTENDS LoanBook, FiniteSetTheorems, TLAPS

-----------------------------------------------------------------------------
(* Rows *)

LEMMA NoLoanIsNoRow == NoLoan \notin Row /\ NoLoan.status = "absent"
  BY DEF NoLoan, Row, Status

\* Every row operation yields a row, with the parties and terms it had.
LEMMA NewLoanIsRow ==
  ASSUME NEW b \in Address, NEW n \in Address, NEW c \in Community,
         NEW amt \in Amount, NEW rt \in Rate
  PROVE  /\ NewLoan(b, n, c, amt, rt) \in Row
         /\ NewLoan(b, n, c, amt, rt).status = "pending"
         /\ NewLoan(b, n, c, amt, rt).repaid = 0
         /\ ~NewLoan(b, n, c, amt, rt).disbursed
         /\ ~NewLoan(b, n, c, amt, rt).closed
         /\ KeyOf(NewLoan(b, n, c, amt, rt)) = <<b, c>>
  BY AmountAssumption, RateAssumption DEF NewLoan, Row, Status, KeyOf

LEMMA RowSteps ==
  ASSUME NEW row \in Row, NEW w \in Nat, NEW full \in BOOLEAN
  PROVE  /\ Disbursed(row) \in Row
         /\ Repaid(row, w, full) \in Row
         /\ Defaulted(row) \in Row
         /\ Cancelled(row) \in Row
  <1>1. /\ Disbursed(row) \in Row
        /\ Defaulted(row) \in Row
        /\ Cancelled(row) \in Row
    BY DEF Disbursed, Defaulted, Cancelled, Row, Status
  <1>3. Repaid(row, w, full) \in Row
    <2> DEFINE s == IF full THEN "repaid" ELSE "active"
    <2>1. s \in Status
      BY DEF Status
    <2> HIDE DEF s
    <2>2. [row EXCEPT !.repaid = w, !.status = s, !.closed = full] \in Row
      BY <2>1 DEF Row
    <2>3. QED
      BY <2>2 DEF Repaid, s
  <1>4. QED
    BY <1>1, <1>3

LEMMA KeysKept ==
  ASSUME NEW row \in Row, NEW w \in Nat, NEW full \in BOOLEAN
  PROVE  /\ KeyOf(Disbursed(row)) = KeyOf(row)
         /\ KeyOf(Repaid(row, w, full)) = KeyOf(row)
         /\ KeyOf(Defaulted(row)) = KeyOf(row)
         /\ KeyOf(Cancelled(row)) = KeyOf(row)
         /\ KeyOf(row) \in RepKey
  BY DEF Disbursed, Repaid, Defaulted, Cancelled, Row, KeyOf, RepKey

\* A loan owes at least one stroop for each stroop of principal.
LEMMA DueType ==
  ASSUME NEW row \in Row
  PROVE  Due(row) \in Nat /\ Due(row) >= Stroop
  <1>1. row.amount \in Nat /\ row.amount >= 1 /\ row.rate \in Nat
    BY DEF Row
  <1>2. row.amount * row.rate \in Nat
    BY <1>1
  <1>3. Due(row) = row.amount * Stroop + row.amount * row.rate
    BY <1>1 DEF Due, Stroop
  <1>4. QED
    BY <1>1, <1>2, <1>3 DEF Stroop

\* How far the doubles may be off is a whole number of grains or stroops.
LEMMA ErrorType ==
  ASSUME NEW row \in Row
  PROVE  Err(row) \in Nat /\ Off(row) \in Nat
  <1> DEFINE scale == Precision * Stroop
             due == Due(row) + Stroop
  <1>1. Precision \in Nat \ {0} /\ due \in Nat /\ Stroop = 10000
    BY PrecisionAssumption, DueType DEF Stroop
  <1>2. scale \in Nat \ {0}
    BY <1>1
  <1> HIDE DEF scale, due
  <1>3. due \div Precision \in Nat
    BY <1>1
  <1>4. 2 * due + scale \in Nat /\ 2 * scale \in Nat \ {0}
    BY <1>1, <1>2
  <1>5. (2 * due + scale) \div (2 * scale) \in Nat
    BY <1>4
  <1>6. Off(row) = (2 * due + scale) \div (2 * Precision * Stroop)
    BY DEF Off, due, scale
  <1>7. 2 * Precision * Stroop = 2 * scale
    BY <1>1 DEF scale
  <1>8. QED
    BY <1>3, <1>5, <1>6, <1>7 DEF Err, due

LEMMA WrittenType ==
  ASSUME NEW row \in Row, NEW x \in Nat
  PROVE  Written(row, x) \subseteq Nat
  BY ErrorType DEF Written, Row

\* What is outstanding changes by repayments alone, and how far the doubles may
\* be off is settled by the terms of the loan.
LEMMA OutstandingSteps ==
  ASSUME NEW row \in Row, NEW w \in Nat, NEW full \in BOOLEAN
  PROVE  /\ Outstanding(row) \in Int
         /\ Outstanding(Disbursed(row)) = Outstanding(row)
         /\ Outstanding(Defaulted(row)) = Outstanding(row)
         /\ Outstanding(Cancelled(row)) = Outstanding(row)
         /\ Outstanding(Repaid(row, w, full)) = Due(row) - Stroop * w
         /\ \A new \in {Disbursed(row), Defaulted(row), Cancelled(row), Repaid(row, w, full)} :
               /\ Due(new) = Due(row)
               /\ Err(new) = Err(row)
               /\ Off(new) = Off(row)
  <1>1. Due(row) \in Nat /\ row.repaid \in Nat
    BY DueType DEF Row
  <1>2. /\ Due(Disbursed(row)) = Due(row)
        /\ Due(Defaulted(row)) = Due(row)
        /\ Due(Cancelled(row)) = Due(row)
        /\ Due(Repaid(row, w, full)) = Due(row)
    BY DEF Due, Disbursed, Defaulted, Cancelled, Repaid, Row
  <1>3. /\ Disbursed(row).repaid = row.repaid
        /\ Defaulted(row).repaid = row.repaid
        /\ Cancelled(row).repaid = row.repaid
        /\ Repaid(row, w, full).repaid = w
    BY DEF Disbursed, Defaulted, Cancelled, Repaid, Row
  <1>4. \A new : Due(new) = Due(row) => Err(new) = Err(row) /\ Off(new) = Off(row)
    BY DEF Err, Off
  <1>5. QED
    BY <1>1, <1>2, <1>3, <1>4 DEF Outstanding, Stroop

\* The counters of a bumped reputation row, and its score.
\* Dividing rounds down, and to at most what the dividend is a multiple of.
LEMMA DivBound ==
  ASSUME NEW a \in Nat, NEW m \in Nat \ {0}, NEW b \in Nat, a < m * (b + 1)
  PROVE  a \div m \in 0..b
  <1> DEFINE q == a \div m
  <1>1. q \in Nat /\ m * q <= a
    OBVIOUS
  <1> HIDE DEF q
  <1>2. ASSUME q >= b + 1 PROVE FALSE
    <2>1. m * q >= m * (b + 1)
      BY <1>1, <1>2
    <2>2. m * q \in Nat /\ m * (b + 1) \in Nat
      BY <1>1
    <2>3. QED
      BY <1>1, <2>1, <2>2
  <1>3. q <= b
    BY <1>1, <1>2
  <1>4. QED
    BY <1>1, <1>3 DEF q

LEMMA ScoreType ==
  ASSUME NEW m \in Nat, NEW d \in Nat
  PROVE  Score(m, d) \in 0..MaxScore /\ Score(m, d) \in Nat
  <1> DEFINE n == m + d + 2
             top == 2 * MaxScore * (m + 1) + n
  <1>1. MaxScore = 10000
    BY DEF MaxScore
  <1>2. n \in Nat \ {0} /\ 2 * n \in Nat \ {0} /\ top \in Nat
    BY <1>1
  <1>3. top < (2 * n) * (MaxScore + 1)
    BY <1>1
  <1>4. top \div (2 * n) \in 0..MaxScore
    <2> HIDE DEF n, top
    <2> QED
      BY <1>1, <1>2, <1>3, DivBound
  <1>5. Score(m, d) = top \div (2 * n)
    BY DEF Score
  <1>6. \A i \in 0..MaxScore : i \in Nat
    OBVIOUS
  <1> HIDE DEF n, top
  <1>7. QED
    BY <1>4, <1>5, <1>6

-----------------------------------------------------------------------------
(* Tables *)

\* Recording rows of some types for one loan adds one to those tallies of that
\* loan and changes no other.
LEMMA RecordEffect ==
  ASSUME NEW l \in LoanId, NEW T \in SUBSET EventType,
         events \in [LoanId -> [EventType -> Nat]]
  PROVE  /\ Record(l, T) \in [LoanId -> [EventType -> Nat]]
         /\ \A e \in EventType :
               Record(l, T)[l][e] = IF e \in T THEN events[l][e] + 1 ELSE events[l][e]
         /\ \A k \in LoanId : k # l => Record(l, T)[k] = events[k]
  BY DEF Record

\* Bumping one counter of a reputation row leaves the others and recomputes the
\* score from the new counters.
LEMMA BumpEffect ==
  ASSUME NEW k \in RepKey, NEW f \in {"total", "onTime", "defaults"},
         rep \in [RepKey -> RepRow]
  PROVE  /\ Bump(k, f) \in [RepKey -> RepRow]
         /\ \A j \in RepKey : j # k => Bump(k, f)[j] = rep[j]
         /\ \A g \in {"total", "onTime", "defaults"} :
               Bump(k, f)[k][g] = IF g = f THEN rep[k][g] + 1 ELSE rep[k][g]
         /\ Bump(k, f)[k].score = Score(Bump(k, f)[k].onTime, Bump(k, f)[k].defaults)
  <1> DEFINE r == rep[k]
             c == Counted(r, f)
  <1>1. r \in RepRow
    OBVIOUS
  <1>2. /\ c \in RepRow
        /\ \A g \in {"total", "onTime", "defaults"} :
              c[g] = IF g = f THEN r[g] + 1 ELSE r[g]
    <2>1. CASE f = "total"
      BY <1>1, <2>1 DEF Counted, RepRow
    <2>2. CASE f = "onTime"
      BY <1>1, <2>2 DEF Counted, RepRow
    <2>3. CASE f = "defaults"
      BY <1>1, <2>3 DEF Counted, RepRow
    <2>4. QED
      BY <2>1, <2>2, <2>3
  <1> HIDE DEF c
  <1>3. Score(c.onTime, c.defaults) \in Nat
    BY <1>2, ScoreType DEF RepRow
  <1>4. /\ Rescored(c) \in RepRow
        /\ Rescored(c).total = c.total
        /\ Rescored(c).onTime = c.onTime
        /\ Rescored(c).defaults = c.defaults
        /\ Rescored(c).score = Score(c.onTime, c.defaults)
    BY <1>2, <1>3 DEF Rescored, RepRow
  <1>5. Bump(k, f) = [rep EXCEPT ![k] = Rescored(c)]
    BY DEF Bump, c
  <1>6. /\ Bump(k, f) \in [RepKey -> RepRow]
        /\ Bump(k, f)[k] = Rescored(c)
        /\ \A j \in RepKey : j # k => Bump(k, f)[j] = rep[j]
    BY <1>4, <1>5
  <1>7. QED
    BY <1>2, <1>4, <1>6

-----------------------------------------------------------------------------
(* Types *)

LEMMA InitTypes == BookInit => BookTypeOK
  <1> SUFFICES ASSUME BookInit PROVE BookTypeOK
    OBVIOUS
  <1>1. NewRep \in RepRow
    BY DEF NewRep, RepRow
  <1>2. QED
    BY <1>1 DEF BookInit, BookTypeOK

LEMMA NextTypes == BookTypeOK /\ [BookNext]_book => BookTypeOK'
  <1> SUFFICES ASSUME BookTypeOK, [BookNext]_book PROVE BookTypeOK'
    OBVIOUS
  <1> USE DEF BookTypeOK
  <1>1. ASSUME NEW l \in LoanId, BookCreate(l) PROVE BookTypeOK'
    <2>1. PICK b \in Address, n \in Address, c \in Community, amt \in Amount, rt \in Rate :
            /\ loans' = [loans EXCEPT ![l] = NewLoan(b, n, c, amt, rt)]
            /\ rep' = Bump(<<b, c>>, "total")
      BY <1>1 DEF BookCreate
    <2>2. loans' \in [LoanId -> Row \cup {NoLoan}]
      BY <2>1, NewLoanIsRow
    <2>3. rep' \in [RepKey -> RepRow]
      BY <2>1, BumpEffect DEF RepKey
    <2>4. events' \in [LoanId -> [EventType -> Nat]]
      BY <1>1, RecordEffect DEF BookCreate, EventType
    <2>5. QED
      BY <1>1, <2>2, <2>3, <2>4 DEF BookCreate
  <1>2. ASSUME NEW l \in LoanId, NEW hs \in HashChoice, BookDisburse(l, hs)
        PROVE  BookTypeOK'
    <2>1. loans[l] \in Row
      BY <1>2, NoLoanIsNoRow DEF BookDisburse
    <2>2. loans' \in [LoanId -> Row \cup {NoLoan}]
      BY <1>2, <2>1, RowSteps DEF BookDisburse
    <2>3. events' \in [LoanId -> [EventType -> Nat]]
      BY <1>2, RecordEffect DEF BookDisburse, EventType
    <2>4. hashes' \subseteq TxHash
      BY <1>2 DEF BookDisburse, HashChoice
    <2>5. QED
      BY <1>2, <2>2, <2>3, <2>4 DEF BookDisburse
  <1>3. ASSUME NEW l \in LoanId, NEW x \in Amount, NEW full \in BOOLEAN,
               BookRepay(l, x, full)
        PROVE  BookTypeOK'
    <2>1. loans[l] \in Row /\ x \in Nat
      BY <1>3, NoLoanIsNoRow, AmountAssumption DEF BookRepay
    <2>2. loans' \in [LoanId -> Row \cup {NoLoan}]
      <3>1. PICK w \in Written(loans[l], x) :
              loans' = [loans EXCEPT ![l] = Repaid(@, w, full)]
        BY <1>3 DEF BookRepay
      <3>2. w \in Nat
        BY <2>1, WrittenType
      <3>3. QED
        BY <2>1, <3>1, <3>2, RowSteps
    <2>3. events' \in [LoanId -> [EventType -> Nat]]
      <3>1. RepaymentEvents(full) \in SUBSET EventType
        BY DEF RepaymentEvents, EventType
      <3>2. QED
        BY <1>3, <3>1, RecordEffect DEF BookRepay
    <2>4. rep' \in [RepKey -> RepRow]
      BY <1>3, <2>1, KeysKept, BumpEffect DEF BookRepay
    <2>5. paid' \in [LoanId -> Nat]
      BY <1>3, <2>1 DEF BookRepay
    <2>6. QED
      BY <1>3, <2>2, <2>3, <2>4, <2>5 DEF BookRepay
  <1>4. ASSUME NEW l \in LoanId, BookDefault(l) PROVE BookTypeOK'
    <2>1. loans[l] \in Row
      BY <1>4, NoLoanIsNoRow DEF BookDefault
    <2>2. loans' \in [LoanId -> Row \cup {NoLoan}]
      BY <1>4, <2>1, RowSteps DEF BookDefault
    <2>3. events' \in [LoanId -> [EventType -> Nat]]
      BY <1>4, RecordEffect DEF BookDefault, EventType
    <2>4. rep' \in [RepKey -> RepRow]
      BY <1>4, <2>1, KeysKept, BumpEffect DEF BookDefault
    <2>5. QED
      BY <1>4, <2>2, <2>3, <2>4 DEF BookDefault
  <1>5. ASSUME NEW l \in LoanId, BookCancel(l) PROVE BookTypeOK'
    <2>1. loans[l] \in Row
      BY <1>5, NoLoanIsNoRow DEF BookCancel
    <2>2. loans' \in [LoanId -> Row \cup {NoLoan}]
      BY <1>5, <2>1, RowSteps DEF BookCancel
    <2>3. QED
      BY <1>5, <2>2 DEF BookCancel
  <1>6. CASE UNCHANGED book
    BY <1>6 DEF book
  <1>7. QED
    BY <1>1, <1>2, <1>3, <1>4, <1>5, <1>6 DEF BookNext

\* The lending tables only ever hold rows of the shapes the schema declares.
THEOREM BookTyping == BookSpec => []BookTypeOK
  BY InitTypes, NextTypes, PTL DEF BookSpec

-----------------------------------------------------------------------------
(* Balance and history.  Both speak of one loan at a time, so they are proved  *)
(* for one row, its event tallies and the sum of its repayment events, with    *)
(* what makes them inductive: an active loan that the doubles can tell from a  *)
(* settled one owes at least one stroop, and a repaid one at most one, give or *)
(* take their error.                                                           *)

Balanced(row, ev, pd) ==
  IF row = NoLoan
  THEN pd = 0
  ELSE /\ Gap(pd, row.repaid) <= ev["repayment"] * Off(row)
       /\ Outstanding(row) >= 0
       /\ row.disbursed \/ (pd = 0 /\ row.repaid = 0)

Story(row, ev, pd) ==
  /\ ev["created"] = Tally(row.status # "absent")
  /\ ev["disbursed"] = Tally(row.status \in {"active", "repaid", "defaulted"})
  /\ ev["closed"] = Tally(row.status = "repaid")
  /\ ev["defaulted"] = Tally(row.status = "defaulted")
  /\ (ev["repayment"] > 0) <=> (pd > 0)
  /\ row.status # "absent" =>
        /\ row.disbursed <=> (ev["disbursed"] = 1)
        /\ row.closed <=> (row.status \in {"repaid", "defaulted"})

Owes(row) ==
  /\ row.status = "active" /\ Settleable(row) => Outstanding(row) >= Stroop
  /\ row.status = "repaid" =>
       Outstanding(row) <= Stroop + Err(row) + Stroop * Off(row)

Sound(row, ev, pd) == Balanced(row, ev, pd) /\ Story(row, ev, pd) /\ Owes(row)

\* ev with one more row of each of the types T.
Added(ev, T) == [e \in EventType |-> IF e \in T THEN ev[e] + 1 ELSE ev[e]]

LEMMA CreateSound ==
  ASSUME NEW ev \in [EventType -> Nat], NEW pd \in Nat, Sound(NoLoan, ev, pd),
         NEW row \in Row, row.status = "pending", row.repaid = 0,
         ~row.disbursed, ~row.closed
  PROVE  Sound(row, Added(ev, {"created"}), pd)
  <1>1. row # NoLoan /\ NoLoan.status = "absent"
    BY NoLoanIsNoRow
  <1>2. pd = 0 /\ ev["repayment"] = 0
    BY DEF Sound, Balanced, Story, EventType
  <1>3. Balanced(row, Added(ev, {"created"}), pd)
    <2>1. Added(ev, {"created"})["repayment"] = 0 /\ Off(row) \in Nat
      BY <1>2, ErrorType DEF Added, EventType
    <2>2. QED
      BY <1>1, <1>2, <2>1, DueType DEF Balanced, Gap, Outstanding, Stroop
  <1>4. Story(row, Added(ev, {"created"}), pd)
    BY <1>1 DEF Sound, Story, Added, EventType, Tally
  <1>5. Owes(row)
    BY DEF Owes
  <1>6. QED
    BY <1>3, <1>4, <1>5 DEF Sound

LEMMA DisburseSound ==
  ASSUME NEW ev \in [EventType -> Nat], NEW pd \in Nat, NEW row \in Row,
         Sound(row, ev, pd), row.status = "pending"
  PROVE  Sound(Disbursed(row), Added(ev, {"disbursed"}), pd)
  <1>1. /\ Disbursed(row) \in Row
        /\ Disbursed(row).status = "active"
        /\ Disbursed(row).disbursed
        /\ Disbursed(row).closed = row.closed
        /\ Disbursed(row).repaid = row.repaid
    BY RowSteps DEF Disbursed, Row
  <1>2. row # NoLoan /\ Disbursed(row) # NoLoan
    BY <1>1, NoLoanIsNoRow
  <1>3. Outstanding(Disbursed(row)) = Outstanding(row)
    BY OutstandingSteps
  <1>4. row.repaid = 0
    <2>1. ~row.disbursed
      BY <1>2, NoLoanIsNoRow DEF Sound, Story, Tally
    <2>2. QED
      BY <2>1, <1>2 DEF Sound, Balanced, Row
  <1>5. Balanced(Disbursed(row), Added(ev, {"disbursed"}), pd)
    <2>1. Added(ev, {"disbursed"})["repayment"] = ev["repayment"]
      BY DEF Added, EventType
    <2>2. Off(Disbursed(row)) = Off(row)
      BY OutstandingSteps
    <2>3. QED
      BY <1>1, <1>2, <1>3, <2>1, <2>2 DEF Sound, Balanced
  <1>6. Story(Disbursed(row), Added(ev, {"disbursed"}), pd)
    BY <1>1 DEF Sound, Story, Added, EventType, Tally
  <1>7. Owes(Disbursed(row))
    BY <1>1, <1>3, <1>4, DueType DEF Owes, Outstanding, Stroop
  <1>8. QED
    BY <1>5, <1>6, <1>7 DEF Sound

\* One repayment more may add its own error to what the sums differ by.
LEMMA GapStep ==
  ASSUME NEW pd \in Nat, NEW r \in Nat, NEW n \in Nat, NEW off \in Nat,
         NEW x \in Nat, NEW w \in Nat,
         Gap(pd, r) <= n * off, w \in r + x - off..r + x + off
  PROVE  Gap(pd + x, w) <= (n + 1) * off
  <1> DEFINE g == n * off
  <1>1. g \in Nat /\ (n + 1) * off = g + off
    OBVIOUS
  <1> HIDE DEF g
  <1>2. Gap(pd, r) <= g
    BY DEF g
  <1>3. pd - r <= g /\ r - pd <= g
    BY <1>1, <1>2 DEF Gap
  <1>4. w - (r + x) <= off /\ (r + x) - w <= off
    OBVIOUS
  <1>5. Gap(pd + x, w) <= g + off
    BY <1>1, <1>3, <1>4 DEF Gap
  <1>6. QED
    BY <1>1, <1>5

\* What is outstanding below one stroop is what the total due is above a whole
\* number of them.
LEMMA Remainder ==
  ASSUME NEW d \in Nat, NEW w \in Nat, d - Stroop * w >= 0, d - Stroop * w < Stroop
  PROVE  d % Stroop = d - Stroop * w
  <1>1. Stroop = 10000
    BY DEF Stroop
  <1>2. QED
    BY <1>1

LEMMA RepaySound ==
  ASSUME NEW ev \in [EventType -> Nat], NEW pd \in Nat, NEW row \in Row,
         NEW x \in Nat \ {0}, NEW full \in BOOLEAN, NEW w \in Written(row, x),
         Sound(row, ev, pd), row.status = "active",
         RepaidCheck(Repaid(row, w, full)),
         IF full THEN MayClose(row, x) ELSE MayStayOpen(row, x)
  PROVE  Sound(Repaid(row, w, full), Added(ev, RepaymentEvents(full)), pd + x)
  <1> DEFINE after == Repaid(row, w, full)
  <1>0. /\ row.repaid \in Nat /\ Off(row) \in Nat /\ Err(row) \in Nat
        /\ w \in Nat
        /\ w \in row.repaid + x - Off(row)..row.repaid + x + Off(row)
    BY ErrorType DEF Row, Written
  <1>1. /\ after \in Row
        /\ after.disbursed = row.disbursed
        /\ after.repaid = w
    BY <1>0, RowSteps DEF Repaid, Row
  <1>2. /\ full => after.status = "repaid" /\ after.closed
        /\ ~full => after.status = "active" /\ ~after.closed
    BY DEF Repaid, Row
  <1>3. row # NoLoan /\ after # NoLoan
    BY <1>1, NoLoanIsNoRow
  <1>4. /\ Due(row) \in Nat /\ Stroop = 10000
        /\ Due(after) = Due(row) /\ Err(after) = Err(row) /\ Off(after) = Off(row)
        /\ Outstanding(after) = Due(row) - Stroop * w
        /\ Left(row, x) = Due(row) - Stroop * row.repaid - Stroop * x
    BY <1>0, OutstandingSteps, DueType DEF Left, Outstanding, Stroop
  <1>5. row.disbursed
    BY <1>3 DEF Sound, Story, Tally
  <1>6. Outstanding(after) >= 0
    BY <1>0, <1>1, <1>4 DEF RepaidCheck
  <1>7. Balanced(after, Added(ev, RepaymentEvents(full)), pd + x)
    <2>1. Gap(pd, row.repaid) <= ev["repayment"] * Off(row)
      BY <1>3 DEF Sound, Balanced
    <2>2. ev["repayment"] \in Nat
      BY DEF EventType
    <2>3. Gap(pd + x, w) <= (ev["repayment"] + 1) * Off(row)
      BY <1>0, <2>1, <2>2, GapStep
    <2>4. Added(ev, RepaymentEvents(full))["repayment"] = ev["repayment"] + 1
      BY DEF Added, RepaymentEvents, EventType
    <2> HIDE DEF after
    <2>5. QED
      BY <1>1, <1>3, <1>4, <1>5, <1>6, <2>3, <2>4 DEF Balanced
  <1>8. Owes(after)
    <2> HIDE DEF after
    <2>1. CASE full
      <3>1. Left(row, x) <= Stroop + Err(row)
        BY <2>1 DEF MayClose
      <3>2. Outstanding(after) <= Stroop + Err(after) + Stroop * Off(after)
        BY <1>0, <1>4, <3>1
      <3>3. QED
        BY <1>2, <2>1, <3>2 DEF Owes
    <2>2. CASE ~full
      <3>1. Left(row, x) >= Stroop - Err(row)
        BY <2>2 DEF MayStayOpen
      <3>2. ASSUME Off(after) = 0, (Due(after) % Stroop) + Err(after) < Stroop,
                   Outstanding(after) < Stroop
            PROVE  FALSE
        <4>1. w = row.repaid + x
          BY <1>0, <1>4, <3>2
        <4>2. Outstanding(after) >= Stroop - Err(row)
          BY <1>0, <1>4, <3>1, <4>1
        <4>3. Due(row) % Stroop = Outstanding(after)
          BY <1>0, <1>4, <1>6, <3>2, Remainder
        <4>4. QED
          BY <1>0, <1>4, <3>2, <4>2, <4>3
      <3>3. Outstanding(after) \in Int
        BY <1>0, <1>4
      <3>4. QED
        BY <1>2, <1>4, <2>2, <3>2, <3>3 DEF Owes, Settleable
    <2>3. QED
      BY <2>1, <2>2
  <1>9. Story(after, Added(ev, RepaymentEvents(full)), pd + x)
    <2>1. CASE full
      <3>1. Added(ev, RepaymentEvents(full))
              = [e \in EventType |-> IF e \in {"repayment", "closed"} THEN ev[e] + 1 ELSE ev[e]]
        BY <2>1 DEF Added, RepaymentEvents
      <3> HIDE DEF after
      <3>2. /\ after.status = "repaid" /\ after.closed /\ after.disbursed
            /\ ev["created"] = 1 /\ ev["disbursed"] = 1
            /\ ev["closed"] = 0 /\ ev["defaulted"] = 0
        BY <2>1, <1>1, <1>2, <1>5 DEF Sound, Story, Tally
      <3>3. QED
        BY <3>1, <3>2 DEF Story, EventType, Tally
    <2>2. CASE ~full
      <3>1. Added(ev, RepaymentEvents(full))
              = [e \in EventType |-> IF e \in {"repayment"} THEN ev[e] + 1 ELSE ev[e]]
        BY <2>2 DEF Added, RepaymentEvents
      <3> HIDE DEF after
      <3>2. QED
        BY <2>2, <3>1, <1>1, <1>2, <1>5 DEF Sound, Story, EventType, Tally
    <2>3. QED
      BY <2>1, <2>2
  <1>10. QED
    BY <1>7, <1>8, <1>9 DEF Sound

LEMMA DefaultSound ==
  ASSUME NEW ev \in [EventType -> Nat], NEW pd \in Nat, NEW row \in Row,
         Sound(row, ev, pd), row.status = "active"
  PROVE  Sound(Defaulted(row), Added(ev, {"defaulted"}), pd)
  <1>1. /\ Defaulted(row) \in Row
        /\ Defaulted(row).status = "defaulted"
        /\ Defaulted(row).disbursed = row.disbursed
        /\ Defaulted(row).closed
        /\ Defaulted(row).repaid = row.repaid
    BY RowSteps DEF Defaulted, Row
  <1>2. row # NoLoan /\ Defaulted(row) # NoLoan
    BY <1>1, NoLoanIsNoRow
  <1>3. Outstanding(Defaulted(row)) = Outstanding(row)
    BY OutstandingSteps
  <1>4. Balanced(Defaulted(row), Added(ev, {"defaulted"}), pd)
    <2>1. Added(ev, {"defaulted"})["repayment"] = ev["repayment"]
      BY DEF Added, EventType
    <2>2. Off(Defaulted(row)) = Off(row)
      BY OutstandingSteps
    <2>3. QED
      BY <1>1, <1>2, <1>3, <2>1, <2>2 DEF Sound, Balanced
  <1>5. Story(Defaulted(row), Added(ev, {"defaulted"}), pd)
    BY <1>1 DEF Sound, Story, Added, EventType, Tally
  <1>6. Owes(Defaulted(row))
    BY <1>1 DEF Owes
  <1>7. QED
    BY <1>4, <1>5, <1>6 DEF Sound

LEMMA CancelSound ==
  ASSUME NEW ev \in [EventType -> Nat], NEW pd \in Nat, NEW row \in Row,
         Sound(row, ev, pd), row.status = "pending"
  PROVE  Sound(Cancelled(row), ev, pd)
  <1>1. /\ Cancelled(row) \in Row
        /\ Cancelled(row).status = "cancelled"
        /\ Cancelled(row).disbursed = row.disbursed
        /\ Cancelled(row).closed = row.closed
        /\ Cancelled(row).repaid = row.repaid
    BY RowSteps DEF Cancelled, Row
  <1>2. row # NoLoan /\ Cancelled(row) # NoLoan
    BY <1>1, NoLoanIsNoRow
  <1>3. Outstanding(Cancelled(row)) = Outstanding(row)
    BY OutstandingSteps
  <1>4. Balanced(Cancelled(row), ev, pd)
    <2>1. Off(Cancelled(row)) = Off(row)
      BY OutstandingSteps
    <2>2. QED
      BY <1>1, <1>2, <1>3, <2>1 DEF Sound, Balanced
  <1>5. Story(Cancelled(row), ev, pd)
    BY <1>1 DEF Sound, Story, Tally
  <1>6. Owes(Cancelled(row))
    BY <1>1 DEF Owes
  <1>7. QED
    BY <1>4, <1>5, <1>6 DEF Sound

\* The inductive invariant behind balance, history and settlement.
BookInv ==
  /\ BookTypeOK
  /\ \A l \in LoanId : Sound(loans[l], events[l], paid[l])

LEMMA RecordAdds ==
  ASSUME NEW l \in LoanId, NEW T, events \in [LoanId -> [EventType -> Nat]]
  PROVE  /\ Record(l, T)[l] = Added(events[l], T)
         /\ \A k \in LoanId : k # l => Record(l, T)[k] = events[k]
  BY DEF Record, Added

LEMMA InitSound == BookInit => BookInv
  <1> SUFFICES ASSUME BookInit, NEW l \in LoanId
               PROVE  Sound(loans[l], events[l], paid[l])
    BY InitTypes DEF BookInv
  <1>1. loans[l] = NoLoan /\ paid[l] = 0
    BY DEF BookInit
  <1>2. \A e \in EventType : events[l][e] = 0
    BY DEF BookInit
  <1>3. QED
    BY <1>1, <1>2, NoLoanIsNoRow DEF Sound, Balanced, Story, Owes, Tally, EventType

LEMMA NextSound == BookInv /\ [BookNext]_book => BookInv'
  <1> SUFFICES ASSUME BookInv, [BookNext]_book PROVE BookInv'
    OBVIOUS
  <1>1. BookTypeOK /\ BookTypeOK'
    BY NextTypes DEF BookInv
  <1> SUFFICES ASSUME NEW k \in LoanId
               PROVE  Sound(loans[k], events[k], paid[k])'
    BY <1>1 DEF BookInv
  <1>2. Sound(loans[k], events[k], paid[k])
    BY DEF BookInv
  <1>3. /\ events[k] \in [EventType -> Nat]
        /\ paid[k] \in Nat
        /\ loans[k] \in Row \cup {NoLoan}
    BY <1>1 DEF BookTypeOK
  <1>4. ASSUME loans'[k] = loans[k], events'[k] = events[k], paid'[k] = paid[k]
        PROVE  Sound(loans[k], events[k], paid[k])'
    BY <1>2, <1>4
  <1>5. ASSUME NEW l \in LoanId, BookCreate(l) PROVE Sound(loans[k], events[k], paid[k])'
    <2>1. PICK b \in Address, n \in Address, c \in Community, amt \in Amount, rt \in Rate :
            loans' = [loans EXCEPT ![l] = NewLoan(b, n, c, amt, rt)]
      BY <1>5 DEF BookCreate
    <2>2. CASE k = l
      <3> DEFINE row == NewLoan(b, n, c, amt, rt)
      <3>1. loans[k] = NoLoan /\ loans'[k] = row /\ paid'[k] = paid[k]
        BY <1>1, <1>5, <2>1, <2>2 DEF BookCreate, BookTypeOK
      <3>2. events'[k] = Added(events[k], {"created"})
        BY <1>1, <1>5, <2>2, RecordAdds DEF BookCreate, BookTypeOK
      <3>3. /\ row \in Row /\ row.status = "pending" /\ row.repaid = 0
            /\ ~row.disbursed /\ ~row.closed
        BY NewLoanIsRow
      <3> HIDE DEF row
      <3>4. QED
        BY <1>2, <1>3, <3>1, <3>2, <3>3, CreateSound
    <2>3. CASE k # l
      BY <1>1, <1>4, <1>5, <2>1, <2>3, RecordAdds DEF BookCreate, BookTypeOK
    <2>4. QED
      BY <2>2, <2>3
  <1>6. ASSUME NEW l \in LoanId, NEW hs \in HashChoice, BookDisburse(l, hs)
        PROVE  Sound(loans[k], events[k], paid[k])'
    <2>1. CASE k = l
      <3>1. /\ loans[k] \in Row /\ loans[k].status = "pending"
            /\ loans'[k] = Disbursed(loans[k]) /\ paid'[k] = paid[k]
        BY <1>1, <1>3, <1>6, <2>1, NoLoanIsNoRow DEF BookDisburse, BookTypeOK
      <3>2. events'[k] = Added(events[k], {"disbursed"})
        BY <1>1, <1>6, <2>1, RecordAdds DEF BookDisburse, BookTypeOK
      <3>3. QED
        BY <1>2, <1>3, <3>1, <3>2, DisburseSound
    <2>2. CASE k # l
      BY <1>1, <1>4, <1>6, <2>2, RecordAdds DEF BookDisburse, BookTypeOK
    <2>3. QED
      BY <2>1, <2>2
  <1>7. ASSUME NEW l \in LoanId, NEW x \in Amount, NEW full \in BOOLEAN,
               BookRepay(l, x, full)
        PROVE  Sound(loans[k], events[k], paid[k])'
    <2>1. x \in Nat \ {0}
      BY AmountAssumption
    <2>2. CASE k = l
      <3>1. PICK w \in Written(loans[k], x) :
            /\ loans[k] \in Row /\ loans[k].status = "active"
            /\ loans'[k] = Repaid(loans[k], w, full) /\ paid'[k] = paid[k] + x
            /\ RepaidCheck(Repaid(loans[k], w, full))
            /\ IF full THEN MayClose(loans[k], x) ELSE MayStayOpen(loans[k], x)
        BY <1>1, <1>3, <1>7, <2>2, NoLoanIsNoRow DEF BookRepay, BookTypeOK
      <3>2. events'[k] = Added(events[k], RepaymentEvents(full))
        BY <1>1, <1>7, <2>2, RecordAdds DEF BookRepay, BookTypeOK
      <3>3. QED
        BY <1>2, <1>3, <2>1, <3>1, <3>2, RepaySound
    <2>3. CASE k # l
      BY <1>1, <1>4, <1>7, <2>3, RecordAdds DEF BookRepay, BookTypeOK
    <2>4. QED
      BY <2>2, <2>3
  <1>8. ASSUME NEW l \in LoanId, BookDefault(l) PROVE Sound(loans[k], events[k], paid[k])'
    <2>1. CASE k = l
      <3>1. /\ loans[k] \in Row /\ loans[k].status = "active"
            /\ loans'[k] = Defaulted(loans[k]) /\ paid'[k] = paid[k]
        BY <1>1, <1>3, <1>8, <2>1, NoLoanIsNoRow DEF BookDefault, BookTypeOK
      <3>2. events'[k] = Added(events[k], {"defaulted"})
        BY <1>1, <1>8, <2>1, RecordAdds DEF BookDefault, BookTypeOK
      <3>3. QED
        BY <1>2, <1>3, <3>1, <3>2, DefaultSound
    <2>2. CASE k # l
      BY <1>1, <1>4, <1>8, <2>2, RecordAdds DEF BookDefault, BookTypeOK
    <2>3. QED
      BY <2>1, <2>2
  <1>9. ASSUME NEW l \in LoanId, BookCancel(l) PROVE Sound(loans[k], events[k], paid[k])'
    <2>1. CASE k = l
      <3>1. /\ loans[k] \in Row /\ loans[k].status = "pending"
            /\ loans'[k] = Cancelled(loans[k]) /\ paid'[k] = paid[k]
            /\ events'[k] = events[k]
        BY <1>1, <1>3, <1>9, <2>1, NoLoanIsNoRow DEF BookCancel, BookTypeOK
      <3>2. QED
        BY <1>2, <1>3, <3>1, CancelSound
    <2>2. CASE k # l
      BY <1>1, <1>4, <1>9, <2>2 DEF BookCancel, BookTypeOK
    <2>3. QED
      BY <2>1, <2>2
  <1>10. CASE UNCHANGED book
    BY <1>4, <1>10 DEF book
  <1>11. QED
    BY <1>5, <1>6, <1>7, <1>8, <1>9, <1>10 DEF BookNext

THEOREM BookInductive == BookSpec => []BookInv
  BY InitSound, NextSound, PTL DEF BookSpec

\* The books balance: the amount a loan shows as repaid is the sum of its
\* repayment events, but for what the doubles may be off, and never exceeds
\* principal plus interest.
THEOREM Balance == BookSpec => []BooksBalance
  <1>1. BookInv => BooksBalance
    BY DEF BookInv, Sound, Balanced, BooksBalance
  <1>2. QED
    BY <1>1, BookInductive, PTL

\* The event tallies and the closing date follow the status of every loan.
THEOREM History == BookSpec => []HistoryMatchesStatus
  <1>1. BookInv => HistoryMatchesStatus
    BY DEF BookInv, Sound, Story, HistoryMatchesStatus
  <1>2. QED
    BY <1>1, BookInductive, PTL

\* Where the doubles tell a loan from a settled one, it can be paid off in whole
\* stroops whatever fraction of one its total due ends with.
LEMMA ActiveSettles ==
  ASSUME NEW row \in Row, Settleable(row), Outstanding(row) >= Stroop
  PROVE  \E x \in 1..(Outstanding(row) \div Stroop) : Settles(row, x)
  <1> DEFINE out == Outstanding(row)
             x == out \div Stroop
  <1>1. out \in Nat /\ out >= Stroop /\ Stroop = 10000
    <2>1. Due(row) \in Nat /\ row.repaid \in Nat
      BY DueType DEF Row
    <2>2. QED
      BY <2>1 DEF Outstanding, Stroop
  <1>2. x \in Nat /\ x >= 1 /\ Stroop * x <= out /\ out < Stroop * x + Stroop
    <2> HIDE DEF out
    <2>1. x = out \div 10000
      BY <1>1
    <2>2. x \in Nat /\ 10000 * x <= out /\ out < 10000 * x + 10000
      BY <1>1, <2>1
    <2>3. QED
      BY <1>1, <2>2
  <1> HIDE DEF x
  <1>3. /\ row.repaid \in Nat /\ Due(row) \in Nat /\ Err(row) \in Nat
        /\ Off(row) = 0 /\ (Due(row) % Stroop) + Err(row) < Stroop
    BY DueType, ErrorType DEF Settleable, Row
  <1>4. out = Due(row) - Stroop * row.repaid
    BY DEF Outstanding
  <1> HIDE DEF out
  <1>5. Due(row) % Stroop = out - Stroop * x
    <2>1. row.repaid + x \in Nat
      BY <1>2, <1>3
    <2>2. Due(row) - Stroop * (row.repaid + x) = out - Stroop * x
      BY <1>1, <1>2, <1>3, <1>4
    <2>3. QED
      BY <1>1, <1>2, <1>3, <2>1, <2>2, Remainder
  <1>6. ~MayReject(row, x) /\ ~MayStayOpen(row, x)
    <2>1. out - Stroop * x + Err(row) < Stroop
      BY <1>3, <1>5
    <2>2. QED
      BY <1>1, <1>2, <1>3, <2>1 DEF MayReject, MayStayOpen, Left, out
  <1>7. ASSUME NEW w \in Written(row, x) PROVE RepaidCheck(Repaid(row, w, TRUE))
    <2>1. w = row.repaid + x
      BY <1>2, <1>3 DEF Written
    <2>2. w \in Nat /\ Repaid(row, w, TRUE).repaid = w
      BY <1>2, <1>3, <2>1 DEF Repaid, Row
    <2>3. Due(Repaid(row, w, TRUE)) = Due(row)
      BY <2>2, OutstandingSteps
    <2>4. Stroop * w <= Due(row)
      BY <1>1, <1>2, <1>3, <1>4, <2>1
    <2> DEFINE after == Repaid(row, w, TRUE)
    <2>5. after.repaid = w /\ Due(after) = Due(row)
      BY <2>2, <2>3
    <2> HIDE DEF after
    <2>6. RepaidCheck(after)
      BY <1>1, <2>2, <2>4, <2>5 DEF RepaidCheck
    <2>7. QED
      BY <2>6 DEF after
  <1>8. Settles(row, x)
    BY <1>6, <1>7 DEF Settles
  <1>9. x \in 1..(Outstanding(row) \div Stroop)
    BY <1>2 DEF x, out
  <1>10. QED
    BY <1>8, <1>9

\* A repaid loan owes at most a stroop, but for what the doubles may be off, and
\* an active one that they can tell from a settled one can be settled.
THEOREM Settlement == BookSpec => []SettledWithinTolerance
  <1>1. BookInv => SettledWithinTolerance
    <2> SUFFICES ASSUME BookInv, NEW l \in LoanId
                 PROVE  /\ loans[l].status = "repaid" =>
                             Outstanding(loans[l])
                               <= Stroop + Err(loans[l]) + Stroop * Off(loans[l])
                        /\ loans[l].status = "active" /\ Settleable(loans[l]) =>
                             \E x \in 1..(Outstanding(loans[l]) \div Stroop) :
                                Settles(loans[l], x)
      BY DEF SettledWithinTolerance
    <2>1. Owes(loans[l])
      BY DEF BookInv, Sound
    <2>2. loans[l].status = "active" => loans[l] \in Row
      BY NoLoanIsNoRow DEF BookInv, BookTypeOK
    <2>3. QED
      BY <2>1, <2>2, ActiveSettles DEF Owes
  <1>2. QED
    BY <1>1, BookInductive, PTL

-----------------------------------------------------------------------------
(* Ended loans *)

LEMMA FrozenStep ==
  ASSUME BookTypeOK, BookNext, NEW k \in LoanId, loans[k].status \in Terminal
  PROVE  loans'[k] = loans[k] /\ events'[k] = events[k] /\ paid'[k] = paid[k]
  <1> USE DEF BookTypeOK
  <1>1. loans[k].status \notin {"absent", "pending", "active"}
    BY DEF Terminal
  <1>2. ASSUME NEW l \in LoanId, k # l, NEW T, events' = Record(l, T)
        PROVE  events'[k] = events[k]
    BY <1>2, RecordAdds
  <1>3. PICK l \in LoanId :
           \/ BookCreate(l)
           \/ \E hs \in HashChoice : BookDisburse(l, hs)
           \/ \E x \in Amount, full \in BOOLEAN : BookRepay(l, x, full)
           \/ BookDefault(l)
           \/ BookCancel(l)
    BY DEF BookNext
  <1>4. k # l
    BY <1>1, <1>3, NoLoanIsNoRow
       DEF BookCreate, BookDisburse, BookRepay, BookDefault, BookCancel
  <1>5. loans'[k] = loans[k] /\ paid'[k] = paid[k]
    BY <1>3, <1>4 DEF BookCreate, BookDisburse, BookRepay, BookDefault, BookCancel
  <1>6. events'[k] = events[k]
    <2>1. (\E T : events' = Record(l, T)) \/ events' = events
      BY <1>3 DEF BookCreate, BookDisburse, BookRepay, BookDefault, BookCancel
    <2>2. QED
      BY <2>1, <1>2, <1>4
  <1>7. QED
    BY <1>5, <1>6

\* No operation touches a loan that was repaid, defaulted or cancelled.
THEOREM Frozen == BookSpec => EndedIsFrozen
  <1> DEFINE Kept ==
        \A l \in LoanId :
          loans[l].status \in Terminal =>
            /\ loans'[l] = loans[l]
            /\ events'[l] = events[l]
            /\ paid'[l] = paid[l]
  <1>1. BookTypeOK /\ [BookNext]_book => [Kept]_book
    BY FrozenStep
  <1>2. BookSpec => [][Kept]_book
    BY <1>1, BookTyping, PTL DEF BookSpec
  <1>3. QED
    BY <1>2 DEF EndedIsFrozen

-----------------------------------------------------------------------------
(* Reputation *)

\* Writing one row leaves the loans of a key with a status in S as they were, or
\* adds that loan.
LEMMA CountStep ==
  ASSUME loans \in [LoanId -> Row \cup {NoLoan}],
         NEW l \in LoanId, NEW new, loans' = [loans EXCEPT ![l] = new],
         NEW k \in RepKey, NEW S \in SUBSET Status
  PROVE  /\ Cardinality(LoansOf(k, S)) \in Nat
         /\ ((loans[l].status \in S /\ KeyOf(loans[l]) = k)
                <=> (new.status \in S /\ KeyOf(new) = k))
            => Cardinality(LoansOf(k, S)') = Cardinality(LoansOf(k, S))
         /\ /\ ~(loans[l].status \in S /\ KeyOf(loans[l]) = k)
            /\ new.status \in S /\ KeyOf(new) = k
            => Cardinality(LoansOf(k, S)') = Cardinality(LoansOf(k, S)) + 1
  <1>1. IsFiniteSet(LoansOf(k, S))
    BY LoanIdAssumption, FS_Subset DEF LoansOf
  <1>2. LoansOf(k, S)' = {m \in LoanId : loans'[m].status \in S /\ KeyOf(loans'[m]) = k}
    BY DEF LoansOf, KeyOf
  <1>3. \A m \in LoanId : loans'[m] = IF m = l THEN new ELSE loans[m]
    OBVIOUS
  <1>4. ASSUME (loans[l].status \in S /\ KeyOf(loans[l]) = k)
                  <=> (new.status \in S /\ KeyOf(new) = k)
        PROVE  LoansOf(k, S)' = LoansOf(k, S)
    BY <1>2, <1>3, <1>4 DEF LoansOf
  <1>5. ASSUME ~(loans[l].status \in S /\ KeyOf(loans[l]) = k),
               new.status \in S, KeyOf(new) = k
        PROVE  LoansOf(k, S)' = LoansOf(k, S) \cup {l} /\ l \notin LoansOf(k, S)
    BY <1>2, <1>3, <1>5 DEF LoansOf
  <1>6. Cardinality(LoansOf(k, S)) \in Nat
    BY <1>1, FS_CardinalityType
  <1>7. ASSUME LoansOf(k, S)' = LoansOf(k, S) \cup {l}, l \notin LoansOf(k, S)
        PROVE  Cardinality(LoansOf(k, S)') = Cardinality(LoansOf(k, S)) + 1
    BY <1>1, <1>7, FS_AddElement
  <1>8. QED
    BY <1>4, <1>5, <1>6, <1>7

RepInv == BookTypeOK /\ ReputationMatchesLoans /\ ScoreMatchesCounters

LEMMA InitRep == BookInit => RepInv
  <1> SUFFICES ASSUME BookInit PROVE RepInv
    OBVIOUS
  <1>1. \A k \in RepKey, S \in SUBSET Status : LoansOf(k, S) = {}
    BY NoLoanIsNoRow DEF BookInit, LoansOf, Status
  <1>2. Cardinality({}) = 0
    BY FS_EmptySet
  <1>3. ReputationMatchesLoans
    <2>1. \A k \in RepKey : rep[k].total = 0 /\ rep[k].onTime = 0 /\ rep[k].defaults = 0
      BY DEF BookInit, NewRep
    <2>2. {"repaid"} \in SUBSET Status /\ {"defaulted"} \in SUBSET Status
      BY DEF Status
    <2>3. QED
      BY <1>1, <1>2, <2>1, <2>2 DEF ReputationMatchesLoans
  <1>4. ScoreMatchesCounters
    <2>1. Score(0, 0) = 5000
      <3>1. Score(0, 0) = (2 * MaxScore * (0 + 1) + (0 + 0 + 2)) \div (2 * (0 + 0 + 2))
        BY DEF Score
      <3>2. 2 * MaxScore * (0 + 1) + (0 + 0 + 2) = 20002 /\ 2 * (0 + 0 + 2) = 4
        BY DEF MaxScore
      <3>3. QED
        BY <3>1, <3>2
    <2>2. \A k \in RepKey : rep[k].score = 5000 /\ rep[k].onTime = 0 /\ rep[k].defaults = 0
      BY DEF BookInit, NewRep
    <2>3. QED
      <3> SUFFICES ASSUME NEW k \in RepKey
                   PROVE  /\ rep[k].score = Score(rep[k].onTime, rep[k].defaults)
                          /\ rep[k].score \in 0..MaxScore
        BY DEF ScoreMatchesCounters
      <3>1. rep[k].score = Score(rep[k].onTime, rep[k].defaults)
        BY <2>1, <2>2
      <3>2. 5000 \in 0..MaxScore
        BY DEF MaxScore
      <3>3. QED
        BY <2>2, <3>1, <3>2
  <1>5. QED
    BY <1>3, <1>4, InitTypes DEF RepInv

\* Bumping a row keeps every stored score the score of its counters.
LEMMA BumpScores ==
  ASSUME BookTypeOK, ScoreMatchesCounters, NEW k \in RepKey,
         NEW f \in {"total", "onTime", "defaults"}, rep' = Bump(k, f)
  PROVE  ScoreMatchesCounters'
  <1> SUFFICES ASSUME NEW j \in RepKey
               PROVE  /\ rep'[j].score = Score(rep'[j].onTime, rep'[j].defaults)
                      /\ rep'[j].score \in 0..MaxScore
    BY DEF ScoreMatchesCounters, Score
  <1>1. rep \in [RepKey -> RepRow] /\ rep' \in [RepKey -> RepRow]
    BY BumpEffect DEF BookTypeOK
  <1>2. CASE j = k
    <2>1. rep'[k].score = Score(rep'[k].onTime, rep'[k].defaults)
      BY <1>1, BumpEffect
    <2>2. rep'[k].onTime \in Nat /\ rep'[k].defaults \in Nat
      BY <1>1 DEF RepRow
    <2>3. QED
      BY <1>2, <2>1, <2>2, ScoreType
  <1>3. CASE j # k
    BY <1>1, <1>3, BumpEffect DEF ScoreMatchesCounters
  <1>4. QED
    BY <1>2, <1>3

Field == {"total", "onTime", "defaults"}

\* The loans a counter counts.
CountedStatus(g) ==
  CASE g = "total" -> Status [] g = "onTime" -> {"repaid"} [] g = "defaults" -> {"defaulted"}

Counts(row, k, g) == row.status \in CountedStatus(g) /\ KeyOf(row) = k

LEMMA CountedStatuses ==
  /\ CountedStatus("total") = Status
  /\ CountedStatus("onTime") = {"repaid"}
  /\ CountedStatus("defaults") = {"defaulted"}
  /\ \A g \in Field : CountedStatus(g) \in SUBSET Status
  <1>1. /\ CountedStatus("total") = Status
        /\ CountedStatus("onTime") = {"repaid"}
        /\ CountedStatus("defaults") = {"defaulted"}
    BY DEF CountedStatus
  <1>2. QED
    BY <1>1 DEF Field, Status

\* Writing row new over row old makes counter f of key count one loan more and
\* changes no other count.
CountsOneMore(old, new, key, f) ==
  \A k \in RepKey, g \in Field :
     IF k = key /\ g = f
     THEN ~Counts(old, k, g) /\ Counts(new, k, g)
     ELSE Counts(old, k, g) <=> Counts(new, k, g)

CountersMatch ==
  \A k \in RepKey, g \in Field, S \in SUBSET Status :
     S = CountedStatus(g) => rep[k][g] = Cardinality(LoansOf(k, S))

LEMMA MatchByField == ReputationMatchesLoans <=> CountersMatch
  BY CountedStatuses DEF ReputationMatchesLoans, CountersMatch, Field

LEMMA MatchByFieldNext == ReputationMatchesLoans' <=> CountersMatch'
  BY MatchByField, PTL

\* A step that writes one loan and bumps the one counter that starts to count it.
LEMMA BumpMatches ==
  ASSUME BookTypeOK, ReputationMatchesLoans,
         NEW l \in LoanId, NEW new, loans' = [loans EXCEPT ![l] = new],
         NEW key \in RepKey, NEW f \in Field, rep' = Bump(key, f),
         CountsOneMore(loans[l], new, key, f)
  PROVE  ReputationMatchesLoans'
  <1> SUFFICES ASSUME NEW k \in RepKey, NEW g \in Field,
                      NEW S \in SUBSET Status, S = CountedStatus(g)
               PROVE  rep'[k][g] = Cardinality(LoansOf(k, S)')
    BY MatchByFieldNext DEF CountersMatch
  <1>2. rep[k][g] = Cardinality(LoansOf(k, S))
    BY MatchByField DEF CountersMatch
  <1>3. rep'[k][g] = IF k = key /\ g = f THEN rep[k][g] + 1 ELSE rep[k][g]
    BY BumpEffect DEF BookTypeOK, Field
  <1>4. CASE k = key /\ g = f
    <2>1. ~Counts(loans[l], k, g) /\ Counts(new, k, g)
      BY <1>4 DEF CountsOneMore
    <2>2. Cardinality(LoansOf(k, S)') = Cardinality(LoansOf(k, S)) + 1
      BY <2>1, CountStep DEF BookTypeOK, Counts
    <2>3. QED
      BY <1>2, <1>3, <1>4, <2>2
  <1>5. CASE ~(k = key /\ g = f)
    <2>1. Counts(loans[l], k, g) <=> Counts(new, k, g)
      BY <1>5 DEF CountsOneMore
    <2>2. Cardinality(LoansOf(k, S)') = Cardinality(LoansOf(k, S))
      BY <2>1, CountStep DEF BookTypeOK, Counts
    <2>3. QED
      BY <1>2, <1>3, <1>5, <2>2
  <1>6. QED
    BY <1>4, <1>5

\* A step that writes one loan and changes no count.
LEMMA StayMatches ==
  ASSUME BookTypeOK, ReputationMatchesLoans,
         NEW l \in LoanId, NEW new, loans' = [loans EXCEPT ![l] = new], rep' = rep,
         \A k \in RepKey, g \in Field : Counts(loans[l], k, g) <=> Counts(new, k, g)
  PROVE  ReputationMatchesLoans'
  <1> SUFFICES ASSUME NEW k \in RepKey, NEW g \in Field,
                      NEW S \in SUBSET Status, S = CountedStatus(g)
               PROVE  rep'[k][g] = Cardinality(LoansOf(k, S)')
    BY MatchByFieldNext DEF CountersMatch
  <1>1. Cardinality(LoansOf(k, S)') = Cardinality(LoansOf(k, S))
    BY CountStep DEF BookTypeOK, Counts
  <1>2. QED
    BY <1>1, MatchByField DEF CountersMatch

LEMMA NextRep == RepInv /\ [BookNext]_book => RepInv'
  <1> SUFFICES ASSUME RepInv, [BookNext]_book PROVE RepInv'
    OBVIOUS
  <1>1. BookTypeOK /\ ReputationMatchesLoans /\ ScoreMatchesCounters
    BY DEF RepInv
  <1>2. BookTypeOK'
    BY <1>1, NextTypes
  <1>3. \A m \in LoanId : loans[m] \in Row \cup {NoLoan}
    BY <1>1 DEF BookTypeOK
  <1>4. ASSUME rep' = rep PROVE ScoreMatchesCounters'
    BY <1>1, <1>4 DEF ScoreMatchesCounters, Score
  <1> SUFFICES ReputationMatchesLoans' /\ ScoreMatchesCounters'
    BY <1>2 DEF RepInv
  <1>5. ASSUME NEW l \in LoanId, BookCreate(l)
        PROVE  ReputationMatchesLoans' /\ ScoreMatchesCounters'
    <2>1. PICK b \in Address, n \in Address, c \in Community, amt \in Amount, rt \in Rate :
            /\ loans' = [loans EXCEPT ![l] = NewLoan(b, n, c, amt, rt)]
            /\ rep' = Bump(<<b, c>>, "total")
      BY <1>5 DEF BookCreate
    <2> DEFINE new == NewLoan(b, n, c, amt, rt)
    <2>2. new \in Row /\ new.status = "pending" /\ KeyOf(new) = <<b, c>>
      BY NewLoanIsRow
    <2>3. loans[l].status = "absent"
      BY <1>5, NoLoanIsNoRow DEF BookCreate
    <2>4. <<b, c>> \in RepKey
      BY DEF RepKey
    <2> HIDE DEF new
    <2>5. CountsOneMore(loans[l], new, <<b, c>>, "total")
      BY <2>2, <2>3, CountedStatuses DEF CountsOneMore, Counts, Status, Field
    <2>6. loans' = [loans EXCEPT ![l] = new]
      BY <2>1 DEF new
    <2>7. QED
      <3>1. "total" \in Field
        BY DEF Field
      <3>2. ReputationMatchesLoans'
        BY <1>1, <2>1, <2>4, <2>5, <2>6, <3>1, BumpMatches
      <3>3. ScoreMatchesCounters'
        BY <1>1, <2>1, <2>4, <2>5, <2>6, BumpScores
      <3>4. QED
        BY <3>2, <3>3
  <1>6. ASSUME NEW l \in LoanId, NEW hs \in HashChoice, BookDisburse(l, hs)
        PROVE  ReputationMatchesLoans' /\ ScoreMatchesCounters'
    <2>1. loans[l] \in Row /\ loans[l].status = "pending"
      BY <1>3, <1>6, NoLoanIsNoRow DEF BookDisburse
    <2>2. Disbursed(loans[l]).status = "active" /\ KeyOf(Disbursed(loans[l])) = KeyOf(loans[l])
      BY <2>1, KeysKept DEF Disbursed, Row
    <2>3. \A k \in RepKey, g \in Field :
            Counts(loans[l], k, g) <=> Counts(Disbursed(loans[l]), k, g)
      BY <2>1, <2>2, CountedStatuses DEF Counts, Status, Field
    <2>4. QED
      BY <1>1, <1>4, <1>6, <2>3, StayMatches DEF BookDisburse
  <1>7. ASSUME NEW l \in LoanId, NEW x \in Amount, NEW full \in BOOLEAN,
               BookRepay(l, x, full)
        PROVE  ReputationMatchesLoans' /\ ScoreMatchesCounters'
    <2>1. loans[l] \in Row /\ loans[l].status = "active" /\ x \in Nat
      BY <1>3, <1>7, NoLoanIsNoRow, AmountAssumption DEF BookRepay
    <2> PICK w \in Written(loans[l], x) :
           loans' = [loans EXCEPT ![l] = Repaid(@, w, full)]
      BY <1>7 DEF BookRepay
    <2>0. w \in Nat
      BY <2>1, WrittenType
    <2> DEFINE new == Repaid(loans[l], w, full)
    <2>2. /\ KeyOf(new) = KeyOf(loans[l]) /\ KeyOf(loans[l]) \in RepKey
          /\ full => new.status = "repaid"
          /\ ~full => new.status = "active"
      BY <2>0, <2>1, KeysKept DEF Repaid, Row
    <2>3. loans' = [loans EXCEPT ![l] = new]
      OBVIOUS
    <2> HIDE DEF new
    <2>4. CASE full
      <3>1. rep' = Bump(KeyOf(loans[l]), "onTime")
        BY <1>7, <2>4 DEF BookRepay
      <3>2. CountsOneMore(loans[l], new, KeyOf(loans[l]), "onTime")
        BY <2>1, <2>2, <2>4, CountedStatuses DEF CountsOneMore, Counts, Status, Field
      <3>3. QED
        <4>1. "onTime" \in Field
          BY DEF Field
        <4>2. ReputationMatchesLoans'
          BY <1>1, <2>2, <2>3, <3>1, <3>2, <4>1, BumpMatches
        <4>3. ScoreMatchesCounters'
          BY <1>1, <2>2, <2>3, <3>1, <3>2, BumpScores
        <4>4. QED
          BY <4>2, <4>3
    <2>5. CASE ~full
      <3>1. \A k \in RepKey, g \in Field : Counts(loans[l], k, g) <=> Counts(new, k, g)
        BY <2>1, <2>2, <2>5, CountedStatuses DEF Counts, Status, Field
      <3>2. rep' = rep
        BY <1>7, <2>5 DEF BookRepay
      <3>3. QED
        BY <1>1, <1>4, <2>3, <3>1, <3>2, StayMatches
    <2>6. QED
      BY <2>4, <2>5
  <1>8. ASSUME NEW l \in LoanId, BookDefault(l)
        PROVE  ReputationMatchesLoans' /\ ScoreMatchesCounters'
    <2> DEFINE new == Defaulted(loans[l])
    <2>1. loans[l] \in Row /\ loans[l].status = "active"
      BY <1>3, <1>8, NoLoanIsNoRow DEF BookDefault
    <2>2. /\ KeyOf(new) = KeyOf(loans[l]) /\ KeyOf(loans[l]) \in RepKey
          /\ new.status = "defaulted"
      BY <2>1, KeysKept DEF Defaulted, Row
    <2>3. loans' = [loans EXCEPT ![l] = new] /\ rep' = Bump(KeyOf(loans[l]), "defaults")
      BY <1>8 DEF BookDefault
    <2> HIDE DEF new
    <2>4. CountsOneMore(loans[l], new, KeyOf(loans[l]), "defaults")
      BY <2>1, <2>2, CountedStatuses DEF CountsOneMore, Counts, Status, Field
    <2>5. QED
      <3>1. "defaults" \in Field
        BY DEF Field
      <3>2. ReputationMatchesLoans'
        BY <1>1, <2>2, <2>3, <2>4, <3>1, BumpMatches
      <3>3. ScoreMatchesCounters'
        BY <1>1, <2>2, <2>3, <2>4, BumpScores
      <3>4. QED
        BY <3>2, <3>3
  <1>9. ASSUME NEW l \in LoanId, BookCancel(l)
        PROVE  ReputationMatchesLoans' /\ ScoreMatchesCounters'
    <2>1. loans[l] \in Row /\ loans[l].status = "pending"
      BY <1>3, <1>9, NoLoanIsNoRow DEF BookCancel
    <2>2. Cancelled(loans[l]).status = "cancelled" /\ KeyOf(Cancelled(loans[l])) = KeyOf(loans[l])
      BY <2>1, KeysKept DEF Cancelled, Row
    <2>3. \A k \in RepKey, g \in Field :
            Counts(loans[l], k, g) <=> Counts(Cancelled(loans[l]), k, g)
      BY <2>1, <2>2, CountedStatuses DEF Counts, Status, Field
    <2>4. QED
      BY <1>1, <1>4, <1>9, <2>3, StayMatches DEF BookCancel
  <1>10. CASE UNCHANGED book
    BY <1>1, <1>4, <1>10 DEF book, ReputationMatchesLoans, LoansOf, KeyOf
  <1>11. QED
    BY <1>5, <1>6, <1>7, <1>8, <1>9, <1>10 DEF BookNext

\* Each borrower's reputation row counts that borrower's loans, ended repaid and
\* ended in default, and its score is the one those counts give.
THEOREM Reputation == BookSpec => []ReputationMatchesLoans /\ []ScoreMatchesCounters
  <1>1. RepInv => ReputationMatchesLoans /\ ScoreMatchesCounters
    BY DEF RepInv
  <1>2. QED
    BY <1>1, InitRep, NextRep, PTL DEF BookSpec

=============================================================================
