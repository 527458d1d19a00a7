-------------------------- MODULE LoanRequestsProofs --------------------------
(***************************************************************************)
(* The concurrent handlers of LoanRequests implement LoanBook, for every    *)
(* number of requests, loans and parties, so what LoanBookProofs proves of  *)
(* the books holds of the handlers; and what clients were told is booked.   *)
(*                                                                         *)
(* The argument: what a transaction read and staged stays true until it     *)
(* commits, because it owns the rows it was computed from.                  *)
(***************************************************************************)
EXTENDS LoanRequests, LoanBookProofs

-----------------------------------------------------------------------------
(* The invariant *)

Running == {"checked", "locked", "bump", "bumped", "written"}
Holding == {"locked", "bump", "bumped", "written"}
Staging == {"bump", "bumped", "written"}

RequestedRow(row) ==
  \E b, n \in Address, c \in Community, amt \in Amount, rt \in Rate :
     row = NewLoan(b, n, c, amt, rt)

\* What a running handler was sent.
Sent(r) ==
  /\ IF r.op = "create" THEN RequestedRow(r.row) ELSE r.loan \in LoanId
  /\ IF r.op = "repay" THEN r.x \in Amount ELSE r.x = 0
  /\ r.op # "disburse" => r.hs = {}

\* The staged row is the committed row after the operation, whose guards hold of
\* the committed row.
StagedRow(r) ==
  LET old == loans[r.loan]
  IN  \/ /\ r.op = "create"
         /\ old = NoLoan
         /\ r.field = "total"
      \/ /\ r.op = "disburse"
         /\ old.status = "pending"
         /\ r.row = Disbursed(old)
         /\ r.hs \cap hashes = {}
         /\ r.field = None
      \/ /\ r.op = "repay"
         /\ old.status = "active"
         /\ MayAccept(old, r.x)
         /\ \E w \in Written(old, r.x) : r.row = Repaid(old, w, r.full)
         /\ RepaidCheck(r.row)
         /\ IF r.full THEN MayClose(old, r.x) ELSE MayStayOpen(old, r.x)
         /\ r.field = IF r.full THEN "onTime" ELSE None
      \/ /\ r.op = "default"
         /\ old.status = "active"
         /\ r.row = Defaulted(old)
         /\ r.field = "defaults"

\* So is the staged reputation row.
StagedRep(r) ==
  LET counted == Counted(rep[KeyOf(r.row)], r.field)
  IN  /\ r.pc \in {"bump", "bumped"} => r.field # None
      /\ r.pc = "bumped" => r.rep = counted
      /\ r.pc = "written" /\ r.field # None => r.rep = Rescored(counted)

Current(r) ==
  /\ r.pc \in Running => Sent(r)
  /\ r.pc \in {"checked", "locked"} => r.field = None
  /\ r.pc = "locked" =>
       /\ r.op \in {"disburse", "repay", "default"}
       /\ r.row = loans[r.loan]
  /\ r.pc \in Staging => r.loan \in LoanId /\ StagedRow(r) /\ StagedRep(r)

HoldsRep(r) == r.pc \in {"bumped", "written"} /\ r.field # None
HoldsHash(r) == r.pc = "written" /\ r.op = "disburse"

\* Two transactions never own the same row of a table.
Apart(r, s) ==
  /\ r.pc \in Holding /\ s.pc \in Holding => r.loan # s.loan
  /\ HoldsRep(r) /\ HoldsRep(s) => KeyOf(r.row) # KeyOf(s.row)
  /\ HoldsHash(r) /\ HoldsHash(s) => r.hs \cap s.hs = {}

LockInv ==
  /\ TypeOK
  /\ \A p \in Request : Current(req[p])
  /\ \A p, q \in Request : p # q => Apart(req[p], req[q])


-----------------------------------------------------------------------------
(* Steps of one handler that leave the committed rows alone *)

\* What the handlers answer with, and what an idle one holds.
LEMMA IdleType ==
  /\ Idle \in Handler
  /\ \A code \in Code : [Idle EXCEPT !.pc = "answer", !.code = code] \in Handler
  <1>1. NewRep \in RepRow
    BY DEF NewRep, RepRow
  <1>2. /\ {} \in HashChoice
        /\ None \in LoanRef
        /\ 0 \in Payment
        /\ NoLoan \in MaybeRow
        /\ None \in Counter
        /\ 0 \in Code
        /\ "idle" \in Pc /\ "answer" \in Pc
        /\ "cancel" \in Op
    BY DEF HashChoice, LoanRef, Payment, MaybeRow, Counter, Code, Pc, Op
  <1>3. Idle \in Handler
    BY <1>1, <1>2 DEF Idle, Handler
  <1>4. ASSUME NEW code \in Code
        PROVE  [Idle EXCEPT !.pc = "answer", !.code = code] \in Handler
    BY <1>2, <1>3 DEF Handler
  <1>5. QED
    BY <1>3, <1>4

SidesOK ==
  /\ deleted \subseteq Community
  /\ acked \in [LoanId -> [disburse : Nat, cancel : Nat, default : Nat, paid : Nat]]

\* A handler that moves to r while the committed rows stay keeps the invariant
\* when r is true of them and shares nothing with another transaction.
LEMMA LocalStep ==
  ASSUME LockInv, NEW p \in Request, NEW r \in Handler,
         UNCHANGED book, SidesOK', req' = [req EXCEPT ![p] = r],
         Current(r),
         \A q \in Request : q # p => Apart(r, req[q])
  PROVE  LockInv'
  <1>1. /\ req \in [Request -> Handler]
        /\ \A q \in Request : Current(req[q])
        /\ \A q, s \in Request : q # s => Apart(req[q], req[s])
    BY DEF LockInv, TypeOK
  <1>2. /\ req'[p] = r
        /\ \A q \in Request : q # p => req'[q] = req[q]
    BY <1>1
  <1>3. ASSUME NEW q \in Request PROVE Current(req[q])'
    <2>1. Current(req'[q])
      BY <1>1, <1>2
    <2>2. QED
      BY <2>1 DEF book, Current, StagedRow, StagedRep
  <1>4. ASSUME NEW q \in Request, NEW s \in Request, q # s
        PROVE  Apart(req[q], req[s])'
    <2>1. Apart(req'[q], req'[s])
      BY <1>1, <1>2, <1>4 DEF Apart
    <2>2. QED
      BY <2>1 DEF Apart, HoldsRep, HoldsHash, KeyOf
  <1>5. TypeOK'
    BY <1>1 DEF LockInv, TypeOK, SidesOK, BookTypeOK, book
  <1>6. QED
    BY <1>3, <1>4, <1>5 DEF LockInv

\* Ending a handler, or answering, releases whatever it owned.
LEMMA EndingStep ==
  ASSUME LockInv, NEW p \in Request, NEW r \in Handler, r.pc \in {"idle", "answer"},
         UNCHANGED book, SidesOK', req' = [req EXCEPT ![p] = r]
  PROVE  LockInv'
  <1>1. Current(r)
    BY DEF Current, Running, Staging
  <1>2. \A q \in Request : q # p => Apart(r, req[q])
    BY DEF Apart, Holding, HoldsRep, HoldsHash
  <1>3. QED
    BY <1>1, <1>2, LocalStep

LEMMA AnswerStep ==
  ASSUME LockInv, NEW p \in Request, NEW code \in Code, Answer(p, code),
         UNCHANGED <<book, deleted, acked>>
  PROVE  LockInv'
  <1> DEFINE r == [Idle EXCEPT !.pc = "answer", !.code = code]
  <1>1. r \in Handler
    BY IdleType
  <1>2. r.pc = "answer"
    BY DEF Idle
  <1>3. SidesOK'
    BY DEF LockInv, TypeOK, SidesOK
  <1>4. req' = [req EXCEPT ![p] = r]
    BY DEF Answer
  <1> HIDE DEF r
  <1>5. QED
    BY <1>1, <1>2, <1>3, <1>4, EndingStep

\* A handler that only starts owns nothing yet.
LEMMA StartStep ==
  ASSUME LockInv, NEW p \in Request, NEW r \in Handler,
         r.pc = "checked", r.field = None, Sent(r),
         UNCHANGED <<book, deleted, acked>>, req' = [req EXCEPT ![p] = r]
  PROVE  LockInv'
  <1>1. Current(r)
    BY DEF Current, Staging
  <1>2. \A q \in Request : q # p => Apart(r, req[q])
    BY DEF Apart, Holding, HoldsRep, HoldsHash
  <1>3. SidesOK'
    BY DEF LockInv, TypeOK, SidesOK
  <1>4. QED
    BY <1>1, <1>2, <1>3, LocalStep

LEMMA CreateRequest ==
  ASSUME LockInv, NEW p \in Request, ReceiveCreate(p)
  PROVE  LockInv'
  <1>1. PICK actor, b, n \in Address, c \in Community, amt \in Amount, rt \in Rate :
           \/ actor \notin {b, n} /\ Answer(p, 403)
           \/ actor \in {b, n} /\ c \in deleted /\ Answer(p, 404)
           \/ /\ actor \in {b, n}
              /\ c \notin deleted
              /\ req' = [req EXCEPT ![p] =
                   [Idle EXCEPT !.pc = "checked", !.op = "create",
                                !.row = NewLoan(b, n, c, amt, rt)]]
    BY Zenon DEF ReceiveCreate
  <1>2. UNCHANGED <<book, deleted, acked>>
    BY DEF ReceiveCreate
  <1>3. CASE Answer(p, 403) \/ Answer(p, 404)
    BY <1>2, <1>3, AnswerStep DEF Code
  <1>4. CASE req' = [req EXCEPT ![p] =
                [Idle EXCEPT !.pc = "checked", !.op = "create",
                             !.row = NewLoan(b, n, c, amt, rt)]]
    <2> DEFINE row == NewLoan(b, n, c, amt, rt)
               r == [Idle EXCEPT !.pc = "checked", !.op = "create", !.row = row]
    <2>1. row \in MaybeRow /\ RequestedRow(row)
      BY NewLoanIsRow DEF MaybeRow, RequestedRow
    <2> HIDE DEF row
    <2>2. r \in Handler
      BY <2>1, IdleType DEF Handler, Pc, Op
    <2>3. /\ r.pc = "checked" /\ r.op = "create" /\ r.row = row
          /\ r.x = 0 /\ r.hs = {} /\ r.field = None
      BY DEF Idle
    <2>4. req' = [req EXCEPT ![p] = r]
      BY <1>4 DEF row
    <2> HIDE DEF r
    <2>5. Sent(r)
      BY <2>1, <2>3 DEF Sent
    <2>6. QED
      BY <1>2, <2>2, <2>3, <2>4, <2>5, StartStep
  <1>5. QED
    BY <1>1, <1>3, <1>4

LEMMA OtherRequest ==
  ASSUME LockInv, NEW p \in Request, NEW op \in {"disburse", "repay", "default", "cancel"},
         NEW x \in Payment, NEW hs \in HashChoice, Preflight(p, op, x, hs),
         IF op = "repay" THEN x \in Amount ELSE x = 0,
         op # "disburse" => hs = {},
         UNCHANGED <<book, deleted, acked>>
  PROVE  LockInv'
  <1>1. PICK l \in LoanId :
           \/ Answer(p, 404) \/ Answer(p, 403) \/ Answer(p, 409)
           \/ req' = [req EXCEPT ![p] =
                [Idle EXCEPT !.pc = "checked", !.op = op, !.loan = l,
                             !.x = x, !.hs = hs]]
    BY DEF Preflight
  <1>2. CASE Answer(p, 404) \/ Answer(p, 403) \/ Answer(p, 409)
    BY <1>2, AnswerStep DEF Code
  <1>3. CASE req' = [req EXCEPT ![p] =
                [Idle EXCEPT !.pc = "checked", !.op = op, !.loan = l,
                             !.x = x, !.hs = hs]]
    <2> DEFINE r == [Idle EXCEPT !.pc = "checked", !.op = op, !.loan = l,
                                 !.x = x, !.hs = hs]
    <2>1. r \in Handler
      BY IdleType DEF Handler, Pc, Op, LoanRef
    <2>2. /\ r.pc = "checked" /\ r.op = op /\ r.loan = l
          /\ r.x = x /\ r.hs = hs /\ r.field = None
      BY DEF Idle
    <2>3. Sent(r)
      BY <2>2 DEF Sent
    <2>4. QED
      BY <1>3, <2>1, <2>2, <2>3, StartStep
  <1>4. QED
    BY <1>1, <1>2, <1>3

-----------------------------------------------------------------------------
(* Steps inside a transaction *)

\* What the invariant says of one handler.
LEMMA OwnFacts ==
  ASSUME LockInv, NEW p \in Request
  PROVE  /\ req[p] \in Handler
         /\ Current(req[p])
         /\ \A q \in Request : q # p => Apart(req[p], req[q])
         /\ req[p].loan \in LoanId => loans[req[p].loan] \in MaybeRow
         /\ SidesOK
  BY DEF LockInv, TypeOK, SidesOK, BookTypeOK, MaybeRow

LEMMA LockLoanKeeps ==
  ASSUME LockInv, NEW p \in Request, LockLoan(p)
  PROVE  LockInv'
  <1> DEFINE row == loans[req[p].loan]
             r == [req[p] EXCEPT !.pc = "locked", !.row = row]
  <1>1. /\ req[p] \in Handler /\ Current(req[p]) /\ req[p].pc = "checked"
        /\ req[p].op \in {"disburse", "repay", "default"}
        /\ RowFree(req[p].loan)
    BY OwnFacts DEF LockLoan
  <1>2. Sent(req[p]) /\ req[p].field = None /\ req[p].loan \in LoanId
    BY <1>1 DEF Current, Sent, Running
  <1>3. row \in MaybeRow
    BY <1>2, OwnFacts
  <1>4. "locked" \in Pc
    BY DEF Pc
  <1>5. UNCHANGED <<book, deleted, acked>> /\ req' = [req EXCEPT ![p] = r]
    BY DEF LockLoan
  <1>6. /\ r = [req[p] EXCEPT !.pc = "locked", !.row = row]
        /\ row = loans[req[p].loan]
    OBVIOUS
  <1> HIDE DEF r, row
  <1>7. /\ r \in Handler /\ r.pc = "locked" /\ r.row = row
        /\ r.op = req[p].op /\ r.loan = req[p].loan /\ r.x = req[p].x
        /\ r.hs = req[p].hs /\ r.field = req[p].field
    BY <1>1, <1>3, <1>4, <1>6 DEF Handler
  <1>8. Current(r)
    BY <1>1, <1>2, <1>6, <1>7 DEF Current, Sent, Staging
  <1>9. \A q \in Request : q # p => Apart(r, req[q])
    BY <1>1, <1>7 DEF Apart, HoldsRep, HoldsHash, RowFree, Owns, Holding
  <1>10. SidesOK'
    BY <1>5, OwnFacts DEF SidesOK
  <1>11. QED
    BY <1>5, <1>7, <1>8, <1>9, <1>10, LocalStep

\* A transaction that stages its row goes on owning it, and nothing else yet
\* unless it has nothing left to own.
LEMMA StageStep ==
  ASSUME LockInv, NEW p \in Request, NEW r \in Handler,
         req[p].pc = "locked", r.pc \in {"bump", "written"},
         r.op = req[p].op, r.loan = req[p].loan, r.x = req[p].x, r.hs = req[p].hs,
         IF r.pc = "bump" THEN r.field # None ELSE r.field = None,
         StagedRow(r),
         HoldsHash(r) => HashFree(r.hs),
         UNCHANGED <<book, deleted, acked>>, req' = [req EXCEPT ![p] = r]
  PROVE  LockInv'
  <1>1. /\ req[p] \in Handler /\ Current(req[p])
        /\ \A q \in Request : q # p => Apart(req[p], req[q])
    BY OwnFacts
  <1>2. Sent(req[p]) /\ req[p].loan \in LoanId /\ req[p].op # "create"
    BY <1>1 DEF Current, Sent, Running
  <1>3. Current(r)
    BY <1>2 DEF Current, Sent, StagedRep
  <1>4. \A q \in Request : q # p => Apart(r, req[q])
    BY <1>1 DEF Apart, HoldsRep, HoldsHash, HashFree, Holding
  <1>5. SidesOK'
    BY OwnFacts DEF SidesOK
  <1>6. QED
    BY <1>3, <1>4, <1>5, LocalStep

LEMMA WriteDisburseKeeps ==
  ASSUME LockInv, NEW p \in Request, WriteDisburse(p)
  PROVE  LockInv'
  <1> DEFINE row == Disbursed(req[p].row)
             r == [req[p] EXCEPT !.pc = "written", !.row = row]
  <1>1. /\ req[p] \in Handler /\ Current(req[p]) /\ req[p].pc = "locked"
        /\ req[p].op = "disburse" /\ req[p].row.status = "pending"
        /\ HashFree(req[p].hs)
        /\ UNCHANGED <<book, deleted, acked>>
    BY OwnFacts DEF WriteDisburse
  <1>2. req[p].row = loans[req[p].loan] /\ req[p].field = None
    BY <1>1 DEF Current
  <1>3. CASE req[p].hs \cap hashes = {}
    <2>1. req[p].row \in Row
      BY <1>1, NoLoanIsNoRow DEF Handler, MaybeRow
    <2>2. row \in MaybeRow
      BY <2>1, RowSteps DEF MaybeRow
    <2>3. "written" \in Pc
      BY DEF Pc
    <2>4. req' = [req EXCEPT ![p] = r]
      BY <1>3 DEF WriteDisburse
    <2>5. /\ r = [req[p] EXCEPT !.pc = "written", !.row = row]
          /\ row = Disbursed(req[p].row)
      OBVIOUS
    <2> HIDE DEF r, row
    <2>6. /\ r \in Handler /\ r.pc = "written" /\ r.row = row
          /\ r.op = req[p].op /\ r.loan = req[p].loan /\ r.x = req[p].x
          /\ r.hs = req[p].hs /\ r.field = req[p].field
      BY <1>1, <2>2, <2>3, <2>5 DEF Handler
    <2>7. StagedRow(r)
      BY <1>1, <1>2, <1>3, <2>5, <2>6 DEF StagedRow
    <2>8. QED
      BY <1>1, <1>2, <2>4, <2>6, <2>7, StageStep
  <1>4. CASE req[p].hs \cap hashes # {}
    <2>1. Answer(p, 500)
      BY <1>4 DEF WriteDisburse
    <2>2. QED
      BY <1>1, <2>1, AnswerStep DEF Code
  <1>5. QED
    BY <1>3, <1>4

LEMMA WriteRepayKeeps ==
  ASSUME LockInv, NEW p \in Request, WriteRepay(p)
  PROVE  LockInv'
  <1>1. /\ req[p] \in Handler /\ Current(req[p]) /\ req[p].pc = "locked"
        /\ req[p].op = "repay" /\ req[p].row.status = "active"
        /\ MayAccept(req[p].row, req[p].x)
        /\ UNCHANGED <<book, deleted, acked>>
    BY OwnFacts DEF WriteRepay
  <1>2. req[p].row = loans[req[p].loan] /\ Sent(req[p])
    BY <1>1 DEF Current, Running
  <1>3. PICK w \in Written(req[p].row, req[p].x), full \in BOOLEAN :
           LET row == Repaid(req[p].row, w, full)
           IN  /\ IF full THEN MayClose(req[p].row, req[p].x)
                          ELSE MayStayOpen(req[p].row, req[p].x)
               /\ IF RepaidCheck(row)
                  THEN req' = [req EXCEPT ![p].pc = IF full THEN "bump" ELSE "written",
                                          ![p].row = row, ![p].full = full,
                                          ![p].field = IF full THEN "onTime" ELSE None]
                  ELSE Answer(p, 500)
    BY DEF WriteRepay
  <1> DEFINE row == Repaid(req[p].row, w, full)
             pc == IF full THEN "bump" ELSE "written"
             field == IF full THEN "onTime" ELSE None
             r == [req[p] EXCEPT !.pc = pc, !.row = row, !.full = full, !.field = field]
  <1>4. CASE RepaidCheck(row)
    <2>1. req[p].row \in Row /\ req[p].x \in Nat
      BY <1>1, <1>2, NoLoanIsNoRow, AmountAssumption DEF Handler, MaybeRow, Sent
    <2>2. row \in MaybeRow
      <3>1. w \in Nat
        BY <2>1, WrittenType
      <3>2. QED
        BY <2>1, <3>1, RowSteps DEF MaybeRow
    <2>3. pc \in Pc /\ field \in Counter
      BY DEF Pc, Counter
    <2>4. req' = [req EXCEPT ![p] = r]
      BY <1>3, <1>4
    <2>5. /\ row = Repaid(req[p].row, w, full)
          /\ IF full
             THEN pc = "bump" /\ field = "onTime" /\ MayClose(req[p].row, req[p].x)
             ELSE pc = "written" /\ field = None /\ MayStayOpen(req[p].row, req[p].x)
      BY <1>3
    <2> HIDE DEF row, pc, field
    <2>6. /\ r \in Handler /\ r.pc = pc /\ r.row = row /\ r.full = full /\ r.field = field
          /\ r.op = req[p].op /\ r.loan = req[p].loan /\ r.x = req[p].x
          /\ r.hs = req[p].hs
      <3>1. r = [req[p] EXCEPT !.pc = pc, !.row = row, !.full = full, !.field = field]
        OBVIOUS
      <3> HIDE DEF r
      <3>2. r \in Handler
        BY <1>1, <2>2, <2>3, <3>1 DEF Handler
      <3>3. r.pc = pc /\ r.row = row /\ r.field = field
        BY <1>1, <3>1 DEF Handler
      <3>4. r.full = full
        BY <1>1, <3>1 DEF Handler
      <3>5. /\ r.op = req[p].op /\ r.loan = req[p].loan /\ r.x = req[p].x
            /\ r.hs = req[p].hs
        BY <1>1, <3>1 DEF Handler
      <3>6. QED
        BY <3>2, <3>3, <3>4, <3>5
    <2> HIDE DEF r
    <2>7. StagedRow(r)
      BY <1>1, <1>2, <1>4, <2>5, <2>6 DEF StagedRow
    <2>8. /\ r.pc \in {"bump", "written"}
          /\ IF r.pc = "bump" THEN r.field # None ELSE r.field = None
          /\ ~HoldsHash(r)
      BY <1>1, <2>5, <2>6 DEF None, HoldsHash
    <2>9. QED
      BY <1>1, <2>4, <2>6, <2>7, <2>8, StageStep
  <1>5. CASE ~RepaidCheck(row)
    <2>1. Answer(p, 500)
      BY <1>3, <1>5
    <2>2. QED
      BY <1>1, <2>1, AnswerStep DEF Code
  <1>6. QED
    BY <1>4, <1>5

LEMMA WriteDefaultKeeps ==
  ASSUME LockInv, NEW p \in Request, WriteDefault(p)
  PROVE  LockInv'
  <1> DEFINE row == Defaulted(req[p].row)
             r == [req[p] EXCEPT !.pc = "bump", !.row = row, !.field = "defaults"]
  <1>1. /\ req[p] \in Handler /\ Current(req[p]) /\ req[p].pc = "locked"
        /\ req[p].op = "default" /\ req[p].row.status = "active"
        /\ UNCHANGED <<book, deleted, acked>>
    BY OwnFacts DEF WriteDefault
  <1>2. req[p].row = loans[req[p].loan]
    BY <1>1 DEF Current
  <1>3. req[p].row \in Row
    BY <1>1, NoLoanIsNoRow DEF Handler, MaybeRow
  <1>4. row \in MaybeRow
    BY <1>3, RowSteps DEF MaybeRow
  <1>5. "bump" \in Pc /\ "defaults" \in Counter
    BY DEF Pc, Counter
  <1>6. req' = [req EXCEPT ![p] = r]
    BY DEF WriteDefault
  <1>7. /\ r = [req[p] EXCEPT !.pc = "bump", !.row = row, !.field = "defaults"]
        /\ row = Defaulted(req[p].row)
    OBVIOUS
  <1> HIDE DEF r, row
  <1>8. /\ r \in Handler /\ r.pc = "bump" /\ r.row = row /\ r.field = "defaults"
        /\ r.op = req[p].op /\ r.loan = req[p].loan /\ r.x = req[p].x
        /\ r.hs = req[p].hs
    BY <1>1, <1>4, <1>5, <1>7 DEF Handler
  <1>9. StagedRow(r)
    BY <1>1, <1>2, <1>7, <1>8 DEF StagedRow
  <1>10. r.field # None /\ ~HoldsHash(r)
    BY <1>1, <1>8 DEF None, HoldsHash
  <1>11. QED
    BY <1>1, <1>6, <1>8, <1>9, <1>10, StageStep

LEMMA InsertLoanKeeps ==
  ASSUME LockInv, NEW p \in Request, InsertLoan(p)
  PROVE  LockInv'
  <1>1. /\ req[p] \in Handler /\ Current(req[p]) /\ req[p].pc = "checked"
        /\ req[p].op = "create"
        /\ UNCHANGED <<book, deleted, acked>>
    BY OwnFacts DEF InsertLoan
  <1>2. PICK l \in LoanId :
           /\ loans[l] = NoLoan
           /\ RowFree(l)
           /\ req' = [req EXCEPT ![p].pc = "bump", ![p].loan = l, ![p].field = "total"]
    BY DEF InsertLoan
  <1> DEFINE r == [req[p] EXCEPT !.pc = "bump", !.loan = l, !.field = "total"]
  <1>3. "bump" \in Pc /\ "total" \in Counter /\ l \in LoanRef
    BY DEF Pc, Counter, LoanRef
  <1>4. /\ r = [req[p] EXCEPT !.pc = "bump", !.loan = l, !.field = "total"]
        /\ req' = [req EXCEPT ![p] = r]
    BY <1>2
  <1> HIDE DEF r
  <1>5. /\ r \in Handler /\ r.pc = "bump" /\ r.loan = l /\ r.field = "total"
        /\ r.op = "create" /\ r.row = req[p].row /\ r.x = req[p].x
        /\ r.hs = req[p].hs
    BY <1>1, <1>3, <1>4 DEF Handler
  <1>6. Sent(req[p])
    BY <1>1 DEF Current, Running
  <1>7. Current(r)
    <2>1. Sent(r)
      BY <1>1, <1>5, <1>6 DEF Sent
    <2>2. StagedRow(r) /\ StagedRep(r)
      BY <1>2, <1>5 DEF StagedRow, StagedRep, None
    <2>3. QED
      BY <1>5, <2>1, <2>2 DEF Current
  <1>8. \A q \in Request : q # p => Apart(r, req[q])
    BY <1>2, <1>5 DEF Apart, HoldsRep, HoldsHash, RowFree, Owns, Holding
  <1>9. SidesOK'
    BY <1>1, OwnFacts DEF SidesOK
  <1>10. QED
    BY <1>1, <1>4, <1>5, <1>7, <1>8, <1>9, LocalStep

\* A staging transaction whose row, loan and counter stay.
LEMMA OnlyRepStep ==
  ASSUME LockInv, NEW p \in Request, req[p].pc \in Staging,
         NEW pc \in {"bumped", "written"}, NEW rp \in RepRow, NEW r,
         r = [req[p] EXCEPT !.pc = pc, !.rep = rp],
         HoldsRep(r), r.op # "disburse",
         StagedRep(r),
         \A q \in Request : q # p /\ HoldsRep(req[q]) => KeyOf(r.row) # KeyOf(req[q].row),
         UNCHANGED <<book, deleted, acked>>, req' = [req EXCEPT ![p] = r]
  PROVE  LockInv'
  <1>1. /\ req[p] \in Handler /\ Current(req[p])
        /\ \A q \in Request : q # p => Apart(req[p], req[q])
    BY OwnFacts
  <1>2. pc \in Pc
    BY DEF Pc
  <1>3. /\ r \in Handler /\ r.pc = pc /\ r.rep = rp
        /\ r.op = req[p].op /\ r.loan = req[p].loan /\ r.x = req[p].x
        /\ r.hs = req[p].hs /\ r.row = req[p].row /\ r.full = req[p].full
        /\ r.field = req[p].field
    BY <1>1, <1>2 DEF Handler
  <1>4. Sent(req[p]) /\ StagedRow(req[p]) /\ req[p].loan \in LoanId
    BY <1>1 DEF Current, Running, Staging
  <1>5. StagedRow(r)
    BY <1>3, <1>4 DEF StagedRow
  <1>6. Current(r)
    BY <1>3, <1>4, <1>5 DEF Current, Sent
  <1>7. \A q \in Request : q # p => Apart(r, req[q])
    BY <1>1, <1>3 DEF Apart, HoldsHash, Holding, Staging
  <1>8. SidesOK'
    BY OwnFacts DEF SidesOK
  <1>9. QED
    BY <1>3, <1>6, <1>7, <1>8, LocalStep

\* A staging handler that bumps a counter names one and a key of the table.
LEMMA StagedKey ==
  ASSUME LockInv, NEW p \in Request, req[p].pc \in Staging
  PROVE  /\ req[p].row \in Row
         /\ KeyOf(req[p].row) \in RepKey
         /\ req[p].field # None =>
              req[p].field \in {"total", "onTime", "defaults"} /\ req[p].op # "disburse"
  <1>1. req[p] \in Handler /\ Sent(req[p]) /\ StagedRow(req[p])
    BY OwnFacts DEF Current, Running, Staging
  <1>2. req[p].row \in Row
    <2>1. CASE req[p].op = "create"
      BY <1>1, <2>1, NewLoanIsRow DEF Sent, RequestedRow
    <2>2. CASE req[p].op # "create"
      <3>1. req[p].row.status # "absent"
        <4>1. loans[req[p].loan] \in Row
          BY <1>1, <2>2, OwnFacts, NoLoanIsNoRow DEF StagedRow, Sent, MaybeRow
        <4>2. \A x \in Payment : x \in Nat
          BY AmountAssumption DEF Payment
        <4>3. req[p].x \in Nat /\ req[p].full \in BOOLEAN
          BY <1>1, <4>2 DEF Handler
        <4>4. \A s \in Row : s.status # "absent"
          BY DEF Row, Status
        <4>5. CASE req[p].op = "repay"
          <5>1. PICK w \in Written(loans[req[p].loan], req[p].x) :
                  req[p].row = Repaid(loans[req[p].loan], w, req[p].full)
            BY <1>1, <4>5 DEF StagedRow
          <5>2. w \in Nat
            BY <4>1, <4>3, WrittenType
          <5>3. Repaid(loans[req[p].loan], w, req[p].full) \in Row
            BY <4>1, <4>3, <5>2, RowSteps
          <5>4. QED
            BY <4>4, <5>1, <5>3
        <4>6. CASE req[p].op # "repay"
          BY <1>1, <2>2, <4>1, <4>4, <4>6, RowSteps DEF StagedRow
        <4>7. QED
          BY <4>5, <4>6
      <3>2. QED
        BY <1>1, <3>1, NoLoanIsNoRow DEF Handler, MaybeRow
    <2>3. QED
      BY <2>1, <2>2
  <1>3. KeyOf(req[p].row) \in RepKey
    BY <1>2 DEF Row, KeyOf, RepKey
  <1>4. QED
    BY <1>1, <1>2, <1>3 DEF StagedRow, Handler, Counter

LEMMA CountedType ==
  ASSUME NEW r \in RepRow, NEW f \in {"total", "onTime", "defaults"}
  PROVE  Counted(r, f) \in RepRow /\ Rescored(r) \in RepRow
  <1>1. Counted(r, f) \in RepRow
    <2>1. CASE f = "total"
      BY <2>1 DEF Counted, RepRow
    <2>2. CASE f = "onTime"
      BY <2>2 DEF Counted, RepRow
    <2>3. CASE f = "defaults"
      BY <2>3 DEF Counted, RepRow
    <2>4. QED
      BY <2>1, <2>2, <2>3
  <1>2. Score(r.onTime, r.defaults) \in Nat
    BY ScoreType DEF RepRow
  <1>3. QED
    BY <1>1, <1>2 DEF Rescored, RepRow

LEMMA UpsertReputationKeeps ==
  ASSUME LockInv, NEW p \in Request, UpsertReputation(p)
  PROVE  LockInv'
  <1> DEFINE rp == Counted(rep[KeyOf(req[p].row)], req[p].field)
             r == [req[p] EXCEPT !.pc = "bumped", !.rep = rp]
  <1>1. /\ req[p] \in Handler /\ Current(req[p]) /\ req[p].pc = "bump"
        /\ RepFree(KeyOf(req[p].row))
        /\ UNCHANGED <<book, deleted, acked>>
        /\ req' = [req EXCEPT ![p] = r]
    BY OwnFacts DEF UpsertReputation
  <1>2. req[p].field # None
    BY <1>1 DEF Current, Staging, StagedRep
  <1>3. /\ KeyOf(req[p].row) \in RepKey /\ req[p].op # "disburse"
        /\ req[p].field \in {"total", "onTime", "defaults"}
    BY <1>1, <1>2, StagedKey DEF Staging
  <1>4. rep[KeyOf(req[p].row)] \in RepRow
    BY <1>3 DEF LockInv, TypeOK, BookTypeOK
  <1>5. rp \in RepRow
    BY <1>3, <1>4, CountedType
  <1>6. /\ r = [req[p] EXCEPT !.pc = "bumped", !.rep = rp]
        /\ rp = Counted(rep[KeyOf(req[p].row)], req[p].field)
    OBVIOUS
  <1> HIDE DEF r, rp
  <1>7. /\ r.pc = "bumped" /\ r.rep = rp /\ r.op = req[p].op /\ r.row = req[p].row
        /\ r.field = req[p].field
    BY <1>1, <1>6 DEF Handler
  <1>8. HoldsRep(r) /\ StagedRep(r)
    BY <1>2, <1>6, <1>7 DEF HoldsRep, StagedRep
  <1>9. \A q \in Request : q # p /\ HoldsRep(req[q]) => KeyOf(r.row) # KeyOf(req[q].row)
    BY <1>1, <1>7 DEF RepFree, OwnsRep, HoldsRep
  <1>10. QED
    BY <1>1, <1>3, <1>5, <1>6, <1>7, <1>8, <1>9, OnlyRepStep DEF Staging

LEMMA UpdateScoreKeeps ==
  ASSUME LockInv, NEW p \in Request, UpdateScore(p)
  PROVE  LockInv'
  <1> DEFINE rp == Rescored(req[p].rep)
             r == [req[p] EXCEPT !.pc = "written", !.rep = rp]
  <1>1. /\ req[p] \in Handler /\ Current(req[p]) /\ req[p].pc = "bumped"
        /\ \A q \in Request : q # p => Apart(req[p], req[q])
        /\ UNCHANGED <<book, deleted, acked>>
        /\ req' = [req EXCEPT ![p] = r]
    BY OwnFacts DEF UpdateScore
  <1>2. StagedRep(req[p]) /\ req[p].field # None
    BY <1>1 DEF Current, Staging, StagedRep
  <1>3. req[p].op # "disburse" /\ HoldsRep(req[p])
    BY <1>1, <1>2, StagedKey DEF Staging, HoldsRep
  <1>4. rp \in RepRow
    BY <1>1, CountedType DEF Handler
  <1>5. r = [req[p] EXCEPT !.pc = "written", !.rep = rp] /\ rp = Rescored(req[p].rep)
    OBVIOUS
  <1> HIDE DEF r, rp
  <1>6. /\ r.pc = "written" /\ r.rep = rp /\ r.op = req[p].op /\ r.row = req[p].row
        /\ r.field = req[p].field
    BY <1>1, <1>5 DEF Handler
  <1>7. HoldsRep(r) /\ StagedRep(r)
    BY <1>1, <1>2, <1>5, <1>6 DEF HoldsRep, StagedRep
  <1>8. \A q \in Request : q # p /\ HoldsRep(req[q]) => KeyOf(r.row) # KeyOf(req[q].row)
    BY <1>1, <1>3, <1>6 DEF Apart
  <1>9. QED
    BY <1>1, <1>3, <1>4, <1>5, <1>6, <1>7, <1>8, OnlyRepStep DEF Staging

LEMMA FailingKeeps ==
  ASSUME LockInv, NEW p \in Request,
         \/ Conflict(p) \/ ExceedsOutstanding(p) \/ Abort(p)
  PROVE  LockInv'
  BY AnswerStep DEF Conflict, ExceedsOutstanding, Abort, Code

-----------------------------------------------------------------------------
(* Steps that publish: each is one operation of the book *)

LEMMA CommitFacts ==
  ASSUME LockInv, NEW p \in Request, Commit(p)
  PROVE  /\ req[p] \in Handler /\ req[p].loan \in LoanId
         /\ Sent(req[p]) /\ StagedRow(req[p]) /\ StagedRep(req[p])
         /\ req[p].pc = "written"
         /\ loans' = [loans EXCEPT ![req[p].loan] = req[p].row]
         /\ events' = Record(req[p].loan, EventsOf(req[p]))
         /\ paid' = [paid EXCEPT ![req[p].loan] = @ + req[p].x]
         /\ hashes' = hashes \cup req[p].hs
         /\ rep' = IF req[p].field = None
                   THEN rep ELSE Bump(KeyOf(req[p].row), req[p].field)
         /\ UNCHANGED <<deleted, acked>>
         /\ BookTypeOK
  <1>1. req[p] \in Handler /\ Current(req[p]) /\ req[p].pc = "written" /\ BookTypeOK
    BY OwnFacts DEF Commit, LockInv, TypeOK
  <1>2. /\ req[p].loan \in LoanId
        /\ Sent(req[p]) /\ StagedRow(req[p]) /\ StagedRep(req[p])
    BY <1>1 DEF Current, Running, Staging
  <1>3. req[p].field # None =>
          req[p].rep = Rescored(Counted(rep[KeyOf(req[p].row)], req[p].field))
    BY <1>1, <1>2 DEF StagedRep
  <1>4. rep' = IF req[p].field = None
               THEN rep ELSE [rep EXCEPT ![KeyOf(req[p].row)] = req[p].rep]
    BY DEF Commit
  <1>5. rep' = IF req[p].field = None
               THEN rep ELSE Bump(KeyOf(req[p].row), req[p].field)
    BY <1>3, <1>4 DEF Bump
  <1>6. QED
    BY <1>1, <1>2, <1>5 DEF Commit

LEMMA CommitIsBooked ==
  ASSUME LockInv, NEW p \in Request, Commit(p)
  PROVE  BookNext
  <1> DEFINE r == req[p]
             l == req[p].loan
  <1>1. /\ r \in Handler /\ l \in LoanId /\ Sent(r) /\ StagedRow(r)
        /\ loans' = [loans EXCEPT ![l] = r.row]
        /\ events' = Record(l, EventsOf(r))
        /\ paid' = [paid EXCEPT ![l] = @ + r.x]
        /\ hashes' = hashes \cup r.hs
        /\ rep' = IF r.field = None THEN rep ELSE Bump(KeyOf(r.row), r.field)
        /\ BookTypeOK
    BY CommitFacts
  <1>2. loans[l] \in Row \cup {NoLoan} /\ paid \in [LoanId -> Nat] /\ r.hs \in HashChoice
    BY <1>1 DEF BookTypeOK, Handler
  <1>3. ASSUME r.x = 0 PROVE paid' = paid
    BY <1>1, <1>2, <1>3
  <1>4. ASSUME r.hs = {} PROVE hashes' = hashes
    BY <1>1, <1>4
  <1>5. ASSUME NEW row \in Row, NEW x \in Nat, NEW full \in BOOLEAN
        PROVE  /\ KeyOf(Disbursed(row)) = KeyOf(row)
               /\ KeyOf(Repaid(row, x, full)) = KeyOf(row)
               /\ KeyOf(Defaulted(row)) = KeyOf(row)
    BY KeysKept
  <1> USE DEF StagedRow, EventsOf
  <1>6. CASE r.op = "create"
    <2>1. PICK b \in Address, n \in Address, c \in Community, amt \in Amount, rt \in Rate :
            r.row = NewLoan(b, n, c, amt, rt)
      BY <1>1, <1>6 DEF Sent, RequestedRow
    <2>2. KeyOf(r.row) = <<b, c>>
      BY <2>1, NewLoanIsRow
    <2>3. loans[l] = NoLoan /\ r.field = "total" /\ r.x = 0 /\ r.hs = {}
      BY <1>1, <1>6 DEF Sent
    <2>4. rep' = Bump(<<b, c>>, "total")
      BY <1>1, <2>2, <2>3 DEF None
    <2>5. events' = Record(l, {"created"})
      BY <1>1, <1>6
    <2>6. BookCreate(l)
      <3>1. loans' = [loans EXCEPT ![l] = NewLoan(b, n, c, amt, rt)]
        BY <1>1, <2>1
      <3>2. UNCHANGED <<paid, hashes>>
        BY <1>3, <1>4, <2>3
      <3>3. QED
        BY <2>3, <2>4, <2>5, <3>1, <3>2, Zenon DEF BookCreate
    <2>7. QED
      BY <1>1, <2>6 DEF BookNext
  <1>7. CASE r.op = "disburse"
    <2>1. /\ loans[l].status = "pending" /\ r.row = Disbursed(loans[l])
          /\ r.hs \cap hashes = {} /\ r.field = None /\ r.x = 0
      BY <1>1, <1>7 DEF Sent
    <2>2. events' = Record(l, {"disbursed"})
      BY <1>1, <1>7
    <2>3. BookDisburse(l, r.hs)
      BY <1>1, <1>3, <2>1, <2>2 DEF BookDisburse
    <2>4. QED
      BY <1>1, <1>2, <2>3 DEF BookNext
  <1>8. CASE r.op = "repay"
    <2>1. /\ loans[l].status = "active" /\ MayAccept(loans[l], r.x)
          /\ \E w \in Written(loans[l], r.x) : r.row = Repaid(loans[l], w, r.full)
          /\ RepaidCheck(r.row)
          /\ IF r.full THEN MayClose(loans[l], r.x) ELSE MayStayOpen(loans[l], r.x)
          /\ r.field = IF r.full THEN "onTime" ELSE None
          /\ r.x \in Amount /\ r.hs = {} /\ r.full \in BOOLEAN
      BY <1>1, <1>8 DEF Sent, Handler
    <2>2. events' = Record(l, RepaymentEvents(r.full))
      BY <1>1, <1>8
    <2>3. loans[l] \in Row /\ r.x \in Nat
      BY <1>2, <2>1, NoLoanIsNoRow, AmountAssumption
    <2> PICK w \in Written(loans[l], r.x) : r.row = Repaid(loans[l], w, r.full)
      BY <2>1
    <2>4. KeyOf(r.row) = KeyOf(loans[l])
      <3>1. w \in Nat /\ r.full \in BOOLEAN
        BY <2>1, <2>3, WrittenType
      <3> HIDE DEF r, l
      <3>2. KeyOf(Repaid(loans[l], w, r.full)) = KeyOf(loans[l])
        BY <2>3, <3>1, KeysKept
      <3>3. QED
        BY <3>2
    <2>5. rep' = IF r.full THEN Bump(KeyOf(loans[l]), "onTime") ELSE rep
      BY <1>1, <2>1, <2>4 DEF None
    <2>6. BookRepay(l, r.x, r.full)
      BY <1>1, <1>4, <2>1, <2>2, <2>5 DEF BookRepay
    <2>7. QED
      BY <1>1, <2>1, <2>6 DEF BookNext
  <1>9. CASE r.op = "default"
    <2>1. /\ loans[l].status = "active" /\ r.row = Defaulted(loans[l])
          /\ r.field = "defaults" /\ r.x = 0 /\ r.hs = {}
      BY <1>1, <1>9 DEF Sent
    <2>2. events' = Record(l, {"defaulted"})
      BY <1>1, <1>9
    <2>3. loans[l] \in Row
      BY <1>2, <2>1, NoLoanIsNoRow
    <2>4. KeyOf(r.row) = KeyOf(loans[l])
      BY <1>5, <2>1, <2>3
    <2>5. rep' = Bump(KeyOf(loans[l]), "defaults")
      BY <1>1, <2>1, <2>4 DEF None
    <2>6. BookDefault(l)
      BY <1>1, <1>3, <1>4, <2>1, <2>2, <2>5 DEF BookDefault
    <2>7. QED
      BY <1>1, <2>6 DEF BookNext
  <1>10. QED
    BY <1>1, <1>6, <1>7, <1>8, <1>9

\* Another transaction's snapshot survives what a step publishes when the step
\* leaves alone what that transaction owns.
LEMMA OtherStays ==
  ASSUME LockInv, NEW q \in Request, req'[q] = req[q],
         req[q].pc \in Holding => loans'[req[q].loan] = loans[req[q].loan],
         HoldsRep(req[q]) => rep'[KeyOf(req[q].row)] = rep[KeyOf(req[q].row)],
         HoldsHash(req[q]) => req[q].hs \cap hashes' = {}
  PROVE  Current(req[q])'
  <1> DEFINE r == req[q]
  <1>1. Current(r)
    BY OwnFacts
  <1>2. r.pc \in {"checked", "locked"} => r.field = None
    BY <1>1 DEF Current
  <1>3. r.pc \in Running => Sent(r)
    BY <1>1 DEF Current
  <1>4. r.pc = "locked" =>
          r.op \in {"disburse", "repay", "default"} /\ r.row = loans'[r.loan]
    BY <1>1 DEF Current, Holding
  <1>5. ASSUME r.pc \in Staging
        PROVE  r.loan \in LoanId /\ StagedRow(req[q])' /\ StagedRep(req[q])'
    <2>1. r.loan \in LoanId /\ StagedRow(r) /\ StagedRep(r)
      BY <1>1, <1>5 DEF Current
    <2>2. loans'[r.loan] = loans[r.loan]
      BY <1>5 DEF Staging, Holding
    <2>3. r.op = "disburse" => r.hs \cap hashes' = {}
      BY <1>5, <2>1 DEF StagedRow, StagedRep, HoldsHash, Staging, None
    <2>4. StagedRow(req[q])'
      BY <2>1, <2>2, <2>3 DEF StagedRow
    <2>5. StagedRep(req[q])'
      BY <1>5, <2>1 DEF StagedRep, HoldsRep, KeyOf
    <2>6. QED
      BY <2>1, <2>4, <2>5
  <1>6. QED
    BY <1>2, <1>3, <1>4, <1>5 DEF Current

\* A handler that publishes ends, and keeps the invariant when the others can stay.
LEMMA PublishStep ==
  ASSUME LockInv, NEW p \in Request, NEW r \in Handler, r.pc = "answer",
         req' = [req EXCEPT ![p] = r], UNCHANGED <<deleted, acked>>, BookTypeOK',
         \A q \in Request : q # p =>
           /\ req[q].pc \in Holding => loans'[req[q].loan] = loans[req[q].loan]
           /\ HoldsRep(req[q]) => rep'[KeyOf(req[q].row)] = rep[KeyOf(req[q].row)]
           /\ HoldsHash(req[q]) => req[q].hs \cap hashes' = {}
  PROVE  LockInv'
  <1>1. /\ req \in [Request -> Handler]
        /\ \A q, s \in Request : q # s => Apart(req[q], req[s])
        /\ SidesOK
    BY DEF LockInv, TypeOK, SidesOK
  <1>2. /\ req'[p] = r
        /\ \A q \in Request : q # p => req'[q] = req[q]
    BY <1>1
  <1>3. TypeOK'
    BY <1>1 DEF TypeOK, SidesOK
  <1>4. Current(req[p])'
    BY <1>2 DEF Current, Running, Staging
  <1>5. ASSUME NEW q \in Request, q # p PROVE Current(req[q])'
    BY <1>2, <1>5, OtherStays
  <1>6. ASSUME NEW q \in Request, NEW s \in Request, q # s PROVE Apart(req[q], req[s])'
    <2>1. Apart(req'[q], req'[s])
      BY <1>1, <1>2, <1>6 DEF Apart, Holding, HoldsRep, HoldsHash
    <2>2. QED
      BY <2>1 DEF Apart, HoldsRep, HoldsHash, KeyOf
  <1>7. QED
    BY <1>3, <1>4, <1>5, <1>6 DEF LockInv

LEMMA CommitKeeps ==
  ASSUME LockInv, NEW p \in Request, Commit(p)
  PROVE  LockInv'
  <1> DEFINE old == req[p]
             r == [Idle EXCEPT !.pc = "answer", !.code = 200,
                               !.op = old.op, !.loan = old.loan, !.x = old.x]
  <1>1. /\ old \in Handler /\ old.loan \in LoanId /\ old.pc = "written"
        /\ Sent(old) /\ StagedRow(old) /\ StagedRep(old)
        /\ loans' = [loans EXCEPT ![old.loan] = old.row]
        /\ hashes' = hashes \cup old.hs
        /\ rep' = IF old.field = None THEN rep ELSE Bump(KeyOf(old.row), old.field)
        /\ UNCHANGED <<deleted, acked>> /\ BookTypeOK
    BY CommitFacts
  <1>2. req' = [req EXCEPT ![p] = r]
    BY DEF Commit
  <1>3. r \in Handler /\ r.pc = "answer"
    <2>1. old.op \in Op /\ old.loan \in LoanRef /\ old.x \in Payment
      BY <1>1 DEF Handler
    <2>2. 200 \in Code /\ "answer" \in Pc
      BY DEF Code, Pc
    <2> HIDE DEF old
    <2>3. QED
      BY <2>1, <2>2, IdleType DEF Handler
  <1>4. BookTypeOK'
    BY <1>1, CommitIsBooked, NextTypes
  <1>5. ASSUME NEW q \in Request, q # p
        PROVE  /\ req[q].pc \in Holding => loans'[req[q].loan] = loans[req[q].loan]
               /\ HoldsRep(req[q]) => rep'[KeyOf(req[q].row)] = rep[KeyOf(req[q].row)]
               /\ HoldsHash(req[q]) => req[q].hs \cap hashes' = {}
    <2>1. Apart(old, req[q]) /\ Current(req[q]) /\ req[q] \in Handler
      BY <1>5, OwnFacts
    <2>2. req[q].pc \in Holding => loans'[req[q].loan] = loans[req[q].loan]
      BY <1>1, <2>1 DEF Apart, Holding
    <2>3. HoldsRep(req[q]) => rep'[KeyOf(req[q].row)] = rep[KeyOf(req[q].row)]
      BY <1>1, <2>1 DEF Apart, HoldsRep, Bump
    <2>4. HoldsHash(req[q]) => req[q].hs \cap hashes' = {}
      <3>1. SUFFICES ASSUME HoldsHash(req[q]) PROVE req[q].hs \cap hashes' = {}
        OBVIOUS
      <3>2. req[q].hs \cap hashes = {}
        BY <2>1, <3>1 DEF Current, Staging, HoldsHash, StagedRow
      <3>3. req[q].hs \cap old.hs = {}
        BY <1>1, <2>1, <3>1 DEF Apart, HoldsHash, Sent
      <3>4. QED
        BY <1>1, <3>2, <3>3
    <2>5. QED
      BY <2>2, <2>3, <2>4
  <1> HIDE DEF r
  <1>6. QED
    BY <1>1, <1>2, <1>3, <1>4, <1>5, PublishStep

LEMMA CancelIsBooked ==
  ASSUME LockInv, NEW p \in Request, CancelUpdate(p)
  PROVE  [BookNext]_book
  <1>1. CASE loans[req[p].loan].status = "pending"
    <2>1. req[p].loan \in LoanId
      BY OwnFacts DEF CancelUpdate, Current, Running, Sent
    <2>2. BookCancel(req[p].loan)
      BY <1>1 DEF CancelUpdate, BookCancel
    <2>3. QED
      BY <2>1, <2>2 DEF BookNext
  <1>2. CASE loans[req[p].loan].status # "pending"
    BY <1>2 DEF CancelUpdate, book
  <1>3. QED
    BY <1>1, <1>2

LEMMA CancelUpdateKeeps ==
  ASSUME LockInv, NEW p \in Request, CancelUpdate(p)
  PROVE  LockInv'
  <1> DEFINE l == req[p].loan
             r == [req[p] EXCEPT !.pc = "answer", !.code = 200]
  <1>1. /\ req[p] \in Handler /\ req[p].pc = "checked" /\ req[p].op = "cancel"
        /\ RowFree(l) /\ UNCHANGED <<events, paid, hashes, rep, deleted, acked>>
    BY OwnFacts DEF CancelUpdate
  <1>2. CASE loans[l].status = "pending"
    <2>1. /\ loans' = [loans EXCEPT ![l] = Cancelled(@)]
          /\ req' = [req EXCEPT ![p] = r]
      BY <1>2 DEF CancelUpdate
    <2>2. BookTypeOK'
      BY CancelIsBooked, NextTypes DEF LockInv, TypeOK
    <2>3. r = [req[p] EXCEPT !.pc = "answer", !.code = 200]
      OBVIOUS
    <2>4. 200 \in Code /\ "answer" \in Pc
      BY DEF Code, Pc
    <2> HIDE DEF r
    <2>5. r \in Handler /\ r.pc = "answer"
      BY <1>1, <2>3, <2>4 DEF Handler
    <2>6. ASSUME NEW q \in Request, q # p
          PROVE  /\ req[q].pc \in Holding => loans'[req[q].loan] = loans[req[q].loan]
                 /\ HoldsRep(req[q]) => rep'[KeyOf(req[q].row)] = rep[KeyOf(req[q].row)]
                 /\ HoldsHash(req[q]) => req[q].hs \cap hashes' = {}
      <3>1. req[q].pc \in Holding => req[q].loan # l
        BY <1>1 DEF RowFree, Owns, Holding
      <3>2. req[q].pc \in Holding => loans'[req[q].loan] = loans[req[q].loan]
        BY <2>1, <3>1
      <3>3. HoldsHash(req[q]) => req[q].hs \cap hashes' = {}
        BY <1>1, OwnFacts DEF Current, Staging, HoldsHash, StagedRow
      <3>4. QED
        BY <1>1, <3>2, <3>3
    <2>7. QED
      BY <1>1, <2>1, <2>2, <2>5, <2>6, PublishStep
  <1>3. CASE loans[l].status # "pending"
    <2>1. Answer(p, 404) /\ UNCHANGED loans
      BY <1>3 DEF CancelUpdate
    <2>2. QED
      BY <1>1, <2>1, AnswerStep DEF Code, book
  <1>4. QED
    BY <1>2, <1>3

-----------------------------------------------------------------------------
(* Answers leave *)

Acked == [disburse : Nat, cancel : Nat, default : Nat, paid : Nat]
Ending == {"disburse", "cancel", "default"}

LEMMA AckEffect ==
  ASSUME NEW a \in Acked, NEW r \in Handler
  PROVE  /\ Acknowledge(a, r) \in Acked
         /\ r.x \in Nat
         /\ Acknowledge(a, r).paid = IF r.op = "repay" THEN a.paid + r.x ELSE a.paid
         /\ \A op \in Ending :
               Acknowledge(a, r)[op] = IF r.op = op THEN a[op] + 1 ELSE a[op]
  <1>1. r.x \in Nat /\ r.op \in Op
    <2>1. r.x \in Payment /\ r.op \in Op
      BY DEF Handler
    <2>2. \A x \in Payment : x \in Nat
      BY AmountAssumption DEF Payment
    <2>3. QED
      BY <2>1, <2>2
  <1>2. CASE r.op = "repay"
    BY <1>1, <1>2 DEF Acknowledge, Acked, Ending
  <1>3. CASE r.op = "disburse"
    BY <1>1, <1>3 DEF Acknowledge, Acked, Ending
  <1>4. CASE r.op = "cancel"
    BY <1>1, <1>4 DEF Acknowledge, Acked, Ending
  <1>5. CASE r.op = "default"
    BY <1>1, <1>5 DEF Acknowledge, Acked, Ending
  <1>6. CASE r.op = "create"
    BY <1>1, <1>6 DEF Acknowledge, Acked, Ending
  <1>7. QED
    BY <1>1, <1>2, <1>3, <1>4, <1>5, <1>6 DEF Op

LEMMA DeliverKeeps ==
  ASSUME LockInv, NEW p \in Request, Deliver(p) \/ LoseAnswer(p)
  PROVE  LockInv'
  <1>1. /\ UNCHANGED <<book, deleted>> /\ req' = [req EXCEPT ![p] = Idle]
        /\ acked' = acked \/ acked' = [acked EXCEPT ![req[p].loan] = Acknowledge(@, req[p])]
    BY DEF Deliver, LoseAnswer
  <1>2. SidesOK /\ req[p] \in Handler
    BY OwnFacts
  <1>3. SidesOK'
    <2>1. deleted' \subseteq Community /\ acked \in [LoanId -> Acked]
      BY <1>1, <1>2 DEF SidesOK, Acked
    <2>2. ASSUME NEW id \in LoanId PROVE Acknowledge(acked[id], req[p]) \in Acked
      BY <1>2, <2>1, AckEffect
    <2>3. acked' \in [LoanId -> Acked]
      <3>1. CASE acked' = acked
        BY <2>1, <3>1
      <3>2. CASE acked' = [acked EXCEPT ![req[p].loan] = Acknowledge(@, req[p])]
        <4>1. \A id \in LoanId : acked'[id] = acked[id] \/ acked'[id] = Acknowledge(acked[id], req[p])
          BY <2>1, <3>2
        <4>2. acked' = [id \in LoanId |-> acked'[id]]
          BY <2>1, <3>2
        <4>3. \A id \in LoanId : acked'[id] \in Acked
          BY <2>1, <2>2, <4>1
        <4>4. QED
          BY <4>2, <4>3
      <3>3. QED
        BY <1>1, <3>1, <3>2
    <2>4. QED
      BY <2>1, <2>3 DEF SidesOK, Acked
  <1>4. Idle.pc = "idle"
    BY DEF Idle
  <1>5. QED
    BY <1>1, <1>3, <1>4, IdleType, EndingStep

LEMMA DeleteCommunityKeeps ==
  ASSUME LockInv, NEW c \in Community, DeleteCommunity(c)
  PROVE  LockInv'
  <1>1. UNCHANGED <<book, req, acked>> /\ deleted' \subseteq Community
    BY DEF DeleteCommunity, LockInv, TypeOK
  <1>2. TypeOK'
    BY <1>1 DEF LockInv, TypeOK, BookTypeOK, book
  <1>3. \A q \in Request : Current(req[q])'
    BY <1>1 DEF LockInv, Current, StagedRow, StagedRep, book
  <1>4. \A q, s \in Request : q # s => Apart(req[q], req[s])'
    BY <1>1 DEF LockInv, Apart, HoldsRep, HoldsHash, KeyOf
  <1>5. QED
    BY <1>2, <1>3, <1>4 DEF LockInv

-----------------------------------------------------------------------------
(* The handlers implement the book *)

LEMMA InitLocks == Init => LockInv
  <1> SUFFICES ASSUME Init PROVE LockInv
    OBVIOUS
  <1>1. BookTypeOK
    BY InitTypes DEF Init
  <1>2. TypeOK
    BY <1>1, IdleType DEF Init, TypeOK, NoAck
  <1>3. \A p \in Request : req[p] = Idle
    BY DEF Init
  <1>4. Idle.pc = "idle"
    BY DEF Idle
  <1>5. Current(Idle)
    BY <1>4 DEF Current, Running, Staging
  <1>6. Apart(Idle, Idle)
    BY <1>4 DEF Apart, Holding, HoldsRep, HoldsHash
  <1>7. QED
    BY <1>2, <1>3, <1>5, <1>6 DEF LockInv

LEMMA ReceiveKeeps ==
  ASSUME LockInv, NEW p \in Request, Receive(p)
  PROVE  LockInv'
  <1>1. CASE ReceiveCreate(p)
    BY <1>1, CreateRequest
  <1>2. 0 \in Payment /\ {} \in HashChoice /\ Amount \subseteq Payment
    BY DEF Payment, HashChoice
  <1>3. CASE ReceiveDisburse(p)
    BY <1>2, <1>3, OtherRequest DEF ReceiveDisburse
  <1>4. CASE ReceiveRepay(p)
    BY <1>2, <1>4, OtherRequest DEF ReceiveRepay
  <1>5. CASE ReceiveDefault(p)
    BY <1>2, <1>5, OtherRequest DEF ReceiveDefault
  <1>6. CASE ReceiveCancel(p)
    BY <1>2, <1>6, OtherRequest DEF ReceiveCancel
  <1>7. QED
    BY <1>1, <1>3, <1>4, <1>5, <1>6 DEF Receive

LEMMA NextLocks == LockInv /\ [Next]_vars => LockInv'
  <1> SUFFICES ASSUME LockInv, [Next]_vars PROVE LockInv'
    OBVIOUS
  <1>1. ASSUME NEW p \in Request, Receive(p) PROVE LockInv'
    BY <1>1, ReceiveKeeps
  <1>2. ASSUME NEW p \in Request, Acquire(p) PROVE LockInv'
    BY <1>2, LockLoanKeeps, CancelUpdateKeeps, InsertLoanKeeps, UpsertReputationKeeps,
       WriteDisburseKeeps DEF Acquire
  <1>3. ASSUME NEW p \in Request, Proceed(p) PROVE LockInv'
    BY <1>3, FailingKeeps, WriteRepayKeeps, WriteDefaultKeeps, UpdateScoreKeeps,
       CommitKeeps, DeliverKeeps DEF Proceed
  <1>4. ASSUME NEW p \in Request, Abort(p) \/ LoseAnswer(p) PROVE LockInv'
    BY <1>4, FailingKeeps, DeliverKeeps
  <1>5. ASSUME NEW c \in Community, DeleteCommunity(c) PROVE LockInv'
    BY <1>5, DeleteCommunityKeeps
  <1>6. CASE UNCHANGED vars
    <2>1. UNCHANGED <<loans, events, paid, hashes, rep, req, deleted, acked>>
      BY <1>6 DEF vars
    <2>2. TypeOK'
      BY <2>1 DEF LockInv, TypeOK, BookTypeOK
    <2>3. \A q \in Request : Current(req[q])'
      BY <2>1 DEF LockInv, Current, StagedRow, StagedRep
    <2>4. \A q, s \in Request : q # s => Apart(req[q], req[s])'
      BY <2>1 DEF LockInv, Apart, HoldsRep, HoldsHash, KeyOf
    <2>5. QED
      BY <2>2, <2>3, <2>4 DEF LockInv
  <1>7. QED
    BY <1>1, <1>2, <1>3, <1>4, <1>5, <1>6 DEF Next

\* Whatever a transaction read under a lock or staged stays true until it ends,
\* and no two transactions own the same row.
THEOREM Snapshots == Spec => []LockInv
  BY InitLocks, NextLocks, PTL DEF Spec

\* Only a commit and the conditional UPDATE of a cancellation change the tables,
\* each as one operation of the book.
LEMMA NextBooks == LockInv /\ [Next]_vars => [BookNext]_book
  <1> SUFFICES ASSUME LockInv, [Next]_vars PROVE [BookNext]_book
    OBVIOUS
  <1>1. ASSUME NEW p \in Request, Receive(p) PROVE UNCHANGED book
    BY <1>1 DEF Receive, ReceiveCreate, ReceiveDisburse, ReceiveRepay, ReceiveDefault,
       ReceiveCancel
  <1>2. ASSUME NEW p \in Request, Acquire(p) PROVE [BookNext]_book
    BY <1>2, CancelIsBooked DEF Acquire, LockLoan, InsertLoan, UpsertReputation, WriteDisburse
  <1>3. ASSUME NEW p \in Request, Proceed(p) PROVE [BookNext]_book
    BY <1>3, CommitIsBooked
       DEF Proceed, Conflict, ExceedsOutstanding, WriteRepay, WriteDefault, UpdateScore, Deliver
  <1>4. ASSUME NEW p \in Request, Abort(p) \/ LoseAnswer(p) PROVE UNCHANGED book
    BY <1>4 DEF Abort, LoseAnswer
  <1>5. ASSUME NEW c \in Community, DeleteCommunity(c) PROVE UNCHANGED book
    BY <1>5 DEF DeleteCommunity
  <1>6. CASE UNCHANGED vars
    BY <1>6 DEF vars, book
  <1>7. QED
    BY <1>1, <1>2, <1>3, <1>4, <1>5, <1>6 DEF Next

\* Concurrent requests, with their stale first reads, row locks and rollbacks,
\* do to the tables what the operations of LoanBook do one at a time.
THEOREM Refinement == Spec => BookSpec
  <1>1. Init => BookInit
    BY DEF Init
  <1>2. QED
    BY <1>1, NextBooks, Snapshots, PTL DEF Spec, BookSpec

\* So the books of the concurrent handlers balance, their history matches the
\* status, their active loans can be settled, ended loans are frozen, and
\* reputation rows count the loans.
THEOREM HandlersKeepBooks ==
  Spec => /\ []BooksBalance
          /\ []HistoryMatchesStatus
          /\ []SettledWithinTolerance
          /\ []ReputationMatchesLoans
          /\ EndedIsFrozen
  BY Refinement, Balance, History, Settlement, Reputation, Frozen

-----------------------------------------------------------------------------
(* What clients were told *)

\* What p is about to tell its client.
Told(p, op, l) ==
  /\ req[p].pc = "answer" /\ req[p].code = 200
  /\ req[p].op = op /\ req[p].loan = l

\* The statuses of a loan that was disbursed, cancelled, defaulted.
Happened(op, status) ==
  CASE op = "disburse" -> status \in {"active", "repaid", "defaulted"}
    [] op = "cancel"   -> status = "cancelled"
    [] op = "default"  -> status = "defaulted"

\* op ended loan l for one client at most, and only if it did.
Once(op, l) ==
  /\ acked[l][op] <= 1
  /\ acked[l][op] = 1 => Happened(op, loans[l].status)
  /\ \A p \in Request :
        Told(p, op, l) => Happened(op, loans[l].status) /\ acked[l][op] = 0
  /\ \A p, q \in Request : Told(p, op, l) /\ Told(q, op, l) => p = q

\* One element for each stroop of the payments on l still to be acknowledged, so
\* that its cardinality is their sum.
Stroops == UNION {1..x : x \in Payment}
PaidUnits(l) ==
  {u \in Request \X Stroops : Told(u[1], "repay", l) /\ u[2] \in 1..req[u[1]].x}

Covered(l) ==
  /\ IsFiniteSet(PaidUnits(l))
  /\ acked[l].paid + Cardinality(PaidUnits(l)) <= paid[l]

Addressed ==
  \A p \in Request :
     req[p].pc = "answer" /\ req[p].code = 200 => req[p].loan \in LoanId

AckInv ==
  /\ LockInv
  /\ BookInv
  /\ Addressed
  /\ \A l \in LoanId : Covered(l) /\ \A op \in Ending : Once(op, l)

Tellable == Ending \cup {"repay"}

\* A step that tells no client anything and leaves no new answer to tell.
Quiet ==
  /\ acked' = acked
  /\ \A q \in Request, op \in Tellable, l \in LoanId :
        Told(q, op, l)' => Told(q, op, l) /\ req'[q].x = req[q].x

\* A step that books op on l and leaves p the answer to tell.
Books(p, op, l) ==
  /\ acked' = acked
  /\ req[p].pc # "answer"
  /\ \A q \in Request, o \in Tellable, m \in LoanId :
        Told(q, o, m)' <=> IF q = p THEN o = op /\ m = l ELSE Told(q, o, m)
  /\ \A q \in Request : q # p => req'[q].x = req[q].x
  /\ op \in Ending => /\ ~Happened(op, loans[l].status)
                      /\ Happened(op, loans'[l].status)
  /\ op = "repay" => req'[p].x \in Nat /\ paid'[l] = paid[l] + req'[p].x

\* A step that tells p's client.
Tells(p) ==
  /\ UNCHANGED book
  /\ req[p].pc = "answer" /\ req[p].code = 200
  /\ acked' = [acked EXCEPT ![req[p].loan] = Acknowledge(@, req[p])]
  /\ \A q \in Request, o \in Tellable, m \in LoanId :
        Told(q, o, m)' <=> q # p /\ Told(q, o, m)
  /\ \A q \in Request : q # p => req'[q].x = req[q].x

LEMMA QuietStep ==
  ASSUME Addressed, NEW p \in Request, acked' = acked,
         \A q \in Request : q # p => req'[q] = req[q],
         ~(req'[p].pc = "answer" /\ req'[p].code = 200)
  PROVE  Quiet /\ Addressed'
  BY DEF Quiet, Addressed, Told

LEMMA CommitTells ==
  ASSUME LockInv, Addressed, NEW p \in Request, Commit(p)
  PROVE  /\ Addressed'
         /\ IF req[p].op = "create" THEN Quiet ELSE Books(p, req[p].op, req[p].loan)
  <1> DEFINE l == req[p].loan
             op == req[p].op
  <1>1. /\ req[p] \in Handler /\ l \in LoanId /\ req[p].pc = "written"
        /\ Sent(req[p]) /\ StagedRow(req[p]) /\ acked' = acked
        /\ loans' = [loans EXCEPT ![l] = req[p].row]
        /\ paid' = [paid EXCEPT ![l] = @ + req[p].x]
        /\ BookTypeOK
    BY CommitFacts
  <1>2. req \in [Request -> Handler]
    BY DEF LockInv, TypeOK
  <1>3. /\ \A q \in Request : q # p => req'[q] = req[q]
        /\ req'[p].pc = "answer" /\ req'[p].code = 200
        /\ req'[p].op = op /\ req'[p].loan = l /\ req'[p].x = req[p].x
    BY <1>2 DEF Commit, Idle
  <1>4. Addressed'
    BY <1>1, <1>3 DEF Addressed
  <1>5. CASE op = "create"
    <2>1. "create" \notin Tellable
      BY DEF Tellable, Ending
    <2>2. \A q \in Request, o \in Tellable, m \in LoanId :
            Told(q, o, m)' => Told(q, o, m) /\ req'[q].x = req[q].x
      BY <1>3, <1>5, <2>1 DEF Told
    <2>3. QED
      BY <1>1, <1>4, <1>5, <2>2 DEF Quiet
  <1>6. CASE op # "create"
    <2>1. \A q \in Request, o \in Tellable, m \in LoanId :
            Told(q, o, m)' <=> IF q = p THEN o = op /\ m = l ELSE Told(q, o, m)
      BY <1>3 DEF Told
    <2>2. loans[l] \in Row /\ loans'[l] = req[p].row
      BY <1>1, <1>6, NoLoanIsNoRow DEF StagedRow, BookTypeOK
    <2>3. op \in Ending => /\ ~Happened(op, loans[l].status)
                           /\ Happened(op, loans'[l].status)
      <3>1. CASE op = "disburse"
        <4>1. loans[l].status = "pending" /\ loans'[l] = Disbursed(loans[l])
          BY <1>1, <2>2, <3>1 DEF StagedRow
        <4>2. loans'[l].status = "active"
          BY <2>2, <4>1 DEF Disbursed, Row
        <4>3. QED
          BY <3>1, <4>1, <4>2 DEF Happened
      <3>2. CASE op = "default"
        <4>1. loans[l].status = "active" /\ loans'[l] = Defaulted(loans[l])
          BY <1>1, <2>2, <3>2 DEF StagedRow
        <4>2. loans'[l].status = "defaulted"
          BY <2>2, <4>1 DEF Defaulted, Row
        <4>3. QED
          BY <3>2, <4>1, <4>2 DEF Happened
      <3>3. op # "cancel"
        BY <1>1 DEF StagedRow
      <3>4. QED
        BY <3>1, <3>2, <3>3 DEF Ending
    <2>4. req'[p].x \in Nat /\ paid'[l] = paid[l] + req'[p].x
      BY <1>1, <1>3, AckEffect DEF BookTypeOK, LockInv, TypeOK, Acked
    <2>5. QED
      BY <1>1, <1>3, <1>4, <1>6, <2>1, <2>3, <2>4 DEF Books
  <1>7. QED
    BY <1>4, <1>5, <1>6

LEMMA CancelTells ==
  ASSUME LockInv, Addressed, NEW p \in Request, CancelUpdate(p)
  PROVE  /\ Addressed'
         /\ Quiet \/ (req[p].loan \in LoanId /\ Books(p, "cancel", req[p].loan))
  <1> DEFINE l == req[p].loan
  <1>1. req \in [Request -> Handler] /\ BookTypeOK
    BY DEF LockInv, TypeOK
  <1>2. req[p].pc = "checked" /\ req[p].op = "cancel" /\ acked' = acked
    BY DEF CancelUpdate
  <1>3. l \in LoanId
    BY <1>2, OwnFacts DEF Current, Running, Sent
  <1>4. CASE loans[l].status = "pending"
    <2>1. /\ loans' = [loans EXCEPT ![l] = Cancelled(@)]
          /\ req' = [req EXCEPT ![p].pc = "answer", ![p].code = 200]
      BY <1>4 DEF CancelUpdate
    <2>2. /\ \A q \in Request : q # p => req'[q] = req[q]
          /\ req'[p].pc = "answer" /\ req'[p].code = 200
          /\ req'[p].op = "cancel" /\ req'[p].loan = l
      BY <1>1, <1>2, <2>1 DEF Handler
    <2>3. Addressed'
      BY <1>3, <2>2 DEF Addressed
    <2>4. loans[l] \in Row /\ loans'[l] = Cancelled(loans[l])
      BY <1>1, <1>3, <1>4, <2>1, NoLoanIsNoRow DEF BookTypeOK
    <2>5. loans'[l].status = "cancelled"
      BY <2>4 DEF Cancelled, Row
    <2>6. ~Happened("cancel", loans[l].status) /\ Happened("cancel", loans'[l].status)
      BY <1>4, <2>5 DEF Happened
    <2>7. \A q \in Request, o \in Tellable, m \in LoanId :
            Told(q, o, m)' <=> IF q = p THEN o = "cancel" /\ m = l ELSE Told(q, o, m)
      BY <2>2 DEF Told
    <2>8. Books(p, "cancel", l)
      BY <1>2, <2>2, <2>6, <2>7 DEF Books
    <2>9. QED
      BY <1>3, <2>3, <2>8
  <1>5. CASE loans[l].status # "pending"
    <2>1. req' = [req EXCEPT ![p] = [Idle EXCEPT !.pc = "answer", !.code = 404]]
      BY <1>5 DEF CancelUpdate, Answer
    <2>2. req'[p].code = 404 /\ \A q \in Request : q # p => req'[q] = req[q]
      BY <1>1, <2>1 DEF Idle
    <2>3. QED
      BY <1>2, <2>2, QuietStep
  <1>6. QED
    BY <1>4, <1>5

LEMMA DeliverTells ==
  ASSUME LockInv, Addressed, NEW p \in Request, Deliver(p)
  PROVE  Addressed' /\ (Quiet \/ Tells(p))
  <1>1. req \in [Request -> Handler]
    BY DEF LockInv, TypeOK
  <1>2. /\ UNCHANGED book /\ req[p].pc = "answer" /\ req' = [req EXCEPT ![p] = Idle]
        /\ acked' = IF req[p].code = 200
                    THEN [acked EXCEPT ![req[p].loan] = Acknowledge(@, req[p])]
                    ELSE acked
    BY DEF Deliver
  <1>3. req'[p].pc = "idle" /\ \A q \in Request : q # p => req'[q] = req[q]
    BY <1>1, <1>2 DEF Idle
  <1>4. Addressed'
    BY <1>3 DEF Addressed
  <1>5. \A q \in Request, o \in Tellable, m \in LoanId :
           Told(q, o, m)' <=> q # p /\ Told(q, o, m)
    BY <1>3 DEF Told
  <1>6. CASE req[p].code = 200
    BY <1>2, <1>3, <1>4, <1>5, <1>6 DEF Tells
  <1>7. CASE req[p].code # 200
    BY <1>2, <1>3, <1>7, QuietStep
  <1>8. QED
    BY <1>6, <1>7

\* All other steps of a handler.
LEMMA OtherIsQuiet ==
  ASSUME LockInv, Addressed, NEW p \in Request,
         \/ Receive(p) \/ LockLoan(p) \/ InsertLoan(p) \/ UpsertReputation(p)
         \/ WriteDisburse(p) \/ Conflict(p) \/ ExceedsOutstanding(p) \/ WriteRepay(p)
         \/ WriteDefault(p) \/ UpdateScore(p) \/ Abort(p) \/ LoseAnswer(p)
  PROVE  Quiet /\ Addressed'
  <1>1. req \in [Request -> Handler] /\ req[p] \in Handler
    BY DEF LockInv, TypeOK
  <1>2. ASSUME NEW code \in Code, code # 200, Answer(p, code)
        PROVE  /\ \A q \in Request : q # p => req'[q] = req[q]
               /\ req'[p].code # 200
    BY <1>1, <1>2 DEF Answer, Idle
  <1> DEFINE Unanswered == /\ \A q \in Request : q # p => req'[q] = req[q]
                           /\ ~(req'[p].pc = "answer" /\ req'[p].code = 200)
  <1>3. \A code \in {400, 403, 404, 409, 500} : Answer(p, code) => Unanswered
    BY <1>2 DEF Code
  <1>4. ASSUME Receive(p) PROVE Unanswered /\ acked' = acked
    <2>1. acked' = acked
      BY <1>4 DEF Receive, ReceiveCreate, ReceiveDisburse, ReceiveRepay, ReceiveDefault,
         ReceiveCancel
    <2>2. ASSUME NEW op, NEW x, NEW hs, Preflight(p, op, x, hs) PROVE Unanswered
      <3>1. PICK l \in LoanId :
              \/ Answer(p, 404) \/ Answer(p, 403) \/ Answer(p, 409)
              \/ req' = [req EXCEPT ![p] =
                   [Idle EXCEPT !.pc = "checked", !.op = op, !.loan = l, !.x = x, !.hs = hs]]
        BY <2>2, Zenon DEF Preflight
      <3>2. CASE Answer(p, 404) \/ Answer(p, 403) \/ Answer(p, 409)
        BY <1>3, <3>2
      <3>3. CASE req' = [req EXCEPT ![p] =
                   [Idle EXCEPT !.pc = "checked", !.op = op, !.loan = l, !.x = x, !.hs = hs]]
        BY <1>1, <3>3 DEF Idle
      <3>4. QED
        BY <3>1, <3>2, <3>3
    <2>3. ASSUME ReceiveCreate(p) PROVE Unanswered
      <3>1. PICK actor, b, n \in Address, c \in Community, amt \in Amount, rt \in Rate :
              \/ actor \notin {b, n} /\ Answer(p, 403)
              \/ actor \in {b, n} /\ c \in deleted /\ Answer(p, 404)
              \/ /\ actor \in {b, n}
                 /\ c \notin deleted
                 /\ req' = [req EXCEPT ![p] =
                      [Idle EXCEPT !.pc = "checked", !.op = "create",
                                   !.row = NewLoan(b, n, c, amt, rt)]]
        BY <2>3, Zenon DEF ReceiveCreate
      <3>2. CASE Answer(p, 403) \/ Answer(p, 404)
        BY <1>3, <3>2
      <3>3. CASE req' = [req EXCEPT ![p] =
                   [Idle EXCEPT !.pc = "checked", !.op = "create",
                                !.row = NewLoan(b, n, c, amt, rt)]]
        BY <1>1, <3>3 DEF Idle
      <3>4. QED
        BY <3>1, <3>2, <3>3
    <2>4. QED
      BY <1>4, <2>1, <2>2, <2>3
         DEF Receive, ReceiveDisburse, ReceiveRepay, ReceiveDefault, ReceiveCancel
  <1>5. ASSUME LockLoan(p) PROVE Unanswered /\ acked' = acked
    BY <1>1, <1>5 DEF LockLoan, Handler
  <1>6. ASSUME InsertLoan(p) PROVE Unanswered /\ acked' = acked
    <2>1. PICK l : req' = [req EXCEPT ![p].pc = "bump", ![p].loan = l, ![p].field = "total"]
      BY <1>6, Zenon DEF InsertLoan
    <2>2. req'[p].pc = "bump" /\ \A q \in Request : q # p => req'[q] = req[q]
      BY <1>1, <2>1 DEF Handler
    <2>3. QED
      BY <1>6, <2>2 DEF InsertLoan
  <1>7. ASSUME UpsertReputation(p) PROVE Unanswered /\ acked' = acked
    BY <1>1, <1>7 DEF UpsertReputation, Handler
  <1>8. ASSUME WriteDisburse(p) PROVE Unanswered /\ acked' = acked
    BY <1>1, <1>3, <1>8 DEF WriteDisburse, Handler
  <1>9. ASSUME WriteRepay(p) PROVE Unanswered /\ acked' = acked
    <2>1. \/ Answer(p, 500)
          \/ \E pc \in {"bump", "written"} : \E row, full, field :
               req' = [req EXCEPT ![p].pc = pc, ![p].row = row, ![p].full = full,
                                  ![p].field = field]
      <3>1. PICK w \in Written(req[p].row, req[p].x), full \in BOOLEAN :
              LET row == Repaid(req[p].row, w, full)
              IN  \/ Answer(p, 500)
                  \/ req' = [req EXCEPT ![p].pc = IF full THEN "bump" ELSE "written",
                                        ![p].row = row, ![p].full = full,
                                        ![p].field = IF full THEN "onTime" ELSE None]
        BY <1>9, Zenon DEF WriteRepay
      <3>2. (IF full THEN "bump" ELSE "written") \in {"bump", "written"}
        OBVIOUS
      <3>3. QED
        BY <3>1, <3>2, Zenon
    <2>2. ASSUME NEW pc \in {"bump", "written"}, NEW row, NEW full, NEW field,
                 req' = [req EXCEPT ![p].pc = pc, ![p].row = row, ![p].full = full,
                                    ![p].field = field]
          PROVE  Unanswered
      <3>1. req'[p].pc = pc /\ \A q \in Request : q # p => req'[q] = req[q]
        BY <1>1, <2>2 DEF Handler
      <3>2. QED
        BY <3>1
    <2>3. Unanswered
      <3>1. Answer(p, 500) => Unanswered
        BY <1>3
      <3> HIDE DEF Unanswered
      <3>2. QED
        BY <2>1, <2>2, <3>1, Zenon
    <2>4. QED
      BY <1>9, <2>3 DEF WriteRepay
  <1>10. ASSUME WriteDefault(p) PROVE Unanswered /\ acked' = acked
    BY <1>1, <1>10 DEF WriteDefault, Handler
  <1>11. ASSUME UpdateScore(p) PROVE Unanswered /\ acked' = acked
    BY <1>1, <1>11 DEF UpdateScore, Handler
  <1>12. ASSUME LoseAnswer(p) PROVE Unanswered /\ acked' = acked
    BY <1>1, <1>12 DEF LoseAnswer, Idle
  <1>13. ASSUME Conflict(p) \/ ExceedsOutstanding(p) \/ Abort(p)
         PROVE  Unanswered /\ acked' = acked
    BY <1>3, <1>13 DEF Conflict, ExceedsOutstanding, Abort
  <1>14. Unanswered /\ acked' = acked
    BY <1>4, <1>5, <1>6, <1>7, <1>8, <1>9, <1>10, <1>11, <1>12, <1>13
  <1>15. QED
    BY <1>14, QuietStep

LEMMA NextTells ==
  ASSUME LockInv, Addressed, [Next]_vars
  PROVE  /\ Addressed'
         /\ \/ Quiet
            \/ \E p \in Request, op \in Tellable, l \in LoanId : Books(p, op, l)
            \/ \E p \in Request : Tells(p)
  <1>1. ASSUME NEW p \in Request, Commit(p)
        PROVE  Addressed' /\ (Quiet \/ \E op \in Tellable, l \in LoanId : Books(p, op, l))
    <2>1. req[p].op \in Tellable \cup {"create"} /\ req[p].loan \in LoanId
      BY <1>1, CommitFacts DEF StagedRow, Tellable, Ending
    <2>2. QED
      BY <1>1, <2>1, CommitTells
  <1>2. ASSUME NEW p \in Request, CancelUpdate(p)
        PROVE  Addressed' /\ (Quiet \/ \E op \in Tellable, l \in LoanId : Books(p, op, l))
    BY <1>2, CancelTells DEF Tellable, Ending
  <1>3. ASSUME NEW p \in Request, Deliver(p) PROVE Addressed' /\ (Quiet \/ Tells(p))
    BY <1>3, DeliverTells
  <1>4. ASSUME UNCHANGED <<req, acked>> PROVE Addressed' /\ Quiet
    BY <1>4 DEF Addressed, Quiet, Told
  <1>5. ASSUME NEW p \in Request,
               Receive(p) \/ Acquire(p) \/ Proceed(p) \/ Abort(p) \/ LoseAnswer(p)
        PROVE  \/ Quiet /\ Addressed'
               \/ Commit(p) \/ CancelUpdate(p) \/ Deliver(p)
    BY <1>5, OtherIsQuiet DEF Acquire, Proceed
  <1>6. (\E c \in Community : DeleteCommunity(c)) \/ UNCHANGED vars => UNCHANGED <<req, acked>>
    BY DEF DeleteCommunity, vars
  <1>7. QED
    BY <1>1, <1>2, <1>3, <1>4, <1>5, <1>6 DEF Next

\* Each operation leaves disbursed loans disbursed, cancelled loans cancelled and
\* defaulted loans defaulted, and takes no payment back.
LEMMA HappenedStays ==
  ASSUME BookTypeOK, [BookNext]_book, NEW k \in LoanId
  PROVE  /\ \A op \in Ending : Happened(op, loans[k].status) => Happened(op, loans'[k].status)
         /\ paid[k] \in Nat /\ paid'[k] \in Nat /\ paid[k] <= paid'[k]
  <1>1. paid[k] \in Nat /\ paid'[k] \in Nat
    BY NextTypes DEF BookTypeOK
  <1>2. CASE UNCHANGED book
    BY <1>1, <1>2 DEF book
  <1>3. CASE BookNext
    <2>1. PICK l \in LoanId :
             \/ BookCreate(l)
             \/ \E hs \in HashChoice : BookDisburse(l, hs)
             \/ \E x \in Amount, full \in BOOLEAN : BookRepay(l, x, full)
             \/ BookDefault(l)
             \/ BookCancel(l)
      BY <1>3 DEF BookNext
    <2>2. paid[k] <= paid'[k]
      <3>1. ASSUME NEW x \in Amount, NEW full \in BOOLEAN, BookRepay(l, x, full)
            PROVE  paid[k] <= paid'[k]
        <4>1. x \in Nat /\ paid' = [paid EXCEPT ![l] = @ + x]
          BY <3>1, AmountAssumption DEF BookRepay
        <4>2. QED
          BY <1>1, <4>1 DEF BookTypeOK
      <3>2. QED
        BY <1>1, <2>1, <3>1 DEF BookCreate, BookDisburse, BookDefault, BookCancel
    <2>3. CASE loans[k].status \in Terminal
      BY <1>1, <1>3, <2>2, <2>3, FrozenStep
    <2>4. CASE loans[k].status = "active"
      <3>1. loans'[k].status \in {"active", "repaid", "defaulted"}
        <4>1. CASE k # l
          BY <2>1, <2>4, <4>1 DEF BookTypeOK, BookCreate, BookDisburse, BookRepay, BookDefault, BookCancel
        <4>2. CASE k = l
          <5>1. loans[l] \in Row
            BY <2>4, <4>2, NoLoanIsNoRow DEF BookTypeOK
          <5>2. ~BookCreate(l) /\ ~BookCancel(l) /\ \A hs \in HashChoice : ~BookDisburse(l, hs)
            BY <2>4, <4>2, NoLoanIsNoRow DEF BookCreate, BookCancel, BookDisburse
          <5>3. BookDefault(l) => loans'[l].status = "defaulted"
            BY <5>1 DEF BookDefault, BookTypeOK, Defaulted, Row
          <5>4. ASSUME NEW x \in Amount, NEW full \in BOOLEAN, BookRepay(l, x, full)
                PROVE  loans'[l].status \in {"active", "repaid"}
            <6>1. PICK w \in Written(loans[l], x) : loans'[l] = Repaid(loans[l], w, full)
              BY <5>4 DEF BookRepay, BookTypeOK
            <6>2. Repaid(loans[l], w, full).status = IF full THEN "repaid" ELSE "active"
              BY <5>1 DEF Repaid, Row
            <6>3. QED
              BY <6>1, <6>2
          <5>5. QED
            BY <2>1, <4>2, <5>2, <5>3, <5>4
        <4>3. QED
          BY <4>1, <4>2
      <3>2. QED
        BY <1>1, <2>2, <2>4, <3>1 DEF Happened, Ending
    <2>5. CASE loans[k].status \notin Terminal \cup {"active"}
      BY <1>1, <2>2, <2>5 DEF Happened, Ending, Terminal
    <2>6. QED
      BY <2>3, <2>4, <2>5
  <1>4. QED
    BY <1>2, <1>3

\* The stroops of one payment.
Block(p, x) == {p} \X (1..x)

LEMMA BlockSize ==
  ASSUME NEW p, NEW x \in Nat
  PROVE  IsFiniteSet(Block(p, x)) /\ Cardinality(Block(p, x)) = x
  <1>1. IsFiniteSet({p}) /\ Cardinality({p}) = 1
    BY FS_Singleton
  <1>2. IsFiniteSet(1..x) /\ Cardinality(1..x) = x
    BY FS_Interval
  <1>3. /\ IsFiniteSet({p} \X (1..x))
        /\ Cardinality({p} \X (1..x)) = Cardinality({p}) * Cardinality(1..x)
    BY <1>1, <1>2, FS_Product
  <1>4. QED
    BY <1>1, <1>2, <1>3 DEF Block

\* Adding a payment of p that was not counted yet adds its stroops.
LEMMA AddBlock ==
  ASSUME NEW S, NEW T, NEW p, NEW x \in Nat,
         T = S \cup Block(p, x), S \cap Block(p, x) = {},
         IsFiniteSet(S) \/ IsFiniteSet(T)
  PROVE  /\ IsFiniteSet(S) /\ IsFiniteSet(T)
         /\ Cardinality(S) \in Nat /\ Cardinality(T) = Cardinality(S) + x
  <1>1. IsFiniteSet(Block(p, x)) /\ Cardinality(Block(p, x)) = x
    BY BlockSize
  <1>2. IsFiniteSet(S)
    <2>1. S \in SUBSET T
      OBVIOUS
    <2>2. QED
      BY <2>1, FS_Subset
  <1>3. /\ IsFiniteSet(T)
        /\ Cardinality(T) = Cardinality(S) + Cardinality(Block(p, x))
                              - Cardinality(S \cap Block(p, x))
    BY <1>1, <1>2, FS_Union
  <1>4. Cardinality(S) \in Nat
    BY <1>2, FS_CardinalityType
  <1>5. Cardinality(S \cap Block(p, x)) = 0
    BY FS_EmptySet
  <1>6. QED
    BY <1>1, <1>2, <1>3, <1>4, <1>5

LEMMA FewerUnits ==
  ASSUME NEW l, Covered(l), PaidUnits(l)' \subseteq PaidUnits(l),
         acked[l].paid \in Nat, acked'[l].paid = acked[l].paid,
         paid[l] \in Nat, paid'[l] \in Nat, paid[l] <= paid'[l]
  PROVE  Covered(l)'
  <1>1. /\ IsFiniteSet(PaidUnits(l)')
        /\ Cardinality(PaidUnits(l)') <= Cardinality(PaidUnits(l))
    BY FS_Subset DEF Covered
  <1>2. Cardinality(PaidUnits(l)') \in Nat /\ Cardinality(PaidUnits(l)) \in Nat
    BY <1>1, FS_CardinalityType DEF Covered
  <1>3. QED
    BY <1>1, <1>2 DEF Covered

LEMMA InitAck == Init => AckInv
  <1> SUFFICES ASSUME Init PROVE AckInv
    OBVIOUS
  <1>1. LockInv /\ BookInv
    BY InitLocks, InitSound DEF Init
  <1>2. \A p \in Request : req[p].pc # "answer"
    BY DEF Init, Idle
  <1>3. \A op, l : \A p \in Request : ~Told(p, op, l)
    BY <1>2 DEF Told
  <1>4. ASSUME NEW l \in LoanId PROVE Covered(l)
    <2>1. PaidUnits(l) = {}
      BY <1>3 DEF PaidUnits
    <2>2. IsFiniteSet({}) /\ Cardinality({}) = 0
      BY FS_EmptySet
    <2>3. acked[l].paid = 0 /\ paid[l] = 0
      BY DEF Init, BookInit, NoAck
    <2>4. QED
      BY <2>1, <2>2, <2>3 DEF Covered
  <1>5. ASSUME NEW l \in LoanId, NEW op \in Ending PROVE Once(op, l)
    <2>1. acked[l][op] = 0
      BY DEF Init, NoAck, Ending
    <2>2. QED
      BY <1>3, <2>1 DEF Once
  <1>6. QED
    BY <1>1, <1>2, <1>4, <1>5 DEF AckInv, Addressed

LEMMA NextAck == AckInv /\ [Next]_vars => AckInv'
  <1> SUFFICES ASSUME AckInv, [Next]_vars PROVE AckInv'
    OBVIOUS
  <1>1. LockInv /\ BookInv /\ Addressed /\ BookTypeOK
    BY DEF AckInv, BookInv
  <1>2. LockInv' /\ [BookNext]_book /\ BookInv'
    BY <1>1, NextLocks, NextBooks, NextSound
  <1>3. /\ Addressed'
        /\ \/ Quiet
           \/ \E p \in Request, op \in Tellable, l \in LoanId : Books(p, op, l)
           \/ \E p \in Request : Tells(p)
    BY <1>1, NextTells
  <1>4. /\ req \in [Request -> Handler] /\ req' \in [Request -> Handler]
        /\ acked \in [LoanId -> Acked]
    BY <1>1, <1>2 DEF LockInv, TypeOK, Acked
  <1>5. \A p \in Request : req[p].x \in Nat /\ req'[p].x \in Payment /\ req'[p].x \in Nat
    <2>1. \A x \in Payment : x \in Nat
      BY AmountAssumption DEF Payment
    <2>2. QED
      BY <1>4, <2>1 DEF Handler
  <1>6. \A l \in LoanId :
          /\ acked[l].paid \in Nat
          /\ \A op \in Ending : acked[l][op] \in Nat
    BY <1>4 DEF Acked, Ending
  <1>7. ASSUME NEW l \in LoanId
        PROVE  /\ \A op \in Ending : Happened(op, loans[l].status) => Happened(op, loans'[l].status)
               /\ paid[l] \in Nat /\ paid'[l] \in Nat /\ paid[l] <= paid'[l]
    BY <1>1, <1>2, HappenedStays
  <1>8. \A l \in LoanId : Covered(l) /\ \A op \in Ending : Once(op, l)
    BY DEF AckInv
  <1>9. Ending \subseteq Tellable /\ "repay" \in Tellable /\ "repay" \notin Ending
    BY DEF Tellable, Ending
  <1>10. CASE Quiet
    <2>1. ASSUME NEW l \in LoanId PROVE Covered(l)'
      <3>1. PaidUnits(l)' \subseteq PaidUnits(l)
        BY <1>9, <1>10 DEF Quiet, PaidUnits
      <3>2. acked'[l].paid = acked[l].paid
        BY <1>10 DEF Quiet
      <3>3. QED
        BY <1>6, <1>7, <1>8, <3>1, <3>2, FewerUnits
    <2>2. ASSUME NEW l \in LoanId, NEW op \in Ending PROVE Once(op, l)'
      BY <1>7, <1>8, <1>9, <1>10 DEF Quiet, Once
    <2>3. QED
      BY <1>2, <1>3, <2>1, <2>2 DEF AckInv
  <1>11. ASSUME NEW p \in Request, NEW op \in Tellable, NEW l \in LoanId, Books(p, op, l)
         PROVE  AckInv'
    <2>1. ASSUME NEW m \in LoanId PROVE Covered(m)'
      <3>1. acked'[m].paid = acked[m].paid
        BY <1>11 DEF Books
      <3>2. CASE op = "repay" /\ m = l
        <4> DEFINE x == req'[p].x
        <4>1. x \in Nat /\ 1..x \subseteq Stroops
          BY <1>5 DEF Stroops
        <4>2. PaidUnits(m)' = PaidUnits(m) \cup Block(p, x)
          BY <1>9, <1>11, <3>2, <4>1 DEF Books, PaidUnits, Told, Block
        <4>3. PaidUnits(m) \cap Block(p, x) = {}
          BY <1>11 DEF Books, PaidUnits, Told, Block
        <4>4. paid'[m] = paid[m] + x
          BY <1>11, <3>2 DEF Books
        <4> HIDE DEF x
        <4>5. /\ IsFiniteSet(PaidUnits(m)') /\ Cardinality(PaidUnits(m)) \in Nat
              /\ Cardinality(PaidUnits(m)') = Cardinality(PaidUnits(m)) + x
          <5> DEFINE S == PaidUnits(m)
                     T == PaidUnits(m)'
          <5>1. IsFiniteSet(S) /\ T = S \cup Block(p, x) /\ S \cap Block(p, x) = {}
            BY <1>8, <4>2, <4>3 DEF Covered
          <5> HIDE DEF S, T
          <5>2. IsFiniteSet(T) /\ Cardinality(S) \in Nat /\ Cardinality(T) = Cardinality(S) + x
            BY <4>1, <5>1, AddBlock
          <5>3. QED
            BY <5>2 DEF S, T
        <4>6. QED
          BY <1>6, <1>7, <1>8, <3>1, <4>1, <4>4, <4>5 DEF Covered
      <3>3. CASE ~(op = "repay" /\ m = l)
        <4>1. PaidUnits(m)' \subseteq PaidUnits(m)
          BY <1>9, <1>11, <3>3 DEF Books, PaidUnits
        <4>2. QED
          BY <1>6, <1>7, <1>8, <3>1, <4>1, FewerUnits
      <3>4. QED
        BY <3>2, <3>3
    <2>2. ASSUME NEW m \in LoanId, NEW o \in Ending PROVE Once(o, m)'
      <3>1. acked'[m] = acked[m] /\ Once(o, m) /\ o \in Tellable
        BY <1>8, <1>9, <1>11 DEF Books
      <3>2. CASE o = op /\ m = l
        <4>1. ~Happened(o, loans[m].status) /\ Happened(o, loans'[m].status)
          BY <1>11, <3>2 DEF Books
        <4>2. acked[m][o] = 0 /\ \A q \in Request : ~Told(q, o, m)
          BY <1>6, <3>1, <4>1 DEF Once
        <4>3. \A q \in Request : Told(q, o, m)' => q = p
          BY <1>11, <3>1, <4>2 DEF Books
        <4>4. QED
          BY <3>1, <4>1, <4>2, <4>3 DEF Once
      <3>3. CASE ~(o = op /\ m = l)
        <4>1. \A q \in Request : Told(q, o, m)' => Told(q, o, m)
          BY <1>11, <3>1, <3>3 DEF Books
        <4>2. QED
          BY <1>7, <3>1, <4>1 DEF Once
      <3>4. QED
        BY <3>2, <3>3
    <2>3. QED
      BY <1>2, <1>3, <2>1, <2>2 DEF AckInv
  <1>12. ASSUME NEW p \in Request, Tells(p) PROVE AckInv'
    <2> DEFINE k == req[p].loan
    <2>1. k \in LoanId /\ req[p] \in Handler /\ acked[k] \in Acked
      BY <1>1, <1>4, <1>12 DEF Tells, Addressed
    <2>2. /\ acked' = [acked EXCEPT ![k] = Acknowledge(@, req[p])]
          /\ paid' = paid /\ loans' = loans
      BY <1>12 DEF Tells, book
    <2>3. /\ \A m \in LoanId : m # k => acked'[m] = acked[m]
          /\ acked'[k] = Acknowledge(acked[k], req[p])
      BY <1>4, <2>1, <2>2
    <2>4. /\ acked'[k].paid = IF req[p].op = "repay" THEN acked[k].paid + req[p].x
                                                     ELSE acked[k].paid
          /\ \A op \in Ending :
               acked'[k][op] = IF req[p].op = op THEN acked[k][op] + 1 ELSE acked[k][op]
      BY <2>1, <2>3, AckEffect
    <2>5. \A op, m : Told(p, op, m) <=> op = req[p].op /\ m = k
      BY <1>12 DEF Tells, Told
    <2>6. ASSUME NEW m \in LoanId PROVE Covered(m)'
      <3>1. CASE m = k /\ req[p].op = "repay"
        <4> DEFINE x == req[p].x
        <4>1. x \in Nat /\ x \in Payment
          BY <1>5, <2>1 DEF Handler
        <4>2. 1..x \subseteq Stroops
          BY <4>1 DEF Stroops
        <4>3. PaidUnits(m) = PaidUnits(m)' \cup Block(p, x)
          BY <1>9, <1>12, <2>5, <3>1, <4>2 DEF Tells, PaidUnits, Block
        <4>4. PaidUnits(m)' \cap Block(p, x) = {}
          BY <1>9, <1>12 DEF Tells, PaidUnits, Block
        <4>5. acked'[m].paid = acked[m].paid + x
          BY <2>4, <3>1
        <4> HIDE DEF x
        <4>6. /\ IsFiniteSet(PaidUnits(m)') /\ Cardinality(PaidUnits(m)') \in Nat
              /\ Cardinality(PaidUnits(m)) = Cardinality(PaidUnits(m)') + x
          <5> DEFINE S == PaidUnits(m)'
                     T == PaidUnits(m)
          <5>1. IsFiniteSet(T) /\ T = S \cup Block(p, x) /\ S \cap Block(p, x) = {}
            BY <1>8, <4>3, <4>4 DEF Covered
          <5> HIDE DEF S, T
          <5>2. x \in Nat
            BY <4>1
          <5>3. IsFiniteSet(S) /\ Cardinality(S) \in Nat /\ Cardinality(T) = Cardinality(S) + x
            BY <5>1, <5>2, AddBlock
          <5>4. QED
            BY <5>3 DEF S, T
        <4>7. QED
          BY <1>6, <1>7, <1>8, <2>2, <4>1, <4>5, <4>6 DEF Covered
      <3>2. CASE ~(m = k /\ req[p].op = "repay")
        <4>1. acked'[m].paid = acked[m].paid
          BY <2>3, <2>4, <3>2
        <4>2. PaidUnits(m)' \subseteq PaidUnits(m)
          BY <1>9, <1>12 DEF Tells, PaidUnits
        <4>3. QED
          BY <1>6, <1>7, <1>8, <4>1, <4>2, FewerUnits
      <3>3. QED
        BY <3>1, <3>2
    <2>7. ASSUME NEW m \in LoanId, NEW o \in Ending PROVE Once(o, m)'
      <3>1. \A q \in Request : Told(q, o, m)' <=> q # p /\ Told(q, o, m)
        BY <1>9, <1>12 DEF Tells
      <3>2. Once(o, m) /\ acked[m][o] \in Nat
        BY <1>6, <1>8
      <3>3. CASE m = k /\ req[p].op = o
        <4>1. Told(p, o, m)
          BY <2>5, <3>3
        <4>2. acked[m][o] = 0 /\ Happened(o, loans'[m].status)
          BY <2>2, <3>2, <4>1 DEF Once
        <4>3. acked'[m][o] = 1
          BY <2>4, <3>3, <4>2
        <4>4. \A q \in Request : ~Told(q, o, m)'
          BY <3>1, <3>2, <4>1 DEF Once
        <4>5. QED
          BY <4>2, <4>3, <4>4 DEF Once
      <3>4. CASE ~(m = k /\ req[p].op = o)
        <4>1. acked'[m][o] = acked[m][o]
          BY <2>3, <2>4, <3>4
        <4>2. QED
          BY <2>2, <3>1, <3>2, <4>1 DEF Once
      <3>5. QED
        BY <3>3, <3>4
    <2>8. QED
      BY <1>2, <1>3, <2>6, <2>7 DEF AckInv
  <1>13. QED
    BY <1>3, <1>10, <1>11, <1>12

\* Every answer a client received is true of the books and stays true: at most
\* one disbursement, cancellation or default is told of a loan, and the payments
\* told and those still to be told are together among its repayment events.
THEOREM Answers == Spec => []AnswersAreBooked
  <1>1. AckInv => AnswersAreBooked
    <2> SUFFICES ASSUME AckInv, NEW l \in LoanId
                 PROVE  LET a == acked[l]
                        IN  /\ a.disburse + a.cancel <= 1
                            /\ a.disburse = 1 => loans[l].disbursed
                            /\ a.cancel = 1 => loans[l].status = "cancelled"
                            /\ a.default <= Tally(loans[l].status = "defaulted")
                            /\ a.paid <= paid[l]
      BY DEF AnswersAreBooked
    <2>1. acked[l] \in Acked /\ Covered(l) /\ Sound(loans[l], events[l], paid[l])
          /\ paid[l] \in Nat
      BY DEF AckInv, LockInv, TypeOK, Acked, BookInv, BookTypeOK
    <2>2. Once("disburse", l) /\ Once("cancel", l) /\ Once("default", l)
      BY DEF AckInv, Ending
    <2>3. /\ acked[l].disburse \in {0, 1} /\ acked[l].cancel \in {0, 1}
          /\ acked[l].default \in {0, 1}
      BY <2>1, <2>2 DEF Once, Acked
    <2>4. /\ acked[l].disburse = 1 => loans[l].status \in {"active", "repaid", "defaulted"}
          /\ acked[l].cancel = 1 => loans[l].status = "cancelled"
          /\ acked[l].default = 1 => loans[l].status = "defaulted"
      BY <2>2 DEF Once, Happened
    <2>5. acked[l].disburse + acked[l].cancel <= 1
      BY <2>3, <2>4
    <2>6. acked[l].disburse = 1 => loans[l].disbursed
      BY <2>1, <2>4 DEF Sound, Story, Tally
    <2>7. acked[l].default <= Tally(loans[l].status = "defaulted")
      BY <2>3, <2>4 DEF Tally
    <2>8. acked[l].paid <= paid[l]
      <3>1. Cardinality(PaidUnits(l)) \in Nat /\ acked[l].paid \in Nat
        BY <2>1, FS_CardinalityType DEF Covered, Acked
      <3>2. QED
        BY <2>1, <3>1 DEF Covered
    <2>9. QED
      BY <2>4, <2>5, <2>6, <2>7, <2>8
  <1>2. QED
    BY <1>1, InitAck, NextAck, PTL DEF Spec

===============================================================================
