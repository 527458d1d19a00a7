---------------------------- MODULE LoanRequests ----------------------------
(***************************************************************************)
(* The handlers of backend/src/api/routes/loans.ts as they really run: each *)
(* request is a sequence of awaited database calls that interleave with     *)
(* those of other requests.  A handler first reads the loan outside any     *)
(* transaction (404, 403, 409), then opens a transaction, reads the row      *)
(* again FOR UPDATE, stages its writes and commits.  Cancelling is a single *)
(* conditional UPDATE.                                                     *)
(*                                                                         *)
(* Row locks are not a variable: a transaction between its locking read or *)
(* insert and its end owns the row.  Staged writes live in req until Commit *)
(* publishes them, so other requests read committed rows only.             *)
(***************************************************************************)
EXTENDS LoanBook

CONSTANTS
    Request,        \* handlers that run at the same time
    MaxRepayments   \* bound of the model: repayments of one loan

VARIABLES
    req,      \* req[p]: where handler p is, and what it holds
    deleted,  \* communities that are soft-deleted
    acked     \* acked[l]: what clients were told succeeded on loan l

vars == <<loans, events, paid, hashes, rep, req, deleted, acked>>

-----------------------------------------------------------------------------
(* Handler state *)

Op == {"create", "disburse", "repay", "default", "cancel"}
Pc == {"idle", "checked", "locked", "bump", "bumped", "written", "answer"}

None == "none"

Idle == [pc |-> "idle", op |-> "cancel", loan |-> None, x |-> 0, hs |-> {},
         row |-> NoLoan, full |-> FALSE, field |-> None, rep |-> NewRep,
         code |-> 0]

\* The status a handler insists on, before the transaction and again inside it.
Wanted(op) == IF op = "disburse" THEN "pending" ELSE "active"

\* Who may call it.
Allowed(op, row) ==
    CASE op = "repay"  -> {row.borrower}
      [] op = "cancel" -> {row.borrower, row.lender}
      [] OTHER         -> {row.lender}

\* p's transaction owns the row of loan l ...
Owns(p, l) == req[p].pc \in {"locked", "bump", "bumped", "written"} /\ req[p].loan = l
\* Slip: the row is read without FOR UPDATE.
RowUnlocked(l) == TRUE
RowFree(l) == \A p \in Request : ~Owns(p, l)

\* ... the reputation row of k ...
OwnsRep(p, k) ==
    /\ req[p].pc \in {"bumped", "written"}
    /\ req[p].field # None
    /\ KeyOf(req[p].row) = k
\* Slip: the counters are read, and written back later, without a lock.
RepUnlocked(k) == TRUE
RepFree(k) == \A p \in Request : ~OwnsRep(p, k)

\* ... or has inserted a hash into a UNIQUE column and not yet committed.
HashFree(hs) ==
    \A p \in Request :
        req[p].pc = "written" /\ req[p].op = "disburse" => req[p].hs \cap hs = {}

Answer(p, code) ==
    req' = [req EXCEPT ![p] = [Idle EXCEPT !.pc = "answer", !.code = code]]

-----------------------------------------------------------------------------
(* Before the transaction: checks on unlocked reads *)

\* Bound of the model: ids are drawn from LoanId, so a creation is taken on only
\* while an id is left for it.
FreshIdLeft ==
    Cardinality({l \in LoanId : loans[l] = NoLoan})
        > Cardinality({p \in Request : req[p].op = "create" /\ req[p].pc # "answer"})

ReceiveCreate(p) ==
    /\ req[p].pc = "idle"
    /\ FreshIdLeft
    /\ \E actor, b, n \in Address, c \in Community, amt \in Amount, rt \in Rate :
        \/ actor \notin {b, n} /\ Answer(p, 403)
        \/ actor \in {b, n} /\ c \in deleted /\ Answer(p, 404)
        \/ /\ actor \in {b, n}
           /\ c \notin deleted
           /\ req' = [req EXCEPT ![p] =
                [Idle EXCEPT !.pc = "checked", !.op = "create",
                             !.row = NewLoan(b, n, c, amt, rt)]]
    /\ UNCHANGED <<book, deleted, acked>>

\* Bound of the model: a repayment too small to move the sum of a large loan can
\* be made for ever, so one is taken on only while a loan has room for it.
RepaymentLeft ==
    \A l \in LoanId :
        events[l]["repayment"]
            + Cardinality({p \in Request : req[p].op = "repay" /\ req[p].pc # "answer"})
        < MaxRepayments

\* The read every /:id handler starts with.  Cancelling does not look at the
\* status here.
Preflight(p, op, x, hs) ==
    \E l \in LoanId, actor \in Address :
        \/ loans[l] = NoLoan /\ Answer(p, 404)
        \/ /\ loans[l] # NoLoan
           /\ actor \notin Allowed(op, loans[l])
           /\ Answer(p, 403)
        \/ /\ loans[l] # NoLoan
           /\ actor \in Allowed(op, loans[l])
           /\ op # "cancel" /\ loans[l].status # Wanted(op)
           /\ Answer(p, 409)
        \/ /\ loans[l] # NoLoan
           /\ actor \in Allowed(op, loans[l])
           /\ op = "cancel" \/ loans[l].status = Wanted(op)
           /\ req' = [req EXCEPT ![p] =
                [Idle EXCEPT !.pc = "checked", !.op = op, !.loan = l,
                             !.x = x, !.hs = hs]]

ReceiveDisburse(p) ==
    /\ req[p].pc = "idle"
    /\ \E hs \in HashChoice : Preflight(p, "disburse", 0, hs)
    /\ UNCHANGED <<book, deleted, acked>>

ReceiveRepay(p) ==
    /\ req[p].pc = "idle"
    /\ RepaymentLeft
    /\ \E x \in Amount : Preflight(p, "repay", x, {})
    /\ UNCHANGED <<book, deleted, acked>>

ReceiveDefault(p) ==
    /\ req[p].pc = "idle"
    /\ Preflight(p, "default", 0, {})
    /\ UNCHANGED <<book, deleted, acked>>

ReceiveCancel(p) ==
    /\ req[p].pc = "idle"
    /\ Preflight(p, "cancel", 0, {})
    /\ UNCHANGED <<book, deleted, acked>>

-----------------------------------------------------------------------------
(* The transaction *)

\* SELECT ... FOR UPDATE waits for the row, then reads what is committed.
LockLoan(p) ==
    /\ req[p].pc = "checked"
    /\ req[p].op \in {"disburse", "repay", "default"}
    /\ RowFree(req[p].loan)
    /\ req' = [req EXCEPT ![p].pc = "locked", ![p].row = loans[req[p].loan]]
    /\ UNCHANGED <<book, deleted, acked>>

\* Slip: the 409 inside the transaction is noted but never sent.
ConflictUnanswered(p) == FALSE

\* The loan changed since the preflight read: commit nothing, answer 409.
Conflict(p) ==
    /\ req[p].pc = "locked"
    /\ req[p].row.status # Wanted(req[p].op)
    /\ Answer(p, 409)
    /\ UNCHANGED <<book, deleted, acked>>

\* The repayment exceeds the outstanding balance: commit nothing, answer 400.
ExceedsOutstanding(p) ==
    /\ req[p].pc = "locked"
    /\ req[p].op = "repay"
    /\ req[p].row.status = "active"
    /\ MayReject(req[p].row, req[p].x)
    /\ Answer(p, 400)
    /\ UNCHANGED <<book, deleted, acked>>

\* Inserting a hash another open transaction has inserted waits for its end; a
\* committed duplicate violates the UNIQUE constraint and rolls back.
WriteDisburse(p) ==
    LET r == req[p]
    IN  /\ r.pc = "locked"
        /\ r.op = "disburse"
        /\ r.row.status = "pending"
        /\ HashFree(r.hs)
        /\ IF r.hs \cap hashes = {}
           THEN req' = [req EXCEPT ![p].pc = "written", ![p].row = Disbursed(r.row)]
           ELSE Answer(p, 500)
        /\ UNCHANGED <<book, deleted, acked>>

\* The UPDATE may still violate the CHECK constraint on amount_repaid: the
\* database compares exactly, the handler with a tolerance.
WriteRepay(p) ==
    LET r == req[p]
    IN  /\ r.pc = "locked"
        /\ r.op = "repay"
        /\ r.row.status = "active"
        /\ MayAccept(r.row, r.x)
        /\ \E w \in Written(r.row, r.x), full \in BOOLEAN :
            LET row == Repaid(r.row, w, full)
            IN  /\ IF full THEN MayClose(r.row, r.x) ELSE MayStayOpen(r.row, r.x)
                /\ IF RepaidCheck(row)
                   THEN req' = [req EXCEPT ![p].pc = IF full THEN "bump" ELSE "written",
                                           ![p].row = row, ![p].full = full,
                                           ![p].field = IF full THEN "onTime" ELSE None]
                   ELSE Answer(p, 500)
        /\ UNCHANGED <<book, deleted, acked>>

WriteDefault(p) ==
    LET r == req[p]
    IN  /\ r.pc = "locked"
        /\ r.op = "default"
        /\ r.row.status = "active"
        /\ req' = [req EXCEPT ![p].pc = "bump", ![p].row = Defaulted(r.row),
                              ![p].field = "defaults"]
        /\ UNCHANGED <<book, deleted, acked>>

\* INSERT INTO loans under a fresh id that no one else can see yet.  The
\* community was looked up before the transaction and is not looked at again.
InsertLoan(p) ==
    /\ req[p].pc = "checked"
    /\ req[p].op = "create"
    /\ \E l \in LoanId :
        /\ loans[l] = NoLoan
        /\ RowFree(l)
        /\ req' = [req EXCEPT ![p].pc = "bump", ![p].loan = l, ![p].field = "total"]
    /\ UNCHANGED <<book, deleted, acked>>

\* bumpReputation, first statement: the upsert locks the row, increments one
\* counter and returns the others.
UpsertReputation(p) ==
    LET r == req[p]
        k == KeyOf(r.row)
    IN  /\ r.pc = "bump"
        /\ RepFree(k)
        /\ req' = [req EXCEPT ![p].pc = "bumped", ![p].rep = Counted(rep[k], r.field)]
        /\ UNCHANGED <<book, deleted, acked>>

\* bumpReputation, second statement: the score from the returned counters.
UpdateScore(p) ==
    /\ req[p].pc = "bumped"
    /\ req' = [req EXCEPT ![p].pc = "written", ![p].rep = Rescored(@)]
    /\ UNCHANGED <<book, deleted, acked>>

\* Slip: the closing event of a full repayment is forgotten.
EventsWithoutClosing(r) ==
    {CASE r.op = "create"   -> "created"
       [] r.op = "disburse" -> "disbursed"
       [] r.op = "default"  -> "defaulted"
       [] r.op = "repay"    -> "repayment"}

\* The loan_events rows, and their transactions_log twins, of each operation.
EventsOf(r) ==
    CASE r.op = "create"   -> {"created"}
      [] r.op = "disburse" -> {"disbursed"}
      [] r.op = "default"  -> {"defaulted"}
      [] r.op = "repay"    -> RepaymentEvents(r.full)

Commit(p) ==
    LET r == req[p]
    IN  /\ r.pc = "written"
        /\ loans' = [loans EXCEPT ![r.loan] = r.row]
        /\ events' = Record(r.loan, EventsOf(r))
        /\ paid' = [paid EXCEPT ![r.loan] = @ + r.x]
        /\ hashes' = hashes \cup r.hs
        /\ rep' = IF r.field = None THEN rep ELSE [rep EXCEPT ![KeyOf(r.row)] = r.rep]
        /\ req' = [req EXCEPT ![p] = [Idle EXCEPT !.pc = "answer", !.code = 200,
                                                  !.op = r.op, !.loan = r.loan, !.x = r.x]]
        /\ UNCHANGED <<deleted, acked>>

\* A statement fails, the pool has no connection to give, or the server stops:
\* ROLLBACK drops everything staged.
Abort(p) ==
    /\ req[p].pc \in {"checked", "locked", "bump", "bumped", "written"}
    /\ Answer(p, 500)
    /\ UNCHANGED <<book, deleted, acked>>

\* Slip: the UPDATE without AND status = 'pending'.
CancelAnyStatus(p) ==
    /\ req[p].pc = "checked"
    /\ req[p].op = "cancel"
    /\ RowFree(req[p].loan)
    /\ loans' = [loans EXCEPT ![req[p].loan] = Cancelled(@)]
    /\ req' = [req EXCEPT ![p].pc = "answer", ![p].code = 200]
    /\ UNCHANGED <<events, paid, hashes, rep, deleted, acked>>

\* UPDATE ... WHERE status = 'pending' waits for the row and decides on what is
\* committed then.
CancelUpdate(p) ==
    LET l == req[p].loan
    IN  /\ req[p].pc = "checked"
        /\ req[p].op = "cancel"
        /\ RowFree(l)
        /\ IF loans[l].status = "pending"
           THEN /\ loans' = [loans EXCEPT ![l] = Cancelled(@)]
                /\ req' = [req EXCEPT ![p].pc = "answer", ![p].code = 200]
           ELSE /\ Answer(p, 404)
                /\ UNCHANGED loans
        /\ UNCHANGED <<events, paid, hashes, rep, deleted, acked>>

-----------------------------------------------------------------------------
(* Answers *)

NoAck == [disburse |-> 0, cancel |-> 0, default |-> 0, paid |-> 0]

Acknowledge(a, r) ==
    CASE r.op = "repay"                             -> [a EXCEPT !.paid = @ + r.x]
      [] r.op \in {"disburse", "cancel", "default"} -> [a EXCEPT ![r.op] = @ + 1]
      [] OTHER                                      -> a

Deliver(p) ==
    LET r == req[p]
    IN  /\ r.pc = "answer"
        /\ acked' = IF r.code = 200
                    THEN [acked EXCEPT ![r.loan] = Acknowledge(@, r)]
                    ELSE acked
        /\ req' = [req EXCEPT ![p] = Idle]
        /\ UNCHANGED <<book, deleted>>

\* The connection to the client, or to the database right after COMMIT, is lost:
\* the client never learns what happened.
LoseAnswer(p) ==
    /\ req[p].pc = "answer"
    /\ req' = [req EXCEPT ![p] = Idle]
    /\ UNCHANGED <<book, deleted, acked>>

\* DELETE /communities/:id, from the admin routes.
DeleteCommunity(c) ==
    /\ c \notin deleted
    /\ deleted' = deleted \cup {c}
    /\ UNCHANGED <<book, req, acked>>

-----------------------------------------------------------------------------
Init ==
    /\ BookInit
    /\ req = [p \in Request |-> Idle]
    /\ deleted = {}
    /\ acked = [l \in LoanId |-> NoAck]

Receive(p) ==
    \/ ReceiveCreate(p)
    \/ ReceiveDisburse(p)
    \/ ReceiveRepay(p)
    \/ ReceiveDefault(p)
    \/ ReceiveCancel(p)

\* The steps that wait for a lock.
Acquire(p) ==
    \/ LockLoan(p)
    \/ CancelUpdate(p)
    \/ InsertLoan(p)
    \/ UpsertReputation(p)
    \/ WriteDisburse(p)

Proceed(p) ==
    \/ Conflict(p)
    \/ ExceedsOutstanding(p)
    \/ WriteRepay(p)
    \/ WriteDefault(p)
    \/ UpdateScore(p)
    \/ Commit(p)
    \/ Deliver(p)

Next ==
    \/ \E p \in Request :
        \/ Receive(p) \/ Acquire(p) \/ Proceed(p)
        \/ Abort(p) \/ LoseAnswer(p)
    \/ \E c \in Community : DeleteCommunity(c)

Spec == Init /\ [][Next]_vars

\* A started database call returns.  Row locks are granted in arrival order, so
\* a waiting transaction that can repeatedly be served is: strong fairness.
\* Requests need not arrive and nothing has to fail.
Fairness ==
    \A p \in Request : SF_vars(Acquire(p)) /\ WF_vars(Proceed(p))

FairSpec == Spec /\ Fairness

-----------------------------------------------------------------------------
(* Properties *)

LoanRef == LoanId \cup {None}
Payment == Amount \cup {0}
MaybeRow == Row \cup {NoLoan}
Counter == {None, "total", "onTime", "defaults"}
Code == {0, 200, 400, 403, 404, 409, 500}

Handler ==
    [pc : Pc, op : Op, loan : LoanRef, x : Payment, hs : HashChoice,
     row : MaybeRow, full : BOOLEAN, field : Counter, rep : RepRow, code : Code]

TypeOK ==
    /\ BookTypeOK
    /\ req \in [Request -> Handler]
    /\ deleted \subseteq Community
    /\ acked \in [LoanId -> [disburse : Nat, cancel : Nat, default : Nat, paid : Nat]]

\* Every answer a client received is true of the books and stays true: each loan
\* is told disbursed, cancelled or defaulted at most once, never both disbursed
\* and cancelled, and the payments acknowledged are all among the loan's
\* repayment events.
AnswersAreBooked ==
    \A l \in LoanId :
        LET a == acked[l]
        IN  /\ a.disburse + a.cancel <= 1
            /\ a.disburse = 1 => loans[l].disbursed
            /\ a.cancel = 1 => loans[l].status = "cancelled"
            /\ a.default <= Tally(loans[l].status = "defaulted")
            /\ a.paid <= paid[l]

\* Every request is eventually answered: no cycle of row, hash and reputation
\* locks, and no handler left waiting for a lock others keep taking.
EveryRequestEnds == \A p \in Request : req[p].pc # "idle" ~> req[p].pc = "idle"

=============================================================================
