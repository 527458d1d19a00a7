----------------------------- MODULE TokenSupply -----------------------------
(***************************************************************************)
(* POST /tokens/submit (backend/src/api/routes/tokens.ts): a transaction    *)
(* built by build-issue, build-burn or build-airdrop and signed by a wallet *)
(* is submitted, and on request the supply recorded in tokens.total_supply  *)
(* is read back from Horizon.  One token; every transaction changes its     *)
(* supply by one unit.                                                     *)
(*                                                                         *)
(* Horizon and the ledger are external: a transaction is applied at most    *)
(* once, and its answer may be lost (SequenceCache models the resending).   *)
(***************************************************************************)
EXTENDS Integers, FiniteSets

CONSTANTS
    Request,     \* transactions, each submitted by one request
    MaxOpen,     \* how many requests may be in progress at once
    MaxSupply    \* bound: the largest supply

VARIABLES
    supply,   \* the circulating supply on the ledger
    row,      \* tokens.total_supply
    req       \* req[q]: where request q is, its transaction's fate, the supply it read

vars == <<supply, row, req>>

New == [pc |-> "new", kind |-> "burn", refresh |-> FALSE, applied |-> FALSE, read |-> 0,
        answer |-> "none"]

Open == {q \in Request : req[q].pc \in {"submit", "read", "update"}}

Init ==
    /\ supply \in 0..MaxSupply
    /\ row \in 0..MaxSupply   \* a row starts with 0, or with what a seed put there
    /\ req = [q \in Request |-> New]

-----------------------------------------------------------------------------

Answer(q, a) == req' = [req EXCEPT ![q].pc = "done", ![q].answer = a]

\* The body is valid: the wallet built and signed the transaction before.
Receive(q) ==
    /\ req[q].pc = "new"
    /\ Cardinality(Open) < MaxOpen
    /\ \E kind \in {"issue", "burn"}, refresh \in BOOLEAN :
        req' = [req EXCEPT ![q] = [New EXCEPT !.pc = "submit", !.kind = kind,
                                              !.refresh = refresh]]
    /\ UNCHANGED <<supply, row>>

\* The ledger applies q's transaction.
Applies(q) ==
    /\ IF req[q].kind = "issue" THEN supply < MaxSupply ELSE supply > 0
    /\ supply' = IF req[q].kind = "issue" THEN supply + 1 ELSE supply - 1

\* submitSignedXdr succeeds; without refreshSupply the handler is done.
Submit(q) ==
    /\ req[q].pc = "submit"
    /\ Applies(q)
    /\ req' = [req EXCEPT ![q].applied = TRUE,
                          ![q].pc = IF req[q].refresh THEN "read" ELSE "done",
                          ![q].answer = IF req[q].refresh THEN "none" ELSE "ok"]
    /\ UNCHANGED row

\* Horizon refuses the transaction and says why.
Refuse(q) ==
    /\ req[q].pc = "submit"
    /\ Answer(q, "refused")
    /\ UNCHANGED <<supply, row>>

\* The connection is lost: an error without a response is answered as an invalid
\* transaction, whether the ledger applies it or not.
Lose(q) ==
    /\ req[q].pc = "submit"
    /\ \/ Applies(q) /\ req' = [req EXCEPT ![q].pc = "done", ![q].answer = "invalid",
                                           ![q].applied = TRUE]
       \/ UNCHANGED supply /\ Answer(q, "invalid")
    /\ UNCHANGED row

\* Slip: the new figure is computed from the recorded one.
DeriveSupply(q) ==
    /\ req[q].pc = "read"
    /\ req' = [req EXCEPT ![q].pc = "update",
                          ![q].read = IF req[q].kind = "issue" THEN row + 1 ELSE row - 1]
    /\ UNCHANGED <<supply, row>>

\* getTotalSupply
ReadSupply(q) ==
    /\ req[q].pc = "read"
    /\ req' = [req EXCEPT ![q].pc = "update", ![q].read = supply]
    /\ UNCHANGED <<supply, row>>

\* Horizon does not answer the second call: its error is mapped, as for a refusal, or
\* the connection is lost.
ReadFails(q) ==
    /\ req[q].pc = "read"
    /\ \E a \in {"unavailable", "invalid"} : Answer(q, a)
    /\ UNCHANGED <<supply, row>>

UpdateRow(q) ==
    /\ req[q].pc = "update"
    /\ row' = req[q].read
    /\ Answer(q, "ok")
    /\ UNCHANGED supply

\* The database's error has no response, so that it is answered as an invalid
\* transaction too.
UpdateFails(q) ==
    /\ req[q].pc = "update"
    /\ Answer(q, "invalid")
    /\ UNCHANGED <<supply, row>>

Next ==
    \E q \in Request :
        \/ Receive(q) \/ Submit(q) \/ Refuse(q) \/ Lose(q) \/ ReadSupply(q)
        \/ ReadFails(q) \/ UpdateRow(q) \/ UpdateFails(q)

Spec == Init /\ [][Next]_vars

-----------------------------------------------------------------------------
(* Properties *)

\* The variables have their types.
TypeOK ==
    /\ supply \in 0..MaxSupply
    /\ row \in 0..MaxSupply
    /\ req \in [Request -> [pc : {"new", "submit", "read", "update", "done"},
                            kind : {"issue", "burn"}, refresh : BOOLEAN,
                            applied : BOOLEAN, read : 0..MaxSupply,
                            answer : {"none", "ok", "refused", "unavailable", "invalid"}]]

\* A request with refreshSupply that is answered with success leaves the supply of
\* the ledger in the table, whatever earlier requests failed to record.
RefreshedMeansCurrent ==
    [][\A q \in Request :
          req[q].refresh /\ req[q].pc # "done" /\ req'[q].answer = "ok" => row' = supply']_vars

\* The answer "not a valid transaction" is given only when nothing was applied.
InvalidMeansNotApplied == \A q \in Request : req[q].answer = "invalid" => ~req[q].applied

=============================================================================
