----------------------------- MODULE Trustlines -----------------------------
(***************************************************************************)
(* A holder's trustline to a community token                               *)
(* (backend/src/contracts/trustlines.ts, backend/src/api/routes/            *)
(* trustlines.ts): establishing and revoking it for the holder, setting its  *)
(* flags for the issuer, and building a changeTrust for a wallet to sign.    *)
(*                                                                         *)
(* The ledger is external.  It keeps at most one line, which lives on while  *)
(* it holds a balance or an open offer, and it alone judges an operation;    *)
(* payments and offers of others move between any two steps of a request.    *)
(***************************************************************************)
EXTENDS Integers, SequencesExt

CONSTANTS
    Request,
    MaxLimit,    \* bound: the largest limit and balance, in tokens
    MaxMoves     \* bound: payments and offers of others

VARIABLES
    line,        \* the trustline, a set of at most one
    moves,
    queue,       \* the requests that wait for the holder's turn
    req          \* req[r]: its operation, what it read, and its answer

vars == <<line, moves, queue, req>>

\* Authorization: none, to maintain liabilities, or both flags' legal combinations.
AuthFlags == {{}, {"maintain"}, {"full"}}

Lines == [limit : 1..MaxLimit, balance : 0..MaxLimit, offers : 0..1, auth : AuthFlags]

\* What a request may ask of the line.  Flags are sets to set and to clear; what is in
\* neither is omitted.
ChangeTrust(limit) == [op |-> "changeTrust", limit |-> limit, set |-> {}, clear |-> {}]
SetFlags(set, clear) == [op |-> "setTrustLineFlags", limit |-> 0, set |-> set, clear |-> clear]

New == [pc |-> "new", kind |-> "none", does |-> ChangeTrust(0), seen |-> {}, answer |-> "none"]

Init ==
    /\ line \in {{}} \cup {{l} : l \in {k \in Lines : k.balance <= k.limit}}
    /\ moves = 0
    /\ queue = <<>>
    /\ req = [r \in Request |-> New]

Line == CHOOSE l \in line : TRUE

TypeOK ==
    /\ line \subseteq {l \in Lines : l.balance <= l.limit}
    /\ IsInjective(queue)
    /\ \A r \in Request : req[r].pc \in {"new", "read", "queued", "send", "wallet", "done"}

-----------------------------------------------------------------------------
(* The operations *)

Start(r, kind, does, pc) ==
    /\ req[r].pc = "new"
    /\ req' = [req EXCEPT ![r] = [New EXCEPT !.kind = kind, !.does = does, !.pc = pc]]
    /\ queue' = IF pc = "queued" THEN Append(queue, r) ELSE queue
    /\ UNCHANGED <<line, moves>>

End(r, answer) ==
    /\ req' = [req EXCEPT ![r].pc = "done", ![r].answer = answer]
    /\ queue' = SelectSeq(queue, LAMBDA q : q # r)

\* establishTrustline asks nothing of the ledger before its turn.
EstablishTrustline(r, limit) == Start(r, "establish", ChangeTrust(limit), "queued")

\* revokeTrustline looks first.
RevokeTrustline(r) == Start(r, "revoke", ChangeTrust(0), "read")

\* POST /trustlines/build: the wallet signs, and sends it when it pleases.
BuildUnsignedTrustline(r, limit) == Start(r, "unsigned", ChangeTrust(limit), "wallet")

\* setTrustlineFlags loads the issuer, outside the turns.  It refuses to ask for nothing.
SetTrustlineFlags(r, kind, set, clear) ==
    /\ set \cup clear # {}
    /\ Start(r, kind, SetFlags(set, clear), "send")

AuthorizeTrustline(r) == SetTrustlineFlags(r, "authorize", {"full"}, {})

\* keepLiabilities decides what happens to the weaker flag.
RevokeTrustlineAuthorization(r, keepLiabilities) ==
    IF keepLiabilities
    THEN SetTrustlineFlags(r, "deauthorize", {"maintain"}, {"full"})
    ELSE SetTrustlineFlags(r, "deauthorize", {}, {"full", "maintain"})

\* Slip: open offers are not looked at.
RevocableIgnoringOffers(lines) == \A l \in lines : l.balance = 0

\* Pre-flight: the line exists and nothing keeps it alive.
Revocable(lines) ==
    /\ lines # {}
    /\ \A l \in lines : l.balance = 0 /\ l.offers = 0

\* revokeTrustline reads the line and refuses, with 404 or 409, or waits for its turn.
Preflight(r) ==
    /\ req[r].pc = "read"
    /\ IF Revocable(line)
       THEN /\ req' = [req EXCEPT ![r].pc = "queued", ![r].seen = line]
            /\ queue' = Append(queue, r)
       ELSE End(r, IF line = {} THEN "404" ELSE "409")
    /\ UNCHANGED <<line, moves>>

\* Loading the account fails, here or before a transaction is built.
LoadFails(r) ==
    /\ \/ req[r].pc = "read"
       \/ req[r].pc = "queued" /\ Head(queue) = r
       \/ req[r].pc = "send" /\ req[r].does.op = "setTrustLineFlags"
    /\ End(r, "unknown")
    /\ UNCHANGED <<line, moves>>

\* withSequenceRetry: the request's turn has come.
Turn(r) ==
    /\ req[r].pc = "queued" /\ Head(queue) = r
    /\ req' = [req EXCEPT ![r].pc = "send"]
    /\ UNCHANGED <<line, moves, queue>>

WalletSends(r) ==
    /\ req[r].pc = "wallet"
    /\ req' = [req EXCEPT ![r].pc = "send"]
    /\ UNCHANGED <<line, moves, queue>>

-----------------------------------------------------------------------------
(* The ledger (external) *)

\* changeTrust: a limit below what the line must be able to hold is refused, and so is
\* the removal of a line that does not exist.
TrustCode(limit) ==
    CASE line = {} /\ limit = 0 -> "op_invalid_limit"
      [] line # {} /\ limit < Line.balance + Line.offers -> "op_invalid_limit"
      [] OTHER -> "op_success"

Trusted(limit) ==
    IF limit = 0 THEN {}
    ELSE IF line = {} THEN {[limit |-> limit, balance |-> 0, offers |-> 0, auth |-> {"full"}]}
    ELSE {[Line EXCEPT !.limit = limit]}

\* setTrustLineFlags: both kinds of authorization at once are no state of a line.
\* Without any authorization its open offers are removed.
FlagsCode(set, clear) ==
    CASE line = {} -> "op_no_trust_line"
      [] line # {} /\ (Line.auth \ clear) \cup set \notin AuthFlags -> "op_invalid_state"
      [] OTHER -> "op_success"

Flagged(set, clear) ==
    LET auth == (Line.auth \ clear) \cup set
    IN  {[Line EXCEPT !.auth = auth, !.offers = IF auth = {} THEN 0 ELSE @]}

Code(does) ==
    IF does.op = "changeTrust" THEN TrustCode(does.limit) ELSE FlagsCode(does.set, does.clear)

Apply(does) ==
    /\ Code(does) = "op_success"
    /\ line' = IF does.op = "changeTrust" THEN Trusted(does.limit)
               ELSE Flagged(does.set, does.clear)

-----------------------------------------------------------------------------
(* Submitting *)

Applied(r) ==
    /\ req[r].pc = "send"
    /\ Apply(req[r].does)
    /\ End(r, "ok")
    /\ UNCHANGED moves

\* Refused for the operation, or for the transaction as a whole.
Refused(r) ==
    /\ req[r].pc = "send"
    /\ \/ Code(req[r].does) # "op_success" /\ End(r, Code(req[r].does))
       \/ End(r, "tx_refused")
    /\ UNCHANGED <<line, moves>>

\* The connection is lost, and the transaction applied or not.
Lost(r) ==
    /\ req[r].pc = "send"
    /\ \/ Apply(req[r].does)
       \/ UNCHANGED line
    /\ End(r, "unknown")
    /\ UNCHANGED moves

\* Others pay the holder, are paid by him, and his offers come and go, as the line allows.
Move ==
    /\ moves < MaxMoves
    /\ line # {} /\ Line.auth = {"full"}
    /\ line' \in {{l} : l \in {k \in Lines :
                      /\ k.limit = Line.limit /\ k.auth = Line.auth
                      /\ k.balance + k.offers <= k.limit
                      /\ k.balance \in (Line.balance - 1)..(Line.balance + 1)}}
    /\ line' # line
    /\ moves' = moves + 1
    /\ UNCHANGED <<queue, req>>

Next ==
    \/ \E r \in Request, limit \in 1..MaxLimit :
          EstablishTrustline(r, limit) \/ BuildUnsignedTrustline(r, limit)
    \/ \E r \in Request :
          \/ RevokeTrustline(r) \/ AuthorizeTrustline(r)
          \/ \E keep \in BOOLEAN : RevokeTrustlineAuthorization(r, keep)
          \/ Preflight(r) \/ LoadFails(r) \/ Turn(r) \/ WalletSends(r)
          \/ Applied(r) \/ Refused(r) \/ Lost(r)
    \/ Move

Spec == Init /\ [][Next]_vars

-----------------------------------------------------------------------------
(* Properties *)

\* The checks before a revocation are those of the ledger: one that passes them is
\* refused for its limit only when the line has changed since it was read, and one that
\* fails them would have been refused.
PreflightIsExact ==
    [][\A r \in Request :
          req[r].kind = "revoke" /\ req'[r].pc = "done" /\ req[r].pc # "done" =>
              /\ req'[r].answer = "op_invalid_limit" => line # req[r].seen
              /\ req'[r].answer \in {"404", "409"} => TrustCode(0) # "op_success"]_vars

\* trustlines.ts:429-430 "Grants a holder full authorization to use the asset": on a line
\* that exists the ledger finds nothing wrong with what authorizeTrustline asks.
AuthorizeGrants == \A r \in Request : req[r].kind = "authorize" => req[r].answer # "op_invalid_state"

=============================================================================
