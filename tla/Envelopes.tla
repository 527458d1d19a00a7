------------------------------ MODULE Envelopes ------------------------------
(***************************************************************************)
(* Four readers of what is handed in as a transaction envelope: validateXdr   *)
(* (backend/src/contracts/xdrValidation.ts), deserializeXdr (xdrDetails.ts),   *)
(* POST /tokens/transfer with api/utils/stellarTransaction.ts, and the        *)
(* ledger.  Each is a function of the input.                                 *)
(*                                                                         *)
(* The SDK decodes.  An envelope does not say which network it was signed     *)
(* for.  An operation is known by its type, the account it names as its own    *)
(* source, and the assets that leave and arrive; amounts are of one unit, fees *)
(* of the bumped and of the other kind differ, and wording is left out.       *)
(***************************************************************************)
EXTENDS TimeBounds, SequencesExt

CONSTANTS
    Windows,         \* the time bounds of envelopes, {} where there are none
    MaxContents      \* bound: operations of an envelope

None == "none"

-----------------------------------------------------------------------------
(* Inputs *)

\* Operations without an asset, and those with one that leaves and one that arrives.
Other == {"createAccount", "changeTrust", "accountMerge", "manageData", "setOptions",
          "bumpSequence", "inflation"}
PathPayments == {"pathPaymentStrictSend", "pathPaymentStrictReceive"}

Operation ==
    [type : Other, source : {None}, leaves : {None}, arrives : {None}]
        \cup [type : PathPayments, source : {None}, leaves : {"XLM"}, arrives : {"token"}]
        \cup {op \in [type : {"payment"}, source : {None, "member"}, leaves : {"XLM", "token"},
                      arrives : {"XLM", "token"}] : op.leaves = op.arrives}

Transaction ==
    [source : {"signer"}, fee : {1}, operations : SeqOf(Operation, MaxContents),
     bounds : Windows, memo : {"none", "text", "hash"}]

\* What cannot be decoded, and why.
Undecodable ==
    [notAString |-> "must be a string", blank |-> "cannot be empty", notBase64 |-> "not base64",
     unknownType |-> "type not recognised", truncated |-> "malformed", strange |-> "undecodable"]

Envelope ==
    [shape : {"transaction"}, tx : Transaction, feeSource : {None}, fee : {1}]
        \cup [shape : {"feeBump"}, tx : Transaction, feeSource : {"sponsor"}, fee : {2}]

Inputs == [shape : DOMAIN Undecodable] \cup Envelope

Decodes(x) == x.shape \notin DOMAIN Undecodable

Window(bounds) == IF bounds = {} THEN [lo |-> 0, hi |-> 0] ELSE The(bounds)

-----------------------------------------------------------------------------
(* validateXdr *)

ValidateTransaction(tx, now) ==
    LET hi == Window(tx.bounds).hi
    IN  CASE tx.operations = <<>> -> "no operations"
          [] tx.operations # <<>> /\ hi > 0 /\ hi < now -> "expired"
          [] OTHER -> "valid"

\* Slip: a fee bump is not looked into.
ValidateOuter(x, now) ==
    IF x.shape = "feeBump" THEN "valid" ELSE ValidateTransaction(x.tx, now)

\* A fee bump is as good as the transaction in it.
ValidateEnvelope(x, now) ==
    IF x.shape = "feeBump" /\ x.feeSource = None THEN "no fee source"
    ELSE ValidateTransaction(x.tx, now)

ValidateXdr(x, now) ==
    IF Decodes(x) THEN ValidateEnvelope(x, now) ELSE Undecodable[x.shape]

-----------------------------------------------------------------------------
(* deserializeXdr *)

\* The summary of a path payment names the asset that leaves, its asset field the one that
\* arrives, and both the amount that is exact.
DescribeOperation(op, index) ==
    LET shown == [index |-> index, type |-> op.type, sourceAccount |-> op.source,
                  destination |-> op.type \in {"payment", "createAccount", "accountMerge"} \cup PathPayments,
                  asset |-> None, amountOf |-> None, summaryOf |-> None]
    IN  CASE op.type = "payment" ->
               [shown EXCEPT !.asset = op.arrives, !.amountOf = op.arrives, !.summaryOf = op.arrives]
          [] op.type \in PathPayments ->
               [shown EXCEPT !.asset = op.arrives, !.summaryOf = op.leaves,
                             !.amountOf = IF op.type = "pathPaymentStrictSend" THEN op.leaves
                                                                               ELSE op.arrives]
          [] op.type = "createAccount" -> [shown EXCEPT !.asset = "XLM"]
          [] op.type = "changeTrust" -> [shown EXCEPT !.asset = "token"]
          [] OTHER -> shown

\* toIso of a bound
Iso(seconds) == IF seconds <= 0 THEN None ELSE seconds

DecodeMemo(memo) == [type |-> memo, value |-> IF memo = "none" THEN None ELSE memo]

\* One operation is summarised, several are counted; a text memo is quoted.
Summarise(operations, memo) ==
    [head |-> IF Len(operations) = 1 THEN operations[1].type ELSE Len(operations),
     quotes |-> memo.type = "text"]

DescribeTransaction(tx) ==
    LET operations == [i \in DOMAIN tx.operations |-> DescribeOperation(tx.operations[i], i)]
        w == Window(tx.bounds)
    IN  [sourceAccount |-> tx.source, fee |-> tx.fee, operations |-> operations,
         memo |-> DecodeMemo(tx.memo),
         timeBounds |-> IF tx.bounds = {} THEN None ELSE [minIso |-> Iso(w.lo), maxIso |-> Iso(w.hi)],
         summary |-> Summarise(operations, DecodeMemo(tx.memo)),
         feeSource |-> None, bumpFee |-> 0]

\* What is shown of a decodable input; for one that is not, XdrDecodeError says why.
DeserializeXdr(x) ==
    IF x.shape = "feeBump"
    THEN [DescribeTransaction(x.tx) EXCEPT !.feeSource = x.feeSource, !.bumpFee = x.fee]
    ELSE DescribeTransaction(x.tx)

DecodeError(x) == IF Decodes(x) THEN "none" ELSE Undecodable[x.shape]

-----------------------------------------------------------------------------
(* POST /tokens/transfer *)

\* Exactly one operation, a payment.
TakesTransfer(x) == Decodes(x) /\ Len(x.tx.operations) = 1 /\ x.tx.operations[1].type = "payment"

\* getTransactionSource: the operation's own source, or the transaction's, which a fee bump
\* of the SDK does not have.
TransactionSource(x) ==
    LET own == x.tx.operations[1].source
    IN  IF own # None THEN own ELSE IF x.shape = "feeBump" THEN None ELSE x.tx.source

\* getRequiredXlmForTransaction: the fee and what native payments send.
RequiredXlm(x) ==
    x.fee + Cardinality({i \in DOMAIN x.tx.operations :
                            x.tx.operations[i].type = "payment" /\ x.tx.operations[i].leaves = "XLM"})

-----------------------------------------------------------------------------
(* Properties *)

\* The ledger, for which a transaction needs operations, and a moment at which it can be
\* included.
CanBeIncluded(tx, now) ==
    /\ tx.operations # <<>>
    /\ \E t \in now..(now + MaxUnix) : Includes(Window(tx.bounds), t)

\* A window that ends before it begins.
Inverted(tx) == LET w == Window(tx.bounds) IN w.hi # 0 /\ w.hi < w.lo

\* What resolveTimeBounds gives a transaction is a window validateXdr accepts.
BuiltIsValid(tx, bounds, now) ==
    Resolvable(bounds, now) /\ tx.operations # <<>> =>
        ValidateTransaction([tx EXCEPT !.bounds = {Resolve(bounds, now)}], now) = "valid"

\* Readers of one envelope do not contradict each other.  validateXdr accepts what the ledger
\* can include from now on and rejects the rest (an inverted window apart), and gives the
\* reason deserializeXdr gives.  deserializeXdr shows every operation in its place, and of
\* an amount the asset it is of, except for path payments.  A transfer debits the account
\* that is shown as its source, except in a fee bump without one of its own, and needs the
\* fee and the XLM that are shown.
ReadersAgree(x, now) ==
    IF ~Decodes(x) THEN ValidateXdr(x, now) = DecodeError(x) /\ DecodeError(x) # "none"
    ELSE
      LET details == DeserializeXdr(x)
          shown == details.operations
          source == IF shown[1].sourceAccount # None THEN shown[1].sourceAccount
                    ELSE details.sourceAccount
      IN  /\ Inverted(x.tx) \/ (ValidateXdr(x, now) = "valid" <=> CanBeIncluded(x.tx, now))
          /\ [i \in DOMAIN shown |-> shown[i].type] = [i \in DOMAIN x.tx.operations |-> x.tx.operations[i].type]
          /\ \A i \in DOMAIN shown : shown[i].type \notin PathPayments =>
                shown[i].amountOf \in {None, shown[i].asset} /\ shown[i].summaryOf = shown[i].amountOf
          /\ TakesTransfer(x) =>
                /\ shown[1].destination /\ details.summary.head = "payment"
                /\ TransactionSource(x) = source \/ (x.shape = "feeBump" /\ TransactionSource(x) = None)
                /\ RequiredXlm(x) = (IF details.feeSource = None THEN details.fee ELSE details.bumpFee)
                                      + (IF shown[1].asset = "XLM" THEN 1 ELSE 0)

=============================================================================
