---------------------------- MODULE HorizonErrors ----------------------------
(***************************************************************************)
(* What a failed call of Horizon becomes (backend/src/contracts/errors.ts,    *)
(* backend/src/api/utils/horizonError.ts, backend/src/api/middleware/         *)
(* errorHandler.ts).                                                         *)
(*                                                                         *)
(* A failure has the HTTP status of Horizon's answer (0: there was none), the  *)
(* code of the transaction, and those of its operations, if Horizon gave them. *)
(* Messages are reduced to the code they explain.                            *)
(***************************************************************************)
EXTENDS Integers, SequencesExt

CONSTANTS
    StatusCodes,     \* statuses of Horizon's answers
    Shared,          \* operation codes explained in both tables
    OnlyContracts,   \* ... in OPERATION_MESSAGES of contracts/errors.ts only
    OnlyRoutes,      \* ... in that of api/utils/horizonError.ts only
    Unexplained,     \* ... in neither
    MaxOperations    \* bound: operations of a transaction

OpCodes == {"op_success"} \cup Shared \cup OnlyContracts \cup OnlyRoutes \cup Unexplained
TxCodes == {"none", "tx_failed", "tx_bad_seq", "tx_insufficient_balance", "tx_unheard_of"}

\* The keys of TRANSACTION_MESSAGES, alike in both files as far as TxCodes go.
ExplainedTx == {"tx_failed", "tx_bad_seq", "tx_insufficient_balance"}

\* What Horizon can answer: result codes come with 400, those of operations with tx_failed
\* and one of them a failure.
Failures ==
    {[status |-> s, tx |-> "none", ops |-> <<>>] : s \in StatusCodes \cup {0}}
    \cup {[status |-> 400, tx |-> t, ops |-> <<>>] : t \in TxCodes \ {"none", "tx_failed"}}
    \cup {[status |-> 400, tx |-> "tx_failed", ops |-> ops] :
             ops \in {o \in SeqOf(OpCodes, MaxOperations) : \E i \in DOMAIN o : o[i] # "op_success"}}

-----------------------------------------------------------------------------
(* contracts/errors.ts *)

\* firstFailedOperation; {} if there is none.
FirstFailedOperation(ops) ==
    LET failed == {i \in DOMAIN ops : ops[i] # "op_success"}
    IN  {ops[i] : i \in {n \in failed : \A m \in failed : n <= m}}

\* describeResultCodes: an operation's code before the transaction's; {} if there is none.
DescribeResultCodes(f) ==
    IF FirstFailedOperation(f.ops) # {} THEN FirstFailedOperation(f.ops)
    ELSE IF f.tx # "none" THEN {f.tx} ELSE {}

\* Slip: every status of Horizon is passed on.
MapStatusAsIs(status) == status

\* mapStatus
MapStatus(status) == IF status \in {400, 404, 429} THEN status ELSE 502

\* toStellarError: the codes explain a failure unless its status does.
ToStellarError(f) ==
    [status |-> MapStatus(f.status),
     about |-> IF f.status \in {404, 429} THEN {} ELSE DescribeResultCodes(f)]

-----------------------------------------------------------------------------
(* api/utils/horizonError.ts *)

\* mapHorizonError of what the SDK threw: only the first operation is looked at.
MapRaw(f) ==
    LET first == IF f.ops = <<>> THEN {} ELSE {Head(f.ops)}
    IN  CASE first \cap (Shared \cup OnlyRoutes) # {} -> [status |-> 422, about |-> first]
          [] first \cap (Shared \cup OnlyRoutes) = {} /\ f.tx \in ExplainedTx ->
                [status |-> IF f.tx = "tx_insufficient_balance" THEN 402 ELSE 422,
                 about |-> {f.tx}]
          [] OTHER -> [status |-> IF f.status = 404 THEN 404 ELSE 502, about |-> {}]

\* mapHorizonError of a StellarError.
MapStellarError(e) == e

\* resolveStatus of errorHandler: a StellarError has a status, what the SDK threw has that
\* of Horizon's answer.
ResolveStatus(f, mapped) ==
    IF mapped THEN ToStellarError(f).status ELSE IF f.status # 0 THEN f.status ELSE 500

-----------------------------------------------------------------------------
(* The reference *)

Ours == 400..499

\* The network judged the transaction; sending it again changes nothing.
Judged(f) == f.tx # "none"

\* What follows from an error's status: the network's own trouble is never put down to
\* the caller, and what the network refused is never called a trouble of the gateway,
\* where contracts/errors.ts mapped the failure, and where a route did and knew the code.
RightlyBlamed(f) ==
    LET e == ToStellarError(f)
        raw == MapRaw(f)
        told == MapStellarError(e)
    IN  /\ Judged(f) => told.status \in Ours /\ ResolveStatus(f, TRUE) \in Ours
        /\ f.tx \in ExplainedTx => raw.status \in Ours
        /\ f.status = 0 \/ f.status >= 500 => told.status = 502 /\ raw.status = 502
        \* The code a caller is told is one that failed, and the first.
        /\ \A c \in told.about : c # "op_success"
        /\ f.ops # <<>> => \A c \in told.about :
              \E i \in DOMAIN f.ops : f.ops[i] = c /\ \A j \in 1..(i - 1) : f.ops[j] = "op_success"

\* errors.ts:11-13 "the original Horizon response, so api/utils/horizonError.ts ... maps a
\* bubbled-up StellarError exactly as it maps a raw Horizon error".
MappedAlike(f) == MapStellarError(ToStellarError(f)).status = MapRaw(f).status

=============================================================================
