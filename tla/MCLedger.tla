-------------------------------- MODULE MCLedger --------------------------------
(***************************************************************************)
(* What the server asks of the Stellar network and makes of its answers:       *)
(* payments, trustlines, the recorded supply, signatures, failures and envelopes. *)
(* They share no state, so each behaviour is one component's, named by part, while *)
(* the others rest: the run explores the sum of their states.  The last two are    *)
(* functions, of one failure and of one envelope.                              *)
(***************************************************************************)
EXTENDS Payments, TLC

CONSTANTS
    anything, burn,
    Submission, MaxOpen, MaxSupply,                          \* of TokenSupply
    Change, MaxLimit, MaxMoves,                              \* of Trustlines
    StatusCodes, Shared, OnlyContracts, OnlyRoutes, Unexplained, MaxOperations,
    Key, MaxWeight, MaxThreshold,                            \* of Signatures
    Windows, MaxContents                                     \* of Envelopes

VARIABLES
    part,
    supply, row, submission,
    line, moves, queue, change,
    account, distributor, told, signed, stage, reply,
    failure, envelope

Supply == INSTANCE TokenSupply WITH Request <- Submission, req <- submission
Trust == INSTANCE Trustlines WITH Request <- Change, req <- change
Errors == INSTANCE HorizonErrors
Signing == INSTANCE Signatures
Reading == INSTANCE Envelopes

payments == <<now, holds, locked, trusts, queues, req>>
supplies == <<supply, row, submission>>
trustlines == <<line, moves, queue, change>>
signatures == <<account, distributor, told, signed, stage, reply>>
inputs == <<failure, envelope>>

NoFailure == [status |-> 0, tx |-> "none", ops |-> <<>>]
NoEnvelope == [shape |-> "blank"]

LedgerInit ==
    /\ part \in {"supply", "payments", "trustlines", "signatures", "failures", "envelopes"}
    /\ Supply!Init /\ Init /\ Trust!Init /\ Signing!Init
    /\ part # "supply" => supply = 0 /\ row = 0
    /\ part # "payments" => trusts = {}
    /\ part # "trustlines" => line = {}
    /\ part # "signatures" => distributor = {} /\ account = [weight |-> [k \in Key |-> 0], threshold |-> 0]
    /\ IF part = "failures" THEN failure \in Errors!Failures ELSE failure = NoFailure
    /\ IF part = "envelopes" THEN envelope \in Reading!Inputs ELSE envelope = NoEnvelope

LedgerNext ==
    /\ UNCHANGED <<part, inputs>>
    /\ \/ part = "supply" /\ Supply!Next /\ UNCHANGED <<payments, trustlines, signatures>>
       \/ part = "payments" /\ Next /\ UNCHANGED <<supplies, trustlines, signatures>>
       \/ part = "trustlines" /\ Trust!Next /\ UNCHANGED <<supplies, payments, signatures>>
       \/ part = "signatures" /\ Signing!Next /\ UNCHANGED <<supplies, payments, trustlines>>

LedgerSpec == LedgerInit /\ [][LedgerNext]_<<part, supplies, payments, trustlines, signatures, inputs>>

-----------------------------------------------------------------------------
(* Values of the constants *)

\* Bounds around the present and the last moment.
Boundaries ==
    {NoBounds, [min |-> {}, max |-> {0}], [min |-> {3}, max |-> {}], [min |-> {2}, max |-> {3}]}

\* Windows around the moment at which an envelope is read.
Moment == 2
EnvelopeWindows ==
    {{}} \cup {{[lo |-> w[1], hi |-> w[2]]} : w \in {<<0, 0>>, <<0, 1>>, <<0, 2>>, <<2, 3>>, <<3, 0>>, <<3, 2>>}}

Everything == {"issueAsset", "burnAsset", "distributeAsset", "submitPayment",
               "submitBatchPayment", "buildAirdrop", "buildIssue", "buildBurn", "buildUnsigned",
               "createClaimable", "claim", "manageData"}

\* One request of any operation, and one that burns meanwhile.
OneOfEach == (anything :> Everything) @@ (burn :> {"burnAsset"})

\* No property names one of them, and none is a liveness property.
Symmetry == Permutations(Account \ {Issuer})

-----------------------------------------------------------------------------
(* Properties *)

\* TokenSupply: while submissions follow one another, a refresh that is answered with
\* success leaves the ledger's supply in the table.
RefreshedMeansCurrent == Supply!RefreshedMeansCurrent

\* Trustlines: the checks before a revocation are those of the ledger.
PreflightIsExact == Trust!PreflightIsExact

\* HorizonErrors: what the network refused is the caller's to mend, what it could not do
\* is not, and the code that is told is the one that failed.
RightlyBlamed == part = "failures" => Errors!RightlyBlamed(failure)

\* Signatures: as many signatures as a caller is told suffice, and fewer never do.
FewestSuffice == Signing!FewestSuffice

\* Envelopes: what validates, describes, debits and includes one envelope reads the same in
\* it; and what timeBounds.ts resolves, xdrValidation.ts accepts.
ReadersAgree ==
    part = "envelopes" =>
        /\ Reading!ReadersAgree(envelope, Moment)
        /\ Reading!Decodes(envelope) => \A b \in Bounds : Reading!BuiltIsValid(envelope.tx, b, Moment)

-----------------------------------------------------------------------------
(* What a comment says and the code does not do *)

\* HorizonErrors: errors.ts:11-13 "maps a bubbled-up StellarError exactly as it maps a raw
\* Horizon error".
MappedAlike == part = "failures" => Errors!MappedAlike(failure)

=============================================================================
