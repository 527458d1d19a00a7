------------------------------ MODULE Signatures ------------------------------
(***************************************************************************)
(* A payment from an account of several signers: who has to sign is read from  *)
(* the account (backend/src/contracts/transactions.ts: buildMultiSigPayment),   *)
(* then signatures are collected from wallets and from the server (signing.ts), *)
(* and the envelope is submitted.                                            *)
(*                                                                         *)
(* The ledger goes through the signatures in the order of the envelope until    *)
(* their weight suffices.  It refuses an envelope that falls short and also one  *)
(* with a signature it did not need (tx_bad_auth_extra).                       *)
(***************************************************************************)
EXTENDS Integers, SequencesExt

CONSTANTS
    Key,
    MaxWeight,       \* bound: the largest weight
    MaxThreshold     \* bound: the largest threshold

VARIABLES
    account,      \* weights of its keys, and its medium threshold
    distributor,  \* STELLAR_DISTRIBUTOR_PUBLIC_KEY, {} where it is not set
    told,         \* what buildMultiSigPayment returned
    signed,       \* the signatures of the envelope, in its order
    stage,        \* of the envelope
    reply         \* what signTransactionWithSecret did last

vars == <<account, distributor, told, signed, stage, reply>>

Accounts == [weight : [Key -> 0..MaxWeight], threshold : 0..MaxThreshold]

Nothing == [signers |-> <<>>, required |-> 0, available |-> 0, minimum |-> 0]

Init ==
    /\ account \in Accounts
    /\ distributor \in {{}} \cup {{k} : k \in Key}
    /\ told = Nothing /\ signed = <<>> /\ stage = "new" /\ reply = "none"

-----------------------------------------------------------------------------
(* buildMultiSigPayment *)

\* Signers of no weight are not listed.
Signers == {k \in Key : account.weight[k] > 0}

\* Slip: in whatever order Horizon lists them.
AsListed == SetToSeqs(Signers)

\* Heaviest first, those of one weight by the spelling of their keys.
HeaviestFirst ==
    {order \in SetToSeqs(Signers) :
        \A i, j \in DOMAIN order : i < j => account.weight[order[i]] >= account.weight[order[j]]}

WeightOf(keys) == FoldSet(LAMBDA k, total : total + account.weight[k], 0, keys)

AvailableWeight == WeightOf(Signers)

\* The loop takes signers until their weight suffices.
FirstOf(order, n) == {order[i] : i \in 1..n}
MinimumSignatures(order) ==
    CHOOSE n \in 0..Len(order) :
        /\ WeightOf(FirstOf(order, n)) >= account.threshold
        /\ \A m \in 0..(n - 1) : WeightOf(FirstOf(order, m)) < account.threshold

\* Bad parameters and a payment nobody can authorize are refused.
BuildMultiSigPayment ==
    /\ stage = "new"
    /\ \/ /\ AvailableWeight >= account.threshold
          /\ \E order \in HeaviestFirst :
                told' = [signers |-> order, required |-> account.threshold,
                         available |-> AvailableWeight, minimum |-> MinimumSignatures(order)]
          /\ stage' = "collecting"
       \/ stage' = "refused" /\ UNCHANGED told
    /\ UNCHANGED <<account, distributor, signed, reply>>

-----------------------------------------------------------------------------
(* Collecting *)

\* The caller asks as many signers as he was told, the heaviest.
Asked == FirstOf(told.signers, told.minimum)

\* A wallet signs, when it is asked.
WalletSigns(k) ==
    /\ stage = "collecting" /\ k \in Asked \ ToSet(signed)
    /\ signed' = Append(signed, k)
    /\ UNCHANGED <<account, distributor, told, stage, reply>>

\* assertAllowed: with nobody allowed nothing is signed.
Allowed(k, allowed) ==
    CASE allowed = {} -> "not configured"
      [] allowed # {} /\ k \notin allowed -> "not allowed"
      [] OTHER -> "allowed"

\* hasSignature
HasSignature(k) == k \in ToSet(signed)

\* signTransactionWithSecret signs for the keys its caller allows, or for the
\* distributor, once.  It may be called again, and with what is no envelope or secret.
SignTransactionWithSecret(k, allowed) ==
    /\ stage = "collecting" /\ k \in Asked
    /\ \/ reply' = "invalid" /\ UNCHANGED signed
       \/ /\ reply' = Allowed(k, allowed)
          /\ signed' = IF reply' # "allowed" \/ HasSignature(k) THEN signed ELSE Append(signed, k)
    /\ UNCHANGED <<account, distributor, told, stage>>

\* The ledger's verdict (external).  An envelope nobody signed is refused also where the
\* threshold is 0.
Enough(n) == n > 0 /\ WeightOf(FirstOf(signed, n)) >= account.threshold
Verdict ==
    CASE ~Enough(Len(signed)) -> "tx_bad_auth"
      [] Enough(Len(signed)) /\ (\E n \in 1..(Len(signed) - 1) : Enough(n)) -> "tx_bad_auth_extra"
      [] OTHER -> "applied"

\* Everybody who was asked has signed.
Submit ==
    /\ stage = "collecting" /\ Asked = ToSet(signed)
    /\ stage' = Verdict
    /\ UNCHANGED <<account, distributor, told, signed, reply>>

Next ==
    \/ BuildMultiSigPayment \/ Submit
    \/ \E k \in Key :
          \/ WalletSigns(k)
          \/ \E allowed \in {distributor, {k}} : SignTransactionWithSecret(k, allowed)

Spec == Init /\ [][Next]_vars

-----------------------------------------------------------------------------
(* Properties *)

\* Whoever collects as many signatures as he is told gets the payment through, in whatever
\* order they come and however often the server is asked to sign; and no smaller number of
\* signers could have.  (A threshold of 0 needs nobody, says the code; see the README.)
FewestSuffice ==
    /\ stage \in {"tx_bad_auth", "tx_bad_auth_extra"} => told.required = 0
    /\ stage = "collecting" =>
          \A keys \in SUBSET Key : WeightOf(keys) >= told.required => Cardinality(keys) >= told.minimum

=============================================================================
