------------------------------ MODULE Payments ------------------------------
(***************************************************************************)
(* Payments of a community token (backend/src/contracts: assets.ts,         *)
(* transactions.ts, batchPayments.ts, claimableBalance.ts, manageData.ts,     *)
(* feeBump.ts; backend/src/api/routes/tokens.ts).                           *)
(* Some are signed by the server and submitted at once, in turns of their    *)
(* account or directly; others are built for a wallet to sign, which sends   *)
(* them to /tokens/submit or /tokens/transfer when it pleases.               *)
(*                                                                         *)
(* A payment is of one unit; a request is the sequence of accounts it pays.  *)
(* The ledger is external: it applies all payments of a transaction in order *)
(* or none, within its window, and reports a code for each.  Sequence        *)
(* numbers are SequenceCache's; here they are one more reason to refuse.     *)
(* Who trusts the token is fixed; Trustlines is about changes of that.       *)
(***************************************************************************)
EXTENDS TimeBounds, SequencesExt

CONSTANTS
    Account,     \* Stellar accounts
    Issuer,      \* the token's issuer, one of them
    Request,
    Kinds,       \* bound: Kinds[r], the operations request r may be
    Bounds,      \* the time bounds callers give
    Limit,       \* the limit of every trustline
    MaxBatch,    \* MAX_BATCH_PAYMENTS
    MaxSends,    \* HORIZON_RETRY_CONFIG.maxAttempts
    MaxTime      \* bound: the last moment

ASSUME AccountAssumption == IsFiniteSet(Account) /\ Issuer \in Account

ASSUME LimitAssumption == Limit \in Nat

\* A caller's bounds are whole seconds.
ASSUME BoundsAssumption ==
    \A b \in Bounds : b.min \subseteq Int /\ b.max \subseteq Int

VARIABLES
    now,
    holds,     \* holds[a]: the units a holds
    locked,    \* locked[a]: claimable balances of one unit that a may claim
    trusts,    \* accounts with a trustline
    queues,    \* queues[a]: the requests that wait for a's turn
    req        \* req[r]: the request, its transaction, and what became of it

vars == <<now, holds, locked, trusts, queues, req>>
ledger == <<now, holds, locked, trusts>>

NoWindow == [lo |-> 0, hi |-> 0]
NoBounds == [min |-> {}, max |-> {}]
New == [pc |-> "new", kind |-> "none", from |-> Issuer, pays |-> <<>>, bounds |-> NoBounds,
        since |-> 0, window |-> NoWindow, sends |-> 0, codes |-> <<>>, blame |-> 0,
        answer |-> "none"]

Init ==
    /\ now = 1
    /\ trusts \in SUBSET (Account \ {Issuer})
    /\ holds = [a \in Account |-> IF a \in trusts THEN 1 ELSE 0]
    /\ locked = [a \in Account |-> 1]
    /\ queues = [a \in Account |-> <<>>]
    /\ req = [r \in Request |-> New]

Enqueue(r, a) == queues' = [queues EXCEPT ![a] = Append(@, r)]

\* The request is answered and keeps nothing else; if it had the turn, the next one has it.
End(r, answer) ==
    /\ req' = [req EXCEPT ![r] = [New EXCEPT !.pc = "done", !.answer = answer]]
    /\ queues' = [a \in Account |-> SelectSeq(queues[a], LAMBDA q : q # r)]

\* The request ends without a transaction.
Invalid(r) == End(r, "invalid") /\ UNCHANGED ledger

\* The request waits for its turn, or loads the account itself.
Await(r, from, request) ==
    /\ req' = [req EXCEPT ![r] = request]
    /\ IF request.pc = "queued" THEN Enqueue(r, from) ELSE UNCHANGED queues
    /\ UNCHANGED ledger

MayAsk(r, kind) == req[r].pc = "new" /\ kind \in Kinds[r]

Ask(kind, from, pays, b) ==
    [New EXCEPT !.kind = kind, !.from = from, !.pays = pays, !.bounds = b, !.pc = "load"]

-----------------------------------------------------------------------------
(* The operations *)

\* issueAsset checks its parameters and resolves the window before it waits for its turn.
IssueAsset(r, to, b) ==
    /\ MayAsk(r, "issueAsset")
    /\ IF to # Issuer /\ Resolvable(b, now)
       THEN Await(r, Issuer, [Ask("issueAsset", Issuer, <<to>>, b) EXCEPT
                                  !.pc = "queued", !.since = now, !.window = Resolve(b, now)])
       ELSE Invalid(r)

\* burnAsset pays the issuer.
BurnAsset(r, from, b) ==
    /\ MayAsk(r, "burnAsset")
    /\ Await(r, from, [Ask("burnAsset", from, <<Issuer>>, b) EXCEPT !.pc = "queued"])

\* create and claim of claimableBalance.ts, and manageDatum, which checks key and value
\* first.
CreateClaimable(r, from, claimant, b) ==
    /\ MayAsk(r, "createClaimable")
    /\ Await(r, from, [Ask("createClaimable", from, <<claimant>>, b) EXCEPT !.pc = "queued"])

ClaimClaimable(r, by, b) ==
    /\ MayAsk(r, "claim")
    /\ Await(r, by, [Ask("claim", by, <<by>>, b) EXCEPT !.pc = "queued"])

ManageDatum(r, from, b) ==
    /\ MayAsk(r, "manageData")
    /\ Invalid(r) \/ Await(r, from, [Ask("manageData", from, <<>>, b) EXCEPT !.pc = "queued"])

\* distributeAsset and submitPayment load the account outside the turns.
DistributeAsset(r, to) ==
    /\ MayAsk(r, "distributeAsset")
    /\ Await(r, Issuer, Ask("distributeAsset", Issuer, <<to>>, NoBounds))

SubmitPayment(r, from, to, b) ==
    /\ MayAsk(r, "submitPayment")
    /\ Await(r, from, Ask("submitPayment", from, <<to>>, b))

\* assertValidBatch
ValidBatch(pays) == pays # <<>> /\ Len(pays) <= MaxBatch

SubmitBatchPayment(r, from, pays) ==
    /\ MayAsk(r, "submitBatchPayment")
    /\ IF ValidBatch(pays)
       THEN Await(r, from, Ask("submitBatchPayment", from, pays, NoBounds))
       ELSE Invalid(r)

\* POST /build-airdrop: every current member once, in the order the rows come in.
\* buildBatchPayment refuses a community of more than MaxBatch members.
BuildAirdrop(r) ==
    /\ MayAsk(r, "buildAirdrop")
    /\ \E members \in SUBSET (Account \ {Issuer}) : \E pays \in SetToSeqs(members) :
          IF ValidBatch(pays)
          THEN Await(r, Issuer, Ask("buildAirdrop", Issuer, pays, NoBounds))
          ELSE Invalid(r)

\* POST /build-issue, /build-burn and /transactions/unsigned take no bounds.
BuildIssue(r, to) ==
    /\ MayAsk(r, "buildIssue")
    /\ Await(r, Issuer, Ask("buildIssue", Issuer, <<to>>, NoBounds))

BuildBurn(r, from) ==
    /\ MayAsk(r, "buildBurn")
    /\ Await(r, from, Ask("buildBurn", from, <<Issuer>>, NoBounds))

BuildUnsignedPayment(r, from, to) ==
    /\ MayAsk(r, "buildUnsigned")
    /\ Await(r, from, Ask("buildUnsigned", from, <<to>>, NoBounds))

-----------------------------------------------------------------------------
(* Building the transaction *)

\* withAccount: the request's turn comes once those before it have ended.
Turn(r) ==
    /\ req[r].pc = "queued"
    /\ Head(queues[req[r].from]) = r
    /\ req' = [req EXCEPT ![r].pc = "load"]
    /\ UNCHANGED <<ledger, queues>>

\* loadAccount succeeds, and the transaction has the window it is given.  The server
\* sends it at once, or a wallet when it pleases.
Built(r, window, since) ==
    req' = [req EXCEPT
               ![r].pc = IF req[r].kind \in {"buildIssue", "buildBurn", "buildUnsigned", "buildAirdrop"}
                         THEN "wallet" ELSE "send",
               ![r].window = window, ![r].since = since]

Builds(r, kinds) ==
    /\ req[r].pc = "load" /\ req[r].kind \in kinds
    /\ UNCHANGED ledger

\* The window was resolved when issueAsset was called.
BuildIssuance(r) ==
    /\ Builds(r, {"issueAsset"})
    /\ Built(r, req[r].window, req[r].since) /\ UNCHANGED queues

\* A period that starts now.
BuildTimed(r) ==
    /\ Builds(r, {"distributeAsset", "buildIssue"})
    /\ Built(r, WithTimeout(now), now) /\ UNCHANGED queues

BuildBatch(r) ==
    /\ Builds(r, {"submitBatchPayment", "buildAirdrop"})
    /\ Built(r, WithTimeout(now), now) /\ UNCHANGED queues

\* applyTimeBounds resolves the caller's bounds now, and may refuse them.
BuildBounded(r) ==
    /\ Builds(r, {"burnAsset", "submitPayment", "buildBurn", "buildUnsigned",
                 "createClaimable", "claim", "manageData"})
    /\ IF Resolvable(req[r].bounds, now)
       THEN Built(r, Resolve(req[r].bounds, now), now) /\ UNCHANGED queues
       ELSE End(r, "invalid")

\* loadAccount fails, after its own retries.
LoadFails(r) ==
    /\ req[r].pc = "load"
    /\ End(r, "unknown")
    /\ UNCHANGED ledger

\* The wallet has signed, and hands the envelope in.
HandsIn(r, route) ==
    /\ req[r].pc = "wallet"
    /\ req' = [req EXCEPT ![r].pc = "send", ![r].kind = route]
    /\ UNCHANGED <<ledger, queues>>

\* POST /tokens/submit and /transactions/submit take any transaction but a fee bump.
WalletSubmits(r) == HandsIn(r, "submit")

\* POST /tokens/transfer takes one payment, also within a fee bump, which has no source.
WalletTransfers(r) ==
    /\ Len(req[r].pays) = 1
    /\ HandsIn(r, "transfer") \/ HandsIn(r, "bumped")

\* submitFeeBumpTransaction wraps it for a sponsor.
SubmitFeeBump(r) == HandsIn(r, "sponsored")

-----------------------------------------------------------------------------
(* The ledger (external) *)

HasRoom(h, a) == a = Issuer \/ (a \in trusts /\ h[a] < Limit)

\* Why an account cannot give a unit, or take one.
CannotGive(h, a) == CASE a = Issuer -> {}
                      [] a # Issuer /\ a \notin trusts -> {"op_src_no_trust"}
                      [] OTHER -> IF h[a] = 0 THEN {"op_underfunded"} ELSE {}
CannotTake(h, a) == CASE HasRoom(h, a) -> {}
                      [] ~HasRoom(h, a) /\ a \notin trusts -> {"op_no_trust"}
                      [] OTHER -> {"op_line_full"}

Moved(h, from, to) ==
    [a \in Account |-> h[a] + (IF a \in to \ {Issuer} THEN 1 ELSE 0)
                            - (IF a \in from \ {Issuer} THEN 1 ELSE 0)]

CodeOf(reasons) == IF reasons = {} THEN "op_success" ELSE CHOOSE c \in reasons : TRUE

\* One payment; the payer's side is looked at first, and an account that pays itself
\* needs no room.
PayCode(h, from, to) ==
    CASE CannotGive(h, from) # {} -> CodeOf(CannotGive(h, from))
      [] CannotGive(h, from) = {} /\ from = to -> "op_success"
      [] OTHER -> CodeOf(CannotTake(h, to))

\* The holdings after the first i payments of r; one that fails changes nothing.
Holdings(r) ==
    LET After[i \in 0..Len(req[r].pays)] ==
            IF i = 0 THEN holds
            ELSE LET before == After[i - 1]
                     to == req[r].pays[i]
                 IN  IF PayCode(before, req[r].from, to) = "op_success"
                     THEN Moved(before, {req[r].from}, {to}) ELSE before
    IN  After

\* The state the operations of r leave and the codes they get, one after the other.
Outcome(r) ==
    LET from == req[r].from
        pays == req[r].pays
        After == Holdings(r)
        Claims(n) == [locked EXCEPT ![pays[1]] = @ + n]
    IN  CASE req[r].kind = "createClaimable" ->
               [holds |-> Moved(holds, {from}, {}), locked |-> Claims(1),
                codes |-> <<CodeOf(CannotGive(holds, from))>>]
          [] req[r].kind = "claim" ->
               [holds |-> Moved(holds, {}, {from}), locked |-> Claims(-1),
                codes |-> <<IF locked[from] = 0 THEN "op_does_not_exist"
                            ELSE CodeOf(CannotTake(holds, from))>>]
          [] OTHER ->
               [holds |-> After[Len(pays)], locked |-> locked,
                codes |-> [i \in 1..Len(pays) |-> PayCode(After[i - 1], from, pays[i])]]

Succeeds(codes) == \A i \in DOMAIN codes : codes[i] = "op_success"

Apply(r) ==
    /\ Includes(req[r].window, now)
    /\ Succeeds(Outcome(r).codes)
    /\ holds' = Outcome(r).holds
    /\ locked' = Outcome(r).locked

-----------------------------------------------------------------------------
(* Submitting it *)

\* Horizon answers that the ledger has applied the transaction.
Applied(r) ==
    /\ req[r].pc = "send"
    /\ Apply(r)
    /\ req' = [req EXCEPT ![r].pc = "evict"]
    /\ UNCHANGED <<now, trusts, queues>>

\* findIndex: where the codes of the operations first name a failure, or 0.
FailedAt(codes) ==
    LET failed == {i \in DOMAIN codes : codes[i] # "op_success"}
    IN  IF failed = {} THEN 0 ELSE Min(failed)

\* Slip: the first entry is named, as mapHorizonError looks at the first code.
BlameFirst(r, codes) ==
    IF req[r].kind = "submitBatchPayment" /\ codes # <<>> THEN 1 ELSE 0

\* attributeFailure names the entry of a batch at that index, if it is there; 0: the error
\* stays as it is.
Blame(r, codes) ==
    IF req[r].kind = "submitBatchPayment" /\ FailedAt(codes) \in DOMAIN req[r].pays
    THEN FailedAt(codes) ELSE 0

\* What Horizon reports of a refusal: the codes of the operations, or none of them where the
\* transaction was refused as a whole, because of its window, sequence number or fee.
Reports(r) ==
    {<<>>} \cup (IF Includes(req[r].window, now) /\ ~Succeeds(Outcome(r).codes)
                THEN {Outcome(r).codes} ELSE {})

\* Horizon answers that the ledger refused it; only the error is left of the request.
Refused(r) ==
    /\ req[r].pc = "send"
    /\ \E codes \in Reports(r) :
          req' = [req EXCEPT ![r] = [New EXCEPT !.pc = "refused", !.codes = codes,
                                                !.blame = Blame(r, codes)]]
    /\ UNCHANGED <<ledger, queues>>

\* The caller gets the error.
Fail(r) ==
    /\ req[r].pc = "refused"
    /\ End(r, "refused")
    /\ UNCHANGED ledger

\* withRetry: 429 or 503, and the transaction is sent again after a delay, up to
\* MaxSends times.
Busy(r) ==
    /\ req[r].pc = "send"
    /\ IF req[r].sends + 1 < MaxSends
       THEN req' = [req EXCEPT ![r].sends = @ + 1] /\ UNCHANGED queues
       ELSE End(r, "unknown")
    /\ UNCHANGED ledger

\* The connection is lost: the transaction may be applied all the same.
Lost(r) ==
    /\ req[r].pc = "send"
    /\ \/ Apply(r) /\ End(r, "unknown")
       \/ UNCHANGED <<holds, locked>> /\ End(r, "unknown")
    /\ UNCHANGED <<now, trusts>>

\* Slip: only the account that pays is evicted.
EvictSource(r) == {req[r].from}

\* The accounts given to invalidateBalanceCache: source and destinations.  /submit and
\* submitFeeBumpTransaction give none, /transfer of a fee bump has no source to give, and
\* who may claim a balance is not paid yet.
Evicted(r) ==
    LET paid == {req[r].pays[i] : i \in DOMAIN req[r].pays}
    IN  CASE req[r].kind \in {"submit", "sponsored", "manageData"} -> {}
          [] req[r].kind = "createClaimable" -> {req[r].from}
          [] req[r].kind = "bumped" -> paid
          [] OTHER -> {req[r].from} \cup paid

\* The balances are evicted and the caller gets the hash; create throws before that where
\* the answer holds no balance id.
Answer(r) ==
    /\ req[r].pc = "evict"
    /\ End(r, "ok") \/ (req[r].kind = "createClaimable" /\ End(r, "unknown"))
    /\ UNCHANGED ledger

-----------------------------------------------------------------------------
(* The environment *)

Tick ==
    /\ now < MaxTime
    /\ now' = now + 1
    /\ UNCHANGED <<holds, locked, trusts, queues, req>>

Next ==
    \/ \E r \in Request, from, to \in Account, b \in Bounds :
          \/ from = Issuer /\ IssueAsset(r, to, b)
          \/ from # Issuer /\ to = Issuer /\ BurnAsset(r, from, b)
          \/ from = Issuer /\ to # Issuer /\ DistributeAsset(r, to)
          \/ from # to /\ SubmitPayment(r, from, to, b)
          \/ to # Issuer /\ CreateClaimable(r, from, to, b)
          \/ from = to /\ (ClaimClaimable(r, from, b) \/ ManageDatum(r, from, b))
          \/ from = Issuer /\ to # Issuer /\ BuildIssue(r, to)
          \/ from # Issuer /\ to = Issuer /\ BuildBurn(r, from)
          \/ from # to /\ BuildUnsignedPayment(r, from, to)
    \/ \E r \in Request, from \in Account, n \in 0..(MaxBatch + 1) :
          \E pays \in [1..n -> Account] : SubmitBatchPayment(r, from, pays)
    \/ \E r \in Request :
          \/ BuildAirdrop(r) \/ Turn(r) \/ LoadFails(r)
          \/ BuildIssuance(r) \/ BuildTimed(r) \/ BuildBatch(r) \/ BuildBounded(r)
          \/ WalletSubmits(r) \/ WalletTransfers(r) \/ SubmitFeeBump(r)
          \/ Applied(r) \/ Refused(r) \/ Fail(r) \/ Busy(r) \/ Lost(r) \/ Answer(r)
    \/ Tick

Spec == Init /\ [][Next]_vars

-----------------------------------------------------------------------------
(* Properties *)

\* Of the first n payments of r, those that pay one of A.
Among(r, n, A) == {i \in 1..n : req[r].pays[i] \in A}

\* What the accounts hold is enough for the first n payments of r: the payer has a unit for
\* the last when those before it to others are made, and whoever is paid has room for all.
Affordable(r, n) ==
    LET from == req[r].from
    IN  /\ from # Issuer =>
              from \in trusts /\ Cardinality(Among(r, n - 1, Account \ {from})) < holds[from]
        /\ \A a \in Account \ {from, Issuer} :
              Among(r, n, {a}) # {} =>
                  a \in trusts /\ holds[a] + Cardinality(Among(r, n, {a})) <= Limit

\* A batch that the ledger refused for its payments is answered with the entry that what
\* the accounts held was not enough for, though it was for the entries before it; one that
\* was refused as a whole is answered without an entry.
BlamesTheCause ==
    [][\A r \in Request :
          req[r].kind = "submitBatchPayment" /\ req[r].pc = "send" /\ req'[r].pc = "refused" =>
              LET entry == req'[r].blame
              IN  IF req'[r].codes = <<>> THEN entry = 0
                  ELSE /\ entry \in DOMAIN req[r].pays
                       /\ ~Affordable(r, entry)
                       /\ entry > 1 => Affordable(r, entry - 1)]_vars

ChangesOnlyEvicted(kinds) ==
    \A r \in Request :
        req[r].pc = "send" /\ req'[r].pc = "evict" /\ req[r].kind \notin kinds =>
            {a \in Account : holds'[a] # holds[a]} \subseteq Evicted(r)

\* Whatever holdings a payment changed, no cached balance of before it outlives a
\* successful answer of the operations that evict: whoever was told of a payment is not
\* shown what was paid away.  (One that is applied and not answered evicts nothing.)
ChangedAreEvicted == [][ChangesOnlyEvicted({"submit", "bumped", "sponsored"})]_vars

\* CHANGELOG.md:123 "invalidated on any transfer, issuance, burn, or airdrop touching the
\* cached address": the same of every operation, with the ones a wallet signs.
EveryChangeEvicts == [][ChangesOnlyEvicted({})]_vars

\* A transaction is applied within the window its caller stated; where he stated no end,
\* not later than a period after its window was resolved, however long it waited for its
\* turn, for Horizon or for the wallet.
AppliedInWindow ==
    [][\A r \in Request :
          <<holds, locked>>' # <<holds, locked>> /\ req'[r] # req[r] =>
              LET b == req[r].bounds
              IN  /\ b.min # {} => now >= The(b.min)
                  /\ b.max # {} => The(b.max) = 0 \/ now <= The(b.max)
                  /\ b.max = {} => now <= req[r].since + Timeout]_vars

=============================================================================
