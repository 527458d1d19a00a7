---------------------------- MODULE SequenceCache ----------------------------
(***************************************************************************)
(* Submitting transactions for one source account                          *)
(* (backend/src/contracts/sequenceCache.ts with withRetry of stellar.ts).   *)
(* Requests share an in-memory copy of the account's sequence number.  They *)
(* take turns through a chain of promises, each submission awaited within   *)
(* its turn; a transaction refused as tx_bad_seq drops the copy and takes   *)
(* one more turn.                                                          *)
(*                                                                         *)
(* Horizon and the ledger are external.  A transaction is applied only when *)
(* its number is the next one; sending it twice cannot apply it twice; a    *)
(* transaction whose answer was lost may still be applied later.            *)
(***************************************************************************)
EXTENDS Naturals, FiniteSets

CONSTANTS
    Request,       \* requests for this account
    MaxSends,      \* HORIZON_RETRY_CONFIG.maxAttempts
    MaxOutside     \* bound: transactions of the account submitted elsewhere

ASSUME SendsAssumption == MaxSends \in Nat \ {0}
ASSUME OutsideAssumption == MaxOutside \in Nat

VARIABLES
    cache,      \* the cached Account: its sequence number, and whether within its TTL
    tail,       \* queues.get(publicKey): the run the next caller waits for
    run,        \* run[<<p, k>>]: the k-th turn of request p, and its transaction
    answer,     \* answer[p]: what request p was told
    ledger,     \* the account's sequence number on the ledger
    result,     \* result[r]: what the ledger made of r's transaction
    limbo,      \* transactions Horizon may still apply though no answer was given
    outside,    \* transactions of the account submitted elsewhere
    disturbed   \* history: did anything but applied submissions move the copy or
                \* the ledger since the copy was loaded

vars == <<cache, tail, run, answer, ledger, result, limbo, outside, disturbed>>

None == "none"
NoRun == <<>>
Run == Request \X {1, 2}
NoEntry == [seq |-> 0, fresh |-> FALSE]
NewRun == [pc |-> "new", prev |-> NoRun, seq |-> 0, sends |-> 0]

-----------------------------------------------------------------------------
(* The chain of promises *)

\* The run that the account's next caller will wait for, once r has ended.
\* Slip: the entry is deleted even when a later caller has replaced it.
AlwaysDeleted(r) == NoRun
TailAfter(r) == IF tail = r THEN NoRun ELSE tail

Ready(r) ==
    /\ run[r].pc = "queued"
    /\ \A q \in Run : run[r].prev = q => run[q].pc = "settled"

\* r's promise settles, whether fulfilled or rejected, and its request is answered.
Settle(r, res) ==
    /\ run' = [run EXCEPT ![r].pc = "settled"]
    /\ tail' = TailAfter(r)
    /\ answer' = [answer EXCEPT ![r[1]] = res]

Call(p) ==
    /\ answer[p] = "new"
    /\ run' = [run EXCEPT ![<<p, 1>>].pc = "queued", ![<<p, 1>>].prev = tail]
    /\ tail' = <<p, 1>>
    /\ answer' = [answer EXCEPT ![p] = "waiting"]
    /\ UNCHANGED <<cache, ledger, result, limbo, outside, disturbed>>

-----------------------------------------------------------------------------
(* A turn: get the account, build, sign and send *)

\* Slip: each caller builds on an Account of its own, whose increment is lost.
SignOnCopy(r, seq) ==
    /\ run' = [run EXCEPT ![r].pc = "sent", ![r].seq = seq + 1, ![r].sends = 1]
    /\ cache' = [seq |-> seq, fresh |-> TRUE]
    /\ UNCHANGED <<tail, answer, ledger, result, limbo, outside>>

\* build() increments the instance that is in the cache.
Sign(r, seq) ==
    /\ run' = [run EXCEPT ![r].pc = "sent", ![r].seq = seq + 1, ![r].sends = 1]
    /\ cache' = [seq |-> seq + 1, fresh |-> TRUE]
    /\ UNCHANGED <<tail, answer, ledger, result, limbo, outside>>

UseCached(r) ==
    /\ Ready(r)
    /\ cache.fresh
    /\ Sign(r, cache.seq)
    /\ UNCHANGED disturbed

Reload(r) ==
    /\ Ready(r)
    /\ ~cache.fresh
    /\ Sign(r, ledger)
    /\ disturbed' = (limbo # {})

\* The account cannot be loaded, or building throws: nothing was signed.
FailBeforeBuild(r) ==
    /\ Ready(r)
    /\ Settle(r, "failed")
    /\ UNCHANGED <<cache, ledger, result, limbo, outside, disturbed>>

\* SEQUENCE_CACHE_TTL_MS has passed since the copy was loaded.
Expire ==
    /\ cache.fresh
    /\ cache' = [cache EXCEPT !.fresh = FALSE]
    /\ UNCHANGED <<tail, run, answer, ledger, result, limbo, outside, disturbed>>

-----------------------------------------------------------------------------
(* Horizon's answers to the transaction of r *)

NextInLine(r) == run[r].seq = ledger + 1
Undecided(r) == run[r].pc = "sent" /\ result[r] = None

\* Applied: its operations took effect ("ok"), or failed and used up the number.
Apply(r, res) ==
    /\ Undecided(r)
    /\ NextInLine(r)
    /\ ledger' = ledger + 1
    /\ result' = [result EXCEPT ![r] = res]
    /\ limbo' = limbo \ {r}
    /\ Settle(r, res)
    /\ UNCHANGED <<cache, outside, disturbed>>

\* Sent again after it was applied: Horizon repeats the result.
Replay(r) ==
    /\ run[r].pc = "sent"
    /\ result[r] # None
    /\ Settle(r, result[r])
    /\ UNCHANGED <<cache, ledger, result, limbo, outside, disturbed>>

\* Refused for another reason: the ledger does not move, but the copy has.
Refuse(r) ==
    /\ Undecided(r)
    /\ limbo' = limbo \ {r}
    /\ disturbed' = TRUE
    /\ Settle(r, "failed")
    /\ UNCHANGED <<cache, ledger, result, outside>>

\* Slip: the retry is issued from within the failed turn, and waits for it.
NestedRetry(r) ==
    LET again == <<r[1], 2>>
    IN  /\ run' = [run EXCEPT ![r].pc = "retrying",
                              ![again].pc = "queued", ![again].prev = tail]
        /\ tail' = again
        /\ cache' = NoEntry
        /\ UNCHANGED answer

\* tx_bad_seq, the first time: reload and take one more turn, behind whoever waits.
RetryTurn(r) ==
    LET again == <<r[1], 2>>
    IN  /\ run' = [run EXCEPT ![r].pc = "settled",
                              ![again].pc = "queued", ![again].prev = TailAfter(r)]
        /\ tail' = again
        /\ cache' = NoEntry
        /\ UNCHANGED answer

BadSeq(r) ==
    /\ Undecided(r)
    /\ ~NextInLine(r)
    /\ limbo' = limbo \ {r}
    /\ IF r[2] = 1
       THEN RetryTurn(r)
       ELSE Settle(r, "bad_seq") /\ UNCHANGED cache
    /\ UNCHANGED <<ledger, result, outside, disturbed>>

\* 429 or 503: sent again after a delay, MaxSends times in all.  It may have been
\* passed on to the network all the same.
Busy(r) ==
    /\ Undecided(r)
    /\ limbo' \in {limbo, limbo \cup {r}}
    /\ disturbed' = (disturbed \/ run[r].sends = MaxSends)
    /\ IF run[r].sends < MaxSends
       THEN /\ run' = [run EXCEPT ![r].sends = @ + 1]
            /\ UNCHANGED <<tail, answer>>
       ELSE Settle(r, "unknown")
    /\ UNCHANGED <<cache, ledger, result, outside>>

\* Slip: a time-out is treated like tx_bad_seq.
TimeOutRetried(r) ==
    /\ Undecided(r)
    /\ limbo' = limbo \cup {r}
    /\ disturbed' = TRUE
    /\ IF r[2] = 1
       THEN RetryTurn(r)
       ELSE Settle(r, "unknown") /\ UNCHANGED cache
    /\ UNCHANGED <<ledger, result, outside>>

\* 504, or the connection broke: the request fails and is not sent again.
TimeOut(r) ==
    /\ Undecided(r)
    /\ limbo' = limbo \cup {r}
    /\ disturbed' = TRUE
    /\ Settle(r, "unknown")
    /\ UNCHANGED <<cache, ledger, result, outside>>

\* The network gets round to a transaction nobody waits for, or drops it.
Resolve(r) ==
    /\ r \in limbo
    /\ limbo' = limbo \ {r}
    /\ \/ /\ NextInLine(r)
          /\ result' \in {[result EXCEPT ![r] = res] : res \in {"ok", "failed"}}
          /\ ledger' = ledger + 1
       \/ UNCHANGED <<ledger, result>>
    /\ UNCHANGED <<cache, tail, run, answer, outside, disturbed>>

\* submitPayment, a wallet, or another server process uses the account.
Outside ==
    /\ outside < MaxOutside
    /\ outside' = outside + 1
    /\ ledger' = ledger + 1
    /\ disturbed' = TRUE
    /\ UNCHANGED <<cache, tail, run, answer, result, limbo>>

-----------------------------------------------------------------------------
Init ==
    /\ cache = NoEntry
    /\ tail = NoRun
    /\ run = [r \in Run |-> NewRun]
    /\ answer = [p \in Request |-> "new"]
    /\ ledger = 0
    /\ result = [r \in Run |-> None]
    /\ limbo = {}
    /\ outside = 0
    /\ disturbed = FALSE

Begin(r) == UseCached(r) \/ Reload(r) \/ FailBeforeBuild(r)

Reply(r) ==
    \/ \E res \in {"ok", "failed"} : Apply(r, res)
    \/ Replay(r) \/ Refuse(r) \/ BadSeq(r) \/ Busy(r) \/ TimeOut(r)

Next ==
    \/ \E p \in Request : Call(p)
    \/ \E r \in Run : Begin(r) \/ Reply(r) \/ Resolve(r)
    \/ Expire
    \/ Outside

Spec == Init /\ [][Next]_vars

\* A turn whose predecessor settled runs, and Horizon's client answers or fails.
Fairness == \A r \in Run : WF_vars(Begin(r)) /\ WF_vars(Reply(r))

-----------------------------------------------------------------------------
(* Properties *)

Answers == {"new", "waiting", "ok", "failed", "bad_seq", "unknown"}

TypeOK ==
    /\ cache \in [seq : Nat, fresh : BOOLEAN]
    /\ tail \in Run \cup {NoRun}
    /\ run \in [Run -> [pc : {"new", "queued", "sent", "settled"},
                        prev : Run \cup {NoRun}, seq : Nat, sends : 0..MaxSends]]
    /\ answer \in [Request -> Answers]
    /\ ledger \in Nat
    /\ result \in [Run -> {None, "ok", "failed"}]
    /\ limbo \subseteq Run
    /\ outside \in 0..MaxOutside
    /\ disturbed \in BOOLEAN

\* A request takes effect at most once, whatever was sent again, timed out or
\* retried: its two transactions are never both applied.
AppliedAtMostOnce ==
    \A p \in Request : ~(result[<<p, 1>>] = "ok" /\ result[<<p, 2>>] = "ok")

\* Requests that share the account never trip over each other: a transaction is
\* refused as tx_bad_seq only if, since the copy was loaded, something else moved
\* the ledger or a signed transaction did not reach it.
BadSeqNeedsDisturbance == [][\A r \in Run : BadSeq(r) => disturbed]_vars

\* Every request is answered: its turn comes, and a retry's turn comes too.
EveryRequestAnswered ==
    \A p \in Request : answer[p] = "waiting" ~> answer[p] \notin {"new", "waiting"}

=============================================================================
