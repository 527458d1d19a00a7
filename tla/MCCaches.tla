------------------------------- MODULE MCCaches -------------------------------
(***************************************************************************)
(* What is kept to be served again: prices, balances, and the responses that   *)
(* are replayed to a retry (no route mounts that middleware yet).  They share  *)
(* no state, so each behaviour is one component's, named by part, while the    *)
(* others rest: the run explores the sum of their states.                     *)
(***************************************************************************)
EXTENDS TLC

CONSTANTS
    Process, Request, Providers, Ttl, Timeout, Delay,   \* of PriceCache
    Attempt, Key, Endpoint, None,                       \* of Idempotency
    Reader, Writer, TTL, MaxVersion, MaxNow             \* of BalanceCache

VARIABLES
    part,
    memory, redis, req,
    table, attempt, effect, insert,
    now, version, until, entry, reader, writer, served

Prices == INSTANCE PriceCache
Replays == INSTANCE Idempotency WITH Request <- Attempt, req <- attempt
Balances == INSTANCE BalanceCache

prices == <<memory, redis, req>>
replays == <<table, attempt, effect, insert>>
balances == <<now, version, until, entry, reader, writer, served>>
vars == <<part, prices, replays, balances>>

Init ==
    /\ part \in {"prices", "replays", "balances"}
    /\ Prices!Init /\ Replays!Init /\ Balances!Init

Next ==
    /\ UNCHANGED part
    /\ \/ part = "prices" /\ Prices!Next /\ UNCHANGED <<replays, balances>>
       \/ part = "replays" /\ Replays!Next /\ UNCHANGED <<prices, balances>>
       \/ part = "balances" /\ Balances!Next /\ UNCHANGED <<prices, replays>>

Spec == Init /\ [][Next]_vars

\* The members of each role are interchangeable.
Symmetries ==
    Permutations(Request) \cup Permutations(Attempt) \cup Permutations(Reader) \cup Permutations(Writer)

-----------------------------------------------------------------------------
(* Properties *)

\* PriceCache: what is served is a price, and the tiers do not prolong its life without end.
AgeIsBounded == Prices!AgeIsBounded

\* PriceCache: hanging providers do not hold a request beyond their timeouts.
AnsweredInTime == Prices!AnsweredInTime

\* Idempotency: what is replayed is the first response stored for the operation.
ReplaysAgree == Replays!ReplaysAgree

\* BalanceCache: however reads, transfers and lost deletions interleave, no balance is
\* served that was outdated for longer than its time to live and its reader's delay.
StaleForTTLAtMost == Balances!StaleForTTLAtMost

=============================================================================
