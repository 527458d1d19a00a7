----------------------------- MODULE BalanceCache -----------------------------
(***************************************************************************)
(* The balance of one Stellar account, cached in Redis                     *)
(* (backend/src/cache/balances.ts): GET /balances/:publicKey reads through  *)
(* the cache; POST /tokens/transfer submits a payment and deletes the       *)
(* entry; POST /tokens/submit submits and leaves the entry alone.  A        *)
(* balance is the version of the account it was read from.                  *)
(*                                                                         *)
(* Horizon, Redis and the ledger are external.  Redis operations that fail  *)
(* are logged and skipped.                                                 *)
(***************************************************************************)
EXTENDS Naturals

CONSTANTS
    Reader,       \* GET requests in progress
    Writer,       \* requests that submit a signed transaction
    TTL,          \* BALANCE_CACHE_TTL_SECONDS, in ticks
    Delay,        \* bound: ticks between Horizon's answer and the write to Redis
    MaxVersion,   \* bound: how often the account changes
    MaxNow        \* bound: ticks

VARIABLES
    now,       \* the clock
    version,   \* the account's version on the ledger
    until,     \* until[v]: when version v was replaced
    entry,     \* the entry in Redis: a version and its expiry
    reader,    \* reader[r]: where a GET is and what it has fetched
    writer,    \* writer[w]: its endpoint and where it is
    served     \* history: the last balance served, and whether any was

vars == <<now, version, until, entry, reader, writer, served>>

NoEntry == [v |-> 0, exp |-> 0]
IdleReader == [pc |-> "idle", v |-> 0, at |-> 0]
Nothing == [v |-> 0, stale |-> 0]
Live == entry.exp > now

\* For how long v has not been the account's balance.
Staleness(v) == IF v = version THEN 0 ELSE now - until[v]
Serve(v) == served' = [v |-> v, stale |-> Staleness(v)]

Init ==
    /\ now = 0
    /\ version = 1
    /\ until = [v \in 1..MaxVersion |-> 0]
    /\ entry = NoEntry
    /\ reader = [r \in Reader |-> IdleReader]
    /\ writer = [w \in Writer |-> [pc |-> "idle", by |-> "transfer"]]
    /\ served = Nothing

-----------------------------------------------------------------------------
(* Time and the ledger *)

\* No reader takes longer than Delay to write down what it fetched.
Tick ==
    /\ now < MaxNow
    /\ \A r \in Reader : reader[r].pc = "store" => now < reader[r].at + Delay
    /\ now' = now + 1
    /\ UNCHANGED <<version, until, entry, reader, writer, served>>

NewVersion ==
    /\ version < MaxVersion
    /\ version' = version + 1
    /\ until' = [until EXCEPT ![version] = now]

\* Another process or another wallet changes the account.
Outside ==
    /\ NewVersion
    /\ UNCHANGED <<now, entry, reader, writer, served>>

-----------------------------------------------------------------------------
(* GET /balances/:publicKey *)

\* Slip: the expiry slides with every hit.
SlidingHit(r) ==
    /\ reader[r].pc = "idle" /\ Live
    /\ Serve(entry.v)
    /\ entry' = [entry EXCEPT !.exp = now + TTL]
    /\ UNCHANGED <<now, version, until, reader, writer>>

Hit(r) ==
    /\ reader[r].pc = "idle" /\ Live
    /\ Serve(entry.v)
    /\ UNCHANGED <<now, version, until, entry, reader, writer>>

\* There is no entry, or Redis does not answer.
Miss(r) ==
    /\ reader[r].pc = "idle"
    /\ reader' = [reader EXCEPT ![r].pc = "fetch"]
    /\ UNCHANGED <<now, version, until, entry, writer, served>>

\* The payload is no list of balances, or no JSON: the entry is deleted.
Discard(r) ==
    /\ reader[r].pc = "idle" /\ Live
    /\ entry' = NoEntry
    /\ reader' = [reader EXCEPT ![r].pc = "fetch"]
    /\ UNCHANGED <<now, version, until, writer, served>>

Fetch(r) ==
    /\ reader[r].pc = "fetch"
    /\ reader' = [reader EXCEPT ![r] = [pc |-> "store", v |-> version, at |-> now]]
    /\ UNCHANGED <<now, version, until, entry, writer, served>>

FetchFails(r) ==
    /\ reader[r].pc = "fetch"
    /\ reader' = [reader EXCEPT ![r] = IdleReader]
    /\ UNCHANGED <<now, version, until, entry, writer, served>>

\* cacheBalances, then the answer; the write may fail.
Store(r) ==
    /\ reader[r].pc = "store"
    /\ entry' \in {entry, [v |-> reader[r].v, exp |-> now + TTL]}
    /\ Serve(reader[r].v)
    /\ reader' = [reader EXCEPT ![r] = IdleReader]
    /\ UNCHANGED <<now, version, until, writer>>

-----------------------------------------------------------------------------
(* POST /tokens/transfer and POST /tokens/submit *)

Pay(w) ==
    /\ writer[w].pc = "idle"
    /\ NewVersion
    /\ \E by \in {"transfer", "submit"} :
        writer' = [writer EXCEPT ![w] = [pc |-> "paid", by |-> by]]
    /\ UNCHANGED <<now, entry, reader, served>>

\* invalidateBalanceCache, then the answer.
Invalidate(w) ==
    /\ writer[w].pc = "paid" /\ writer[w].by = "transfer"
    /\ entry' = NoEntry
    /\ writer' = [writer EXCEPT ![w].pc = "done"]
    /\ UNCHANGED <<now, version, until, reader, served>>

\* Redis does not answer: the failure is logged and the transfer is answered.
NotInvalidated(w) ==
    /\ writer[w].pc = "paid" /\ writer[w].by = "transfer"
    /\ writer' = [writer EXCEPT ![w].pc = "done"]
    /\ UNCHANGED <<now, version, until, entry, reader, served>>

\* POST /tokens/submit leaves the cache alone.
AnswerSubmit(w) ==
    /\ writer[w].pc = "paid" /\ writer[w].by = "submit"
    /\ writer' = [writer EXCEPT ![w].pc = "done"]
    /\ UNCHANGED <<now, version, until, entry, reader, served>>

-----------------------------------------------------------------------------

Next ==
    \/ Tick \/ Outside
    \/ \E r \in Reader : Hit(r) \/ Miss(r) \/ Discard(r) \/ Fetch(r) \/ FetchFails(r) \/ Store(r)
    \/ \E w \in Writer : Pay(w) \/ Invalidate(w) \/ NotInvalidated(w) \/ AnswerSubmit(w)

Spec == Init /\ [][Next]_vars

-----------------------------------------------------------------------------
(* Properties *)

\* The variables have their types, and no entry outlives its time to live.
TypeOK ==
    /\ now \in 0..MaxNow /\ version \in 1..MaxVersion
    /\ entry.v \in 0..version /\ entry.exp <= now + TTL
    /\ \A r \in Reader : reader[r].pc \in {"idle", "fetch", "store"} /\ reader[r].v <= version
    /\ \A w \in Writer : writer[w].pc \in {"idle", "paid", "done"}
    /\ served.v \in 0..version /\ served.stale \in 0..now

\* A balance that is served was right less than TTL ago, give or take the time its
\* reader took to write it down: hits do not prolong the life of an entry, whatever
\* else is lost.
StaleForTTLAtMost == served.stale < TTL + Delay

=============================================================================
