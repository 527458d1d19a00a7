------------------------------ MODULE PriceCache ------------------------------
(***************************************************************************)
(* GET /prices/xlm: the price of XLM in one currency                        *)
(* (backend/src/api/routes/prices.ts, cache/prices.ts, services/prices.ts). *)
(*                                                                         *)
(* Several server processes, each with a memory tier of its own, share one   *)
(* Redis.  Of a price only its age counts; Bad stands for a payload in Redis  *)
(* that is not a price.  Moments are kept relative to the present: Tick lets   *)
(* every price age and every life and deadline run down by one.                *)
(***************************************************************************)
EXTENDS Integers

CONSTANTS
    Process,    \* server processes
    Request,    \* requests in progress at a time
    Providers,  \* how many providers the waterfall has
    Ttl,        \* PRICE_CACHE_TTL_SECONDS
    Timeout,    \* PRICE_FETCH_TIMEOUT_MS
    Delay       \* bound: how long a call of Redis takes

VARIABLES
    memory,  \* memory[s]: the entry of process s and the life it has left
    redis,   \* the entry in Redis, likewise
    req      \* req[r]: where request r is

vars == <<memory, redis, req>>

Never == -1
Bad == -2
Empty == [value |-> Never, left |-> 0]

\* The age a price may reach, and the time a request may take; what is beyond counts as one more.
MaxAge == 2 * (Ttl + Delay)
MaxTime == 3 * Delay + Providers * Timeout
Capped(n, max) == IF n > max THEN max + 1 ELSE n

Waiting == {"get", "got", "del", "fetch", "set"}

\* Request r goes on to step pc, which may last as long as wait.
Goes(r, pc, value, provider, wait) ==
    req' = [req EXCEPT ![r].pc = pc, ![r].value = value, ![r].provider = provider,
                       ![r].left = wait]

\* It ends: what was served is remembered until the next request.
Ends(r, pc, s, value) ==
    req' = [req EXCEPT ![r] = [pc |-> pc, at |-> s, value |-> value, provider |-> 0,
                               left |-> 0, spent |-> 0]]

Init ==
    /\ memory = [s \in Process |-> Empty]
    /\ redis = Empty
    /\ req = [r \in Request |-> [pc |-> "failed", at |-> CHOOSE s \in Process : TRUE,
                                 value |-> Never, provider |-> 0, left |-> 0, spent |-> 0]]

-----------------------------------------------------------------------------
(* getCachedPrice *)

MemorySet(s, value) == memory' = [memory EXCEPT ![s] = [value |-> value, left |-> Ttl]]

\* The memory tier has a price.
HitMemory(r, s) ==
    /\ req[r].pc \notin Waiting
    /\ memory[s] # Empty
    /\ Ends(r, "done", s, memory[s].value)
    /\ UNCHANGED <<memory, redis>>

\* It has none, and Redis is asked.
AskRedis(r, s) ==
    /\ req[r].pc \notin Waiting
    /\ memory[s] = Empty
    /\ req' = [req EXCEPT ![r] = [pc |-> "get", at |-> s, value |-> Never, provider |-> 0,
                                  left |-> Delay, spent |-> 0]]
    /\ UNCHANGED <<memory, redis>>

\* Redis answers with what it has; redisCache.get answers null when the call fails.
RedisAnswers(r) ==
    /\ req[r].pc = "get"
    /\ \E v \in {redis.value, Never} : Goes(r, "got", v, 0, req[r].left)
    /\ UNCHANGED <<memory, redis>>

\* Slip: what Redis answers is written to both tiers.
ServeAndStore(r) ==
    /\ req[r].pc = "got" /\ req[r].value >= 0
    /\ MemorySet(req[r].at, req[r].value)
    /\ Goes(r, "set", req[r].value, 0, Delay)
    /\ UNCHANGED redis

\* A price: it is served, and warms the memory tier for another whole Ttl.
ServeRedis(r) ==
    /\ req[r].pc = "got" /\ req[r].value >= 0
    /\ MemorySet(req[r].at, req[r].value)
    /\ Ends(r, "done", req[r].at, req[r].value)
    /\ UNCHANGED redis

\* Not a price: it is deleted.
Discard(r) ==
    /\ req[r].pc = "got" /\ req[r].value = Bad
    /\ Goes(r, "del", Never, 0, Delay)
    /\ UNCHANGED <<memory, redis>>

\* The deletion takes away whatever is there now, or fails; the first provider is asked.
Deleted(r) ==
    /\ req[r].pc = "del"
    /\ redis' \in {redis, Empty}
    /\ Goes(r, "fetch", Never, 1, Timeout)
    /\ UNCHANGED memory

\* Nothing in either tier: the first provider is asked.
Miss(r) ==
    /\ req[r].pc = "got" /\ req[r].value = Never
    /\ Goes(r, "fetch", Never, 1, Timeout)
    /\ UNCHANGED <<memory, redis>>

-----------------------------------------------------------------------------
(* fetchXlmPrice and cachePrice *)

\* A provider answers: the memory tier is written at once, Redis is told.
Fetched(r) ==
    /\ req[r].pc = "fetch"
    /\ MemorySet(req[r].at, 0)
    /\ Goes(r, "set", 0, req[r].provider, Delay)
    /\ UNCHANGED redis

\* Slip: the provider that failed is asked again.
AskAgain(r) ==
    /\ req[r].pc = "fetch" /\ req[r].provider < Providers
    /\ Goes(r, "fetch", Never, req[r].provider, Timeout)
    /\ UNCHANGED <<memory, redis>>

\* It fails, or is aborted at its timeout, and the next is asked.
AskNext(r) ==
    /\ req[r].pc = "fetch" /\ req[r].provider < Providers
    /\ Goes(r, "fetch", Never, req[r].provider + 1, Timeout)
    /\ UNCHANGED <<memory, redis>>

\* All have failed: 502.
AllFailed(r) ==
    /\ req[r].pc = "fetch" /\ req[r].provider = Providers
    /\ Ends(r, "failed", req[r].at, Never)
    /\ UNCHANGED <<memory, redis>>

\* setEx ends, its failure only logged, and the price is served.
Stored(r) ==
    /\ req[r].pc = "set"
    /\ redis' \in {redis, [value |-> req[r].value, left |-> Ttl]}
    /\ Ends(r, "done", req[r].at, req[r].value)
    /\ UNCHANGED memory

-----------------------------------------------------------------------------
(* Around the handler *)

\* Something else writes a payload that is not a price.
BadWrite ==
    /\ redis' = [value |-> Bad, left |-> Ttl]
    /\ UNCHANGED <<memory, req>>

\* A server process starts anew, without requests in progress.
Restart(s) ==
    /\ \A r \in Request : req[r].at = s => req[r].pc \notin Waiting
    /\ memory' = [memory EXCEPT ![s] = Empty]
    /\ UNCHANGED <<redis, req>>

Older(value) == IF value < 0 THEN value ELSE Capped(value + 1, MaxAge)

\* An entry after a tick, which is gone when it had no more life than last.
AfterTick(entry, last) ==
    IF entry.left <= last THEN Empty
    ELSE [value |-> Older(entry.value), left |-> entry.left - 1]

\* Time passes, but no call outlasts its deadline.  memoryGet still serves an entry at
\* the moment it expires; Redis does not.
Tick ==
    /\ \A r \in Request : req[r].pc \in Waiting => req[r].left > 0
    /\ memory' = [s \in Process |-> AfterTick(memory[s], 0)]
    /\ redis' = AfterTick(redis, 1)
    /\ req' = [r \in Request |->
                  IF req[r].pc \notin Waiting THEN req[r]
                  ELSE [req[r] EXCEPT !.value = Older(@), !.left = @ - 1,
                                      !.spent = Capped(@ + 1, MaxTime)]]

Next ==
    \/ \E r \in Request, s \in Process : HitMemory(r, s) \/ AskRedis(r, s)
    \/ \E r \in Request :
          \/ RedisAnswers(r) \/ ServeRedis(r) \/ Discard(r) \/ Deleted(r) \/ Miss(r)
          \/ Fetched(r) \/ AskNext(r) \/ AllFailed(r) \/ Stored(r)
    \/ BadWrite
    \/ \E s \in Process : Restart(s)
    \/ Tick

Spec == Init /\ [][Next]_vars

-----------------------------------------------------------------------------
(* Properties *)

\* The variables have their types.
TypeOK ==
    LET Value == {Never, Bad} \cup 0..MaxAge + 1
    IN  /\ memory \in [Process -> [value : Value, left : 0..Ttl]]
        /\ redis \in [value : Value, left : 0..Ttl]
        /\ req \in [Request -> [pc : Waiting \cup {"done", "failed"}, at : Process,
                                value : Value, provider : 0..Providers,
                                left : 0..Delay + Timeout, spent : 0..MaxTime + 1]]

\* What is served is a price, never a payload that is none, and at most as old as the
\* two tiers' lives together, with the delays of writing it to Redis and reading it back:
\* the tiers do not feed each other in a circle.
AgeIsBounded ==
    \A r \in Request : req[r].pc = "done" => req[r].value \in 0..MaxAge

\* While each call of Redis ends within Delay, every request is answered, with a price or
\* with 502, within the time of three such calls and one timeout of every provider,
\* though each provider may hang.
AnsweredInTime ==
    \A r \in Request : req[r].spent <= MaxTime

=============================================================================
