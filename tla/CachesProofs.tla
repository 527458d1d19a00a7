----------------------------- MODULE CachesProofs -----------------------------
(***************************************************************************)
(* For any number of processes, providers, attempts, readers and writers,    *)
(* and any lives and delays: what the idempotency middleware replays is the  *)
(* one response that was stored; how old a price may be, and how long a      *)
(* request for one may take; for how long a balance may be outdated.         *)
(***************************************************************************)
EXTENDS MCCaches, Integers, TLAPS

-----------------------------------------------------------------------------
(* The idempotency middleware: a stored response stays *)

AttemptPlace == {"unsent", "sent", "handling", "worked", "answered"}
Response == Attempt \cup {None}
AttemptRecord == [pc : AttemptPlace, key : Key, endpoint : Endpoint, answer : Response]
ReplayRow == [endpoint : Endpoint \cup {None}, response : Response]

\* There are keys and endpoints, and None is no attempt and no endpoint.
Distinct == Key # {} /\ Endpoint # {} /\ None \notin Attempt /\ None \notin Endpoint

\* The response of attempt q, which was answered under this key.
Stored(k, q) ==
  /\ attempt[q].pc = "answered" /\ attempt[q].key = k
  /\ table[k].endpoint = attempt[q].endpoint /\ table[k].response = q

\* The same of the next state, for a key that does not depend on it.
StoredNext(k, q) ==
  /\ attempt'[q].pc = "answered" /\ attempt'[q].key = k
  /\ table'[k].endpoint = attempt'[q].endpoint /\ table'[k].response = q

ReplaysInv ==
  /\ table \in [Key -> ReplayRow]
  /\ attempt \in [Attempt -> AttemptRecord]
  /\ insert \subseteq {r \in Attempt : attempt[r].pc = "answered"}
  /\ \A r \in Attempt : attempt[r].pc # "answered" => attempt[r].answer = None
  /\ \A k \in Key : table[k] = Replays!NoRow \/ \E q \in Attempt : Stored(k, q)
  /\ \A r, q \in Attempt :
       attempt[r].answer = q => /\ Replays!SameOperation(r, q)
                                /\ q # r => Stored(attempt[r].key, q)

LEMMA InitReplays == ASSUME Distinct, Replays!Init PROVE ReplaysInv
  <1>1. table \in [Key -> ReplayRow] /\ \A k \in Key : table[k] = Replays!NoRow
    BY DEF Replays!Init, Replays!NoRow, ReplayRow, Response
  <1>2. (CHOOSE k \in Key : TRUE) \in Key /\ (CHOOSE e \in Endpoint : TRUE) \in Endpoint
    BY DEF Distinct
  <1>3. attempt \in [Attempt -> AttemptRecord]
    BY <1>2 DEF Replays!Init, AttemptRecord, AttemptPlace, Response
  <1>4. \A r \in Attempt : attempt[r].answer = None
    BY DEF Replays!Init
  <1>5. insert = {}
    BY DEF Replays!Init
  <1>6. QED
    BY <1>1, <1>3, <1>4, <1>5 DEF ReplaysInv, Distinct

\* An attempt that is not answered goes on, and is answered, if at all, with its own
\* response or with one that is stored.
LEMMA AttemptStep ==
  ASSUME Distinct, ReplaysInv, NEW r \in Attempt, NEW new \in AttemptRecord,
         attempt[r].pc # "answered", attempt' = [attempt EXCEPT ![r] = new],
         table' = table, insert' \subseteq insert \cup {r}, r \in insert' => new.pc = "answered",
         new.pc # "answered" => new.answer = None,
         \/ new.answer = None
         \/ new.answer = r
         \/ /\ new.key = attempt[r].key /\ new.endpoint = attempt[r].endpoint
            /\ new.answer \in Attempt
            /\ Stored(new.key, new.answer) /\ attempt[new.answer].endpoint = new.endpoint
  PROVE  ReplaysInv'
  <1>1. /\ table \in [Key -> ReplayRow] /\ attempt \in [Attempt -> AttemptRecord]
        /\ insert \subseteq {q \in Attempt : attempt[q].pc = "answered"}
        /\ \A q \in Attempt : attempt[q].pc # "answered" => attempt[q].answer = None
        /\ \A k \in Key : table[k] = Replays!NoRow \/ \E q \in Attempt : Stored(k, q)
    BY DEF ReplaysInv
  <1>2. \A p, q \in Attempt : attempt[p].answer = q =>
          Replays!SameOperation(p, q) /\ (q # p => Stored(attempt[p].key, q))
    BY DEF ReplaysInv
  <1>3. attempt'[r] = new /\ \A q \in Attempt \ {r} : attempt'[q] = attempt[q]
    BY <1>1
  <1>4. attempt' \in [Attempt -> AttemptRecord] /\ table' \in [Key -> ReplayRow]
    BY <1>1
  <1>5. insert' \subseteq {q \in Attempt : attempt'[q].pc = "answered"}
    BY <1>1, <1>3
  <1>6. \A q \in Attempt : attempt'[q].pc # "answered" => attempt'[q].answer = None
    BY <1>1, <1>3
  <1>7. \A q \in Attempt, k \in Key : Stored(k, q) => q # r /\ StoredNext(k, q)
    BY <1>3 DEF Stored, StoredNext
  <1>8. \A k \in Key : table'[k] = Replays!NoRow \/ \E q \in Attempt : StoredNext(k, q)
    BY <1>1, <1>7
  <1>9. ASSUME NEW p \in Attempt, NEW q \in Attempt, attempt'[p].answer = q
        PROVE  Replays!SameOperation(p, q)' /\ (q # p => StoredNext(attempt'[p].key, q))
    <2>1. CASE p # r
      <3>1. attempt[p].answer = q /\ Replays!SameOperation(p, q)
            /\ (q # p => Stored(attempt[p].key, q)) /\ attempt[p].key \in Key
        BY <1>1, <1>2, <1>3, <1>9, <2>1 DEF AttemptRecord
      <3>2. q # p => q # r /\ StoredNext(attempt'[p].key, q)
        BY <1>3, <1>7, <2>1, <3>1
      <3>3. Replays!SameOperation(p, q)'
        BY <1>3, <2>1, <3>1, <3>2 DEF Replays!SameOperation
      <3>4. QED
        BY <3>2, <3>3
    <2>2. CASE p = r /\ q = r
      BY <2>2 DEF Replays!SameOperation
    <2>3. CASE p = r /\ q # r
      <3>1. /\ new.key = attempt[r].key /\ new.endpoint = attempt[r].endpoint
            /\ Stored(new.key, q) /\ attempt[q].endpoint = new.endpoint
            /\ attempt[r].key \in Key
        <4>1. new.answer = q /\ q # None /\ q # r
          BY <1>3, <1>9, <2>3 DEF Distinct
        <4>2. attempt[r].key \in Key
          BY <1>1 DEF AttemptRecord
        <4>3. QED
          BY <4>1, <4>2
      <3>2. StoredNext(new.key, q) /\ attempt[q].key = new.key
        BY <1>7, <3>1 DEF Stored
      <3>3. QED
        BY <1>3, <2>3, <3>1, <3>2 DEF Replays!SameOperation
    <2>4. QED
      BY <2>1, <2>2, <2>3
  <1>10. QED
    BY <1>4, <1>5, <1>6, <1>8, <1>9 DEF ReplaysInv, Stored, StoredNext

LEMMA AttemptSteps ==
  ASSUME Distinct, ReplaysInv, NEW r \in Attempt,
         \/ \E k \in Key, e \in Endpoint : Replays!Send(r, k, e)
         \/ Replays!Pass(r) \/ Replays!SelectFails(r) \/ Replays!Work(r)
         \/ Replays!HandlerFails(r) \/ Replays!Respond(r) \/ Replays!Refuse(r)
         \/ Replays!Replay(r)
  PROVE  ReplaysInv'
  <1>1. /\ attempt[r] \in AttemptRecord
        /\ attempt[r].pc # "answered" => attempt[r].answer = None /\ r \notin insert
        /\ attempt[r].key \in Key
    BY DEF ReplaysInv, AttemptRecord
  <1>2. /\ "sent" \in AttemptPlace /\ "handling" \in AttemptPlace /\ "worked" \in AttemptPlace
        /\ "answered" \in AttemptPlace /\ None \in Response /\ r \in Response
    BY DEF AttemptPlace, Response
  <1>3. ASSUME NEW k \in Key, NEW e \in Endpoint, Replays!Send(r, k, e) PROVE ReplaysInv'
    <2> DEFINE new == [pc |-> "sent", key |-> k, endpoint |-> e, answer |-> None]
    <2>1. new \in AttemptRecord
      BY <1>2 DEF AttemptRecord
    <2>2. /\ attempt[r].pc = "unsent" /\ attempt' = [attempt EXCEPT ![r] = new]
          /\ table' = table /\ insert' = insert
      BY <1>3 DEF Replays!Send
    <2>3. QED
      BY <1>1, <2>1, <2>2, AttemptStep
  <1>4. ASSUME NEW pc \in AttemptPlace, attempt[r].pc # "answered",
               attempt' = [attempt EXCEPT ![r].pc = pc], table' = table, insert' = insert
        PROVE  ReplaysInv'
    <2> DEFINE new == [attempt[r] EXCEPT !.pc = pc]
    <2>1. new \in AttemptRecord /\ new.pc = pc /\ new.answer = None
      BY <1>1, <1>4 DEF AttemptRecord
    <2>2. attempt' = [attempt EXCEPT ![r] = new]
      BY <1>4
    <2> HIDE DEF new
    <2>3. QED
      BY <1>1, <1>4, <2>1, <2>2, AttemptStep
  <1>5. CASE \/ Replays!Pass(r) \/ Replays!SelectFails(r) \/ Replays!Work(r)
             \/ Replays!HandlerFails(r)
    BY <1>2, <1>4, <1>5
    DEF Replays!Pass, Replays!SelectFails, Replays!Work, Replays!HandlerFails
  <1>6. CASE Replays!Respond(r) \/ Replays!Refuse(r)
    <2> DEFINE new == [attempt[r] EXCEPT !.pc = "answered", !.answer = r]
    <2>1. new \in AttemptRecord /\ new.pc = "answered" /\ new.answer = r
      BY <1>1, <1>2 DEF AttemptRecord
    <2>2. /\ attempt' = [attempt EXCEPT ![r] = new] /\ attempt[r].pc # "answered"
          /\ table' = table /\ insert' = insert \cup {r}
      BY <1>6 DEF Replays!Respond, Replays!Refuse
    <2> HIDE DEF new
    <2>3. QED
      BY <2>1, <2>2, AttemptStep
  <1>7. CASE Replays!Replay(r)
    <2> DEFINE key == attempt[r].key
               new == [attempt[r] EXCEPT !.pc = "answered", !.answer = table[key].response]
    <2>1. /\ attempt[r].pc = "sent" /\ attempt' = [attempt EXCEPT ![r] = new]
          /\ table' = table /\ insert' = insert
          /\ table[key].endpoint = attempt[r].endpoint
      BY <1>7 DEF Replays!Replay, Replays!Found
    <2>2. PICK q \in Attempt : Stored(key, q)
      <3>1. attempt[r].endpoint # None
        BY <1>1 DEF AttemptRecord, Distinct
      <3>2. table[key] # Replays!NoRow
        BY <2>1, <3>1 DEF Replays!NoRow
      <3>3. QED
        BY <1>1, <3>2 DEF ReplaysInv
    <2>3. /\ new \in AttemptRecord /\ new.pc = "answered" /\ new.answer = q
          /\ new.key = attempt[r].key /\ new.endpoint = attempt[r].endpoint
      BY <1>1, <1>2, <2>2 DEF AttemptRecord, Stored, Response
    <2>4. attempt[q].endpoint = attempt[r].endpoint
      BY <2>1, <2>2 DEF Stored
    <2> HIDE DEF new
    <2>5. QED
      BY <1>1, <2>1, <2>2, <2>3, <2>4, AttemptStep
  <1>8. QED
    BY <1>3, <1>5, <1>6, <1>7

LEMMA StoreStep ==
  ASSUME Distinct, ReplaysInv, NEW r \in Attempt, Replays!Store(r) \/ Replays!StoreFails(r)
  PROVE  ReplaysInv'
  <1>1. /\ table \in [Key -> ReplayRow] /\ attempt \in [Attempt -> AttemptRecord]
        /\ r \in insert /\ attempt[r].pc = "answered"
        /\ attempt' = attempt /\ insert' = insert \ {r}
        /\ attempt[r].key \in Key /\ attempt[r].endpoint \in Endpoint
    BY DEF ReplaysInv, Replays!Store, Replays!StoreFails, AttemptRecord
  <1> DEFINE key == attempt[r].key
             new == IF table[key] = Replays!NoRow THEN Replays!Row(r) ELSE table[key]
  <1>2. CASE table' = table
    BY <1>1, <1>2 DEF ReplaysInv, Stored, Replays!SameOperation
  <1>3. CASE table[key] = Replays!NoRow /\ table' = [table EXCEPT ![key] = Replays!Row(r)]
    <2>1. Replays!Row(r) \in ReplayRow
      BY <1>1 DEF Replays!Row, ReplayRow, Response
    <2>2. table' \in [Key -> ReplayRow]
      BY <1>1, <1>3, <2>1
    <2>3. StoredNext(key, r)
      BY <1>1, <1>3 DEF StoredNext, Replays!Row
    <2>4. \A k \in Key, q \in Attempt : Stored(k, q) => k # key /\ StoredNext(k, q)
      BY <1>1, <1>3 DEF Stored, StoredNext, Replays!NoRow, Distinct
    <2>5. \A k \in Key \ {key} : table'[k] = table[k]
      BY <1>1, <1>3
    <2>6. ASSUME NEW k \in Key
          PROVE  table'[k] = Replays!NoRow \/ \E q \in Attempt : StoredNext(k, q)
      <3>1. table[k] = Replays!NoRow \/ \E q \in Attempt : Stored(k, q)
        BY DEF ReplaysInv
      <3>2. CASE k = key
        BY <2>3, <3>2
      <3>3. CASE k # key
        BY <2>4, <2>5, <3>1, <3>3
      <3>4. QED
        BY <3>2, <3>3
    <2>7. ASSUME NEW p \in Attempt, NEW q \in Attempt, attempt[p].answer = q
          PROVE  Replays!SameOperation(p, q)' /\ (q # p => StoredNext(attempt'[p].key, q))
      <3>1. Replays!SameOperation(p, q) /\ (q # p => Stored(attempt[p].key, q))
        BY <2>7 DEF ReplaysInv
      <3>2. Replays!SameOperation(p, q)'
        BY <1>1, <3>1 DEF Replays!SameOperation
      <3>3. attempt[p].key \in Key
        BY <1>1 DEF AttemptRecord
      <3>4. QED
        BY <1>1, <2>4, <3>1, <3>2, <3>3
    <2>8. QED
      BY <1>1, <2>2, <2>6, <2>7 DEF ReplaysInv, Stored, StoredNext
  <1>4. QED
    BY <1>1, <1>2, <1>3 DEF Replays!Store, Replays!StoreFails

LEMMA NextReplays ==
  ASSUME Distinct
  PROVE  ReplaysInv /\ [Replays!Next]_(Replays!vars) => ReplaysInv'
  <1> SUFFICES ASSUME ReplaysInv, [Replays!Next]_(Replays!vars) PROVE ReplaysInv'
    OBVIOUS
  <1>1. CASE UNCHANGED Replays!vars
    BY <1>1 DEF Replays!vars, ReplaysInv, Stored, Replays!SameOperation
  <1>2. QED
    BY <1>1, AttemptSteps, StoreStep DEF Replays!Next

\* What is replayed to an attempt is the response to an attempt with its own key and
\* endpoint, and the one that every later attempt will be given, however many attempts
\* overlap and whichever of their INSERTs arrive.
THEOREM ReplaysAreOneResponse ==
  ASSUME Distinct PROVE Replays!Spec => []ReplaysAgree
  <1>1. ReplaysInv => ReplaysAgree
    <2>1. ASSUME ReplaysInv, NEW r \in Attempt, NEW q \in Attempt, attempt[r].answer = q, q # r
          PROVE  table[attempt[r].key] = Replays!Row(q)
      <3>1. Stored(attempt[r].key, q) /\ table[attempt[r].key] \in ReplayRow
        BY <2>1 DEF ReplaysInv, AttemptRecord
      <3>2. QED
        BY <3>1 DEF Stored, Replays!Row, ReplayRow
    <2>2. QED
      BY <2>1 DEF ReplaysInv, ReplaysAgree, Replays!ReplaysAgree
  <1>2. Replays!Init => ReplaysInv
    BY InitReplays
  <1>3. ReplaysInv /\ [Replays!Next]_(Replays!vars) => ReplaysInv'
    BY NextReplays
  <1>4. QED
    BY <1>1, <1>2, <1>3, PTL DEF Replays!Spec

-----------------------------------------------------------------------------
(* The price cache: ages and durations *)

\* The bounds are durations, there is a process, and there is a provider.
PriceTimes ==
  /\ Ttl \in Nat /\ Timeout \in Nat /\ Delay \in Nat /\ Providers \in Nat \ {0}
  /\ Process # {}

NoPrice == {Prices!Never, Prices!Bad}

\* An entry of the memory tier ages within its life.
KeptWell(e) ==
  \/ e = Prices!Empty
  \/ e.value \in Nat /\ e.left \in Nat /\ e.value + e.left <= Prices!MaxAge

\* An entry of Redis began at most Delay old, and has Ttl to live.
SharedWell(e) ==
  /\ e.left \in Nat
  /\ e.value \in NoPrice \/ (e.value \in Nat /\ e.value + e.left <= Delay + Ttl)

\* How old a price may be in each step of a request, with the time the step may last.
AgesWell(q) ==
  CASE q.pc \in {"get", "del", "fetch"} -> q.value = Prices!Never
    [] q.pc = "got" -> q.value \in NoPrice \/ (q.value \in Nat /\ q.value + q.left <= 2 * Delay + Ttl)
    [] q.pc = "set" -> q.value \in Nat /\ q.value + q.left <= Delay
    [] q.pc = "done" -> q.value \in 0..Prices!MaxAge
    [] OTHER -> TRUE

\* What n providers may take together.
Waterfall(n) == n * Timeout

\* How long a request may have taken at the end of each step.
GoesWell(q) ==
  CASE q.pc \in {"get", "got"} -> q.spent + q.left <= Delay
    [] q.pc = "del" -> q.spent + q.left <= 2 * Delay
    [] q.pc = "fetch" -> /\ q.provider \in 1..Providers
                         /\ q.spent + q.left <= 2 * Delay + Waterfall(q.provider)
    [] q.pc = "set" -> q.spent + q.left <= Prices!MaxTime
    [] OTHER -> q.spent = 0

PricePlace == Prices!Waiting \cup {"done", "failed"}
PriceRequest ==
  [pc : PricePlace, at : Process, value : Int, provider : Nat, left : Nat, spent : Nat]
PriceEntry == [value : Int, left : Nat]

PriceInv ==
  /\ memory \in [Process -> PriceEntry] /\ redis \in PriceEntry
  /\ req \in [Request -> PriceRequest]
  /\ \A s \in Process : KeptWell(memory[s])
  /\ SharedWell(redis)
  /\ \A r \in Request : AgesWell(req[r]) /\ GoesWell(req[r])

LEMMA WaterfallGrows ==
  ASSUME PriceTimes
  PROVE  /\ \A n \in Nat : Waterfall(n) \in Nat /\ Waterfall(n + 1) = Waterfall(n) + Timeout
         /\ \A n \in 1..Providers : Waterfall(n) <= Waterfall(Providers)
         /\ Waterfall(0) = 0
         /\ Prices!MaxTime = 3 * Delay + Waterfall(Providers)
         /\ Prices!MaxTime \in Nat /\ Waterfall(Providers) \in Nat
  <1>1. \A n \in Nat : Waterfall(n) \in Nat /\ Waterfall(n + 1) = Waterfall(n) + Timeout
    BY DEF Waterfall, PriceTimes
  <1>2. ASSUME NEW n \in 1..Providers PROVE Waterfall(n) <= Waterfall(Providers)
    <2>1. \A m \in Nat : n <= m => n * Timeout <= m * Timeout
      BY DEF PriceTimes
    <2>2. QED
      BY <2>1 DEF Waterfall, PriceTimes
  <1>3. Waterfall(0) = 0
    BY DEF Waterfall, PriceTimes
  <1>4. Prices!MaxTime = 3 * Delay + Waterfall(Providers)
    BY DEF Prices!MaxTime, Waterfall
  <1>5. Waterfall(Providers) \in Nat
    BY <1>1 DEF PriceTimes
  <1>6. QED
    BY <1>1, <1>2, <1>3, <1>4, <1>5 DEF PriceTimes

LEMMA InitPrices == ASSUME PriceTimes, Prices!Init PROVE PriceInv
  <1>1. (CHOOSE s \in Process : TRUE) \in Process
    BY DEF PriceTimes
  <1>2. /\ memory \in [Process -> PriceEntry] /\ redis \in PriceEntry
        /\ \A s \in Process : memory[s] = Prices!Empty
        /\ redis = Prices!Empty
    BY DEF Prices!Init, Prices!Empty, PriceEntry, Prices!Never
  <1>3. req \in [Request -> PriceRequest]
    <2> DEFINE s == CHOOSE s \in Process : TRUE
               first == [pc |-> "failed", at |-> s, value |-> Prices!Never, provider |-> 0,
                         left |-> 0, spent |-> 0]
    <2>1. req = [r \in Request |-> first]
      BY DEF Prices!Init
    <2> HIDE DEF s
    <2>2. s \in Process /\ Prices!Never \in Int /\ "failed" \in PricePlace
      BY <1>1 DEF s, Prices!Never, PricePlace
    <2>3. first \in PriceRequest
      BY <2>2 DEF PriceRequest
    <2> HIDE DEF first
    <2>4. QED
      BY <2>1, <2>3
  <1>4. \A r \in Request : AgesWell(req[r]) /\ GoesWell(req[r])
    BY DEF Prices!Init, AgesWell, GoesWell
  <1>5. SharedWell(redis)
    BY <1>2 DEF SharedWell, Prices!Empty, Prices!Never, NoPrice
  <1>6. QED
    BY <1>2, <1>3, <1>4, <1>5 DEF PriceInv, KeptWell

\* The memory tier of one process at most is written, and well.
MemoryStep ==
  \/ memory' = memory
  \/ \E s \in Process, e \in PriceEntry :
       KeptWell(e) /\ memory' = [memory EXCEPT ![s] = e]

\* A request goes on as it may, and keeps a price in either tier at most.
LEMMA PriceStep ==
  ASSUME PriceInv, NEW r \in Request, NEW new \in PriceRequest,
         req' = [req EXCEPT ![r] = new], AgesWell(new), GoesWell(new),
         MemoryStep,
         redis' \in PriceEntry, SharedWell(redis')
  PROVE  PriceInv'
  <1>1. \A q \in Request : AgesWell(req'[q]) /\ GoesWell(req'[q])
    BY DEF PriceInv
  <1>2. req' \in [Request -> PriceRequest]
    BY DEF PriceInv
  <1>3. memory' \in [Process -> PriceEntry] /\ \A s \in Process : KeptWell(memory'[s])
    BY DEF PriceInv, MemoryStep
  <1>4. QED
    BY <1>1, <1>2, <1>3 DEF PriceInv

LEMMA PriceSteps ==
  ASSUME PriceTimes, PriceInv, NEW r \in Request,
         \/ \E s \in Process : Prices!HitMemory(r, s) \/ Prices!AskRedis(r, s)
         \/ Prices!RedisAnswers(r) \/ Prices!ServeRedis(r) \/ Prices!Discard(r)
         \/ Prices!Deleted(r) \/ Prices!Miss(r) \/ Prices!Fetched(r)
         \/ Prices!AskNext(r) \/ Prices!AllFailed(r) \/ Prices!Stored(r)
  PROVE  PriceInv'
  <1> USE DEF PriceTimes
  <1>1. /\ req \in [Request -> PriceRequest] /\ req[r] \in PriceRequest
        /\ redis \in PriceEntry /\ SharedWell(redis)
        /\ memory \in [Process -> PriceEntry] /\ \A s \in Process : KeptWell(memory[s])
        /\ AgesWell(req[r]) /\ GoesWell(req[r])
    BY DEF PriceInv
  <1>2. Prices!Empty \in PriceEntry /\ SharedWell(Prices!Empty) /\ KeptWell(Prices!Empty)
    BY DEF Prices!Empty, PriceEntry, SharedWell, KeptWell, Prices!Never, NoPrice
  <1>3. /\ req[r].at \in Process /\ req[r].value \in Int /\ req[r].provider \in Nat
        /\ req[r].left \in Nat /\ req[r].spent \in Nat
    BY <1>1 DEF PriceRequest
  <1>0. memory' = memory => MemoryStep
    BY DEF MemoryStep
  \* The request ends.
  <1>4. ASSUME NEW pc \in {"done", "failed"}, NEW s \in Process, NEW value \in Int,
               Prices!Ends(r, pc, s, value), pc = "done" => value \in 0..Prices!MaxAge,
               MemoryStep,
               redis' \in PriceEntry, SharedWell(redis')
        PROVE  PriceInv'
    <2> DEFINE new == [pc |-> pc, at |-> s, value |-> value, provider |-> 0,
                       left |-> 0, spent |-> 0]
    <2>1. new \in PriceRequest
      BY DEF PriceRequest, PricePlace
    <2>2. AgesWell(new) /\ GoesWell(new)
      BY <1>4 DEF AgesWell, GoesWell
    <2>3. req' = [req EXCEPT ![r] = new]
      BY <1>4 DEF Prices!Ends
    <2> HIDE DEF new
    <2>4. QED
      BY <1>0, <1>4, <2>1, <2>2, <2>3, PriceStep
  \* It goes on: old is not reset, so the time it has spent is kept.
  <1>5. ASSUME NEW pc \in Prices!Waiting, NEW value \in Int, NEW provider \in Nat, NEW wait \in Nat,
               Prices!Goes(r, pc, value, provider, wait),
               AgesWell([pc |-> pc, at |-> req[r].at, value |-> value, provider |-> provider,
                         left |-> wait, spent |-> req[r].spent]),
               GoesWell([pc |-> pc, at |-> req[r].at, value |-> value, provider |-> provider,
                         left |-> wait, spent |-> req[r].spent]),
               MemoryStep,
               redis' \in PriceEntry, SharedWell(redis')
        PROVE  PriceInv'
    <2> DEFINE new == [req[r] EXCEPT !.pc = pc, !.value = value, !.provider = provider,
                                    !.left = wait]
    <2>1. pc \in PricePlace
      BY DEF PricePlace
    <2>2. /\ new \in PriceRequest /\ new.pc = pc /\ new.value = value
          /\ new.provider = provider /\ new.left = wait /\ new.spent = req[r].spent
      BY <1>1, <2>1 DEF PriceRequest
    <2>3. req' = [req EXCEPT ![r] = new]
      BY <1>1, <1>5 DEF Prices!Goes
    <2> HIDE DEF new
    <2>4. AgesWell(new)
      BY <1>0, <1>5, <2>2 DEF AgesWell
    <2>5. GoesWell(new)
      BY <1>0, <1>5, <2>2 DEF GoesWell
    <2>6. QED
      BY <1>0, <1>5, <2>2, <2>3, <2>4, <2>5, PriceStep
  \* The memory tier is written with a price as old as one fetched or read from Redis.
  <1>6. ASSUME NEW s \in Process, NEW value \in Nat, value <= 2 * Delay + Ttl,
               Prices!MemorySet(s, value)
        PROVE  MemoryStep
    <2> DEFINE new == [value |-> value, left |-> Ttl]
    <2>1. new \in PriceEntry /\ KeptWell(new)
      BY <1>6 DEF PriceEntry, KeptWell, Prices!MaxAge
    <2>2. memory' = [memory EXCEPT ![s] = new]
      BY <1>6 DEF Prices!MemorySet
    <2> HIDE DEF new
    <2>3. QED
      BY <2>1, <2>2 DEF MemoryStep
  <1>7. ASSUME NEW s \in Process, Prices!HitMemory(r, s) PROVE PriceInv'
    <2>1. Prices!Ends(r, "done", s, memory[s].value) /\ memory' = memory /\ redis' = redis
      BY <1>7 DEF Prices!HitMemory
    <2>2. memory[s].value \in Int /\ memory[s].value \in 0..Prices!MaxAge
      <3>1. memory[s] # Prices!Empty /\ KeptWell(memory[s]) /\ memory[s] \in PriceEntry
        BY <1>1, <1>7 DEF Prices!HitMemory
      <3>2. QED
        BY <3>1 DEF KeptWell, Prices!MaxAge
    <2>3. QED
      BY <1>1, <1>0, <1>4, <2>1, <2>2
  <1>8. ASSUME NEW s \in Process, Prices!AskRedis(r, s) PROVE PriceInv'
    <2> DEFINE new == [pc |-> "get", at |-> s, value |-> Prices!Never, provider |-> 0,
                       left |-> Delay, spent |-> 0]
    <2>1. new \in PriceRequest
      BY DEF PriceRequest, PricePlace, Prices!Waiting, Prices!Never
    <2>2. AgesWell(new) /\ GoesWell(new)
      BY DEF AgesWell, GoesWell
    <2>3. req' = [req EXCEPT ![r] = new] /\ memory' = memory /\ redis' = redis
      BY <1>8 DEF Prices!AskRedis
    <2> HIDE DEF new
    <2>4. QED
      BY <1>0, <1>1, <2>1, <2>2, <2>3, PriceStep
  <1>9. CASE Prices!RedisAnswers(r)
    <2>1. PICK v \in {redis.value, Prices!Never} : Prices!Goes(r, "got", v, 0, req[r].left)
      BY <1>9 DEF Prices!RedisAnswers
    <2>2. /\ req[r].pc = "get" /\ memory' = memory /\ redis' = redis
          /\ req[r].spent + req[r].left <= Delay
      BY <1>1, <1>9 DEF Prices!RedisAnswers, GoesWell
    <2>3. /\ redis.value \in Int /\ redis.left \in Nat
          /\ redis.value \in NoPrice \/ (redis.value \in Nat /\ redis.value + redis.left <= Delay + Ttl)
      BY <1>1 DEF PriceEntry, SharedWell
    <2>4. v \in Int /\ "got" \in Prices!Waiting
      BY <2>3 DEF Prices!Never, Prices!Waiting
    <2>5. v \in NoPrice \/ (v \in Nat /\ v + req[r].left <= 2 * Delay + Ttl)
      BY <1>3, <2>2, <2>3 DEF NoPrice
    <2> DEFINE new == [pc |-> "got", at |-> req[r].at, value |-> v, provider |-> 0,
                       left |-> req[r].left, spent |-> req[r].spent]
    <2>6. AgesWell(new) /\ GoesWell(new)
      BY <2>2, <2>5 DEF AgesWell, GoesWell
    <2> HIDE DEF new
    <2>7. QED
      BY <1>1, <1>3, <1>0, <1>5, <2>1, <2>2, <2>4, <2>6 DEF new
  <1>10. CASE Prices!ServeRedis(r)
    <2>1. /\ req[r].pc = "got" /\ req[r].value \in Nat /\ redis' = redis
          /\ Prices!MemorySet(req[r].at, req[r].value)
          /\ Prices!Ends(r, "done", req[r].at, req[r].value)
      BY <1>3, <1>10 DEF Prices!ServeRedis
    <2>2. req[r].value <= 2 * Delay + Ttl
      BY <1>1, <1>3, <2>1 DEF AgesWell, NoPrice, Prices!Never, Prices!Bad
    <2>3. req[r].value \in 0..Prices!MaxAge
      BY <2>1, <2>2 DEF Prices!MaxAge
    <2>4. QED
      BY <1>1, <1>3, <1>0, <1>4, <1>6, <2>1, <2>2, <2>3
  <1>11. CASE Prices!Discard(r)
    <2>1. /\ req[r].pc = "got" /\ memory' = memory /\ redis' = redis
          /\ Prices!Goes(r, "del", Prices!Never, 0, Delay)
          /\ req[r].spent + req[r].left <= Delay
      BY <1>1, <1>11 DEF Prices!Discard, GoesWell
    <2> DEFINE new == [pc |-> "del", at |-> req[r].at, value |-> Prices!Never, provider |-> 0,
                       left |-> Delay, spent |-> req[r].spent]
    <2>2. AgesWell(new) /\ GoesWell(new)
      BY <1>3, <2>1 DEF AgesWell, GoesWell
    <2>3. Prices!Never \in Int /\ "del" \in Prices!Waiting
      BY DEF Prices!Never, Prices!Waiting
    <2> HIDE DEF new
    <2>4. QED
      BY <1>1, <1>0, <1>5, <2>1, <2>2, <2>3 DEF new
  \* A provider is asked, for as long as Timeout.
  <1>12. ASSUME NEW n \in 1..Providers, Prices!Goes(r, "fetch", Prices!Never, n, Timeout),
                req[r].spent + Timeout <= 2 * Delay + Waterfall(n), memory' = memory,
                redis' \in PriceEntry, SharedWell(redis')
         PROVE  PriceInv'
    <2> DEFINE new == [pc |-> "fetch", at |-> req[r].at, value |-> Prices!Never, provider |-> n,
                       left |-> Timeout, spent |-> req[r].spent]
    <2>1. AgesWell(new) /\ GoesWell(new)
      BY <1>12 DEF AgesWell, GoesWell
    <2>2. Prices!Never \in Int /\ "fetch" \in Prices!Waiting /\ n \in Nat
      BY DEF Prices!Never, Prices!Waiting
    <2> HIDE DEF new
    <2>3. QED
      BY <1>0, <1>5, <1>12, <2>1, <2>2 DEF new
  <1>13. 1 \in 1..Providers /\ Waterfall(1) = Timeout
    BY DEF Waterfall
  <1>14. CASE Prices!Deleted(r) \/ Prices!Miss(r)
    <2>1. /\ Prices!Goes(r, "fetch", Prices!Never, 1, Timeout) /\ memory' = memory
          /\ redis' \in {redis, Prices!Empty} /\ req[r].pc \in {"del", "got"}
      BY <1>14 DEF Prices!Deleted, Prices!Miss
    <2>2. req[r].spent + Timeout <= 2 * Delay + Waterfall(1)
      BY <1>1, <1>3, <1>13, <2>1 DEF GoesWell
    <2>3. redis' \in PriceEntry /\ SharedWell(redis')
      BY <1>1, <1>2, <2>1
    <2>4. QED
      BY <1>12, <1>13, <2>1, <2>2, <2>3
  <1>15. req[r].pc = "fetch" =>
           /\ req[r].provider \in 1..Providers
           /\ req[r].spent + req[r].left <= 2 * Delay + Waterfall(req[r].provider)
           /\ Waterfall(req[r].provider) \in Nat
           /\ Waterfall(req[r].provider) <= Waterfall(Providers)
           /\ Waterfall(req[r].provider + 1) = Waterfall(req[r].provider) + Timeout
    BY <1>1, <1>3, WaterfallGrows DEF GoesWell
  <1>16. CASE Prices!Fetched(r)
    <2>1. /\ req[r].pc = "fetch" /\ redis' = redis /\ Prices!MemorySet(req[r].at, 0)
          /\ Prices!Goes(r, "set", 0, req[r].provider, Delay)
      BY <1>16 DEF Prices!Fetched
    <2> DEFINE new == [pc |-> "set", at |-> req[r].at, value |-> 0, provider |-> req[r].provider,
                       left |-> Delay, spent |-> req[r].spent]
    <2>2. req[r].spent + Delay <= Prices!MaxTime
      BY <1>3, <1>15, <2>1, WaterfallGrows
    <2>3. AgesWell(new) /\ GoesWell(new)
      BY <2>2 DEF AgesWell, GoesWell
    <2>4. "set" \in Prices!Waiting
      BY DEF Prices!Waiting
    <2>5. MemoryStep
      BY <1>3, <1>6, <2>1
    <2> HIDE DEF new
    <2>6. QED
      BY <1>1, <1>3, <1>0, <1>5, <2>1, <2>3, <2>4, <2>5 DEF new
  <1>17. CASE Prices!AskNext(r)
    <2> DEFINE n == req[r].provider + 1
    <2>1. /\ req[r].pc = "fetch" /\ req[r].provider < Providers /\ memory' = memory /\ redis' = redis
          /\ Prices!Goes(r, "fetch", Prices!Never, n, Timeout)
      BY <1>17 DEF Prices!AskNext
    <2>2. n \in 1..Providers /\ req[r].spent + Timeout <= 2 * Delay + Waterfall(n)
      BY <1>3, <1>15, <2>1
    <2> HIDE DEF n
    <2>3. QED
      BY <1>1, <1>12, <2>1, <2>2
  <1>18. CASE Prices!AllFailed(r)
    <2>1. Prices!Ends(r, "failed", req[r].at, Prices!Never) /\ memory' = memory /\ redis' = redis
      BY <1>18 DEF Prices!AllFailed
    <2>2. Prices!Never \in Int
      BY DEF Prices!Never
    <2>3. QED
      BY <1>1, <1>3, <1>0, <1>4, <2>1, <2>2
  <1>19. CASE Prices!Stored(r)
    <2>1. /\ req[r].pc = "set" /\ memory' = memory
          /\ redis' \in {redis, [value |-> req[r].value, left |-> Ttl]}
          /\ Prices!Ends(r, "done", req[r].at, req[r].value)
      BY <1>19 DEF Prices!Stored
    <2>2. req[r].value \in Nat /\ req[r].value <= Delay
      BY <1>1, <1>3, <2>1 DEF AgesWell
    <2>3. req[r].value \in 0..Prices!MaxAge
      BY <2>2 DEF Prices!MaxAge
    <2>4. redis' \in PriceEntry /\ SharedWell(redis')
      BY <1>1, <2>1, <2>2 DEF PriceEntry, SharedWell
    <2>5. QED
      BY <1>3, <1>0, <1>4, <2>1, <2>2, <2>3, <2>4
  <1>20. QED
    BY <1>7, <1>8, <1>9, <1>10, <1>11, <1>14, <1>16, <1>17, <1>18, <1>19

LEMMA PriceTick ==
  ASSUME PriceTimes, PriceInv, Prices!Tick PROVE PriceInv'
  <1> USE DEF PriceTimes
  <1>1. /\ req \in [Request -> PriceRequest] /\ redis \in PriceEntry /\ SharedWell(redis)
        /\ memory \in [Process -> PriceEntry] /\ \A s \in Process : KeptWell(memory[s])
    BY DEF PriceInv
  <1>2. Prices!Empty \in PriceEntry /\ SharedWell(Prices!Empty) /\ KeptWell(Prices!Empty)
    BY DEF Prices!Empty, PriceEntry, SharedWell, KeptWell, Prices!Never, NoPrice
  \* A price within its bounds ages by one: no cap is reached.
  <1>3. ASSUME NEW v \in Nat, v + 1 <= Prices!MaxAge PROVE Prices!Older(v) = v + 1
    BY <1>3 DEF Prices!Older, Prices!Capped, Prices!MaxAge
  <1>4. \A v \in NoPrice : Prices!Older(v) = v
    BY DEF NoPrice, Prices!Never, Prices!Bad, Prices!Older
  <1>5. ASSUME NEW e \in PriceEntry, KeptWell(e)
        PROVE  Prices!AfterTick(e, 0) \in PriceEntry /\ KeptWell(Prices!AfterTick(e, 0))
    <2>1. CASE e.left <= 0
      BY <1>2, <2>1 DEF Prices!AfterTick
    <2>2. CASE e.left > 0
      <3>1. /\ e.value \in Nat /\ e.left \in Nat /\ e.left - 1 \in Nat
            /\ e.value + e.left <= Prices!MaxAge /\ Prices!MaxAge \in Nat
        BY <1>5, <2>2 DEF KeptWell, Prices!Empty, PriceEntry, Prices!MaxAge
      <3>2. Prices!Older(e.value) = e.value + 1
        BY <1>3, <2>2, <3>1
      <3>3. Prices!AfterTick(e, 0) = [value |-> e.value + 1, left |-> e.left - 1]
        BY <2>2, <3>1, <3>2 DEF Prices!AfterTick
      <3>4. [value |-> e.value + 1, left |-> e.left - 1] \in PriceEntry
        BY <3>1 DEF PriceEntry
      <3>5. QED
        BY <3>1, <3>3, <3>4 DEF KeptWell
    <2>3. QED
      BY <1>5, <2>1, <2>2 DEF PriceEntry
  <1>6. Prices!AfterTick(redis, 1) \in PriceEntry /\ SharedWell(Prices!AfterTick(redis, 1))
    <2>1. CASE redis.left <= 1
      BY <1>2, <2>1 DEF Prices!AfterTick
    <2>2. CASE redis.left > 1 /\ redis.value \in NoPrice
      <3>1. Prices!AfterTick(redis, 1) = [value |-> redis.value, left |-> redis.left - 1]
        BY <1>1, <1>4, <2>2 DEF Prices!AfterTick, PriceEntry
      <3>2. redis.left - 1 \in Nat /\ redis.value \in Int
        BY <1>1, <2>2 DEF PriceEntry
      <3>3. QED
        BY <2>2, <3>1, <3>2 DEF PriceEntry, SharedWell
    <2>3. CASE redis.left > 1 /\ redis.value \notin NoPrice
      <3>1. /\ redis.value \in Nat /\ redis.left \in Nat /\ redis.left - 1 \in Nat
            /\ redis.value + redis.left <= Delay + Ttl /\ Delay + Ttl <= Prices!MaxAge
        BY <1>1, <2>3 DEF PriceEntry, SharedWell, Prices!MaxAge
      <3>2. Prices!Older(redis.value) = redis.value + 1
        BY <1>3, <2>3, <3>1 DEF Prices!MaxAge
      <3>3. Prices!AfterTick(redis, 1) = [value |-> redis.value + 1, left |-> redis.left - 1]
        BY <2>3, <3>1, <3>2 DEF Prices!AfterTick
      <3>4. [value |-> redis.value + 1, left |-> redis.left - 1] \in PriceEntry
        BY <3>1 DEF PriceEntry
      <3>5. QED
        BY <3>1, <3>3, <3>4 DEF SharedWell
    <2>4. QED
      BY <1>1, <2>1, <2>2, <2>3 DEF PriceEntry
  <1>7. /\ memory' \in [Process -> PriceEntry] /\ \A s \in Process : KeptWell(memory'[s])
        /\ redis' \in PriceEntry /\ SharedWell(redis')
    <2>1. /\ memory' = [s \in Process |-> Prices!AfterTick(memory[s], 0)]
          /\ redis' = Prices!AfterTick(redis, 1)
      BY DEF Prices!Tick
    <2>2. \A s \in Process : /\ Prices!AfterTick(memory[s], 0) \in PriceEntry
                             /\ KeptWell(Prices!AfterTick(memory[s], 0))
      BY <1>1, <1>5
    <2>3. QED
      BY <1>6, <2>1, <2>2
  <1>8. ASSUME NEW r \in Request
        PROVE  req'[r] \in PriceRequest /\ AgesWell(req'[r]) /\ GoesWell(req'[r])
    <2>1. req[r] \in PriceRequest /\ AgesWell(req[r]) /\ GoesWell(req[r])
      BY <1>1 DEF PriceInv
    <2>2. CASE req[r].pc \notin Prices!Waiting
      BY <2>1, <2>2 DEF Prices!Tick
    <2>3. CASE req[r].pc \in Prices!Waiting
      <3> DEFINE q == req[r]
                 new == [req[r] EXCEPT !.value = Prices!Older(@), !.left = @ - 1,
                                       !.spent = Prices!Capped(@ + 1, Prices!MaxTime)]
                 spent == Prices!Capped(q.spent + 1, Prices!MaxTime)
      <3>1. req'[r] = new /\ q.left > 0
        BY <2>3 DEF Prices!Tick
      <3>2. q.value \in Int /\ q.left \in Nat /\ q.left - 1 \in Nat /\ q.spent \in Nat /\ q.provider \in Nat
        BY <2>1, <3>1 DEF PriceRequest
      <3>3. /\ DOMAIN q = {"pc", "at", "value", "provider", "left", "spent"}
            /\ q = [pc |-> q.pc, at |-> q.at, value |-> q.value, provider |-> q.provider,
                    left |-> q.left, spent |-> q.spent]
        BY <2>1 DEF PriceRequest
      <3>4. /\ new.pc = q.pc /\ new.at = q.at /\ new.value = Prices!Older(q.value)
            /\ new.provider = q.provider /\ new.left = q.left - 1 /\ new.spent = spent
        BY <3>3
      <3>5. q.spent + q.left <= Prices!MaxTime /\ Prices!MaxTime \in Nat
        <4>1. q.pc = "fetch" => Waterfall(q.provider) <= Waterfall(Providers)
                                /\ Waterfall(q.provider) \in Nat
          BY <2>1, <3>2, WaterfallGrows DEF GoesWell
        <4>2. Waterfall(Providers) \in Nat /\ Prices!MaxTime = 3 * Delay + Waterfall(Providers)
          BY WaterfallGrows
        <4>3. QED
          BY <2>1, <2>3, <3>2, <4>1, <4>2 DEF GoesWell, Prices!Waiting
      <3>6. spent = q.spent + 1
        BY <3>1, <3>2, <3>5 DEF Prices!Capped
      <3>7. \/ q.value \in NoPrice /\ Prices!Older(q.value) = q.value
            \/ /\ q.value \in Nat /\ Prices!Older(q.value) = q.value + 1
               /\ q.pc \in {"got", "set"}
        <4>1. CASE q.value \in NoPrice
          BY <1>4, <4>1
        <4>2. CASE q.value \notin NoPrice
          <5>1. /\ q.pc \in {"got", "set"} /\ q.value \in Nat
                /\ q.value + q.left <= 2 * Delay + Ttl
            BY <2>1, <2>3, <3>2, <4>2 DEF AgesWell, Prices!Waiting, NoPrice
          <5>2. q.value + 1 <= Prices!MaxAge
            BY <3>1, <3>2, <5>1 DEF Prices!MaxAge
          <5>3. QED
            BY <1>3, <5>1, <5>2
        <4>3. QED
          BY <4>1, <4>2
      <3>8. new \in PriceRequest
        <4>1. Prices!Older(q.value) \in Int /\ spent \in Nat
          BY <3>2, <3>6, <3>7
        <4>2. q \in PriceRequest
          BY <2>1
        <4>3. new = [q EXCEPT !.value = Prices!Older(q.value), !.left = q.left - 1,
                              !.spent = spent]
          OBVIOUS
        <4> HIDE DEF new, q, spent
        <4>4. QED
          BY <3>2, <4>1, <4>2, <4>3 DEF PriceRequest
      <3> HIDE DEF new, q, spent
      <3>9. AgesWell(q) /\ GoesWell(q) /\ q.pc \in Prices!Waiting
        BY <2>1, <2>3 DEF q
      <3>10. AgesWell(new)
        <4>1. new.pc = q.pc /\ new.left = q.left - 1 /\ new.value = Prices!Older(q.value)
          BY <3>4
        <4>2. Prices!Never \in NoPrice /\ Prices!Never \notin Nat
          BY DEF NoPrice, Prices!Never
        <4>3. CASE q.value \in NoPrice /\ Prices!Older(q.value) = q.value
          BY <3>2, <3>9, <4>1, <4>3 DEF AgesWell, Prices!Waiting, NoPrice, Prices!Never, Prices!Bad
        <4>4. CASE /\ q.value \in Nat /\ Prices!Older(q.value) = q.value + 1
                   /\ q.pc \in {"got", "set"}
          <5>1. q.value \notin NoPrice
            BY <4>4 DEF NoPrice, Prices!Never, Prices!Bad
          <5>2. \/ q.pc = "got" /\ q.value + q.left <= 2 * Delay + Ttl
                \/ q.pc = "set" /\ q.value + q.left <= Delay
            BY <3>9, <4>4, <5>1 DEF AgesWell
          <5>3. new.value \in Nat /\ new.value + new.left = q.value + q.left
            BY <3>2, <4>1, <4>4
          <5>4. QED
            BY <4>1, <5>2, <5>3 DEF AgesWell
        <4>5. QED
          BY <3>7, <4>3, <4>4
      <3>11. GoesWell(new)
        <4>1. new.spent + new.left = q.spent + q.left
          BY <3>2, <3>4, <3>6
        <4>2. QED
          BY <3>4, <3>9, <4>1 DEF GoesWell, Prices!Waiting
      <3>12. QED
        BY <3>1, <3>8, <3>10, <3>11 DEF new
    <2>4. QED
      BY <2>2, <2>3
  <1>9. req' \in [Request -> PriceRequest]
    BY <1>8 DEF Prices!Tick
  <1>10. QED
    BY <1>7, <1>8, <1>9 DEF PriceInv

LEMMA NextPrices ==
  ASSUME PriceTimes
  PROVE  PriceInv /\ [Prices!Next]_(Prices!vars) => PriceInv'
  <1> SUFFICES ASSUME PriceInv, [Prices!Next]_(Prices!vars) PROVE PriceInv'
    OBVIOUS
  <1>1. CASE UNCHANGED Prices!vars
    BY <1>1 DEF Prices!vars, PriceInv
  <1>2. CASE Prices!BadWrite
    <2> DEFINE new == [value |-> Prices!Bad, left |-> Ttl]
    <2>1. memory' = memory /\ req' = req /\ redis' = new
      BY <1>2 DEF Prices!BadWrite
    <2>2. new \in PriceEntry /\ SharedWell(new)
      BY DEF PriceTimes, PriceEntry, SharedWell, NoPrice, Prices!Bad
    <2> HIDE DEF new
    <2>3. QED
      BY <2>1, <2>2 DEF PriceInv
  <1>3. ASSUME NEW s \in Process, Prices!Restart(s) PROVE PriceInv'
    <2>1. memory' = [memory EXCEPT ![s] = Prices!Empty] /\ req' = req /\ redis' = redis
      BY <1>3 DEF Prices!Restart
    <2>2. Prices!Empty \in PriceEntry
      BY DEF Prices!Empty, PriceEntry, Prices!Never
    <2>3. QED
      BY <2>1, <2>2 DEF PriceInv, KeptWell
  <1>4. CASE Prices!Tick
    BY <1>4, PriceTick
  <1>5. QED
    BY <1>1, <1>2, <1>3, <1>4, PriceSteps DEF Prices!Next

\* A price that is served is at most as old as the two tiers' lives together with the
\* delays of writing it to Redis and reading it back, for any number of processes that
\* warm their memory from the one Redis, and any lives and delays: each tier starts a
\* price of bounded age on another whole life, and no tier is filled from the memory.
THEOREM PricesAgeOnce ==
  ASSUME PriceTimes PROVE Prices!Spec => []AgeIsBounded
  <1>1. PriceInv => AgeIsBounded
    BY DEF PriceInv, AgesWell, AgeIsBounded, Prices!AgeIsBounded
  <1>2. Prices!Init => PriceInv
    BY InitPrices
  <1>3. PriceInv /\ [Prices!Next]_(Prices!vars) => PriceInv'
    BY NextPrices
  <1>4. QED
    BY <1>1, <1>2, <1>3, PTL DEF Prices!Spec

\* A request has at no moment taken longer than three calls of Redis and one timeout of
\* every provider, for any number of providers: each provider is asked once.
THEOREM ProvidersAreAskedOnce ==
  ASSUME PriceTimes PROVE Prices!Spec => []AnsweredInTime
  <1>1. PriceInv => AnsweredInTime
    <2>1. ASSUME PriceInv, NEW r \in Request PROVE req[r].spent <= Prices!MaxTime
      <3>1. /\ req[r].left \in Nat /\ req[r].spent \in Nat /\ req[r].provider \in Nat
            /\ GoesWell(req[r]) /\ req[r].pc \in PricePlace
        BY <2>1 DEF PriceInv, PriceRequest
      <3>2. req[r].pc = "fetch" => /\ Waterfall(req[r].provider) <= Waterfall(Providers)
                                   /\ Waterfall(req[r].provider) \in Nat
        BY <3>1, WaterfallGrows DEF GoesWell
      <3>3. /\ Prices!MaxTime = 3 * Delay + Waterfall(Providers)
            /\ Waterfall(Providers) \in Nat /\ Delay \in Nat
        BY WaterfallGrows DEF PriceTimes
      <3>4. QED
        BY <3>1, <3>2, <3>3 DEF GoesWell, PricePlace, Prices!Waiting
    <2>2. QED
      BY <2>1 DEF AnsweredInTime, Prices!AnsweredInTime
  <1>2. Prices!Init => PriceInv
    BY InitPrices
  <1>3. PriceInv /\ [Prices!Next]_(Prices!vars) => PriceInv'
    BY NextPrices
  <1>4. QED
    BY <1>1, <1>2, <1>3, PTL DEF Prices!Spec

-----------------------------------------------------------------------------
(* The balance cache *)

\* The bounds are durations, and an entry lives for some time.
CacheTimes == TTL \in Nat \ {0} /\ Delay \in Nat /\ MaxVersion \in Nat \ {0}

BalanceReader == [pc : {"idle", "fetch", "store"}, v : Nat, at : Nat]

\* Version v is the account's, or it was at some moment no earlier than this.
CurrentSince(v, moment) == v \in 1..version /\ (v = version \/ until[v] >= moment)

\* Whenever an entry is served, its version was the account's less than TTL + Delay ago.
EntryWell ==
  \/ entry.exp = 0
  \/ /\ entry.v \in 1..version
     /\ IF entry.v = version THEN entry.exp <= now + TTL
        ELSE entry.exp <= until[entry.v] + Delay + TTL

\* A reader writes down what was the account's balance at most Delay ago.
ReaderWell(q) ==
  q.pc = "store" =>
    q.at <= now /\ now <= q.at + Delay /\ CurrentSince(q.v, q.at)

BalanceInv ==
  /\ now \in Nat /\ version \in 1..MaxVersion /\ until \in [1..MaxVersion -> Nat]
  /\ \A v \in 1..MaxVersion : until[v] <= now
  /\ entry \in [v : Nat, exp : Nat] /\ EntryWell
  /\ reader \in [Reader -> BalanceReader]
  /\ \A r \in Reader : ReaderWell(reader[r])
  /\ served.stale \in Nat /\ served.stale < TTL + Delay

LEMMA InitBalances == ASSUME CacheTimes, Balances!Init PROVE BalanceInv
  BY DEF CacheTimes, Balances!Init, BalanceInv, EntryWell, ReaderWell, BalanceReader,
         Balances!NoEntry, Balances!IdleReader, Balances!Nothing

\* The account changes, now: what was its balance a moment ago has been so since.
LEMMA AccountChanges ==
  ASSUME CacheTimes, BalanceInv, Balances!NewVersion, now' = now, served' = served,
         entry' = entry, reader' = reader
  PROVE  BalanceInv'
  <1> USE DEF CacheTimes
  <1>1. /\ now \in Nat /\ version \in 1..MaxVersion /\ until \in [1..MaxVersion -> Nat]
        /\ \A v \in 1..MaxVersion : until[v] <= now
        /\ entry \in [v : Nat, exp : Nat] /\ reader \in [Reader -> BalanceReader]
    BY DEF BalanceInv
  <1>2. /\ version < MaxVersion /\ version' = version + 1
        /\ until' = [until EXCEPT ![version] = now]
    BY DEF Balances!NewVersion
  <1>3. /\ version' \in 1..MaxVersion /\ until' \in [1..MaxVersion -> Nat]
        /\ until'[version] = now /\ \A v \in 1..MaxVersion \ {version} : until'[v] = until[v]
    BY <1>1, <1>2
  <1>4. \A v \in 1..MaxVersion : until'[v] <= now
    BY <1>1, <1>3
  <1>5. ASSUME NEW v \in Nat, NEW moment \in Nat, moment <= now, CurrentSince(v, moment)
        PROVE  v \in 1..version' /\ v # version' /\ until'[v] >= moment
    BY <1>1, <1>2, <1>3, <1>5 DEF CurrentSince
  <1>6. EntryWell'
    <2>1. CASE entry.exp = 0
      BY <2>1 DEF EntryWell
    <2>2. CASE entry.exp # 0 /\ entry.v = version
      BY <1>1, <1>2, <1>3, <2>2 DEF EntryWell, BalanceInv
    <2>3. CASE entry.exp # 0 /\ entry.v # version
      BY <1>1, <1>2, <1>3, <2>3 DEF EntryWell, BalanceInv
    <2>4. QED
      BY <2>1, <2>2, <2>3
  <1>7. ASSUME NEW r \in Reader PROVE ReaderWell(reader[r])'
    <2>1. CASE reader[r].pc = "store"
      <3>1. /\ reader[r].v \in Nat /\ reader[r].at \in Nat /\ reader[r].at <= now
            /\ now <= reader[r].at + Delay /\ CurrentSince(reader[r].v, reader[r].at)
        BY <1>1, <2>1 DEF BalanceInv, BalanceReader, ReaderWell
      <3>2. QED
        BY <1>5, <3>1 DEF ReaderWell, CurrentSince
    <2>2. QED
      BY <2>1 DEF ReaderWell
  <1>8. QED
    BY <1>1, <1>3, <1>4, <1>6, <1>7 DEF BalanceInv

\* Time passes, and no reader is late.
LEMMA BalanceTick ==
  ASSUME CacheTimes, BalanceInv, Balances!Tick PROVE BalanceInv'
  <1>1. /\ now \in Nat /\ now' = now + 1
        /\ version' = version /\ until' = until /\ entry' = entry
        /\ reader' = reader /\ served' = served
        /\ \A r \in Reader : reader[r].pc = "store" => now < reader[r].at + Delay
    BY DEF Balances!Tick, BalanceInv
  <1>2. /\ version \in 1..MaxVersion /\ until \in [1..MaxVersion -> Nat]
        /\ \A v \in 1..MaxVersion : until[v] <= now
        /\ entry \in [v : Nat, exp : Nat] /\ reader \in [Reader -> BalanceReader]
    BY DEF BalanceInv
  <1>3. \A v \in 1..MaxVersion : until[v] <= now + 1
    BY <1>1, <1>2 DEF CacheTimes
  <1>4. EntryWell'
    <2>1. EntryWell
      BY DEF BalanceInv
    <2>2. QED
      BY <1>1, <1>2, <2>1 DEF EntryWell, CacheTimes
  <1>5. ASSUME NEW r \in Reader PROVE ReaderWell(reader[r])'
    <2>1. ReaderWell(reader[r]) /\ reader[r].at \in Nat
      BY <1>2 DEF BalanceInv, BalanceReader
    <2>2. QED
      BY <1>1, <2>1 DEF ReaderWell, CurrentSince, CacheTimes
  <1>6. QED
    BY <1>1, <1>2, <1>3, <1>4, <1>5 DEF BalanceInv

\* A request is served, or goes on, without the account or the clock.
LEMMA BalanceStep ==
  ASSUME CacheTimes, BalanceInv, UNCHANGED <<now, version, until>>,
         entry' \in [v : Nat, exp : Nat], EntryWell',
         reader' = reader \/ \E r \in Reader, q \in BalanceReader :
                               ReaderWell(q) /\ reader' = [reader EXCEPT ![r] = q],
         served' = served \/ \E v \in 1..version :
                               Balances!Serve(v) /\ Balances!Staleness(v) < TTL + Delay
  PROVE  BalanceInv'
  <1>1. /\ now \in Nat /\ version \in 1..MaxVersion /\ until \in [1..MaxVersion -> Nat]
        /\ \A v \in 1..MaxVersion : until[v] <= now
        /\ reader \in [Reader -> BalanceReader] /\ \A r \in Reader : ReaderWell(reader[r])
    BY DEF BalanceInv
  <1>2. reader' \in [Reader -> BalanceReader] /\ \A r \in Reader : ReaderWell(reader'[r])
    BY <1>1
  <1>3. \A r \in Reader : ReaderWell(reader[r])'
    BY <1>1, <1>2 DEF ReaderWell, CurrentSince
  <1>4. served'.stale \in Nat /\ served'.stale < TTL + Delay
    <2>1. CASE served' = served
      BY <2>1 DEF BalanceInv
    <2>2. ASSUME NEW v \in 1..version, Balances!Serve(v), Balances!Staleness(v) < TTL + Delay
          PROVE  served'.stale \in Nat /\ served'.stale < TTL + Delay
      <3>1. served'.stale = Balances!Staleness(v)
        BY <2>2 DEF Balances!Serve
      <3>2. until[v] \in Nat /\ until[v] <= now
        BY <1>1 DEF CacheTimes
      <3>3. Balances!Staleness(v) \in Nat
        BY <1>1, <3>2 DEF Balances!Staleness
      <3>4. QED
        BY <2>2, <3>1, <3>3
    <2>3. QED
      BY <2>1, <2>2
  <1>5. QED
    BY <1>1, <1>2, <1>3, <1>4 DEF BalanceInv

LEMMA ReaderSteps ==
  ASSUME CacheTimes, BalanceInv, NEW r \in Reader,
         \/ Balances!Hit(r) \/ Balances!Miss(r) \/ Balances!Discard(r) \/ Balances!Fetch(r)
         \/ Balances!FetchFails(r) \/ Balances!Store(r)
  PROVE  BalanceInv'
  <1>1. /\ now \in Nat /\ version \in 1..MaxVersion /\ until \in [1..MaxVersion -> Nat]
        /\ \A v \in 1..MaxVersion : until[v] <= now
        /\ entry \in [v : Nat, exp : Nat] /\ EntryWell
        /\ reader \in [Reader -> BalanceReader] /\ reader[r] \in BalanceReader
        /\ ReaderWell(reader[r])
    BY DEF BalanceInv
  <1>2. entry' = entry /\ UNCHANGED <<now, version, until>> => EntryWell'
    BY <1>1 DEF EntryWell
  <1>3. CASE Balances!Hit(r)
    <2>1. /\ UNCHANGED <<now, version, until, entry>> /\ reader' = reader
          /\ Balances!Serve(entry.v) /\ entry.exp > now
      BY <1>3 DEF Balances!Hit, Balances!Live
    <2>2. /\ entry.v \in 1..version
          /\ entry.v # version => entry.exp <= until[entry.v] + Delay + TTL
      BY <1>1, <2>1 DEF EntryWell
    <2>3. Balances!Staleness(entry.v) < TTL + Delay
      BY <1>1, <2>1, <2>2 DEF Balances!Staleness, CacheTimes
    <2>4. QED
      BY <1>1, <1>2, <2>1, <2>2, <2>3, BalanceStep
  <1>4. CASE Balances!Miss(r) \/ Balances!Discard(r)
    <2> DEFINE new == [reader[r] EXCEPT !.pc = "fetch"]
    <2>1. new \in BalanceReader /\ new.pc = "fetch"
      BY <1>1 DEF BalanceReader
    <2>2. /\ reader' = [reader EXCEPT ![r] = new] /\ served' = served
          /\ UNCHANGED <<now, version, until>> /\ entry' \in {entry, Balances!NoEntry}
      BY <1>1, <1>4 DEF Balances!Miss, Balances!Discard
    <2> HIDE DEF new
    <2>3. ReaderWell(new)
      BY <2>1 DEF ReaderWell
    <2>4. entry' \in [v : Nat, exp : Nat]
      BY <1>1, <2>2 DEF Balances!NoEntry
    <2>5. EntryWell'
      BY <1>1, <2>2 DEF EntryWell, Balances!NoEntry
    <2>6. QED
      BY <1>1, <2>1, <2>2, <2>3, <2>4, <2>5, BalanceStep
  <1>5. CASE Balances!Fetch(r)
    <2> DEFINE new == [pc |-> "store", v |-> version, at |-> now]
    <2>1. new \in BalanceReader
      BY <1>1 DEF BalanceReader, CacheTimes
    <2>2. ReaderWell(new)
      BY <1>1 DEF ReaderWell, CurrentSince, CacheTimes
    <2>3. /\ reader' = [reader EXCEPT ![r] = new] /\ served' = served
          /\ UNCHANGED <<now, version, until, entry>>
      BY <1>5 DEF Balances!Fetch
    <2> HIDE DEF new
    <2>4. QED
      BY <1>1, <1>2, <2>1, <2>2, <2>3, BalanceStep
  <1>6. Balances!IdleReader \in BalanceReader /\ ReaderWell(Balances!IdleReader)
    BY DEF Balances!IdleReader, BalanceReader, ReaderWell
  <1>7. CASE Balances!FetchFails(r)
    <2>1. /\ reader' = [reader EXCEPT ![r] = Balances!IdleReader] /\ served' = served
          /\ UNCHANGED <<now, version, until, entry>>
      BY <1>7 DEF Balances!FetchFails
    <2>2. QED
      BY <1>1, <1>2, <1>6, <2>1, BalanceStep
  <1>8. CASE Balances!Store(r)
    <2> DEFINE v == reader[r].v
               moment == reader[r].at
               kept == [v |-> v, exp |-> now + TTL]
    <2>1. /\ reader[r].pc = "store" /\ entry' \in {entry, kept} /\ Balances!Serve(v)
          /\ reader' = [reader EXCEPT ![r] = Balances!IdleReader]
          /\ UNCHANGED <<now, version, until>>
      BY <1>8 DEF Balances!Store
    <2>2. /\ v \in Nat /\ moment \in Nat /\ moment <= now /\ now <= moment + Delay
          /\ v \in 1..version /\ (v = version \/ until[v] >= moment)
      BY <1>1, <2>1 DEF BalanceReader, ReaderWell, CurrentSince
    <2>3. v # version => until[v] \in Nat /\ now <= until[v] + Delay
      BY <1>1, <2>2 DEF CacheTimes
    <2> HIDE DEF v, moment
    <2>4. Balances!Staleness(v) < TTL + Delay
      BY <1>1, <2>3 DEF Balances!Staleness, CacheTimes
    <2>5. CASE entry' = entry
      BY <1>1, <1>2, <1>6, <2>1, <2>2, <2>4, <2>5, BalanceStep
    <2>6. CASE entry' = kept
      <3>1. entry' \in [v : Nat, exp : Nat]
        BY <1>1, <2>2, <2>6 DEF CacheTimes
      <3>2. EntryWell'
        BY <1>1, <2>1, <2>2, <2>3, <2>6 DEF EntryWell, CacheTimes
      <3>3. QED
        BY <1>6, <2>1, <2>2, <2>4, <3>1, <3>2, BalanceStep
    <2>7. QED
      BY <2>1, <2>5, <2>6
  <1>9. QED
    BY <1>3, <1>4, <1>5, <1>7, <1>8

LEMMA NextBalances ==
  ASSUME CacheTimes
  PROVE  BalanceInv /\ [Balances!Next]_(Balances!vars) => BalanceInv'
  <1> SUFFICES ASSUME BalanceInv, [Balances!Next]_(Balances!vars) PROVE BalanceInv'
    OBVIOUS
  <1>1. CASE UNCHANGED Balances!vars
    BY <1>1 DEF Balances!vars, BalanceInv, EntryWell, ReaderWell, CurrentSince
  <1>2. CASE Balances!Tick
    BY <1>2, BalanceTick
  <1>3. CASE Balances!Outside \/ \E w \in Writer : Balances!Pay(w)
    BY <1>3, AccountChanges DEF Balances!Outside, Balances!Pay
  <1>4. ASSUME NEW w \in Writer,
               Balances!Invalidate(w) \/ Balances!NotInvalidated(w) \/ Balances!AnswerSubmit(w)
        PROVE  BalanceInv'
    <2>1. UNCHANGED <<now, version, until, reader, served>> /\ entry' \in {entry, Balances!NoEntry}
      BY <1>4 DEF Balances!Invalidate, Balances!NotInvalidated, Balances!AnswerSubmit
    <2>2. entry' \in [v : Nat, exp : Nat]
      BY <2>1 DEF BalanceInv, Balances!NoEntry
    <2>3. EntryWell'
      BY <2>1 DEF BalanceInv, EntryWell, Balances!NoEntry
    <2>4. QED
      BY <2>1, <2>2, <2>3, BalanceStep
  <1>5. QED
    BY <1>1, <1>2, <1>3, <1>4, ReaderSteps DEF Balances!Next

\* A balance that is served was the account's less than TTL and one reader's Delay ago,
\* for every time to live, whatever number of readers and writers interleave and whichever
\* deletions are lost: hits do not prolong an entry, and a late write prolongs what it
\* writes by no more than its own delay.
THEOREM StaleForALife ==
  ASSUME CacheTimes PROVE Balances!Spec => []StaleForTTLAtMost
  <1>1. BalanceInv => StaleForTTLAtMost
    BY DEF BalanceInv, StaleForTTLAtMost, Balances!StaleForTTLAtMost
  <1>2. Balances!Init => BalanceInv
    BY InitBalances
  <1>3. BalanceInv /\ [Balances!Next]_(Balances!vars) => BalanceInv'
    BY NextBalances
  <1>4. QED
    BY <1>1, <1>2, <1>3, PTL DEF Balances!Spec

===============================================================================
