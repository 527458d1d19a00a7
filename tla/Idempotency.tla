----------------------------- MODULE Idempotency -----------------------------
(***************************************************************************)
(* The middleware that replays the stored response of a request that is      *)
(* sent again under the same Idempotency-Key                                *)
(* (backend/src/api/middleware/idempotency.ts and the table of migration     *)
(* 023), around a handler that changes something once, such as minting.      *)
(*                                                                         *)
(* A request is one attempt; attempts with the same key and endpoint are     *)
(* retries of one another.  A response is the attempt whose handler made it. *)
(***************************************************************************)
EXTENDS Naturals, FiniteSets

CONSTANTS
    Request,    \* attempts
    Key,        \* Idempotency-Key headers
    Endpoint,   \* routes the middleware guards
    None        \* no row, no response

VARIABLES
    table,   \* idempotency_keys: table[key], with the endpoint and the response
    req,     \* req[r]: where attempt r is, its key and endpoint, and what it answered
    effect,  \* the attempts whose handler did its work
    insert   \* the attempts whose INSERT is under way

vars == <<table, req, effect, insert>>

NoRow == [endpoint |-> None, response |-> None]

Init ==
    /\ table = [k \in Key |-> NoRow]
    /\ req = [r \in Request |-> [pc |-> "unsent", key |-> CHOOSE k \in Key : TRUE,
                                 endpoint |-> CHOOSE e \in Endpoint : TRUE, answer |-> None]]
    /\ effect = {}
    /\ insert = {}

-----------------------------------------------------------------------------
(* The middleware and the handler *)

\* The client sends an attempt; nothing but the two headers tells retries from others.
Send(r, k, e) ==
    /\ req[r].pc = "unsent"
    /\ req' = [req EXCEPT ![r] = [pc |-> "sent", key |-> k, endpoint |-> e, answer |-> None]]
    /\ UNCHANGED <<table, effect, insert>>

Found(r) == table[req[r].key].endpoint = req[r].endpoint

\* The SELECT finds the row, and its response is replayed.
Replay(r) ==
    /\ req[r].pc = "sent" /\ Found(r)
    /\ req' = [req EXCEPT ![r].pc = "answered", ![r].answer = table[req[r].key].response]
    /\ UNCHANGED <<table, effect, insert>>

\* It finds none, and the handler is called.
Pass(r) ==
    /\ req[r].pc = "sent" /\ ~Found(r)
    /\ req' = [req EXCEPT ![r].pc = "handling"]
    /\ UNCHANGED <<table, effect, insert>>

\* The SELECT fails: the error handler answers, and nothing was done.
SelectFails(r) ==
    /\ req[r].pc = "sent"
    /\ req' = [req EXCEPT ![r].pc = "answered"]
    /\ UNCHANGED <<table, effect, insert>>

\* The handler does its work.
Work(r) ==
    /\ req[r].pc = "handling"
    /\ effect' = effect \cup {r}
    /\ req' = [req EXCEPT ![r].pc = "worked"]
    /\ UNCHANGED <<table, insert>>

\* It refuses the request with a response below 500, which is stored as well.
Refuse(r) ==
    /\ req[r].pc = "handling"
    /\ insert' = insert \cup {r}
    /\ req' = [req EXCEPT ![r].pc = "answered", ![r].answer = r]
    /\ UNCHANGED <<table, effect>>

\* It fails after or before its work: a response of 500 or above, which is not stored.
HandlerFails(r) ==
    /\ req[r].pc \in {"handling", "worked"}
    /\ req' = [req EXCEPT ![r].pc = "answered"]
    /\ UNCHANGED <<table, effect, insert>>

\* res.json: the INSERT is sent off, not waited for, and the response goes out.
Respond(r) ==
    /\ req[r].pc = "worked"
    /\ insert' = insert \cup {r}
    /\ req' = [req EXCEPT ![r].pc = "answered", ![r].answer = r]
    /\ UNCHANGED <<table, effect>>

Row(r) == [endpoint |-> req[r].endpoint, response |-> r]

\* Slip: ON CONFLICT (key) DO UPDATE.
Overwrite(r) ==
    /\ r \in insert
    /\ insert' = insert \ {r}
    /\ table' = [table EXCEPT ![req[r].key] = Row(r)]
    /\ UNCHANGED <<req, effect>>

\* The INSERT arrives: ON CONFLICT (key) DO NOTHING.
Store(r) ==
    /\ r \in insert
    /\ insert' = insert \ {r}
    /\ table' = [table EXCEPT ![req[r].key] = IF @ = NoRow THEN Row(r) ELSE @]
    /\ UNCHANGED <<req, effect>>

\* The INSERT fails, which nobody is told, or the process ends before it is sent.
StoreFails(r) ==
    /\ r \in insert
    /\ insert' = insert \ {r}
    /\ UNCHANGED <<table, req, effect>>

Next ==
    \/ \E r \in Request, k \in Key, e \in Endpoint : Send(r, k, e)
    \/ \E r \in Request :
          \/ Replay(r) \/ Pass(r) \/ SelectFails(r)
          \/ Work(r) \/ Refuse(r) \/ HandlerFails(r) \/ Respond(r)
          \/ Store(r) \/ StoreFails(r)

Spec == Init /\ [][Next]_vars

-----------------------------------------------------------------------------
(* Properties *)

\* The variables have their types.
TypeOK ==
    /\ table \in [Key -> [endpoint : Endpoint \cup {None}, response : Request \cup {None}]]
    /\ req \in [Request -> [pc : {"unsent", "sent", "handling", "worked", "answered"},
                            key : Key, endpoint : Endpoint, answer : Request \cup {None}]]
    /\ effect \subseteq Request /\ insert \subseteq Request

SameOperation(r, q) == req[r].key = req[q].key /\ req[r].endpoint = req[q].endpoint

\* What is replayed to an attempt belongs to its own operation, the key of one route
\* replaying nothing on another, as the table's comment says; and it is what every later
\* one will get: the first response that was stored stays, whichever handlers finish
\* after it.
ReplaysAgree ==
    \A r, q \in Request :
        req[r].answer = q => SameOperation(r, q) /\ (q # r => table[req[r].key] = Row(q))

\* The middleware's comment: "a client retry after a timeout cannot double-mint".
NoDoubleMint ==
    \A r, q \in effect : SameOperation(r, q) => r = q

=============================================================================
