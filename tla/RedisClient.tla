----------------------------- MODULE RedisClient -----------------------------
(***************************************************************************)
(* The shared Redis connection (backend/src/cache/redis.ts): callers of     *)
(* get, setEx and del share one client, opened by the first of them, and    *)
(* wait on one promise while it connects; disconnect closes it.             *)
(*                                                                         *)
(* A client is a number, in the order of their creation.  A promise's        *)
(* .then, .finally and its waiters are separate steps of the event loop.    *)
(*                                                                         *)
(* The library, as createClient({url}) sets it up, goes on trying to reach a *)
(* server that is down and keeps commands for it: connecting then neither   *)
(* succeeds nor fails, and a command need not end.                          *)
(***************************************************************************)
EXTENDS Naturals

CONSTANTS
    Caller,         \* cache operations
    MaxClients,     \* bound: clients created
    MaxDisconnects  \* bound: calls of disconnect

VARIABLES
    up,           \* whether the server can be reached, and answers
    client,       \* this.client
    promise,      \* this.connectPromise: the client it connects
    conn,         \* conn[k]: the connection of client k
    then,         \* the clients whose .then or .catch has run but not their .finally
    call,         \* call[p]: what operation p is doing, with which client
    created,      \* how many clients were created
    disconnects   \* how often disconnect was called

vars == <<up, client, promise, conn, then, call, created, disconnects>>

None == 0
Client == 1..MaxClients
Idle == [pc |-> "idle", on |-> None]

\* Connections that keep the process alive.
Alive == {k \in Client : conn[k] \in {"connecting", "open"}}
IsOpen == client # None /\ conn[client] = "open"

Init ==
    /\ up = TRUE
    /\ client = None
    /\ promise = None
    /\ conn = [k \in Client |-> "unused"]
    /\ then = {}
    /\ call = [p \in Caller |-> Idle]
    /\ created = 0
    /\ disconnects = 0

-----------------------------------------------------------------------------
(* getClient *)

UseOpen(p) ==
    /\ call[p].pc = "idle" /\ IsOpen
    /\ call' = [call EXCEPT ![p] = [pc |-> "using", on |-> client]]
    /\ UNCHANGED <<up, client, promise, conn, then, created, disconnects>>

Join(p) ==
    /\ call[p].pc = "idle" /\ ~IsOpen
    /\ promise # None
    /\ call' = [call EXCEPT ![p] = [pc |-> "waiting", on |-> promise]]
    /\ UNCHANGED <<up, client, promise, conn, then, created, disconnects>>

Create(p) ==
    /\ call[p].pc = "idle" /\ ~IsOpen
    /\ created < MaxClients
    /\ created' = created + 1
    /\ conn' = [conn EXCEPT ![created + 1] = "connecting"]
    /\ promise' = created + 1
    /\ call' = [call EXCEPT ![p] = [pc |-> "waiting", on |-> created + 1]]
    /\ UNCHANGED <<up, client, then, disconnects>>

\* Slip: the promise is not shared.
AlwaysConnect(p) == Create(p)
Connect(p) == promise = None /\ Create(p)

\* .then: the client is kept, whatever happened while it connected.
Opened(k) ==
    /\ up
    /\ conn[k] = "connecting"
    /\ conn' = [conn EXCEPT ![k] = "open"]
    /\ client' = k
    /\ then' = then \cup {k}
    /\ UNCHANGED <<up, promise, call, created, disconnects>>

\* .catch: the failure is logged.  The code is prepared for it, but while the
\* server is down the library tries again and rejects nothing.
Failed(k) ==
    /\ conn[k] = "connecting"
    /\ conn' = [conn EXCEPT ![k] = "closed"]
    /\ then' = then \cup {k}
    /\ UNCHANGED <<up, client, promise, call, created, disconnects>>

\* .finally forgets the promise, even one made since by another caller.
Finally(k) ==
    /\ k \in then
    /\ then' = then \ {k}
    /\ promise' = None
    /\ UNCHANGED <<up, client, conn, call, created, disconnects>>

\* Slip: no .catch, so that a caller is not resumed when connecting fails.
WaitOn(p) ==
    /\ call[p].pc = "waiting" /\ conn[call[p].on] = "open" /\ call[p].on \notin then
    /\ call' = [call EXCEPT ![p].pc = "using"]
    /\ UNCHANGED <<up, client, promise, conn, then, created, disconnects>>

\* The awaited promise is settled: the caller goes on with its client, or with null.
Resume(p) ==
    LET k == call[p].on
    IN  /\ call[p].pc = "waiting"
        /\ conn[k] # "connecting" /\ k \notin then
        /\ call' = [call EXCEPT ![p] = IF conn[k] = "open" THEN [pc |-> "using", on |-> k]
                                                           ELSE Idle]
        /\ UNCHANGED <<up, client, promise, conn, then, created, disconnects>>

\* The command ends, with a value or with an error that is logged: one that was
\* sent fails when the connection is lost, one that was not waits for the next.
Return(p) ==
    /\ call[p].pc = "using"
    /\ call' = [call EXCEPT ![p] = Idle]
    /\ UNCHANGED <<up, client, promise, conn, then, created, disconnects>>

\* The client gives up reconnecting, as it may under another strategy.
Drop(k) ==
    /\ conn[k] = "open"
    /\ conn' = [conn EXCEPT ![k] = "closed"]
    /\ UNCHANGED <<up, client, promise, then, call, created, disconnects>>

-----------------------------------------------------------------------------

\* disconnect: quits the client there is; one that is connecting is only forgotten.
Disconnect ==
    /\ disconnects < MaxDisconnects
    /\ disconnects' = disconnects + 1
    /\ client' = None
    /\ promise' = None
    /\ conn' = [k \in Client |-> IF k = client /\ conn[k] = "open" THEN "closed" ELSE conn[k]]
    /\ UNCHANGED <<up, then, call, created>>

\* The server goes down or comes back, as often as it likes.
Server ==
    /\ up' = ~up
    /\ UNCHANGED <<client, promise, conn, then, call, created, disconnects>>

Next ==
    \/ \E p \in Caller : UseOpen(p) \/ Join(p) \/ Connect(p) \/ Resume(p) \/ Return(p)
    \/ \E k \in Client : Opened(k) \/ Failed(k) \/ Finally(k) \/ Drop(k)
    \/ Disconnect
    \/ Server

Spec == Init /\ [][Next]_vars

\* The event loop runs what is ready.  Of Redis it is assumed that a server which
\* stays up is reached and answers, and nothing while it is down.
Fairness ==
    /\ \A p \in Caller : WF_vars(Resume(p)) /\ WF_vars(up /\ Return(p))
    /\ \A k \in Client : WF_vars(Opened(k)) /\ WF_vars(Finally(k))

-----------------------------------------------------------------------------
(* Properties *)

\* The variables have their types; clients are created in order.
TypeOK ==
    /\ up \in BOOLEAN
    /\ client \in Client \cup {None}
    /\ promise \in Client \cup {None}
    /\ conn \in [Client -> {"unused", "connecting", "open", "closed"}]
    /\ then \subseteq Client
    /\ call \in [Caller -> [pc : {"idle", "waiting", "using"}, on : Client \cup {None}]]
    /\ created \in 0..MaxClients
    /\ \A k \in Client : conn[k] = "unused" <=> k > created

\* Until disconnect is called there is at most one connection, however many callers
\* find none at the same moment and however often it is lost.
OneConnection ==
    disconnects = 0 => \A k, m \in Alive : k = m

\* Once Redis is back for good, no caller waits for ever: neither one that came
\* while it was down nor one that joined a promise another caller left behind.
\* (While it is down callers do wait, whatever the warning of a failed connection says.)
EveryCallEnds ==
    <>[]up => \A p \in Caller : call[p].pc # "idle" ~> call[p].pc = "idle"

=============================================================================
