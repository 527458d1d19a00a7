------------------------------ MODULE MCSharing ------------------------------
(***************************************************************************)
(* What requests take turns at, or share, in one server process: the sequence  *)
(* number of an account and the connection to Redis.  They share no state, so  *)
(* each behaviour is one component's, named by part, while the other rests:    *)
(* the run explores the sum of their states.                                 *)
(***************************************************************************)
EXTENDS SequenceCache

CONSTANTS Caller, MaxClients, MaxDisconnects     \* of RedisClient

VARIABLES part, up, client, promise, conn, then, call, created, disconnects

Connection == INSTANCE RedisClient

sequence == <<cache, tail, run, answer, ledger, result, limbo, outside, disturbed>>
connection == <<up, client, promise, conn, then, call, created, disconnects>>

SharingInit == part \in {"sequence", "connection"} /\ Init /\ Connection!Init

SharingNext ==
    /\ UNCHANGED part
    /\ \/ part = "sequence" /\ Next /\ UNCHANGED connection
       \/ part = "connection" /\ Connection!Next /\ UNCHANGED sequence

\* What rests has nothing enabled that is treated fairly.
SharingSpec ==
    /\ SharingInit /\ [][SharingNext]_<<part, sequence, connection>>
    /\ Fairness /\ Connection!Fairness

-----------------------------------------------------------------------------
(* Properties, with those of SequenceCache *)

\* RedisClient: callers share one connection.
OneConnection == Connection!OneConnection

\* RedisClient: no caller waits for ever once Redis is back for good.
EveryCallEnds == Connection!EveryCallEnds

=============================================================================
