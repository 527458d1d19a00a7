------------------------------ MODULE ApiClient ------------------------------
(***************************************************************************)
(* The browser's HTTP client (frontend/src/lib/api.ts): requests that wait    *)
(* for their token, are sent, and end by an answer, a failure of the          *)
(* connection, their own timer or their caller, who may cancel several at     *)
(* once with one signal.                                                     *)
(*                                                                         *)
(* A callback and the microtasks it sets off are one step: no timer runs      *)
(* between the rejection of fetch and the handler of that rejection.          *)
(***************************************************************************)
EXTENDS Naturals

CONSTANTS
    Call,
    MaxChanges     \* bound: changes of the token provider

VARIABLES
    provider,      \* config.getAuthToken: one that "works" (or there is none) or that "fails"
    changes,
    signal,        \* has the callers' AbortSignal been aborted
    call           \* call[c]: how far it has come, its timer and listener, what it was told

vars == <<provider, changes, signal, call>>

Untold == [kind |-> "nothing", code |-> "none", status |-> 0]
Value == [Untold EXCEPT !.kind = "value"]
ApiError(code, status) == [kind |-> "ApiError", code |-> code, status |-> status]

\* What is neither caught nor made an ApiError.
RawError == [Untold EXCEPT !.kind = "raw"]

New == [pc |-> "new", watches |-> FALSE, limited |-> FALSE, auth |-> FALSE,
        armed |-> FALSE, listening |-> FALSE, status |-> 0, ended |-> "not", told |-> Untold]

Init ==
    /\ provider = "works"
    /\ changes = 0
    /\ signal = FALSE
    /\ call = [c \in Call |-> New]

-----------------------------------------------------------------------------
(* The configuration and the caller *)

SetAuthTokenProvider ==
    /\ changes < MaxChanges
    /\ changes' = changes + 1
    /\ provider' \in {"works", "fails"} \ {provider}
    /\ UNCHANGED <<signal, call>>

\* request: with the caller's signal or not, with a timeout or timeoutMs = 0, with auth or not.
Request(c, watches, limited, auth) ==
    /\ call[c].pc = "new"
    /\ call' = [call EXCEPT ![c] = [New EXCEPT !.pc = "token", !.watches = watches,
                                              !.limited = limited, !.auth = auth]]
    /\ UNCHANGED <<provider, changes, signal>>

-----------------------------------------------------------------------------
(* requestRaw *)

Tell(k, told) == [k EXCEPT !.pc = "done", !.told = told]

Step(c, new) == call' = [call EXCEPT ![c] = new] /\ UNCHANGED <<provider, changes, signal>>

\* buildHeaders rejects with what the provider threw.
TokenFails(c) ==
    /\ call[c].pc = "token"
    /\ call[c].auth /\ provider = "fails"
    /\ Step(c, Tell(call[c], RawError))

\* The headers are there: a signal that is aborted by now ends the request; otherwise the
\* listener is added, the timer armed and the request sent.
Send(c) ==
    /\ call[c].pc = "token"
    /\ ~(call[c].auth /\ provider = "fails")
    /\ IF call[c].watches /\ signal
       THEN Step(c, Tell(call[c], ApiError("ABORTED", 0)))
       ELSE Step(c, [call[c] EXCEPT !.pc = "fetching",
                                    !.listening = call[c].watches,
                                    !.armed = call[c].limited])

\* finally: the timer is cleared and the listener removed.
Finally(k) == [k EXCEPT !.armed = FALSE, !.listening = FALSE]

\* Slip: the controller is looked at first, which the timer aborts as well.
AbortedFirst(timedOut, aborted) == IF aborted THEN "ABORTED" ELSE "NETWORK_ERROR"

\* The catch block.
CodeOf(timedOut, aborted) ==
    IF timedOut THEN "TIMEOUT" ELSE IF aborted THEN "ABORTED" ELSE "NETWORK_ERROR"

\* fetch rejects, for the given reason.
Rejected(k, reason) ==
    Tell([Finally(k) EXCEPT !.ended = reason],
         ApiError(CodeOf(reason = "timer", reason \in {"timer", "caller"}), 0))

TimeOut(c) ==
    /\ call[c].pc = "fetching" /\ call[c].armed
    /\ Step(c, Rejected(call[c], "timer"))

\* One signal ends every request that listens to it.
Abort ==
    /\ ~signal
    /\ signal' = TRUE
    /\ call' = [c \in Call |-> IF call[c].listening THEN Rejected(call[c], "caller") ELSE call[c]]
    /\ UNCHANGED <<provider, changes>>

ConnectionFails(c) ==
    /\ call[c].pc = "fetching"
    /\ Step(c, Rejected(call[c], "connection"))

\* The headers of the answer arrive; its body is read without timer or signal.
Respond(c) ==
    /\ call[c].pc = "fetching"
    /\ \E status \in {200, 204, 502} :
          Step(c, [Finally(call[c]) EXCEPT !.pc = "reading", !.status = status, !.ended = "answer"])

Ok(status) == status \in 200..299

\* readErrorCode: the code the server gave, if any.
ErrorOf(status, body) == ApiError(IF body = "coded" THEN "SERVER" ELSE "HTTP", status)

\* readEnvelope and what follows it.
ReadBody(c) ==
    LET status == call[c].status
    IN  /\ call[c].pc = "reading"
        /\ \E body \in {"none", "envelope", "coded", "text"} :
              /\ status = 204 => body = "none"
              /\ Step(c, Tell(call[c],
                    CASE body = "text" -> ApiError("MALFORMED_RESPONSE", status)
                      [] body # "text" /\ Ok(status) -> Value
                      [] OTHER -> ErrorOf(status, body)))

\* The connection breaks off: response.text() rejects, outside the try block.
BodyFails(c) ==
    /\ call[c].pc = "reading" /\ call[c].status # 204
    /\ Step(c, Tell(call[c], RawError))

Next ==
    \/ SetAuthTokenProvider
    \/ Abort
    \/ \E c \in Call :
          \/ \E watches, limited, auth \in BOOLEAN : Request(c, watches, limited, auth)
          \/ TokenFails(c) \/ Send(c) \/ TimeOut(c) \/ ConnectionFails(c)
          \/ Respond(c) \/ ReadBody(c) \/ BodyFails(c)

Spec == Init /\ [][Next]_vars

-----------------------------------------------------------------------------
(* Properties *)

\* The code of an ApiError names what really ended the request, whatever else happened to
\* it and to the requests that share its signal: a timeout its own timer, a cancellation
\* the caller it listened to, a status an answer of the server, success a 2xx.  Nothing is
\* left behind that could strike later.
ToldTheCause ==
    \A c \in Call : call[c].pc = "done" =>
        LET k == call[c]
        IN  /\ ~k.armed /\ ~k.listening
            /\ k.told.code = "TIMEOUT" <=> k.ended = "timer"
            /\ k.told.code = "ABORTED" => k.watches /\ signal /\ k.ended \in {"not", "caller"}
            /\ k.told.code = "NETWORK_ERROR" <=> k.ended = "connection"
            /\ k.told.status # 0 => k.ended = "answer" /\ k.told.status = k.status
            /\ k.told.kind = "value" => k.ended = "answer" /\ Ok(k.status)

\* api.ts:16-18 "all surface as a single ApiError": the body that breaks off and the token
\* that fails do not.
OneErrorShape == \A c \in Call : call[c].told.kind # "raw"

=============================================================================
