----------------------------- MODULE TimeBounds -----------------------------
(***************************************************************************)
(* The time window of a transaction                                        *)
(* (backend/src/contracts/timeBounds.ts).  Times are whole seconds; a bound *)
(* is {} where the caller omits it and {t} where it says t; parsing of      *)
(* dates is left out.  In a window, 0 means unbounded.                      *)
(***************************************************************************)
EXTENDS Integers

CONSTANTS
    Timeout,     \* DEFAULT_TIMEOUT_SECONDS
    MaxUnix      \* MAX_UNIX_SECONDS

ASSUME TimeoutAssumption == Timeout \in Nat \ {0}

The(bound) == CHOOSE t \in bound : TRUE

ResolvedMin(b) == IF b.min = {} THEN 0 ELSE The(b.min)
ResolvedMax(b, now) == IF b.max = {} THEN now + Timeout ELSE The(b.max)

\* assertInRange
InRange(t) == t >= 0 /\ t <= MaxUnix

\* resolveTimeBounds returns a window and throws no TimeBoundsValidationError.
Resolvable(b, now) ==
    LET lo == ResolvedMin(b)
        hi == ResolvedMax(b, now)
    IN  /\ InRange(lo) /\ InRange(hi)
        /\ hi # 0 => (lo = 0 \/ lo < hi) /\ now < hi

\* Slip: only the end is passed on.
ResolveEnd(b, now) == [lo |-> 0, hi |-> ResolvedMax(b, now)]

Resolve(b, now) == [lo |-> ResolvedMin(b), hi |-> ResolvedMax(b, now)]

\* setTimeout of the SDK's builder: from the start of time until a period from now.
WithTimeout(now) == [lo |-> 0, hi |-> now + Timeout]

\* The protocol: a ledger closed at t may include the transaction.
Includes(window, t) == window.lo <= t /\ (window.hi = 0 \/ t <= window.hi)

=============================================================================
