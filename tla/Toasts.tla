-------------------------------- MODULE Toasts --------------------------------
(***************************************************************************)
(* Notifications (frontend/src/hooks/useToast.tsx,                            *)
(* frontend/src/components/ToastDisplay.tsx): each is shown until its timer    *)
(* runs out, its close button has been pressed and the animation is over, or   *)
(* code dismisses it or all of them.                                         *)
(*                                                                         *)
(* The code asks for an id; a toast is also numbered by when it was created,   *)
(* which the code does not know.  The order in which toasts are shown is left  *)
(* out.  Time is counted in animations (300 ms); a timer may strike late.      *)
(***************************************************************************)
EXTENDS Naturals, FiniteSets

CONSTANTS
    Durations,     \* durations asked for; 0 (and Infinity) means until it is closed
    MaxToasts,     \* bound: toasts created
    MaxTime        \* bound: the last moment

VARIABLES
    now,
    counter,       \* idCounterRef.current
    toasts,        \* the toasts that are shown
    timers,        \* timersRef.current: pending automatic dismissals
    exits,         \* the timers of close buttons, which nothing clears
    wanted         \* history: wanted[n], when the nth toast may be gone at the earliest

vars == <<now, counter, toasts, timers, exits, wanted>>

Never == 2 * MaxTime + 1

\* The nth toast may go at t, or earlier if that was so before.
Want(n, t) == [wanted EXCEPT ![n] = IF t < @ THEN t ELSE @]

Init ==
    /\ now = 0
    /\ counter = 0
    /\ toasts = {}
    /\ timers = {}
    /\ exits = {}
    /\ wanted = [n \in 1..MaxToasts |-> Never]

\* Slip: the length of the list makes the id.
LengthId(list, count) == Cardinality(list) + 1
NextId(list, count) == count + 1

\* createToast
Create(duration, dismissible) ==
    LET id == NextId(toasts, counter)
        toast == [id |-> id, nth |-> counter + 1, dismissible |-> dismissible]
    IN  /\ counter < MaxToasts
        /\ counter' = counter + 1
        /\ toasts' = toasts \cup {toast}
        /\ timers' = IF duration = 0 THEN timers
                     ELSE {t \in timers : t.id # id} \cup {[id |-> id, at |-> now + duration]}
        /\ wanted' = IF duration = 0 THEN wanted
                     ELSE Want(toast.nth, now + duration)
        /\ UNCHANGED <<now, exits>>

\* dismiss: its timer is cleared, its toast filtered out.
Dismiss(id) ==
    /\ timers' = {t \in timers : t.id # id}
    /\ toasts' = {t \in toasts : t.id # id}
    /\ UNCHANGED <<now, counter>>

TimerStrikes ==
    \E t \in timers :
        /\ t.at <= now
        /\ Dismiss(t.id)
        /\ UNCHANGED <<exits, wanted>>

\* handleClose: the button of a toast that leaves already can be pressed again.
Close ==
    \E toast \in toasts :
        /\ toast.dismissible
        /\ exits' = exits \cup {[id |-> toast.id, at |-> now + 1]}
        /\ wanted' = Want(toast.nth, now + 1)
        /\ UNCHANGED <<now, counter, toasts, timers>>

ExitEnds ==
    \E x \in exits :
        /\ x.at <= now
        /\ exits' = exits \ {x}
        /\ Dismiss(x.id)
        /\ UNCHANGED wanted

\* dismissAll
DismissAll ==
    /\ toasts # {}
    /\ timers' = {}
    /\ toasts' = {}
    /\ wanted' = [n \in 1..MaxToasts |-> IF now < wanted[n] /\ \E t \in toasts : t.nth = n
                                      THEN now ELSE wanted[n]]
    /\ UNCHANGED <<now, counter, exits>>

Tick ==
    /\ now < MaxTime
    /\ now' = now + 1
    /\ UNCHANGED <<counter, toasts, timers, exits, wanted>>

Next ==
    \/ \E duration \in Durations, dismissible \in BOOLEAN : Create(duration, dismissible)
    \/ TimerStrikes \/ Close \/ ExitEnds \/ DismissAll \/ Tick

Spec == Init /\ [][Next]_vars

-----------------------------------------------------------------------------
(* Properties *)

\* A toast disappears only when someone wanted it to, and not before: whatever was closed
\* or dismissed earlier, its timers strike nobody else.  Conversely one that somebody
\* wants gone keeps a timer that will see to it.
NoneGoesEarly ==
    [][/\ \A t \in toasts \ toasts' : wanted'[t.nth] <= now
       /\ \A t \in toasts' : wanted'[t.nth] # Never =>
             \E x \in timers' \cup exits' : x.id = t.id]_vars

=============================================================================
