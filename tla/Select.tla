-------------------------------- MODULE Select --------------------------------
(***************************************************************************)
(* The drop-down list (frontend/src/components/ui/Select.tsx) under keyboard   *)
(* and pointer.  Options are numbered; 0 stands for none of them.  An option   *)
(* has the letters of its label and may be disabled; the list of options and   *)
(* the value that was there before stay as they are.                          *)
(***************************************************************************)
EXTENDS Integers, SequencesExt

CONSTANTS
    Letter,
    MaxOptions     \* bound: options of a list

VARIABLES
    options,       \* the choices, in order
    first,         \* the option selected at the beginning, or 0
    selected, open, active,
    query,         \* typeahead: what was typed within TYPEAHEAD_RESET_MS
    disabled       \* the control's own property

vars == <<options, first, selected, open, active, query, disabled>>

Option == [label : [1..2 -> Letter], disabled : BOOLEAN]

Init ==
    /\ options \in SeqOf(Option, MaxOptions)
    /\ first \in 0..Len(options)
    /\ selected = first
    /\ open = FALSE
    /\ active = 0
    /\ query = <<>>
    /\ disabled = FALSE

Enabled(i) == i \in DOMAIN options /\ ~options[i].disabled

\* findEnabled: the first that can be chosen at from or beyond, in the given direction.
FindEnabled(from, step) ==
    LET ahead == {i \in DOMAIN options : Enabled(i) /\ (i - from) * step >= 0}
    IN  IF ahead = {} THEN 0
        ELSE CHOOSE i \in ahead : \A j \in ahead : (j - i) * step >= 0

Fixed == UNCHANGED <<options, first, disabled>>

-----------------------------------------------------------------------------
(* What handlers call *)

CloseList == open' = FALSE /\ active' = 0

\* Slip: the list opens at the selected option, also when that one is disabled.
OpenAtSelected ==
    /\ open' = TRUE
    /\ active' = IF selected # 0 THEN selected ELSE FindEnabled(1, 1)
    /\ UNCHANGED <<selected, query>>

OpenList ==
    /\ open' = TRUE
    /\ active' = IF Enabled(selected) THEN selected ELSE FindEnabled(1, 1)
    /\ UNCHANGED <<selected, query>>

\* Nothing happens for an option that is missing or disabled.
Commit(i) ==
    IF Enabled(i) THEN selected' = i /\ CloseList ELSE UNCHANGED <<selected, open, active>>

\* The prefix of a label that the query must be.
StartsWith(i, typed) ==
    Len(typed) <= Len(options[i].label) /\ SubSeq(options[i].label, 1, Len(typed)) = typed

\* Where jumpToTyped goes: the first match after the active or selected one, round the end;
\* 0 if there is none.
Match(typed) ==
    LET n == Len(options)
        from == IF active # 0 THEN active ELSE selected
        order == [k \in 1..n |-> ((from + k - 1) % n) + 1]
        hits == {k \in 1..n : Enabled(order[k]) /\ StartsWith(order[k], typed)}
    IN  IF hits = {} THEN 0 ELSE order[CHOOSE k \in hits : \A j \in hits : k <= j]

-----------------------------------------------------------------------------
(* Events *)

\* handleKeyDown does nothing while the control is disabled.
Key == ~disabled /\ Fixed

\* The arrows move the active option, or open the list.
Arrow(step) ==
    /\ Key
    /\ IF open
       THEN LET from == IF active # 0 THEN active + step ELSE IF step > 0 THEN 1 ELSE Len(options)
                next == FindEnabled(from, step)
            IN  /\ active' = IF next # 0 THEN next ELSE active
                /\ UNCHANGED <<selected, open, query>>
       ELSE OpenList

HomeOrEnd ==
    /\ Key /\ open
    /\ active' \in {FindEnabled(1, 1), FindEnabled(Len(options), -1)}
    /\ UNCHANGED <<selected, open, query>>

\* Enter and the space bar.
Choose ==
    /\ Key
    /\ IF open THEN Commit(active) /\ UNCHANGED query ELSE OpenList

\* Escape, and Tab, which moves on.
Leave ==
    /\ Key /\ open
    /\ CloseList /\ UNCHANGED <<selected, query>>

\* A letter, soon after the last one or not.
Type(letter, soon) ==
    /\ Key
    /\ query' = IF soon THEN Append(query, letter) ELSE <<letter>>
    /\ Len(query') <= 2
    /\ LET match == Match(query')
       IN  IF match = 0 THEN UNCHANGED <<selected, open, active>>
           ELSE IF open THEN active' = match /\ UNCHANGED <<selected, open>>
           ELSE Commit(match)

\* The trigger, which a disabled control does not have.
PressTrigger ==
    /\ ~disabled /\ Fixed
    /\ IF open THEN CloseList /\ UNCHANGED <<selected, query>> ELSE OpenList

\* A press anywhere else, while the effect listens.
PressOutside ==
    /\ open /\ Fixed
    /\ CloseList /\ UNCHANGED <<selected, query>>

Hover(i) ==
    /\ open /\ Fixed
    /\ Enabled(i)
    /\ active' = i
    /\ UNCHANGED <<selected, open, query>>

\* The options' own handler does not ask whether the control is disabled.
Click(i) ==
    /\ open /\ Fixed
    /\ Commit(i) /\ UNCHANGED query

\* The page disables or enables the control; an open list stays open.
SetDisabled ==
    /\ disabled' = ~disabled
    /\ UNCHANGED <<options, first, selected, open, active, query>>

Next ==
    \/ \E step \in {-1, 1} : Arrow(step)
    \/ HomeOrEnd \/ Choose \/ Leave \/ PressTrigger \/ PressOutside \/ SetDisabled
    \/ \E letter \in Letter, soon \in BOOLEAN : Type(letter, soon)
    \/ \E i \in DOMAIN options : Hover(i) \/ Click(i)

Spec == Init /\ [][Next]_vars

-----------------------------------------------------------------------------
(* Properties *)

\* Select.tsx:83 "disabled options are skipped by every one of those paths": whatever keys
\* and presses follow one another, the active option of an open list is one that can be
\* chosen (none only where there is none), a closed list has none, and what is selected is
\* what was there before or could be chosen.
DisabledAreSkipped ==
    /\ IF open THEN Enabled(active) \/ (active = 0 /\ \A i \in DOMAIN options : ~Enabled(i))
               ELSE active = 0
    /\ selected = first \/ Enabled(selected)

\* Select.tsx:48 "Prevents opening the list and changing the selection": an open list still
\* takes a click.
DisabledIsFixed == [][disabled => selected' = selected]_vars

=============================================================================
