--------------------------------- MODULE Theme ---------------------------------
(***************************************************************************)
(* The colour scheme of a page (frontend/src/hooks/useTheme.tsx, lib/theme.ts, *)
(* components/ThemeToggle.tsx): the script that runs before the first paint,   *)
(* the provider that takes over when React has mounted, the button, the        *)
(* operating system, and another tab that stores a choice of its own.          *)
(*                                                                         *)
(* Storage that cannot be read or written counts as empty (README,            *)
(* Disagreements, for what the script makes of it).                          *)
(***************************************************************************)
EXTENDS Naturals

CONSTANTS
    MaxLoads       \* bound: how often the page is loaded

VARIABLES
    stored,        \* localStorage's THEME_STORAGE_KEY, or "nothing"
    system,        \* whether the operating system prefers "dark" or "light"
    html,          \* the class of <html>, or "none"
    page,          \* how far the page has come, and what state the provider keeps
    changed,       \* history: has a preference changed since the class was written
    loads

vars == <<stored, system, html, page, changed, loads>>

Palettes == {"light", "dark"}
Themes == Palettes \cup {"system"}

\* resolveTheme
Resolve(theme, os) == IF theme = "system" THEN os ELSE theme

\* useState(defaultTheme) and useState('light'), before anything is read.
Unread == [pc |-> "markup", theme |-> "system", systemTheme |-> "light", hydrated |-> FALSE]

Init ==
    /\ stored \in Themes \cup {"nothing"}
    /\ system \in Palettes
    /\ html = "none"
    /\ page = Unread
    /\ changed = FALSE
    /\ loads = 1

\* THEME_INIT_SCRIPT
InitScript ==
    /\ page.pc = "markup"
    /\ page' = [page EXCEPT !.pc = "painted"]
    /\ html' = IF stored \in Palettes THEN stored ELSE system
    /\ changed' = FALSE
    /\ UNCHANGED <<stored, system, loads>>

\* The effects of the first render: what is stored is read, and the system is listened to.
Mount ==
    /\ page.pc = "painted"
    /\ page' = [pc |-> "mounted", hydrated |-> TRUE, systemTheme |-> system,
                theme |-> IF stored = "nothing" THEN "system" ELSE stored]
    /\ UNCHANGED <<stored, system, html, changed, loads>>

\* Slip: the class is written from the first render on.
AtOnce == page.pc \in {"painted", "mounted"}
MayApply == page.hydrated

\* The effect that writes the class, after a render that resolved to another theme.
Apply ==
    /\ MayApply
    /\ html # Resolve(page.theme, page.systemTheme)
    /\ html' = Resolve(page.theme, page.systemTheme)
    /\ changed' = FALSE
    /\ UNCHANGED <<stored, system, page, loads>>

\* toggleTheme: the opposite of what is rendered, as an explicit choice, which storage may
\* refuse to keep.
Toggle ==
    /\ page.pc = "mounted"
    /\ html = Resolve(page.theme, page.systemTheme)
    /\ LET next == IF html = "dark" THEN "light" ELSE "dark"
       IN  /\ page' = [page EXCEPT !.theme = next]
           /\ stored' \in {next, stored}
    /\ changed' = TRUE
    /\ UNCHANGED <<system, html, loads>>

\* The media query's listener exists once the page has mounted.
SystemChanges ==
    /\ system' = IF system = "dark" THEN "light" ELSE "dark"
    /\ page' = IF page.pc = "mounted" THEN [page EXCEPT !.systemTheme = system'] ELSE page
    /\ changed' = TRUE
    /\ UNCHANGED <<stored, html, loads>>

\* Another tab stores its choice: nothing here listens to that.
OtherTabStores ==
    /\ stored' \in Themes \ {stored}
    /\ changed' = TRUE
    /\ UNCHANGED <<system, html, page, loads>>

Reload ==
    /\ loads < MaxLoads
    /\ loads' = loads + 1
    /\ page' = Unread
    /\ html' = "none"
    /\ UNCHANGED <<stored, system, changed>>

Next == InitScript \/ Mount \/ Apply \/ Toggle \/ SystemChanges \/ OtherTabStores \/ Reload

Spec == Init /\ [][Next]_vars

-----------------------------------------------------------------------------
(* Properties *)

\* useTheme.tsx:43 "so there is no flash of the wrong palette": the palette that was painted
\* first stays when React takes over, unless the user, the system or another tab has
\* changed a preference since.
NoFlash == [][html' \in Palettes /\ html \in Palettes /\ html' # html => changed]_vars

=============================================================================
