------------------------------ MODULE MCInterface ------------------------------
(***************************************************************************)
(* What a user meets: signing in with the wallet, the HTTP client, the         *)
(* drop-down list, notifications, the colour scheme, lists read page by page   *)
(* and the three layers that judge a request.  They share no state, so each    *)
(* behaviour is one component's, named by part, while the others rest: the run *)
(* explores the sum of their states.                                          *)
(***************************************************************************)
EXTENDS WalletSession, TLC

CONSTANTS
    Call, MaxChanges,                                  \* of ApiClient
    Letter, MaxOptions,                                \* of Select
    Durations, MaxToasts, MaxTime,                     \* of Toasts
    MaxLoads,                                          \* of Theme
    MaxRows, MaxKey, DefaultLimit, MaxLimit,           \* of Listing
    MaxOdd                                             \* of RequestShapes

VARIABLES
    part,
    provider, changes, signal, call,
    options, first, selected, open, active, query, disabled,
    now, counter, toasts, timers, exits, wanted,
    stored, system, html, page, changed, loads,
    endpoint, key, there, inserted, walk, history,
    kind, given, value, at, by

Client == INSTANCE ApiClient
Dropdown == INSTANCE Select
Notices == INSTANCE Toasts
Colours == INSTANCE Theme
Pages == INSTANCE Listing
Shapes == INSTANCE RequestShapes

session == <<wallet, pending, issued, hook, run, token, polls, reply>>
client == <<provider, changes, signal, call>>
dropdown == <<options, first, selected, open, active, query, disabled>>
notices == <<now, counter, toasts, timers, exits, wanted>>
colours == <<stored, system, html, page, changed, loads>>
pages == <<endpoint, key, there, inserted, walk, history>>
shapes == <<kind, given, value, at, by>>

Part == {"session", "client", "dropdown", "notices", "colours", "pages", "shapes"}

\* A component that rests does so in one of its initial states.
InterfaceInit ==
    /\ part \in Part
    /\ part = "session" \/ wallet = [account |-> CHOOSE a \in Account : TRUE, network |-> Expected]
    /\ part = "dropdown" \/ options = <<>>
    /\ part = "colours" \/ (stored = "nothing" /\ system = "light")
    /\ part = "pages" \/ endpoint = Pages!CommunityList
    /\ part = "shapes" \/ (kind = "repay" /\ given = [amount |-> "good"])
    /\ Init /\ Client!Init /\ Dropdown!Init /\ Notices!Init /\ Colours!Init /\ Pages!Init
    /\ Shapes!Init

InterfaceNext ==
    /\ UNCHANGED part
    /\ \/ /\ part = "session" /\ Next
          /\ UNCHANGED <<client, dropdown, notices, colours, pages, shapes>>
       \/ /\ part = "client" /\ Client!Next
          /\ UNCHANGED <<session, dropdown, notices, colours, pages, shapes>>
       \/ /\ part = "dropdown" /\ Dropdown!Next
          /\ UNCHANGED <<session, client, notices, colours, pages, shapes>>
       \/ /\ part = "notices" /\ Notices!Next
          /\ UNCHANGED <<session, client, dropdown, colours, pages, shapes>>
       \/ /\ part = "colours" /\ Colours!Next
          /\ UNCHANGED <<session, client, dropdown, notices, pages, shapes>>
       \/ /\ part = "pages" /\ Pages!Next
          /\ UNCHANGED <<session, client, dropdown, notices, colours, shapes>>
       \/ /\ part = "shapes" /\ Shapes!Next
          /\ UNCHANGED <<session, client, dropdown, notices, colours, pages>>

InterfaceSpec ==
    /\ InterfaceInit
    /\ [][InterfaceNext]_<<part, session, client, dropdown, notices, colours, pages, shapes>>

\* Only what the wallet and its page do is treated fairly.
FairInterfaceSpec == InterfaceSpec /\ SessionFairness

\* No fairness condition names an account, and no liveness property does.
AccountSymmetry == Permutations(Account)

-----------------------------------------------------------------------------
(* Properties, with those of WalletSession *)

\* ApiClient: an error names what ended the request.
ToldTheCause == Client!ToldTheCause

\* Select: no key or press makes a disabled option active or selected.
DisabledAreSkipped == Dropdown!DisabledAreSkipped

\* Toasts: a notification goes when somebody wants it to and not before.
NoneGoesEarly == Notices!NoneGoesEarly

\* Theme: the palette painted first stays unless a preference changes.
NoFlash == Colours!NoFlash

\* Listing: turning all pages shows every row that stayed and did not move.
WalkIsComplete == Pages!WalkIsComplete

\* RequestShapes: no layer refuses what the next one takes, nor takes what it cannot use.
LayersAgree == Shapes!LayersAgree

=============================================================================
