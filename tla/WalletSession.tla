---------------------------- MODULE WalletSession ----------------------------
(***************************************************************************)
(* Signing in with the wallet: useWallet in the browser                      *)
(* (frontend/src/hooks/useWallet.ts, its users WalletConnect and Dashboard,  *)
(* the token kept by lib/api.ts), the challenges of                          *)
(* backend/src/api/routes/auth.ts and the requests of useLoanActions.        *)
(*                                                                         *)
(* Each browser tab runs the page on its own; all tabs share the wallet       *)
(* extension and the server.  A challenge is its number; a token is known by  *)
(* the account it names.                                                      *)
(***************************************************************************)
EXTENDS Naturals

CONSTANTS
    Tab,            \* browser tabs
    Account,        \* accounts in the wallet
    Network,        \* networks the wallet can be switched to
    Expected,       \* EXPECTED_NETWORK
    None,           \* no account, no network, no token
    MaxChallenges   \* bound: challenges issued

ASSUME WalletAssumption == Expected \in Network /\ MaxChallenges \in Nat

VARIABLES
    wallet,   \* the extension's active account and network
    pending,  \* pendingChallenges[address]: a challenge, or 0
    issued,   \* how many challenges were issued
    hook,     \* hook[t][c]: the state of component c's useWallet in tab t
    run,      \* run[t]: the connect() under way in tab t
    token,    \* token[t]: lib/api's bearer token
    polls,    \* polls[t]: networks read by polls whose answer is on its way
    reply     \* reply[t]: the answer to the last loan request

vars == <<wallet, pending, issued, hook, run, token, polls, reply>>

Component == {"Dashboard", "WalletConnect"}
Disconnected == [connected |-> FALSE, connecting |-> FALSE, key |-> None, network |-> None]
NoRun == [pc |-> "none", key |-> None, network |-> None, challenge |-> 0]

Init ==
    /\ wallet \in [account : Account, network : Network]
    /\ pending = [a \in Account |-> 0]
    /\ issued = 0
    /\ hook = [t \in Tab |-> [c \in Component |-> Disconnected]]
    /\ run = [t \in Tab |-> NoRun]
    /\ token = [t \in Tab |-> None]
    /\ polls = [t \in Tab |-> {}]
    /\ reply = [t \in Tab |-> "none"]

\* Only WalletConnect has the buttons; the state they change is that of its own hook.
Shown(t) == hook[t]["WalletConnect"]
SetState(t, state) == hook' = [hook EXCEPT ![t]["WalletConnect"] = state]

-----------------------------------------------------------------------------
(* connect() *)

\* The button is there while disconnected and disabled while connecting.
Connect(t) ==
    /\ ~Shown(t).connected /\ ~Shown(t).connecting
    /\ SetState(t, [Shown(t) EXCEPT !.connecting = TRUE])
    /\ run' = [run EXCEPT ![t].pc = "key"]
    /\ UNCHANGED <<wallet, pending, issued, token, polls, reply>>

ReadKey(t) ==
    /\ run[t].pc = "key"
    /\ run' = [run EXCEPT ![t].pc = "network", ![t].key = wallet.account]
    /\ UNCHANGED <<wallet, pending, issued, hook, token, polls, reply>>

ReadNetwork(t) ==
    /\ run[t].pc = "network"
    /\ run' = [run EXCEPT ![t].pc = "challenge", ![t].network = wallet.network]
    /\ UNCHANGED <<wallet, pending, issued, hook, token, polls, reply>>

\* Slip: the error is kept, connecting is not reset.
StuckFailure(t) ==
    /\ run[t].pc \in {"key", "network"}
    /\ run' = [run EXCEPT ![t] = NoRun]
    /\ UNCHANGED <<wallet, pending, issued, hook, token, polls, reply>>

\* The extension is missing or the user refuses access.
WalletFails(t) ==
    /\ run[t].pc \in {"key", "network"}
    /\ SetState(t, [Shown(t) EXCEPT !.connecting = FALSE])
    /\ run' = [run EXCEPT ![t] = NoRun]
    /\ UNCHANGED <<wallet, pending, issued, token, polls, reply>>

\* POST /challenge replaces what was pending for the address.
AskChallenge(t) ==
    /\ run[t].pc = "challenge"
    /\ issued < MaxChallenges
    /\ issued' = issued + 1
    /\ pending' = [pending EXCEPT ![run[t].key] = issued + 1]
    /\ run' = [run EXCEPT ![t].pc = "sign", ![t].challenge = issued + 1]
    /\ UNCHANGED <<wallet, hook, token, polls, reply>>

\* The user signs, with the account the challenge is for.
Sign(t) ==
    /\ run[t].pc = "sign"
    /\ run' = [run EXCEPT ![t].pc = "verify"]
    /\ UNCHANGED <<wallet, pending, issued, hook, token, polls, reply>>

\* POST /verify finds the challenge pending, consumes it and mints a token.  Should the
\* request arrive a second time, it finds nothing.
Verify(t) ==
    /\ run[t].pc = "verify"
    /\ pending[run[t].key] = run[t].challenge
    /\ pending' = [pending EXCEPT ![run[t].key] = 0]
    /\ run' = [run EXCEPT ![t].pc = "verified"]
    /\ UNCHANGED <<wallet, issued, hook, token, polls, reply>>

\* The end of connect() in either case.
ShowConnected(t) ==
    /\ SetState(t, [connected |-> TRUE, connecting |-> FALSE,
                    key |-> run[t].key, network |-> run[t].network])
    /\ run' = [run EXCEPT ![t] = NoRun]

SignedIn(t) ==
    /\ run[t].pc = "verified"
    /\ token' = [token EXCEPT ![t] = run[t].key]
    /\ ShowConnected(t)
    /\ UNCHANGED <<wallet, pending, issued, polls, reply>>

\* A request fails, times out or is answered 401, or the user does not sign: best effort.
AuthFails(t) ==
    /\ run[t].pc \in {"challenge", "sign", "verify", "verified"}
    /\ ShowConnected(t)
    /\ UNCHANGED <<wallet, pending, issued, token, polls, reply>>

-----------------------------------------------------------------------------
(* disconnect() and the polling effect *)

\* Slip: the token is kept.
DisconnectShown(t) ==
    /\ Shown(t).connected
    /\ SetState(t, Disconnected)
    /\ polls' = [polls EXCEPT ![t] = {}]
    /\ UNCHANGED <<wallet, pending, issued, run, token, reply>>

\* The effect's cleanup cancels the polls under way.
Disconnect(t) ==
    /\ Shown(t).connected
    /\ token' = [token EXCEPT ![t] = None]
    /\ SetState(t, Disconnected)
    /\ polls' = [polls EXCEPT ![t] = {}]
    /\ UNCHANGED <<wallet, pending, issued, run, reply>>

\* Every five seconds the network is read, however long the last answer takes.
Poll(t) ==
    /\ Shown(t).connected
    /\ polls' = [polls EXCEPT ![t] = @ \cup {wallet.network}]
    /\ UNCHANGED <<wallet, pending, issued, hook, run, token, reply>>

\* Slip: the answer of a poll does not reach the network that is shown.
KeepNetwork(t, n) ==
    /\ n \in polls[t]
    /\ polls' = [polls EXCEPT ![t] = @ \ {n}]
    /\ UNCHANGED <<wallet, pending, issued, hook, run, token, reply>>

PollAnswers(t, n) ==
    /\ n \in polls[t]
    /\ polls' = [polls EXCEPT ![t] = @ \ {n}]
    /\ SetState(t, [Shown(t) EXCEPT !.network = n])
    /\ UNCHANGED <<wallet, pending, issued, run, token, reply>>

\* The extension refuses to tell: the error is swallowed, the next poll tries again.
PollFails(t, n) ==
    /\ n \in polls[t]
    /\ polls' = [polls EXCEPT ![t] = @ \ {n}]
    /\ UNCHANGED <<wallet, pending, issued, hook, run, token, reply>>

-----------------------------------------------------------------------------
(* Loan requests, and the world *)

\* useLoanActions and useCreateLoan call fetch with no Authorization header.
Authorization(t) == None

\* requireAuth on every writing loan route.
LoanRequest(t) ==
    /\ reply' = [reply EXCEPT ![t] = IF Authorization(t) = None THEN "refused" ELSE "served"]
    /\ UNCHANGED <<wallet, pending, issued, hook, run, token, polls>>

\* A challenge is older than five minutes, or the server starts anew.
Lapse(a) ==
    /\ pending[a] # 0
    /\ pending' = [pending EXCEPT ![a] = 0]
    /\ UNCHANGED <<wallet, issued, hook, run, token, polls, reply>>

Switch ==
    /\ wallet' \in [account : Account, network : Network]
    /\ UNCHANGED <<pending, issued, hook, run, token, polls, reply>>

Next ==
    \/ \E t \in Tab :
          \/ Connect(t) \/ ReadKey(t) \/ ReadNetwork(t) \/ WalletFails(t)
          \/ AskChallenge(t) \/ Sign(t) \/ Verify(t)
          \/ SignedIn(t) \/ AuthFails(t)
          \/ Disconnect(t) \/ Poll(t) \/ LoanRequest(t)
          \/ \E n \in Network : PollAnswers(t, n) \/ PollFails(t, n)
    \/ \E a \in Account : Lapse(a)
    \/ Switch

Spec == Init /\ [][Next]_vars

\* connect() waits for the extension, and for the user behind it: those calls have no
\* timeout.
AtWallet(t) == run[t].pc \in {"key", "network", "sign"}

\* Requests end with an answer or their timeout, and the interval fires.  Nothing is
\* assumed of the extension or of its user.
SessionFairness ==
    \A t \in Tab :
        /\ WF_vars(~AtWallet(t) /\ (AskChallenge(t) \/ Verify(t) \/ SignedIn(t) \/ AuthFails(t)))
        /\ WF_vars(Poll(t))

-----------------------------------------------------------------------------
(* Properties *)

\* The variables have their types.
TypeOK ==
    LET Key == Account \cup {None}
        Net == Network \cup {None}
    IN  /\ wallet \in [account : Account, network : Network]
        /\ pending \in [Account -> 0..MaxChallenges]
        /\ issued \in 0..MaxChallenges
        /\ hook \in [Tab -> [Component -> [connected : BOOLEAN, connecting : BOOLEAN,
                                           key : Key, network : Net]]]
        /\ run \in [Tab -> [pc : {"none", "key", "network", "challenge", "sign", "verify",
                                  "verified"},
                            key : Key, network : Net, challenge : 0..MaxChallenges]]
        /\ \A t \in Tab : run[t].pc # "none" <=> Shown(t).connecting
        /\ token \in [Tab -> Key]
        /\ polls \in [Tab -> SUBSET Network]
        /\ reply \in [Tab -> {"none", "refused", "served"}]

\* The token a tab sends names the account it shows: not one that was connected before,
\* though signing in may fail or be refused and the wallet may switch accounts meanwhile.
TokenNamesShownAccount ==
    \A t \in Tab : token[t] # None => Shown(t).connected /\ token[t] = Shown(t).key

Mismatch(t) == Shown(t).connected /\ Shown(t).network # Expected

\* Polls may fail or stay unanswered, but one made again and again is answered in the end.
PollsGetThrough(t) == \A n \in Network \ {Expected} : SF_vars(PollAnswers(t, n))

\* While the wallet stays on another network than the page expects, the warning appears,
\* whichever network was read while connecting, however many polls fail and however late
\* others are answered: provided that polls get through at all.
MismatchIsShown ==
    \A t \in Tab :
        PollsGetThrough(t) =>
            ((Shown(t).connected /\ wallet.network # Expected)
                ~> (Mismatch(t) \/ ~Shown(t).connected \/ wallet.network = Expected))

\* The page and the server never keep connect() from ending, whatever fails on its way:
\* the button stays busy for ever only if the extension does not answer.
EveryConnectEnds ==
    \A t \in Tab : []<>~AtWallet(t) => (Shown(t).connecting ~> ~Shown(t).connecting)

\* The comment of useWallet: after signing in "subsequent API requests are authenticated
\* as the connected address".
SignedInRequestsAreServed ==
    [][\A t \in Tab : reply'[t] # reply[t] /\ token[t] # None => reply'[t] = "served"]_vars

=============================================================================
