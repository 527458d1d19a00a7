--------------------------- MODULE InterfaceProofs ---------------------------
(***************************************************************************)
(* For every number of tabs, accounts, challenges, requests, options,        *)
(* notifications, rows and pages: the token names the account shown, an error *)
(* names what ended its request, disabled options are skipped, no             *)
(* notification goes early, the palette painted first stays, a reader who     *)
(* turned all pages missed nothing, and the form, the server and the builder *)
(* agree on every request but for the listed exceptions.                     *)
(***************************************************************************)
EXTENDS MCInterface, Sequences, Numbers, FiniteSetTheorems, SequenceTheorems, TLAPS

-----------------------------------------------------------------------------
(* Signing in: a tab has no token while it is not connected *)

Named == {"none", "key", "network", "challenge", "sign", "verify", "verified"}
Nets == Network \cup {None}
Keys == Account \cup {None}
HookRecord == [connected : BOOLEAN, connecting : BOOLEAN, key : Keys, network : Nets]
HookState == [Component -> HookRecord]
RunRecord == [pc : Named, key : Keys, network : Nets, challenge : Nat]

\* A tab that signs in is not connected yet.
Busy(t) == run[t].pc # "none" => ~ Shown(t).connected
Holds(t) == token[t] # None => Shown(t).connected /\ token[t] = Shown(t).key

SessionInv ==
  /\ wallet \in [account : Account, network : Network]
  /\ issued \in Nat
  /\ hook \in [Tab -> HookState]
  /\ run \in [Tab -> RunRecord]
  /\ token \in [Tab -> Keys]
  /\ polls \in [Tab -> SUBSET Network]
  /\ \A t \in Tab : Busy(t) /\ Holds(t)

LEMMA InitSession == Init => SessionInv
  <1> SUFFICES ASSUME Init PROVE SessionInv
    OBVIOUS
  <1>1. Disconnected \in HookRecord /\ "WalletConnect" \in Component
    BY DEF Disconnected, HookRecord, Keys, Nets, Component
  <1>2. hook \in [Tab -> HookState] /\ \A t \in Tab : Shown(t) = Disconnected
    BY <1>1 DEF Init, HookState, Shown
  <1>3. NoRun \in RunRecord /\ NoRun.pc = "none"
    BY DEF NoRun, RunRecord, Named, Keys, Nets
  <1>4. run \in [Tab -> RunRecord] /\ \A t \in Tab : run[t].pc = "none" /\ token[t] = None
    BY <1>3 DEF Init
  <1>5. /\ wallet \in [account : Account, network : Network] /\ issued \in Nat
        /\ token \in [Tab -> Keys] /\ polls \in [Tab -> SUBSET Network]
    BY DEF Init, Keys
  <1>6. QED
    BY <1>2, <1>4, <1>5 DEF SessionInv, Busy, Holds

\* One tab goes on: what it shows, does and sends next fit together.
LEMMA TabStep ==
  ASSUME SessionInv, NEW t \in Tab, NEW s \in HookRecord, NEW r \in RunRecord, NEW k \in Keys,
         hook' = [hook EXCEPT ![t]["WalletConnect"] = s],
         run' = [run EXCEPT ![t] = r], token' = [token EXCEPT ![t] = k],
         wallet' = wallet, issued' \in Nat, polls' \in [Tab -> SUBSET Network],
         r.pc # "none" => ~ s.connected,
         k # None => s.connected /\ k = s.key
  PROVE  SessionInv'
  <1>1. hook \in [Tab -> HookState] /\ "WalletConnect" \in Component
    BY DEF SessionInv, Component
  <1>2. hook' \in [Tab -> HookState] /\ hook'[t]["WalletConnect"] = s
        /\ \A u \in Tab \ {t} : hook'[u] = hook[u]
    BY <1>1 DEF HookState
  <1>3. run' \in [Tab -> RunRecord] /\ run'[t] = r /\ \A u \in Tab \ {t} : run'[u] = run[u]
    BY DEF SessionInv
  <1>4. token' \in [Tab -> Keys] /\ token'[t] = k /\ \A u \in Tab \ {t} : token'[u] = token[u]
    BY DEF SessionInv
  <1>5. \A u \in Tab : /\ run'[u].pc # "none" => ~ hook'[u]["WalletConnect"].connected
                       /\ token'[u] # None => /\ hook'[u]["WalletConnect"].connected
                                              /\ token'[u] = hook'[u]["WalletConnect"].key
    BY <1>2, <1>3, <1>4 DEF SessionInv, Busy, Holds, Shown
  <1>6. QED
    BY <1>2, <1>3, <1>4, <1>5 DEF SessionInv, Busy, Holds, Shown

LEMMA TabSteps ==
  ASSUME SessionInv, NEW t \in Tab,
         \/ Connect(t) \/ ReadKey(t) \/ ReadNetwork(t) \/ WalletFails(t) \/ AskChallenge(t)
         \/ Sign(t) \/ Verify(t) \/ SignedIn(t) \/ AuthFails(t) \/ Disconnect(t) \/ Poll(t)
         \/ LoanRequest(t) \/ \E n \in Network : PollAnswers(t, n) \/ PollFails(t, n)
  PROVE  SessionInv'
  <1> DEFINE h == hook[t]["WalletConnect"]
  <1>1. /\ h \in HookRecord /\ run[t] \in RunRecord /\ token[t] \in Keys
        /\ wallet.account \in Account /\ wallet.network \in Network
        /\ issued \in Nat /\ polls \in [Tab -> SUBSET Network]
        /\ run[t].pc # "none" => ~ h.connected
        /\ token[t] # None => h.connected /\ token[t] = h.key
    BY DEF SessionInv, Busy, Holds, Shown, HookState, Component
  <1>2. /\ h.connected \in BOOLEAN /\ h.key \in Keys /\ h.network \in Nets
        /\ run[t].key \in Keys /\ run[t].network \in Nets /\ run[t].challenge \in Nat
    BY <1>1 DEF HookRecord, RunRecord
  <1>3. /\ hook = [hook EXCEPT ![t]["WalletConnect"] = h] /\ run = [run EXCEPT ![t] = run[t]]
        /\ token = [token EXCEPT ![t] = token[t]]
    BY DEF SessionInv, HookState, Component
  <1>4. NoRun \in RunRecord /\ NoRun.pc = "none" /\ None \in Keys
    BY DEF NoRun, RunRecord, Named, Keys, Nets
  <1>5. Disconnected \in HookRecord /\ ~ Disconnected.connected
    BY DEF Disconnected, HookRecord, Keys, Nets
  \* The run goes on, and nothing else does.
  <1>6. ASSUME NEW r \in RunRecord, run[t].pc # "none",
               run' = [run EXCEPT ![t] = r], hook' = hook, token' = token,
               wallet' = wallet, issued' \in Nat, polls' = polls
        PROVE  SessionInv'
    BY <1>1, <1>3, <1>6, TabStep
  <1>7. ASSUME NEW pc \in Named, NEW k \in Keys, NEW n \in Nets, NEW c \in Nat
        PROVE  [pc |-> pc, key |-> k, network |-> n, challenge |-> c] \in RunRecord
    BY DEF RunRecord
  <1>8. run[t] = [pc |-> run[t].pc, key |-> run[t].key, network |-> run[t].network,
                  challenge |-> run[t].challenge]
    BY <1>1 DEF RunRecord
  <1>9. CASE Connect(t)
    <2> DEFINE s == [h EXCEPT !.connecting = TRUE]
               r == [run[t] EXCEPT !.pc = "key"]
    <2>1. s \in HookRecord /\ ~ s.connected
      BY <1>1, <1>9 DEF HookRecord, Connect, Shown
    <2>2. r \in RunRecord
      BY <1>1 DEF RunRecord, Named
    <2>3. /\ hook' = [hook EXCEPT ![t]["WalletConnect"] = s] /\ run' = [run EXCEPT ![t] = r]
          /\ token' = token /\ wallet' = wallet /\ issued' = issued /\ polls' = polls
          /\ token[t] = None
      BY <1>1, <1>9 DEF Connect, SetState, Shown
    <2> HIDE DEF s, r
    <2>4. QED
      BY <1>1, <1>3, <2>1, <2>2, <2>3, TabStep
  <1>10. CASE ReadKey(t)
    <2> DEFINE r == [run[t] EXCEPT !.pc = "network", !.key = wallet.account]
    <2>1. r \in RunRecord
      BY <1>1 DEF RunRecord, Named, Keys
    <2>2. run' = [run EXCEPT ![t] = r]
      BY <1>10 DEF ReadKey
    <2> HIDE DEF r
    <2>3. QED
      BY <1>1, <1>6, <1>10, <2>1, <2>2 DEF ReadKey
  <1>11. CASE ReadNetwork(t)
    <2> DEFINE r == [run[t] EXCEPT !.pc = "challenge", !.network = wallet.network]
    <2>1. r \in RunRecord
      BY <1>1 DEF RunRecord, Named, Nets
    <2>2. run' = [run EXCEPT ![t] = r]
      BY <1>11 DEF ReadNetwork
    <2> HIDE DEF r
    <2>3. QED
      BY <1>1, <1>6, <1>11, <2>1, <2>2 DEF ReadNetwork
  <1>12. CASE WalletFails(t)
    <2> DEFINE s == [h EXCEPT !.connecting = FALSE]
    <2>1. s \in HookRecord /\ s.connected = h.connected /\ s.key = h.key
      BY <1>1 DEF HookRecord
    <2>2. /\ hook' = [hook EXCEPT ![t]["WalletConnect"] = s] /\ run' = [run EXCEPT ![t] = NoRun]
          /\ token' = token /\ wallet' = wallet /\ issued' = issued /\ polls' = polls
      BY <1>12 DEF WalletFails, SetState, Shown
    <2> HIDE DEF s
    <2>3. QED
      BY <1>1, <1>3, <1>4, <2>1, <2>2, TabStep
  <1>13. CASE AskChallenge(t)
    <2> DEFINE c == issued + 1
               r == [run[t] EXCEPT !.pc = "sign", !.challenge = c]
    <2>1. c \in Nat
      BY <1>1
    <2>2. issued' = c /\ run' = [run EXCEPT ![t] = r]
      BY <1>13 DEF AskChallenge
    <2> HIDE DEF c
    <2>3. r \in RunRecord
      BY <1>1, <2>1 DEF RunRecord, Named
    <2> HIDE DEF r
    <2>4. QED
      BY <1>1, <1>6, <1>13, <2>1, <2>2, <2>3 DEF AskChallenge
  <1>14. CASE Sign(t) \/ Verify(t)
    <2>1. PICK pc \in {"verify", "verified"} : run' = [run EXCEPT ![t].pc = pc]
      BY <1>14 DEF Sign, Verify
    <2> DEFINE r == [run[t] EXCEPT !.pc = pc]
    <2>2. r \in RunRecord
      BY <1>1 DEF RunRecord, Named
    <2>3. run' = [run EXCEPT ![t] = r]
      BY <2>1
    <2> HIDE DEF r
    <2>4. QED
      BY <1>1, <1>6, <1>14, <2>2, <2>3 DEF Sign, Verify
  <1>15. CASE SignedIn(t) \/ AuthFails(t)
    <2> DEFINE s == [connected |-> TRUE, connecting |-> FALSE,
                     key |-> run[t].key, network |-> run[t].network]
    <2>1. s \in HookRecord /\ s.connected /\ s.key = run[t].key
      BY <1>2 DEF HookRecord
    <2>2. /\ hook' = [hook EXCEPT ![t]["WalletConnect"] = s] /\ run' = [run EXCEPT ![t] = NoRun]
          /\ wallet' = wallet /\ issued' = issued /\ polls' = polls
      BY <1>15 DEF SignedIn, AuthFails, ShowConnected, SetState
    <2>3. token[t] = None
      BY <1>1, <1>15 DEF SignedIn, AuthFails
    <2>4. PICK k \in {None, run[t].key} : token' = [token EXCEPT ![t] = k]
      BY <1>3, <1>15, <2>3 DEF SignedIn, AuthFails
    <2> HIDE DEF s
    <2>5. QED
      BY <1>1, <1>2, <1>4, <2>1, <2>2, <2>4, TabStep
  <1>16. CASE Disconnect(t)
    <2>1. /\ hook' = [hook EXCEPT ![t]["WalletConnect"] = Disconnected]
          /\ token' = [token EXCEPT ![t] = None]
          /\ run' = run /\ wallet' = wallet /\ issued' = issued
          /\ polls' \in [Tab -> SUBSET Network]
      BY <1>1, <1>16 DEF Disconnect, SetState
    <2>2. QED
      BY <1>1, <1>3, <1>4, <1>5, <2>1, TabStep
  <1>17. CASE Poll(t) \/ LoanRequest(t) \/ \E n \in Network : PollFails(t, n)
    <2>1. polls' \in [Tab -> SUBSET Network]
      BY <1>1, <1>17 DEF Poll, LoanRequest, PollFails
    <2>2. hook' = hook /\ run' = run /\ token' = token /\ wallet' = wallet /\ issued' = issued
      BY <1>17 DEF Poll, LoanRequest, PollFails
    <2>3. QED
      BY <2>1, <2>2 DEF SessionInv, Busy, Holds, Shown
  <1>18. CASE \E n \in Network : PollAnswers(t, n)
    <2>1. PICK n \in Network : PollAnswers(t, n)
      BY <1>18
    <2> DEFINE s == [h EXCEPT !.network = n]
    <2>2. s \in HookRecord /\ s.connected = h.connected /\ s.key = h.key
      BY <1>1 DEF HookRecord, Nets
    <2>3. hook' = [hook EXCEPT ![t]["WalletConnect"] = s] /\ polls' \in [Tab -> SUBSET Network]
      BY <1>1, <2>1 DEF PollAnswers, SetState, Shown
    <2> HIDE DEF s
    <2>4. /\ run' = [run EXCEPT ![t] = run[t]] /\ token' = [token EXCEPT ![t] = token[t]]
          /\ wallet' = wallet /\ issued' \in Nat
      BY <1>1, <1>3, <2>1 DEF PollAnswers
    <2>5. /\ run[t].pc # "none" => ~ s.connected
          /\ token[t] # None => s.connected /\ token[t] = s.key
      BY <1>1, <2>2
    <2>6. QED
      BY <1>1, <2>2, <2>3, <2>4, <2>5, TabStep
  <1>19. QED
    BY <1>9, <1>10, <1>11, <1>12, <1>13, <1>14, <1>15, <1>16, <1>17, <1>18

LEMMA NextSession == SessionInv /\ [Next]_vars => SessionInv'
  <1> SUFFICES ASSUME SessionInv, [Next]_vars PROVE SessionInv'
    OBVIOUS
  <1>1. CASE UNCHANGED vars
    BY <1>1 DEF vars, SessionInv, Busy, Holds, Shown
  <1>2. CASE Switch \/ \E a \in Account : Lapse(a)
    <2>1. /\ wallet' \in [account : Account, network : Network]
          /\ hook' = hook /\ run' = run /\ token' = token /\ issued' = issued /\ polls' = polls
      BY <1>2 DEF Switch, Lapse, SessionInv
    <2>2. QED
      BY <2>1 DEF SessionInv, Busy, Holds, Shown
  <1>3. QED
    BY <1>1, <1>2, TabSteps DEF Next

\* The token a tab sends names the account it shows (useWallet), however its steps meet
\* those of the user, the wallet, the server and other tabs.
THEOREM TokenIsShown == Spec => []TokenNamesShownAccount
  <1>1. SessionInv => TokenNamesShownAccount
    BY DEF SessionInv, Holds, TokenNamesShownAccount
  <1>2. QED
    BY <1>1, InitSession, NextSession, PTL DEF Spec

-----------------------------------------------------------------------------
(* Notifications: a timer that is pending is one its toast wants *)

Notice == [id : Nat, nth : Nat, dismissible : BOOLEAN]
Alarm == [id : Nat, at : Nat]

\* Durations and bounds are numbers.
NoticeBounds == Durations \subseteq Nat /\ MaxToasts \in Nat /\ MaxTime \in Nat

Pending == timers \cup exits
HasAlarm(id) == \E x \in Pending : x.id = id

ToastInv ==
  /\ now \in Nat /\ counter \in Nat /\ counter <= MaxToasts
  /\ toasts \in SUBSET Notice /\ timers \in SUBSET Alarm /\ exits \in SUBSET Alarm
  /\ wanted \in [1..MaxToasts -> Nat]
  /\ \A t \in toasts : t.id = t.nth /\ t.nth \in 1..counter
  /\ \A x \in Pending : x.id \in 1..counter /\ wanted[x.id] <= x.at
  /\ \A n \in 1..MaxToasts : n > counter => wanted[n] = Notices!Never
  /\ \A t \in toasts : wanted[t.nth] # Notices!Never => HasAlarm(t.id)

\* Who goes now was wanted to go.
Timely == \A t \in toasts \ toasts' : wanted'[t.nth] <= now

LEMMA NeverIsNumber == ASSUME NoticeBounds PROVE Notices!Never \in Nat
  BY DEF NoticeBounds, Notices!Never

LEMMA InitToasts == ASSUME NoticeBounds, Notices!Init PROVE ToastInv
  BY NeverIsNumber DEF Notices!Init, ToastInv, Pending, NoticeBounds

LEMMA CreateStep ==
  ASSUME NoticeBounds, ToastInv, NEW duration \in Durations, NEW dismissible \in BOOLEAN,
         Notices!Create(duration, dismissible)
  PROVE  ToastInv' /\ Timely
  <1> DEFINE n == counter + 1
             new == [id |-> n, nth |-> n, dismissible |-> dismissible]
             moment == now + duration
             alarm == [id |-> n, at |-> moment]
  <1>1. /\ counter < MaxToasts /\ counter' = n /\ now' = now /\ exits' = exits
        /\ toasts' = toasts \cup {new}
        /\ duration = 0 => timers' = timers /\ wanted' = wanted
        /\ duration # 0 => timers' = {t \in timers : t.id # n} \cup {alarm}
        /\ duration # 0 => wanted' = [wanted EXCEPT ![n] = IF moment < @ THEN moment ELSE @]
    BY DEF Notices!Create, Notices!NextId, Notices!Want
  <1>2. /\ n \in 1..MaxToasts /\ n \in Nat /\ moment \in Nat /\ wanted[n] = Notices!Never
        /\ \A k \in 1..counter : k # n /\ k \in 1..n /\ k \in 1..MaxToasts
        /\ \A k \in 1..MaxToasts : k > n => k > counter /\ k # n
        /\ n <= MaxToasts /\ n \in 1..n
    BY <1>1 DEF ToastInv, NoticeBounds
  <1>3. new \in Notice /\ new.id = n /\ new.nth = n /\ alarm \in Alarm /\ alarm.id = n /\ alarm.at = moment
    BY <1>2 DEF Notice, Alarm
  <1> HIDE DEF n, new, moment, alarm
  <1>4. /\ wanted' \in [1..MaxToasts -> Nat]
        /\ \A k \in 1..MaxToasts : k # n => wanted'[k] = wanted[k]
        /\ duration # 0 => wanted'[n] <= moment
        /\ duration = 0 => wanted'[n] = Notices!Never
    <2>1. wanted \in [1..MaxToasts -> Nat]
      BY DEF ToastInv
    <2>2. CASE duration = 0
      BY <1>1, <1>2, <2>1, <2>2
    <2>3. CASE duration # 0
      <3> DEFINE w == IF moment < wanted[n] THEN moment ELSE wanted[n]
      <3>1. wanted' = [wanted EXCEPT ![n] = w]
        BY <1>1, <2>3
      <3>2. w \in Nat /\ w <= moment
        BY <1>2, <2>1
      <3> HIDE DEF w
      <3>3. QED
        BY <1>2, <2>1, <2>3, <3>1, <3>2
    <2>4. QED
      BY <2>2, <2>3
  <1>5. /\ toasts' \in SUBSET Notice /\ timers' \in SUBSET Alarm /\ exits' \in SUBSET Alarm
        /\ \A t \in toasts' : t.id = t.nth /\ t.nth \in 1..n
    BY <1>1, <1>2, <1>3 DEF ToastInv
  <1>6. \A x \in timers' \cup exits' : x.id \in 1..n /\ wanted'[x.id] <= x.at
    <2>1. \A x \in timers \cup exits : x.id \in 1..n /\ wanted'[x.id] <= x.at
      BY <1>2, <1>4 DEF ToastInv, Pending
    <2>2. duration # 0 => alarm.id \in 1..n /\ wanted'[alarm.id] <= alarm.at
      BY <1>2, <1>3, <1>4
    <2>3. QED
      BY <1>1, <2>1, <2>2
  <1>7. \A t \in toasts' : wanted'[t.nth] # Notices!Never =>
                             \E x \in timers' \cup exits' : x.id = t.id
    <2>1. ASSUME NEW t \in toasts, wanted'[t.nth] # Notices!Never
          PROVE  \E x \in timers' \cup exits' : x.id = t.id
      <3>1. t.id \in 1..counter /\ t.nth = t.id /\ t.id # n /\ wanted[t.nth] # Notices!Never
        BY <1>2, <1>4, <2>1 DEF ToastInv
      <3>2. PICK x \in timers \cup exits : x.id = t.id
        BY <3>1 DEF ToastInv, HasAlarm, Pending
      <3>3. QED
        BY <1>1, <3>1, <3>2
    <2>2. wanted'[new.nth] # Notices!Never => \E x \in timers' \cup exits' : x.id = new.id
      BY <1>1, <1>3, <1>4
    <2>3. QED
      BY <1>1, <2>1, <2>2
  <1>8. \A k \in 1..MaxToasts : k > n => wanted'[k] = Notices!Never
    BY <1>2, <1>4 DEF ToastInv
  <1>9. now' \in Nat /\ counter' \in Nat /\ counter' <= MaxToasts
    BY <1>1, <1>2 DEF ToastInv
  <1>10. QED
    BY <1>1, <1>4, <1>5, <1>6, <1>7, <1>8, <1>9 DEF ToastInv, Pending, HasAlarm, Timely

\* A timer or the end of an animation removes its own toast only.
LEMMA DismissStep ==
  ASSUME NoticeBounds, ToastInv, NEW x \in Pending, x.at <= now, Notices!Dismiss(x.id),
         exits' = exits \/ exits' = exits \ {x}, wanted' = wanted
  PROVE  ToastInv' /\ Timely
  <1>1. /\ timers' = {t \in timers : t.id # x.id} /\ toasts' = {t \in toasts : t.id # x.id}
        /\ now' = now /\ counter' = counter
    BY DEF Notices!Dismiss
  <1>2. \A t \in toasts \ toasts' : wanted'[t.nth] <= now
    <2>1. SUFFICES ASSUME NEW t \in toasts, t.id = x.id PROVE wanted[t.nth] <= now
      BY <1>1
    <2>2. t.nth = x.id /\ wanted[x.id] <= x.at /\ wanted[x.id] \in Nat /\ x.at \in Nat /\ now \in Nat
      BY <2>1 DEF ToastInv, Pending, Alarm, NoticeBounds
    <2>3. QED
      BY <2>2
  <1>3. ASSUME NEW t \in toasts', wanted'[t.nth] # Notices!Never
        PROVE  \E y \in timers' \cup exits' : y.id = t.id
    <2>1. PICK y \in timers \cup exits : y.id = t.id
      BY <1>1, <1>3 DEF ToastInv, HasAlarm, Pending
    <2>2. QED
      BY <1>1, <1>3, <2>1
  <1>4. QED
    BY <1>1, <1>2, <1>3 DEF ToastInv, Pending, HasAlarm, Timely

LEMMA CloseStep ==
  ASSUME NoticeBounds, ToastInv, Notices!Close
  PROVE  ToastInv' /\ Timely
  <1>1. PICK toast \in toasts :
          /\ exits' = exits \cup {[id |-> toast.id, at |-> now + 1]}
          /\ wanted' = Notices!Want(toast.nth, now + 1)
          /\ UNCHANGED <<now, counter, toasts, timers>>
    BY DEF Notices!Close
  <1> DEFINE moment == now + 1
             n == toast.nth
             alarm == [id |-> toast.id, at |-> moment]
  <1>2. moment \in Nat /\ n \in 1..counter /\ n \in 1..MaxToasts /\ toast.id = n /\ n \in Nat
    BY DEF ToastInv, NoticeBounds, Notice
  <1>3. alarm \in Alarm /\ alarm.id = n /\ alarm.at = moment /\ exits' = exits \cup {alarm}
    BY <1>1, <1>2 DEF Alarm
  <1>4. wanted' = [wanted EXCEPT ![n] = IF moment < @ THEN moment ELSE @]
    BY <1>1 DEF Notices!Want
  <1> HIDE DEF moment, n, alarm
  <1>5. /\ wanted' \in [1..MaxToasts -> Nat]
        /\ \A k \in 1..MaxToasts : k # n => wanted'[k] = wanted[k]
        /\ wanted'[n] <= moment /\ wanted'[n] <= wanted[n]
    BY <1>2, <1>4 DEF ToastInv
  <1>6. \A y \in timers' \cup exits' : y.id \in 1..counter /\ wanted'[y.id] <= y.at
    <2>1. ASSUME NEW y \in timers \cup exits PROVE y.id \in 1..counter /\ wanted'[y.id] <= y.at
      <3>1. /\ y.id \in 1..counter /\ y.id \in 1..MaxToasts /\ wanted[y.id] <= y.at
            /\ y.at \in Nat /\ wanted[y.id] \in Nat /\ wanted'[y.id] \in Nat
        BY <1>5, <2>1 DEF ToastInv, Pending, Alarm, NoticeBounds
      <3>2. QED
        BY <1>5, <3>1
    <2>2. QED
      BY <1>1, <1>2, <1>3, <1>5, <2>1
  <1>7. ASSUME NEW t \in toasts, wanted'[t.nth] # Notices!Never
        PROVE  \E y \in timers' \cup exits' : y.id = t.id
    <2>1. t.nth \in 1..MaxToasts /\ t.id = t.nth
      BY DEF ToastInv, NoticeBounds
    <2>2. CASE t.nth = n
      BY <1>3, <2>1, <2>2
    <2>3. CASE t.nth # n
      BY <1>1, <1>3, <1>5, <1>7, <2>1, <2>3 DEF ToastInv, HasAlarm, Pending
    <2>4. QED
      BY <2>2, <2>3
  <1>8. \A k \in 1..MaxToasts : k > counter => k # n
    BY <1>2 DEF ToastInv
  <1>9. QED
    BY <1>1, <1>3, <1>5, <1>6, <1>7, <1>8 DEF ToastInv, Pending, HasAlarm, Timely

LEMMA DismissAllStep ==
  ASSUME NoticeBounds, ToastInv, Notices!DismissAll \/ Notices!Tick
  PROVE  ToastInv' /\ Timely
  <1>1. CASE Notices!Tick
    BY <1>1 DEF Notices!Tick, ToastInv, Pending, HasAlarm, Timely
  <1>2. CASE Notices!DismissAll
    <2>1. /\ timers' = {} /\ toasts' = {} /\ now' = now /\ counter' = counter /\ exits' = exits
          /\ wanted' = [n \in 1..MaxToasts |-> IF now < wanted[n] /\ \E t \in toasts : t.nth = n
                                               THEN now ELSE wanted[n]]
      BY <1>2 DEF Notices!DismissAll
    <2>2. /\ now \in Nat /\ wanted \in [1..MaxToasts -> Nat]
          /\ \A t \in toasts : t.nth \in 1..counter /\ t.nth \in 1..MaxToasts
      BY DEF ToastInv, NoticeBounds
    <2>3. /\ wanted' \in [1..MaxToasts -> Nat]
          /\ \A n \in 1..MaxToasts : wanted'[n] <= wanted[n]
          /\ \A n \in 1..MaxToasts : n > counter => wanted'[n] = wanted[n]
      BY <2>1, <2>2 DEF ToastInv
    <2>4. \A t \in toasts : wanted'[t.nth] <= now
      BY <2>1, <2>2
    <2>5. ASSUME NEW y \in exits PROVE y.id \in 1..counter /\ wanted'[y.id] <= y.at
      <3>1. /\ y.id \in 1..counter /\ y.id \in 1..MaxToasts /\ wanted[y.id] <= y.at
            /\ y.at \in Nat /\ wanted[y.id] \in Nat /\ wanted'[y.id] \in Nat
        BY <2>2, <2>3 DEF ToastInv, Pending, Alarm, NoticeBounds
      <3>2. QED
        BY <2>3, <3>1
    <2>6. QED
      BY <2>1, <2>3, <2>4, <2>5 DEF ToastInv, Pending, HasAlarm, Timely
  <1>3. QED
    BY <1>1, <1>2

LEMMA NextToasts ==
  ASSUME NoticeBounds, ToastInv, Notices!Next
  PROVE  ToastInv' /\ Timely
  <1>1. CASE Notices!TimerStrikes
    BY <1>1, DismissStep DEF Notices!TimerStrikes, Pending
  <1>2. CASE Notices!ExitEnds
    BY <1>2, DismissStep DEF Notices!ExitEnds, Pending
  <1>3. QED
    BY <1>1, <1>2, CreateStep, CloseStep, DismissAllStep DEF Notices!Next

\* A notification goes only when its duration, its close button or dismissAll wanted it
\* to, and one that somebody wants gone keeps a timer (useToast, ToastDisplay), for any
\* number of notifications and any durations.
THEOREM ToastsGoInTime ==
  ASSUME NoticeBounds PROVE Notices!Spec => NoneGoesEarly
  <1> DEFINE Kept == \A t \in toasts' : wanted'[t.nth] # Notices!Never =>
                       \E x \in timers' \cup exits' : x.id = t.id
  <1>1. ToastInv /\ [Notices!Next]_(Notices!vars) => ToastInv'
    BY NextToasts DEF ToastInv, Notices!vars, Pending, HasAlarm
  <1>2. ToastInv /\ ToastInv' /\ [Notices!Next]_(Notices!vars) => [Timely /\ Kept]_(Notices!vars)
    BY NextToasts DEF ToastInv, Pending, HasAlarm
  <1>3. QED
    BY <1>1, <1>2, InitToasts, PTL
    DEF Notices!Spec, NoneGoesEarly, Notices!NoneGoesEarly, Timely

-----------------------------------------------------------------------------
(* The drop-down list: what is active or selected can be chosen *)

SelectInv ==
  /\ options \in Seq(Dropdown!Option)
  /\ first \in Nat /\ selected \in Nat /\ active \in Nat /\ open \in BOOLEAN
  /\ DisabledAreSkipped

\* The numbers of the options, and which of them can be chosen.
LEMMA OptionNumbers ==
  ASSUME SelectInv
  PROVE  /\ DOMAIN options = 1..Len(options) /\ Len(options) \in Nat
         /\ DOMAIN options \subseteq Nat \ {0}
         /\ \A i : Dropdown!Enabled(i) => i \in DOMAIN options /\ i \in Nat /\ i # 0
  BY DEF SelectInv, Dropdown!Enabled

\* findEnabled finds an option that can be chosen, unless there is none ahead.
LEMMA FindsEnabled ==
  ASSUME SelectInv, NEW from \in Int, NEW step \in {-1, 1}
  PROVE  LET found == Dropdown!FindEnabled(from, step)
         IN  \/ Dropdown!Enabled(found)
             \/ /\ found = 0
                /\ \A i \in DOMAIN options : ~ (Dropdown!Enabled(i) /\ (i - from) * step >= 0)
  <1> DEFINE ahead == {i \in DOMAIN options : Dropdown!Enabled(i) /\ (i - from) * step >= 0}
  <1>1. ahead \subseteq Nat /\ \A i \in ahead : i <= Len(options)
    BY OptionNumbers
  <1>2. CASE ahead = {}
    BY <1>2 DEF Dropdown!FindEnabled
  <1>3. CASE ahead # {}
    <2> HIDE DEF ahead
    <2>1. \E i \in ahead : \A j \in ahead : (j - i) * step >= 0
      <3>1. CASE step = 1
        <4>1. PICK i \in ahead : \A j \in ahead : i <= j
          BY <1>1, <1>3, LeastNumber
        <4>2. \A j \in ahead : (j - i) * 1 >= 0
          BY <1>1, <4>1
        <4>3. QED
          BY <3>1, <4>2
      <3>2. CASE step = -1
        <4> DEFINE behind == {Len(options) - i : i \in ahead}
        <4>1. behind \in SUBSET Nat /\ behind # {}
          <5>1. Len(options) \in Nat
            BY OptionNumbers
          <5>2. ASSUME NEW i \in ahead PROVE Len(options) - i \in Nat
            BY <1>1, <5>1
          <5>3. QED
            BY <1>3, <5>2
        <4>2. PICK b \in behind : \A d \in behind : b <= d
          <5> HIDE DEF behind
          <5>1. QED
            BY <4>1, LeastNumber
        <4>3. PICK i \in ahead : b = Len(options) - i
          BY <4>2
        <4>4. \A j \in ahead : b <= Len(options) - j
          BY <4>2
        <4>5. ASSUME NEW j \in ahead PROVE (j - i) * (-1) >= 0
          <5>1. i \in Int /\ j \in Int /\ Len(options) \in Int /\ Len(options) - i <= Len(options) - j
            BY <1>1, <4>3, <4>4, OptionNumbers
          <5>2. j - i \in Int /\ j - i <= 0
            BY <5>1
          <5>3. QED
            BY <5>2
        <4>6. QED
          BY <3>2, <4>5
      <3>3. QED
        BY <3>1, <3>2
    <2>2. (CHOOSE i \in ahead : \A j \in ahead : (j - i) * step >= 0) \in ahead
      BY <2>1
    <2>3. Dropdown!FindEnabled(from, step) \in ahead
      BY <1>3, <2>2 DEF ahead, Dropdown!FindEnabled
    <2>4. QED
      BY <2>3 DEF ahead
  <1>4. QED
    BY <1>2, <1>3

\* From an end of the list there is nothing behind.
LEMMA FindsFromEnds ==
  ASSUME SelectInv, NEW found,
         found \in {Dropdown!FindEnabled(1, 1), Dropdown!FindEnabled(Len(options), -1)}
  PROVE  Dropdown!Enabled(found) \/ (found = 0 /\ \A i \in DOMAIN options : ~ Dropdown!Enabled(i))
  <1>1. /\ Len(options) \in Nat
        /\ \A i \in DOMAIN options : (i - 1) * 1 >= 0 /\ (i - Len(options)) * (-1) >= 0
    BY OptionNumbers
  <1>2. CASE found = Dropdown!FindEnabled(1, 1)
    BY <1>1, <1>2, FindsEnabled
  <1>3. CASE found = Dropdown!FindEnabled(Len(options), -1)
    BY <1>1, <1>3, FindsEnabled
  <1>4. QED
    BY <1>2, <1>3

\* Typing leads to an option that can be chosen, or nowhere.
LEMMA MatchIsEnabled ==
  ASSUME SelectInv, NEW typed
  PROVE  Dropdown!Match(typed) = 0 \/ Dropdown!Enabled(Dropdown!Match(typed))
  <1> DEFINE n == Len(options)
             from == IF active # 0 THEN active ELSE selected
             order == [k \in 1..n |-> ((from + k - 1) % n) + 1]
             hits == {k \in 1..n : Dropdown!Enabled(order[k])
                                   /\ Dropdown!StartsWith(order[k], typed)}
             match == IF hits = {} THEN 0
                      ELSE order[CHOOSE k \in hits : \A j \in hits : k <= j]
  <1>1. Dropdown!Match(typed) = match
    BY DEF Dropdown!Match
  <1>2. CASE hits # {}
    <2>1. hits \in SUBSET Nat
      BY OptionNumbers
    <2>2. \E k \in hits : \A j \in hits : k <= j
      <3> HIDE DEF hits
      <3>1. QED
        BY <1>2, <2>1, LeastNumber
    <2>3. (CHOOSE k \in hits : \A j \in hits : k <= j) \in hits
      <3> HIDE DEF hits
      <3>1. QED
        BY <2>2
    <2>4. QED
      BY <1>1, <1>2, <2>3
  <1>3. QED
    BY <1>1, <1>2

LEMMA InitSelect ==
  ASSUME MaxOptions \in Nat, Dropdown!Init
  PROVE  SelectInv
  <1>1. options \in Seq(Dropdown!Option) /\ first \in Nat
    BY DEF Dropdown!Init, Dropdown!SeqOf
  <1>2. QED
    BY <1>1 DEF Dropdown!Init, SelectInv, DisabledAreSkipped, Dropdown!DisabledAreSkipped

\* What a step must leave behind.
LEMMA SelectKept ==
  ASSUME SelectInv, options' = options, first' = first,
         selected' = first \/ Dropdown!Enabled(selected'),
         \/ open' = FALSE /\ active' = 0
         \/ open' = TRUE /\ Dropdown!Enabled(active')
         \/ open' = TRUE /\ active' = 0 /\ \A i \in DOMAIN options : ~ Dropdown!Enabled(i)
  PROVE  SelectInv'
  <1>1. selected' \in Nat /\ active' \in Nat
    BY OptionNumbers DEF SelectInv
  <1>2. DisabledAreSkipped'
    BY DEF DisabledAreSkipped, Dropdown!DisabledAreSkipped, Dropdown!Enabled
  <1>3. QED
    BY <1>1, <1>2 DEF SelectInv

\* What the handlers' helpers do is sound.
LEMMA SelectHelpers ==
  ASSUME SelectInv, Dropdown!Fixed,
         \/ Dropdown!OpenList
         \/ Dropdown!CloseList /\ UNCHANGED selected
         \/ \E i \in Nat : Dropdown!Commit(i)
         \/ UNCHANGED <<selected, open, active>>
         \/ open /\ UNCHANGED <<selected, open>> /\ Dropdown!Enabled(active')
  PROVE  SelectInv'
  <1>1. /\ options' = options /\ first' = first /\ open \in BOOLEAN
        /\ selected = first \/ Dropdown!Enabled(selected)
        /\ \/ open = FALSE /\ active = 0
           \/ open = TRUE /\ Dropdown!Enabled(active)
           \/ open = TRUE /\ active = 0 /\ \A i \in DOMAIN options : ~ Dropdown!Enabled(i)
    BY DEF Dropdown!Fixed, SelectInv, DisabledAreSkipped, Dropdown!DisabledAreSkipped
  <1>2. CASE Dropdown!OpenList
    <2>1. /\ open' = TRUE /\ selected' = selected
          /\ active' = IF Dropdown!Enabled(selected) THEN selected ELSE Dropdown!FindEnabled(1, 1)
      BY <1>2 DEF Dropdown!OpenList
    <2>2. \/ Dropdown!Enabled(active')
          \/ active' = 0 /\ \A i \in DOMAIN options : ~ Dropdown!Enabled(i)
      BY <2>1, FindsFromEnds
    <2>3. QED
      BY <1>1, <2>1, <2>2, SelectKept
  <1>3. CASE Dropdown!CloseList /\ UNCHANGED selected
    BY <1>1, <1>3, SelectKept DEF Dropdown!CloseList
  <1>4. CASE UNCHANGED <<selected, open, active>>
    BY <1>1, <1>4, SelectKept
  <1>5. ASSUME NEW i \in Nat, Dropdown!Commit(i) PROVE SelectInv'
    <2>1. CASE Dropdown!Enabled(i)
      BY <1>1, <1>5, <2>1, SelectKept DEF Dropdown!Commit, Dropdown!CloseList
    <2>2. CASE ~ Dropdown!Enabled(i)
      BY <1>4, <1>5, <2>2 DEF Dropdown!Commit
    <2>3. QED
      BY <2>1, <2>2
  <1>6. CASE open /\ UNCHANGED <<selected, open>> /\ Dropdown!Enabled(active')
    BY <1>1, <1>6, SelectKept
  <1>7. QED
    BY <1>2, <1>3, <1>4, <1>5, <1>6

LEMMA NextSelect == SelectInv /\ [Dropdown!Next]_(Dropdown!vars) => SelectInv'
  <1> SUFFICES ASSUME SelectInv, [Dropdown!Next]_(Dropdown!vars) PROVE SelectInv'
    OBVIOUS
  <1>1. /\ selected \in Nat /\ active \in Nat /\ open \in BOOLEAN /\ Len(options) \in Nat
        /\ open => \/ Dropdown!Enabled(active)
                   \/ active = 0 /\ \A i \in DOMAIN options : ~ Dropdown!Enabled(i)
    BY OptionNumbers DEF SelectInv, DisabledAreSkipped, Dropdown!DisabledAreSkipped
  <1>2. CASE UNCHANGED Dropdown!vars \/ Dropdown!SetDisabled
    BY <1>2
    DEF Dropdown!vars, Dropdown!SetDisabled, SelectInv, DisabledAreSkipped,
        Dropdown!DisabledAreSkipped, Dropdown!Enabled
  <1>3. ASSUME NEW step \in {-1, 1}, Dropdown!Arrow(step) PROVE SelectInv'
    <2>1. CASE open
      <3> DEFINE from == IF active # 0 THEN active + step
                         ELSE IF step > 0 THEN 1 ELSE Len(options)
                 next == Dropdown!FindEnabled(from, step)
      <3>1. /\ active' = IF next # 0 THEN next ELSE active
            /\ UNCHANGED <<selected, open>> /\ Dropdown!Fixed
        BY <1>3, <2>1 DEF Dropdown!Arrow, Dropdown!Key
      <3>2. from \in Int
        BY <1>1
      <3>3. Dropdown!Enabled(next) \/ next = 0
        <4> HIDE DEF from
        <4>1. QED
          BY <3>2, FindsEnabled
      <3> HIDE DEF next
      <3>4. QED
        BY <2>1, <3>1, <3>3, SelectHelpers
    <2>2. CASE ~ open
      BY <1>3, <2>2, SelectHelpers DEF Dropdown!Arrow, Dropdown!Key
    <2>3. QED
      BY <2>1, <2>2
  <1>4. CASE Dropdown!HomeOrEnd
    <2>1. /\ open /\ UNCHANGED <<selected, open>> /\ Dropdown!Fixed
          /\ active' \in {Dropdown!FindEnabled(1, 1), Dropdown!FindEnabled(Len(options), -1)}
      BY <1>4 DEF Dropdown!HomeOrEnd, Dropdown!Key
    <2>2. \/ Dropdown!Enabled(active')
          \/ active' = 0 /\ \A i \in DOMAIN options : ~ Dropdown!Enabled(i)
      BY <2>1, FindsFromEnds
    <2>3. CASE Dropdown!Enabled(active')
      BY <2>1, <2>3, SelectHelpers
    <2>4. CASE active' = 0 /\ \A i \in DOMAIN options : ~ Dropdown!Enabled(i)
      <3>1. active = 0
        BY <1>1, <2>1, <2>4 DEF Dropdown!Enabled
      <3>2. QED
        BY <2>1, <2>4, <3>1, SelectHelpers
    <2>5. QED
      BY <2>2, <2>3, <2>4
  <1>5. CASE Dropdown!Choose
    BY <1>1, <1>5, SelectHelpers DEF Dropdown!Choose, Dropdown!Key
  <1>6. CASE Dropdown!Leave \/ Dropdown!PressOutside \/ Dropdown!PressTrigger
    BY <1>6, SelectHelpers
    DEF Dropdown!Leave, Dropdown!PressOutside, Dropdown!PressTrigger, Dropdown!Key
  <1>7. ASSUME NEW letter \in Letter, NEW soon \in BOOLEAN, Dropdown!Type(letter, soon)
        PROVE  SelectInv'
    <2>1. PICK match : /\ match = 0 \/ Dropdown!Enabled(match)
                       /\ IF match = 0 THEN UNCHANGED <<selected, open, active>>
                          ELSE IF open THEN active' = match /\ UNCHANGED <<selected, open>>
                          ELSE Dropdown!Commit(match)
      BY <1>7, MatchIsEnabled DEF Dropdown!Type
    <2>2. match \in Nat
      BY <2>1, OptionNumbers
    <2>3. QED
      BY <1>7, <2>1, <2>2, SelectHelpers DEF Dropdown!Type, Dropdown!Key
  <1>8. ASSUME NEW i \in DOMAIN options, Dropdown!Hover(i) \/ Dropdown!Click(i)
        PROVE  SelectInv'
    <2>1. i \in Nat
      BY OptionNumbers
    <2>2. QED
      BY <1>8, <2>1, SelectHelpers DEF Dropdown!Hover, Dropdown!Click
  <1>9. QED
    BY <1>2, <1>3, <1>4, <1>5, <1>6, <1>7, <1>8 DEF Dropdown!Next

\* Whatever keys and presses follow one another, no disabled option is active or chosen
\* (Select), in lists of any length.
THEOREM DisabledStaySkipped ==
  ASSUME MaxOptions \in Nat PROVE Dropdown!Spec => []DisabledAreSkipped
  <1>1. SelectInv => DisabledAreSkipped
    BY DEF SelectInv
  <1>2. QED
    BY <1>1, InitSelect, NextSelect, PTL DEF Dropdown!Spec

-----------------------------------------------------------------------------
(* The HTTP client: what a request was told is what ended it *)

ToldKind == {"nothing", "value", "ApiError", "raw"}
ToldCode == {"none", "TIMEOUT", "ABORTED", "NETWORK_ERROR", "SERVER", "HTTP",
             "MALFORMED_RESPONSE"}
Told == [kind : ToldKind, code : ToldCode, status : Nat]
CallPlace == {"new", "token", "fetching", "reading", "done"}
Reason == {"timer", "caller", "connection"}
Ends == {"not", "answer"} \cup Reason
CallRecord == [pc : CallPlace, watches : BOOLEAN, limited : BOOLEAN, auth : BOOLEAN,
               armed : BOOLEAN, listening : BOOLEAN, status : Nat, ended : Ends, told : Told]

Disarmed(k) == ~ k.armed /\ ~ k.listening

\* What a request that is done was told, of which cancelled says that a caller aborted.
Truthful(k, cancelled) ==
  /\ k.told.code = "TIMEOUT" <=> k.ended = "timer"
  /\ k.told.code = "ABORTED" => k.watches /\ cancelled /\ k.ended \in {"not", "caller"}
  /\ k.told.code = "NETWORK_ERROR" <=> k.ended = "connection"
  /\ k.told.status # 0 => k.ended = "answer" /\ k.told.status = k.status
  /\ k.told.kind = "value" => k.ended = "answer" /\ Client!Ok(k.status)

SoundCall(k, cancelled) ==
  /\ k.pc # "fetching" => Disarmed(k)
  /\ k.listening => k.watches
  /\ k.pc \in {"new", "token", "fetching"} => k.ended = "not"
  /\ k.pc = "reading" => k.ended = "answer"
  /\ k.pc = "done" => Truthful(k, cancelled)

ClientInv ==
  /\ call \in [Call -> CallRecord]
  /\ \A c \in Call : SoundCall(call[c], signal)

LEMMA ToldTypes ==
  /\ Client!Untold \in Told /\ Client!Value \in Told /\ Client!RawError \in Told
  /\ \A code \in ToldCode, status \in Nat : Client!ApiError(code, status) \in Told
  BY DEF Client!Untold, Client!Value, Client!RawError, Client!ApiError, Told, ToldKind, ToldCode

LEMMA NewCall == Client!New \in CallRecord /\ \A cancelled : SoundCall(Client!New, cancelled)
  BY ToldTypes
  DEF Client!New, CallRecord, CallPlace, Ends, SoundCall, Disarmed

LEMMA CallStep ==
  ASSUME ClientInv, NEW c \in Call, NEW k \in CallRecord, SoundCall(k, signal),
         Client!Step(c, k)
  PROVE  ClientInv'
  <1>1. call' = [call EXCEPT ![c] = k] /\ signal' = signal
    BY DEF Client!Step
  <1>2. QED
    BY <1>1 DEF ClientInv

\* A request that ends is told what ended it.
LEMMA TellIsSound ==
  ASSUME NEW k \in CallRecord, NEW told \in Told, NEW cancelled, Disarmed(k),
         Truthful([k EXCEPT !.told = told], cancelled)
  PROVE  /\ Client!Tell(k, told) \in CallRecord
         /\ SoundCall(Client!Tell(k, told), cancelled)
  <1> DEFINE q == [k EXCEPT !.pc = "done", !.told = told]
             p == [k EXCEPT !.told = told]
  <1>1. "done" \in CallPlace
    BY DEF CallPlace
  <1>2. /\ q \in CallRecord /\ q.pc = "done" /\ q.told = told /\ q.ended = k.ended
        /\ q.armed = k.armed /\ q.listening = k.listening /\ q.status = k.status
        /\ q.watches = k.watches
    BY <1>1 DEF CallRecord
  <1>3. /\ p.told = told /\ p.ended = k.ended /\ p.status = k.status /\ p.watches = k.watches
    BY DEF CallRecord
  <1>4. Client!Tell(k, told) = q
    BY DEF Client!Tell
  <1> HIDE DEF q, p
  <1>5. Truthful(p, cancelled)
    BY DEF p
  <1>6. SoundCall(q, cancelled)
    BY <1>2, <1>3, <1>5 DEF SoundCall, Disarmed, Truthful
  <1>7. QED
    BY <1>2, <1>4, <1>6

\* fetch rejects: the timer and the listener are gone, and the code is the reason's.
LEMMA RejectedIsSound ==
  ASSUME NEW k \in CallRecord, k.pc = "fetching", NEW reason \in Reason, NEW cancelled,
         reason = "caller" => k.watches /\ cancelled
  PROVE  /\ Client!Rejected(k, reason) \in CallRecord
         /\ SoundCall(Client!Rejected(k, reason), cancelled)
  <1> DEFINE q == [k EXCEPT !.armed = FALSE, !.listening = FALSE, !.ended = reason]
             code == Client!CodeOf(reason = "timer", reason \in {"timer", "caller"})
             told == Client!ApiError(code, 0)
  <1>1. q = [Client!Finally(k) EXCEPT !.ended = reason]
    BY DEF Client!Finally, CallRecord
  <1>2. reason \in Ends
    BY DEF Ends
  <1>3. q \in CallRecord /\ Disarmed(q) /\ q.ended = reason /\ q.watches = k.watches
    BY <1>2 DEF CallRecord, Disarmed
  <1>4. /\ code \in ToldCode
        /\ code = "TIMEOUT" <=> reason = "timer"
        /\ code = "ABORTED" <=> reason = "caller"
        /\ code = "NETWORK_ERROR" <=> reason = "connection"
    BY DEF Client!CodeOf, ToldCode, Reason
  <1>5. Client!Rejected(k, reason) = Client!Tell(q, told)
    BY <1>1 DEF Client!Rejected
  <1> HIDE DEF q, code
  <1>6. told \in Told /\ told.code = code /\ told.status = 0 /\ told.kind = "ApiError"
    BY <1>4, ToldTypes DEF Client!ApiError
  <1> HIDE DEF told
  <1>7. Truthful([q EXCEPT !.told = told], cancelled)
    <2> DEFINE p == [q EXCEPT !.told = told]
    <2>1. p.told = told /\ p.ended = reason /\ p.watches = k.watches
      BY <1>3 DEF CallRecord
    <2> HIDE DEF p
    <2>2. Truthful(p, cancelled)
      BY <1>4, <1>6, <2>1 DEF Truthful, Reason
    <2>3. QED
      BY <2>2 DEF p
  <1>8. QED
    BY <1>3, <1>5, <1>6, <1>7, TellIsSound

LEMMA InitClient == Client!Init => ClientInv
  BY NewCall DEF Client!Init, ClientInv

LEMMA ClientSteps ==
  ASSUME ClientInv, NEW c \in Call,
         \/ \E watches, limited, auth \in BOOLEAN : Client!Request(c, watches, limited, auth)
         \/ Client!TokenFails(c) \/ Client!Send(c) \/ Client!TimeOut(c)
         \/ Client!ConnectionFails(c) \/ Client!Respond(c) \/ Client!ReadBody(c)
         \/ Client!BodyFails(c)
  PROVE  ClientInv'
  <1> DEFINE k == call[c]
  <1>1. k \in CallRecord /\ SoundCall(k, signal)
    BY DEF ClientInv
  <1>2. k.told \in Told /\ k.status \in Nat
    BY <1>1 DEF CallRecord
  <1>3. ASSUME NEW told \in Told, Disarmed(k), Client!Step(c, Client!Tell(k, told)),
               k.ended \in {"not", "answer"},
               told.code \notin {"TIMEOUT", "NETWORK_ERROR"},
               told.code = "ABORTED" => k.watches /\ signal /\ k.ended = "not",
               told.status # 0 => k.ended = "answer" /\ told.status = k.status,
               told.kind = "value" => k.ended = "answer" /\ Client!Ok(k.status)
        PROVE  ClientInv'
    <2> DEFINE p == [k EXCEPT !.told = told]
    <2>1. p.told = told /\ p.ended = k.ended /\ p.watches = k.watches /\ p.status = k.status
      BY <1>1 DEF CallRecord
    <2> HIDE DEF p
    <2>2. Truthful(p, signal)
      BY <1>3, <2>1 DEF Truthful
    <2>3. Client!Tell(k, told) \in CallRecord /\ SoundCall(Client!Tell(k, told), signal)
      BY <1>1, <1>3, <2>2, TellIsSound DEF p
    <2>4. QED
      BY <1>3, <2>3, CallStep
  <1>4. ASSUME NEW watches \in BOOLEAN, NEW limited \in BOOLEAN, NEW auth \in BOOLEAN,
               Client!Request(c, watches, limited, auth)
        PROVE  ClientInv'
    <2> DEFINE new == Client!New
               q == [new EXCEPT !.pc = "token", !.watches = watches, !.limited = limited,
                                !.auth = auth]
    <2>1. new \in CallRecord /\ "token" \in CallPlace /\ ~ new.armed /\ ~ new.listening
          /\ new.ended = "not"
      BY NewCall DEF CallPlace, Client!New
    <2> HIDE DEF new
    <2>2. q \in CallRecord /\ q.pc = "token" /\ ~ q.armed /\ ~ q.listening /\ q.ended = "not"
      BY <2>1 DEF CallRecord
    <2>3. Client!Step(c, q)
      BY <1>4 DEF Client!Request, Client!Step, new
    <2> HIDE DEF q
    <2>4. SoundCall(q, signal)
      BY <2>2 DEF SoundCall, Disarmed
    <2>5. QED
      BY <2>2, <2>3, <2>4, CallStep
  <1>5. CASE Client!TokenFails(c) \/ Client!BodyFails(c)
    <2> DEFINE told == Client!RawError
    <2>1. told \in Told /\ told.code = "none" /\ told.status = 0 /\ told.kind = "raw"
      BY ToldTypes DEF Client!RawError, Client!Untold
    <2>2. Client!Step(c, Client!Tell(k, told)) /\ Disarmed(k) /\ k.ended \in {"not", "answer"}
      BY <1>1, <1>5 DEF Client!TokenFails, Client!BodyFails, SoundCall
    <2> HIDE DEF told
    <2>3. QED
      BY <1>3, <2>1, <2>2
  <1>6. CASE Client!Send(c)
    <2>1. k.pc = "token" /\ Disarmed(k) /\ k.ended = "not"
      BY <1>1, <1>6 DEF Client!Send, SoundCall
    <2>2. CASE k.watches /\ signal
      <3> DEFINE told == Client!ApiError("ABORTED", 0)
      <3>1. told \in Told /\ told.code = "ABORTED" /\ told.status = 0 /\ told.kind = "ApiError"
        BY ToldTypes DEF Client!ApiError, ToldCode
      <3>2. Client!Step(c, Client!Tell(k, told))
        BY <1>6, <2>2 DEF Client!Send
      <3> HIDE DEF told
      <3>3. QED
        BY <1>3, <2>1, <2>2, <3>1, <3>2
    <2>3. CASE ~ (k.watches /\ signal)
      <3> DEFINE q == [k EXCEPT !.pc = "fetching", !.listening = k.watches, !.armed = k.limited]
      <3>1. k.watches \in BOOLEAN /\ k.limited \in BOOLEAN /\ "fetching" \in CallPlace
        BY <1>1 DEF CallRecord, CallPlace
      <3>2. /\ q \in CallRecord /\ q.pc = "fetching" /\ q.listening = k.watches
            /\ q.watches = k.watches /\ q.ended = k.ended
        BY <1>1, <3>1 DEF CallRecord
      <3>3. Client!Step(c, q)
        BY <1>6, <2>3 DEF Client!Send
      <3> HIDE DEF q
      <3>4. SoundCall(q, signal)
        BY <2>1, <3>2 DEF SoundCall
      <3>5. QED
        BY <3>2, <3>3, <3>4, CallStep
    <2>4. QED
      BY <2>2, <2>3
  <1>7. CASE Client!TimeOut(c) \/ Client!ConnectionFails(c)
    <2>1. PICK reason \in {"timer", "connection"} :
            k.pc = "fetching" /\ Client!Step(c, Client!Rejected(k, reason))
      BY <1>7 DEF Client!TimeOut, Client!ConnectionFails
    <2>2. reason \in Reason /\ reason # "caller"
      BY DEF Reason
    <2>3. QED
      BY <1>1, <2>1, <2>2, RejectedIsSound, CallStep
  <1>8. CASE Client!Respond(c)
    <2>1. PICK status \in {200, 204, 502} :
            Client!Step(c, [Client!Finally(k) EXCEPT !.pc = "reading", !.status = status,
                                                    !.ended = "answer"])
      BY <1>8 DEF Client!Respond
    <2> DEFINE q == [k EXCEPT !.armed = FALSE, !.listening = FALSE, !.pc = "reading",
                              !.status = status, !.ended = "answer"]
    <2>2. "reading" \in CallPlace /\ "answer" \in Ends /\ status \in Nat
      BY DEF CallPlace, Ends
    <2>3. q \in CallRecord /\ q.pc = "reading" /\ ~ q.armed /\ ~ q.listening /\ q.ended = "answer"
      BY <1>1, <2>2 DEF CallRecord
    <2>4. Client!Step(c, q)
      BY <1>1, <2>1 DEF Client!Finally, CallRecord
    <2> HIDE DEF q
    <2>5. SoundCall(q, signal)
      BY <2>3 DEF SoundCall, Disarmed
    <2>6. QED
      BY <2>3, <2>4, <2>5, CallStep
  <1>9. CASE Client!ReadBody(c)
    <2>1. PICK body \in {"none", "envelope", "coded", "text"} :
            Client!Step(c, Client!Tell(k,
              CASE body = "text" -> Client!ApiError("MALFORMED_RESPONSE", k.status)
                [] body # "text" /\ Client!Ok(k.status) -> Client!Value
                [] OTHER -> Client!ErrorOf(k.status, body)))
      BY <1>9 DEF Client!ReadBody
    <2>2. k.pc = "reading" /\ Disarmed(k) /\ k.ended = "answer"
      BY <1>1, <1>9 DEF Client!ReadBody, SoundCall
    <2>3. ASSUME NEW code \in {"MALFORMED_RESPONSE", "SERVER", "HTTP"},
                 Client!Step(c, Client!Tell(k, Client!ApiError(code, k.status)))
          PROVE  ClientInv'
      <3> DEFINE told == Client!ApiError(code, k.status)
      <3>1. told \in Told /\ told.code = code /\ told.status = k.status /\ told.kind = "ApiError"
        BY <1>2, ToldTypes DEF Client!ApiError, ToldCode
      <3>2. Client!Step(c, Client!Tell(k, told))
        BY <2>3
      <3> HIDE DEF told
      <3>3. QED
        BY <1>3, <2>2, <3>1, <3>2
    <2>4. CASE body = "text"
      BY <2>1, <2>3, <2>4
    <2>5. CASE body # "text" /\ Client!Ok(k.status)
      <3> DEFINE told == Client!Value
      <3>1. told \in Told /\ told.code = "none" /\ told.status = 0 /\ told.kind = "value"
        BY ToldTypes DEF Client!Value, Client!Untold
      <3>2. Client!Step(c, Client!Tell(k, told))
        BY <2>1, <2>5
      <3> HIDE DEF told
      <3>3. QED
        BY <1>3, <2>2, <2>5, <3>1, <3>2
    <2>6. CASE body # "text" /\ ~ Client!Ok(k.status)
      <3>1. Client!Step(c, Client!Tell(k, Client!ErrorOf(k.status, body)))
        BY <2>1, <2>6
      <3>2. QED
        BY <2>3, <3>1 DEF Client!ErrorOf
    <2>7. QED
      BY <2>4, <2>5, <2>6
  <1>10. QED
    BY <1>4, <1>5, <1>6, <1>7, <1>8, <1>9

LEMMA NextClient == ClientInv /\ [Client!Next]_(Client!vars) => ClientInv'
  <1> SUFFICES ASSUME ClientInv, [Client!Next]_(Client!vars) PROVE ClientInv'
    OBVIOUS
  <1>1. CASE UNCHANGED Client!vars \/ Client!SetAuthTokenProvider
    BY <1>1 DEF Client!vars, Client!SetAuthTokenProvider, ClientInv
  \* One signal ends every request that listens to it; what others were told stays true.
  <1>2. CASE Client!Abort
    <2>1. /\ signal' = TRUE /\ ~ signal
          /\ call' = [c \in Call |-> IF call[c].listening THEN Client!Rejected(call[c], "caller")
                                                          ELSE call[c]]
      BY <1>2 DEF Client!Abort
    <2>2. ASSUME NEW c \in Call PROVE call'[c] \in CallRecord /\ SoundCall(call'[c], TRUE)
      <3>1. call[c] \in CallRecord /\ SoundCall(call[c], signal)
        BY DEF ClientInv
      <3>2. CASE call[c].listening
        <4>1. call[c].pc = "fetching" /\ call[c].watches /\ "caller" \in Reason
          BY <3>1, <3>2 DEF SoundCall, Disarmed, Reason
        <4>2. QED
          BY <2>1, <3>1, <3>2, <4>1, RejectedIsSound
      <3>3. CASE ~ call[c].listening
        BY <2>1, <3>1, <3>3 DEF SoundCall, Truthful
      <3>4. QED
        BY <3>2, <3>3
    <2>3. call' \in [Call -> CallRecord]
      BY <2>1, <2>2
    <2>4. QED
      BY <2>1, <2>2, <2>3 DEF ClientInv
  <1>3. QED
    BY <1>1, <1>2, ClientSteps DEF Client!Next

\* An error names what ended its request (requestRaw), for any number of requests that
\* share a signal, and nothing is left armed behind it.
THEOREM ErrorsNameTheirCause == Client!Spec => []ToldTheCause
  <1>1. ClientInv => ToldTheCause
    BY DEF ClientInv, SoundCall, Truthful, Disarmed, ToldTheCause, Client!ToldTheCause
  <1>2. QED
    BY <1>1, InitClient, NextClient, PTL DEF Client!Spec

-----------------------------------------------------------------------------
(* The colour scheme: the first paint is what the provider will ask for *)

PageRecord == [pc : {"markup", "painted", "mounted"}, theme : Colours!Themes,
               systemTheme : Colours!Palettes, hydrated : BOOLEAN]

\* What the provider reads when it mounts.
Read == IF stored = "nothing" THEN "system" ELSE stored

ThemeInv ==
  /\ stored \in Colours!Themes \cup {"nothing"} /\ system \in Colours!Palettes
  /\ html \in Colours!Palettes \cup {"none"} /\ changed \in BOOLEAN
  /\ page \in PageRecord
  /\ page.hydrated <=> page.pc = "mounted"
  /\ page.pc = "markup" <=> html = "none"
  /\ page.pc = "painted" /\ ~ changed => html = Colours!Resolve(Read, system)
  /\ page.pc = "mounted" /\ ~ changed => html = Colours!Resolve(page.theme, page.systemTheme)

LEMMA ResolvesToPalette ==
  ASSUME NEW theme \in Colours!Themes, NEW os \in Colours!Palettes
  PROVE  Colours!Resolve(theme, os) \in Colours!Palettes
  BY DEF Colours!Resolve, Colours!Themes, Colours!Palettes

LEMMA InitTheme == Colours!Init => ThemeInv
  <1> SUFFICES ASSUME Colours!Init PROVE ThemeInv
    OBVIOUS
  <1>1. /\ stored \in Colours!Themes \cup {"nothing"} /\ system \in Colours!Palettes
        /\ html = "none" /\ changed = FALSE /\ page = Colours!Unread
    BY DEF Colours!Init
  <1>2. /\ Colours!Unread \in PageRecord /\ Colours!Unread.pc = "markup"
        /\ Colours!Unread.hydrated = FALSE
    BY DEF Colours!Unread, PageRecord, Colours!Themes, Colours!Palettes
  <1>3. QED
    BY <1>1, <1>2 DEF ThemeInv

LEMMA NextTheme == ThemeInv /\ [Colours!Next]_(Colours!vars) => ThemeInv'
  <1> SUFFICES ASSUME ThemeInv, [Colours!Next]_(Colours!vars) PROVE ThemeInv'
    OBVIOUS
  <1>1. /\ page \in PageRecord /\ page.theme \in Colours!Themes
        /\ page.systemTheme \in Colours!Palettes
        /\ stored \in Colours!Themes \cup {"nothing"} /\ system \in Colours!Palettes
        /\ Read \in Colours!Themes
    BY DEF ThemeInv, PageRecord, Read, Colours!Themes
  <1>2. Colours!Palettes = {"light", "dark"} /\ Colours!Themes = {"light", "dark", "system"}
    BY DEF Colours!Palettes, Colours!Themes
  <1>3. CASE UNCHANGED Colours!vars
    BY <1>3 DEF Colours!vars, ThemeInv, Read
  <1>4. CASE Colours!InitScript
    <2> DEFINE p == [page EXCEPT !.pc = "painted"]
    <2>1. /\ page' = p /\ stored' = stored /\ system' = system /\ page.pc = "markup"
          /\ html' = IF stored \in Colours!Palettes THEN stored ELSE system
          /\ changed' = FALSE
      BY <1>4 DEF Colours!InitScript
    <2>2. p \in PageRecord /\ p.pc = "painted" /\ p.hydrated = page.hydrated
      BY <1>1 DEF PageRecord
    <2> HIDE DEF p
    <2>3. html' = Colours!Resolve(Read, system) /\ html' \in Colours!Palettes /\ html' # "none"
      BY <1>1, <1>2, <2>1 DEF Colours!Resolve, Read
    <2>4. QED
      BY <1>1, <2>1, <2>2, <2>3 DEF ThemeInv, Read
  <1>5. CASE Colours!Mount
    <2> DEFINE p == [pc |-> "mounted", hydrated |-> TRUE, systemTheme |-> system, theme |-> Read]
    <2>1. page' = p /\ UNCHANGED <<stored, system, html, changed>> /\ page.pc = "painted"
      BY <1>5 DEF Colours!Mount, Read
    <2>2. /\ p \in PageRecord /\ p.pc = "mounted" /\ p.hydrated
          /\ p.theme = Read /\ p.systemTheme = system
      BY <1>1 DEF PageRecord
    <2> HIDE DEF p
    <2>3. QED
      BY <1>1, <2>1, <2>2 DEF ThemeInv
  <1>6. CASE Colours!Apply
    <2>1. /\ page.pc = "mounted" /\ page' = page /\ stored' = stored /\ system' = system
          /\ html' = Colours!Resolve(page.theme, page.systemTheme) /\ changed' = FALSE
      BY <1>6 DEF Colours!Apply, Colours!MayApply, ThemeInv
    <2>2. html' \in Colours!Palettes /\ html' # "none"
      BY <1>1, <1>2, <2>1, ResolvesToPalette
    <2>3. QED
      BY <1>1, <2>1, <2>2 DEF ThemeInv, Read
  <1>7. CASE Colours!Toggle
    <2>1. PICK next \in {"light", "dark"} :
            /\ page' = [page EXCEPT !.theme = next] /\ stored' \in {next, stored}
            /\ changed' = TRUE /\ system' = system /\ html' = html
      BY <1>7 DEF Colours!Toggle
    <2> DEFINE p == [page EXCEPT !.theme = next]
    <2>2. p \in PageRecord /\ p.pc = page.pc /\ p.hydrated = page.hydrated
      BY <1>1, <1>2 DEF PageRecord
    <2> HIDE DEF p
    <2>3. QED
      BY <1>1, <1>2, <2>1, <2>2 DEF ThemeInv, p
  <1>8. CASE Colours!SystemChanges
    <2> DEFINE p == [page EXCEPT !.systemTheme = system']
    <2>1. /\ system' \in Colours!Palettes /\ page' \in {p, page} /\ changed' = TRUE
          /\ stored' = stored /\ html' = html
      BY <1>2, <1>8 DEF Colours!SystemChanges
    <2>2. p \in PageRecord /\ p.pc = page.pc /\ p.hydrated = page.hydrated
      BY <1>1, <2>1 DEF PageRecord
    <2> HIDE DEF p
    <2>3. QED
      BY <1>1, <2>1, <2>2 DEF ThemeInv
  <1>9. CASE Colours!OtherTabStores
    BY <1>1, <1>9 DEF Colours!OtherTabStores, ThemeInv
  <1>10. CASE Colours!Reload
    BY <1>1, <1>10 DEF Colours!Reload, Colours!Unread, ThemeInv, PageRecord, Colours!Themes, Colours!Palettes
  <1>11. QED
    BY <1>3, <1>4, <1>5, <1>6, <1>7, <1>8, <1>9, <1>10 DEF Colours!Next

\* The palette of the first paint stays when React takes over, unless a preference has
\* changed since (the script of theme.ts and the provider agree), however often the page
\* is loaded.
THEOREM FirstPaintStays == Colours!Spec => NoFlash
  <1> DEFINE Stays == html' \in Colours!Palettes /\ html \in Colours!Palettes /\ html' # html
                        => changed
  <1>1. ASSUME ThemeInv, Colours!Next PROVE Stays
    <2>1. SUFFICES ASSUME html \in Colours!Palettes, html' \in Colours!Palettes, html' # html,
                          ~ changed
                   PROVE  FALSE
      BY DEF ThemeInv
    <2>2. html # "none" /\ html' # "none"
      BY <2>1 DEF Colours!Palettes
    <2>3. Colours!InitScript \/ Colours!Apply
      BY <1>1, <2>1, <2>2
      DEF Colours!Next, Colours!Mount, Colours!Toggle, Colours!SystemChanges,
          Colours!OtherTabStores, Colours!Reload
    <2>4. ~ Colours!InitScript
      BY <1>1, <2>2 DEF Colours!InitScript, ThemeInv
    <2>5. ~ Colours!Apply
      BY <1>1, <2>1 DEF Colours!Apply, Colours!MayApply, ThemeInv
    <2>6. QED
      BY <2>3, <2>4, <2>5
  <1>2. ThemeInv /\ [Colours!Next]_(Colours!vars) => [Stays]_(Colours!vars)
    BY <1>1
  <1>3. QED
    BY <1>2, InitTheme, NextTheme, PTL DEF Colours!Spec, NoFlash, Colours!NoFlash

-----------------------------------------------------------------------------
(* Lists *)

\* A page has at least one row.
PagesHoldRows ==
  /\ MaxRows \in Nat /\ MaxKey \in Nat
  /\ DefaultLimit \in Nat \ {0} /\ MaxLimit \in Nat \ {0}

LEMMA PageOfOffset ==
  ASSUME NEW p \in Nat, NEW limit \in Nat \ {0}
  PROVE  (p * limit) \div limit = p
  OBVIOUS

LEMMA PagesCover ==
  ASSUME NEW p \in Nat, NEW total \in Nat, NEW limit \in Nat \ {0},
         ~ (p < Pages!Pages(total, limit))
  PROVE  total <= p * limit
  BY DEF Pages!Pages

KindKnown(e) ==
  /\ e.order \in {"newest", "oldest", "score", "address"}
  /\ e.cursor \in BOOLEAN /\ e.ties \in BOOLEAN /\ e.offset \in BOOLEAN
  /\ e.cursor => e.order \in {"oldest", "address"} /\ ~e.ties
  /\ ~e.cursor => e.order # "address"
  /\ e.refusals \subseteq Nat

LEMMA KindsOfLists == \A e \in Pages!Endpoints : KindKnown(e)
  <1>1. KindKnown(Pages!CommunityList)
    BY DEF KindKnown, Pages!CommunityList, Pages!List
  <1>2. KindKnown(Pages!CommunitySearch)
    BY DEF KindKnown, Pages!CommunitySearch, Pages!List
  <1>3. KindKnown(Pages!MemberList)
    BY DEF KindKnown, Pages!MemberList, Pages!List
  <1>4. KindKnown(Pages!TokenList)
    BY DEF KindKnown, Pages!TokenList, Pages!List
  <1>5. KindKnown(Pages!TransactionHistory)
    BY DEF KindKnown, Pages!TransactionHistory, Pages!List
  <1>6. KindKnown(Pages!LoanList)
    BY DEF KindKnown, Pages!LoanList, Pages!List
  <1>7. KindKnown(Pages!LoanEvents)
    BY DEF KindKnown, Pages!LoanEvents, Pages!List
  <1>8. KindKnown(Pages!BalanceHistory)
    BY DEF KindKnown, Pages!BalanceHistory, Pages!List
  <1>9. KindKnown(Pages!LoansOfAddress)
    BY DEF KindKnown, Pages!LoansOfAddress, Pages!List
  <1>10. KindKnown(Pages!LoansOfCommunity)
    BY DEF KindKnown, Pages!LoansOfCommunity, Pages!List
  <1>11. KindKnown(Pages!Leaderboard)
    BY DEF KindKnown, Pages!Leaderboard, Pages!List
  <1>12. KindKnown(Pages!AccountOffers)
    BY DEF KindKnown, Pages!AccountOffers, Pages!List
  <1>13. KindKnown(Pages!AssetHolders)
    BY DEF KindKnown, Pages!AssetHolders, Pages!AccountOffers, Pages!List
  <1>14. QED
    BY Zenon, <1>1, <1>2, <1>3, <1>4, <1>5, <1>6, <1>7, <1>8, <1>9, <1>10, <1>11, <1>12, <1>13 DEF Pages!Endpoints

\* Row m comes before row n; the rows before n.
Before(e, k, m, n) == IF e.order \in {"oldest", "address"} THEN k[m] < k[n] ELSE k[m] > k[n]
Ahead(e, k, rows, n) == {m \in rows : Before(e, k, m, n)}
Rank(e, k, rows, n) == Cardinality(Ahead(e, k, rows, n))

LEMMA PagesCardinality == ASSUME NEW S PROVE Pages!Cardinality(S) = Cardinality(S)
  BY DEF Pages!Cardinality, Cardinality

\* Rows with different keys have one order, in which each has its rank.
LEMMA OrderIsSorted ==
  ASSUME NEW rows, IsFiniteSet(rows), NEW s \in Pages!Orders(rows),
         \A n \in rows : key[n] \in Nat,
         \A m, n \in rows : key[m] = key[n] => m = n
  PROVE  /\ Cardinality(rows) \in Nat /\ s \in [1..Cardinality(rows) -> rows]
         /\ \A n \in rows : \E i \in 1..Cardinality(rows) : s[i] = n
         /\ \A i, j \in 1..Cardinality(rows) : i < j => Before(endpoint, key, s[i], s[j])
         /\ \A i \in 1..Cardinality(rows) : Rank(endpoint, key, rows, s[i]) = i - 1
  <1> DEFINE size == Cardinality(rows)
  <1>1. size \in Nat
    BY FS_CardinalityType
  <1>2. /\ s \in [1..size -> rows]
        /\ \A i, j \in 1..size : i # j => s[i] # s[j]
        /\ \A i, j \in 1..size : i < j => ~ Pages!Precedes(s[j], s[i])
    <2>1. s \in Pages!SetToSeqs(rows) /\ \A i, j \in DOMAIN s : i < j => ~ Pages!Precedes(s[j], s[i])
      BY DEF Pages!Orders
    <2>2. s \in [1..size -> rows] /\ \A i, j \in 1..size : i # j => s[i] # s[j]
      BY <2>1, PagesCardinality DEF Pages!SetToSeqs
    <2>3. QED
      BY <2>1, <2>2
  <1> HIDE DEF size
  <1>3. ASSUME NEW i \in 1..size, NEW j \in 1..size, i < j
        PROVE  Before(endpoint, key, s[i], s[j]) /\ ~ Before(endpoint, key, s[j], s[i])
    <2>1. s[i] \in rows /\ s[j] \in rows /\ s[i] # s[j] /\ ~ Pages!Precedes(s[j], s[i])
      BY <1>1, <1>2, <1>3
    <2>2. key[s[i]] \in Nat /\ key[s[j]] \in Nat /\ key[s[i]] # key[s[j]]
      BY <2>1
    <2>3. QED
      BY <2>1, <2>2 DEF Before, Pages!Precedes
  <1>4. \A n \in rows : \E i \in 1..size : s[i] = n
    <2>1. IsFiniteSet(1..size) /\ Cardinality(1..size) = size
      <3>1. /\ IsFiniteSet(1..size)
            /\ Cardinality(1..size) = IF 1 > size THEN 0 ELSE size - 1 + 1
        BY <1>1, FS_Interval
      <3>2. QED
        BY <1>1, <3>1
    <2>2. s \in Injection(1..size, rows)
      BY <1>2 DEF Injection, IsInjective
    <2>3. s \in Surjection(1..size, rows)
      BY <2>1, <2>2, FS_Injection DEF size
    <2>4. QED
      BY <2>3 DEF Surjection
  <1>5. ASSUME NEW i \in 1..size PROVE Rank(endpoint, key, rows, s[i]) = i - 1
    <2> DEFINE ahead == Ahead(endpoint, key, rows, s[i])
               f == [j \in 1..(i - 1) |-> s[j]]
    <2>1. i - 1 \in Nat /\ \A j \in 1..(i - 1) : j \in 1..size /\ j < i
      BY <1>1, <1>5
    <2>2. \A j \in 1..(i - 1) : f[j] \in ahead
      BY <1>2, <1>3, <2>1 DEF Ahead
    <2>3. \A j, h \in 1..(i - 1) : f[j] = f[h] => j = h
      BY <1>2, <2>1
    <2>4. \A m \in ahead : \E j \in 1..(i - 1) : f[j] = m
      <3>1. SUFFICES ASSUME NEW m \in ahead PROVE \E j \in 1..(i - 1) : f[j] = m
        OBVIOUS
      <3>2. PICK j \in 1..size : s[j] = m
        BY <1>4, <3>1 DEF Ahead
      <3>3. j # i
        BY <1>2, <1>5, <3>1, <3>2 DEF Ahead, Before
      <3>4. ~ (i < j)
        BY <1>3, <1>5, <3>1, <3>2 DEF Ahead
      <3>5. j \in 1..(i - 1)
        BY <1>1, <1>5, <3>2, <3>3, <3>4
      <3>6. QED
        BY <3>2, <3>5
    <2> HIDE DEF ahead
    <2>5. f \in [1..(i - 1) -> ahead]
      BY <2>2
    <2> HIDE DEF f
    <2>6. f \in Bijection(1..(i - 1), ahead)
      BY <2>3, <2>4, <2>5 DEF Bijection, Injection, IsInjective, Surjection
    <2>7. QED
      BY <2>1, <2>6, FS_CountingElements DEF ExistsBijection, Rank, ahead
  <1>6. QED
    BY <1>1, <1>2, <1>3, <1>4, <1>5 DEF size

\* LIMIT and OFFSET cut a page out of what is there.
CutOut(leaf, s, size, cut, S) ==
  \E count \in Nat :
     /\ leaf \in Seq(S) /\ Len(leaf) = count
     /\ \A i \in 1..count : cut.offset + i \in 1..size /\ leaf[i] = s[cut.offset + i]
     /\ \A j \in 1..size : cut.offset < j /\ j <= cut.offset + cut.limit =>
           j - cut.offset \in 1..count
     /\ count <= cut.limit

LEMMA PageIsCutOut ==
  ASSUME NEW S, NEW size \in Nat, NEW s \in [1..size -> S],
         NEW cut, cut.offset \in Nat, cut.limit \in Nat \ {0}
  PROVE  CutOut(Pages!PageOf(s, cut), s, size, cut, S)
  <1> DEFINE from == cut.offset
             to == cut.offset + cut.limit
             end == Pages!Min({to, Len(s)})
  <1>1. Len(s) = size /\ from \in Nat /\ to \in Nat /\ to > from
    OBVIOUS
  <1>2. end = IF to <= size THEN to ELSE size
    <2>1. \E x \in {to, size} : \A y \in {to, size} : x <= y
      BY <1>1
    <2>2. end \in {to, size} /\ \A y \in {to, size} : end <= y
      BY <1>1, <2>1 DEF Pages!Min
    <2>3. QED
      BY <1>1, <2>2
  <1>3. Pages!PageOf(s, cut) = SubSeq(s, from + 1, end)
    BY DEF Pages!PageOf
  <1> DEFINE count == IF from < end THEN end - from ELSE 0
  <1> HIDE DEF end
  <1>4. /\ from + 1 \in Int /\ end \in Int /\ end <= size
        /\ \A i \in (from + 1)..end : i \in 1..size
    BY <1>1, <1>2
  <1>5. \A i \in (from + 1)..end : s[i] \in S
    BY <1>4
  <1> DEFINE sheet == Pages!PageOf(s, cut)
  <1>6. \E m \in Int : m = from + 1
    BY <1>4
  <1>7. PICK m \in Int : m = from + 1
    BY <1>6
  <1>8. /\ sheet \in Seq(S)
        /\ Len(sheet) = IF m <= end THEN end - m + 1 ELSE 0
        /\ \A i \in 1..(end - m + 1) : sheet[i] = s[m + i - 1]
    <2>1. \A i \in m..end : s[i] \in S
      BY <1>5, <1>7
    <2>2. sheet = SubSeq(s, m, end)
      BY <1>3, <1>7
    <2>3. /\ SubSeq(s, m, end) \in Seq(S)
          /\ Len(SubSeq(s, m, end)) = IF m <= end THEN end - m + 1 ELSE 0
          /\ \A i \in 1..(end - m + 1) : SubSeq(s, m, end)[i] = s[m + i - 1]
      <3>1. end \in Int
        BY <1>4
      <3>2. QED
        BY <2>1, <3>1, SubSeqProperties
    <2> HIDE DEF sheet
    <2>4. QED
      BY <2>2, <2>3
  <1> HIDE DEF sheet
  <1>9. /\ count \in Nat /\ Len(sheet) = count /\ sheet \in Seq(S)
        /\ \A i \in 1..count : from + i \in 1..size /\ sheet[i] = s[from + i]
    <2>1. count \in Nat /\ Len(sheet) = count /\ sheet \in Seq(S)
      BY <1>1, <1>4, <1>7, <1>8
    <2>2. ASSUME NEW i \in 1..count PROVE from + i \in 1..size /\ sheet[i] = s[from + i]
      <3>1. i \in Int /\ 1 <= i /\ i <= count /\ count = end - from
        BY <1>1, <1>4, <2>1
      <3>2. i \in 1..(end - m + 1) /\ m + i - 1 = from + i /\ from + i \in (from + 1)..end
        BY <1>1, <1>4, <1>7, <3>1
      <3>3. QED
        BY <1>4, <1>8, <3>2
    <2>3. QED
      BY <2>1, <2>2
  <1>10. /\ \A j \in 1..size : from < j /\ j <= to => j - from \in 1..count
         /\ count <= cut.limit
         /\ count < cut.limit => size <= from + count
    BY <1>1, <1>2, <1>4
  <1> HIDE DEF count
  <1>11. /\ count \in Nat
         /\ Pages!PageOf(s, cut) \in Seq(S) /\ Len(Pages!PageOf(s, cut)) = count
         /\ \A i \in 1..count : /\ cut.offset + i \in 1..size
                                /\ Pages!PageOf(s, cut)[i] = s[cut.offset + i]
    BY Zenon, <1>9 DEF sheet, from
  <1>12. QED
    BY Zenon, <1>10, <1>11 DEF CutOut, from

\* The types of a walk.
Moment == {"new", "counted", "turned", "done", "refused"}
Question == [page : Nat, limit : Nat, byOffset : BOOLEAN, offset : Nat]
Rows == Seq(Nat)
WalkRecord == [pc : Moment, asked : Question, total : Nat, shown : Rows, status : Nat]
HistoryRecord == [stayed : SUBSET Nat,
                  happened : SUBSET {"moved", "ties", "inserted", "slippedIn"}]

Seen(s) == {s[i] : i \in DOMAIN s}
InOrder(e, k, s) == \A i, j \in DOMAIN s : i < j => Before(e, k, s[i], s[j])

\* Nothing has happened that may hide a row from the reader.
Calm(e, happened) ==
  /\ happened \cap {"moved", "ties"} = {}
  /\ ~ ("slippedIn" \in happened /\ e.order = "newest")

\* The offset is where the page begins.
PageNo(asked) == IF asked.page = 0 THEN 1 ELSE asked.page
InPlace(asked) == asked.offset = (PageNo(asked) - 1) * Pages!ParsedLimit(asked.limit)

\* A walk by page numbers: whatever stayed and comes before the next page has been seen; what
\* stayed was counted; and where nothing happened, what was seen comes before what was not.
ByNumber(e, k, rows, w, h) ==
  /\ w.pc \in {"counted", "turned"} =>
       /\ InPlace(w.asked)
       /\ Calm(e, h.happened) =>
            \A n \in h.stayed : Rank(e, k, rows, n) < w.asked.offset => n \in Seen(w.shown)
       /\ h.happened = {} =>
            /\ InOrder(e, k, w.shown)
            /\ \A m \in Seen(w.shown), n \in rows :
                  Rank(e, k, rows, n) >= w.asked.offset => Before(e, k, m, n)
  /\ w.pc = "counted" /\ Calm(e, h.happened) =>
       \A n \in h.stayed : Rank(e, k, rows, n) < w.total
  /\ w.pc = "done" => /\ Calm(e, h.happened) => h.stayed \subseteq Seen(w.shown)
                      /\ h.happened = {} => InOrder(e, k, w.shown)

\* A walk by the last row: what stayed has been seen or comes after it.
ByCursor(e, k, upto, w, h) ==
  /\ w.pc # "counted"
  /\ Seen(w.shown) \subseteq 1..upto
  /\ InOrder(e, k, w.shown)
  /\ w.pc = "turned" =>
       \A n \in h.stayed : \/ n \in Seen(w.shown)
                           \/ w.shown = << >>
                           \/ Before(e, k, w.shown[Len(w.shown)], n)
  /\ w.pc = "done" => h.stayed \subseteq Seen(w.shown)

\* Later rows of a list by age have later keys; lists read by cursor have no ties.
KeysInOrder(e, k, upto) ==
  /\ e.order = "oldest" => \A m, n \in 1..upto : m <= n => k[m] <= k[n]
  /\ e.cursor => \A m, n \in 1..upto : k[m] = k[n] => m = n

ListTypes ==
  /\ endpoint \in Pages!Endpoints
  /\ inserted \in 0..MaxRows
  /\ key \in [1..MaxRows -> Nat]
  /\ there \in SUBSET (1..inserted)
  /\ walk \in WalkRecord
  /\ history \in HistoryRecord /\ history.stayed \subseteq there

ListInv ==
  /\ ListTypes
  /\ KeysInOrder(endpoint, key, inserted)
  /\ walk.pc = "new" => walk.shown = << >>
  /\ endpoint.cursor => ByCursor(endpoint, key, inserted, walk, history)
  /\ ~endpoint.cursor => ByNumber(endpoint, key, there, walk, history)

-----------------------------------------------------------------------------
(* Lists: what others do to the rows *)

\* Rows are finite in number, and the more there are, the more come first.
LEMMA RanksGrow ==
  ASSUME PagesHoldRows, NEW e, NEW k, NEW j, NEW rows, NEW more, NEW n,
         more \subseteq 1..MaxRows, rows \subseteq more,
         \A m \in rows : k[m] = j[m], k[n] = j[n]
  PROVE  /\ Rank(e, k, rows, n) \in Nat /\ Rank(e, j, more, n) \in Nat
         /\ Rank(e, k, rows, n) <= Rank(e, j, more, n)
  <1>1. IsFiniteSet(more)
    <2>1. IsFiniteSet(1..MaxRows)
      BY FS_Interval DEF PagesHoldRows
    <2>2. QED
      BY <2>1, FS_Subset
  <1>2. Ahead(e, k, rows, n) \subseteq Ahead(e, j, more, n) /\ Ahead(e, j, more, n) \subseteq more
    BY DEF Ahead, Before
  <1>3. IsFiniteSet(Ahead(e, k, rows, n)) /\ IsFiniteSet(Ahead(e, j, more, n))
    BY <1>1, <1>2, FS_Subset
  <1>4. QED
    BY <1>2, <1>3, FS_Subset, FS_CardinalityType DEF Rank

LEMMA KeyOfNewRow ==
  ASSUME PagesHoldRows, ListInv, NEW x \in Pages!NewKeys
  PROVE  /\ x \in Nat
         /\ endpoint.order = "oldest" => \A n \in 1..inserted : key[n] <= x
         /\ endpoint.cursor => \A n \in 1..inserted : key[n] # x
  <1> DEFINE last == IF inserted = 0 THEN 0 ELSE key[inserted]
  <1>1. /\ MaxRows \in Nat /\ MaxKey \in Nat /\ inserted \in Nat /\ inserted <= MaxRows
        /\ key \in [1..MaxRows -> Nat] /\ last \in Nat
        /\ KindKnown(endpoint)
    BY KindsOfLists DEF PagesHoldRows, ListInv, ListTypes
  <1>2. Pages!NewKeys =
          CASE endpoint.order = "score" -> 1..MaxKey
            [] endpoint.order = "address" -> (1..MaxRows) \ {key[n] : n \in 1..inserted}
            [] endpoint.order \in {"newest", "oldest"} /\ endpoint.ties /\ inserted > 0 -> {last, last + 1}
            [] OTHER -> {last + 1}
    BY Zenon DEF Pages!NewKeys
  <1> HIDE DEF last
  <1>3. CASE endpoint.order = "score"
    <2>1. Pages!NewKeys = 1..MaxKey
      BY <1>2, <1>3
    <2>2. QED
      BY <1>1, <1>3, <2>1 DEF KindKnown
  <1>4. CASE endpoint.order = "address"
    <2>1. Pages!NewKeys = (1..MaxRows) \ {key[n] : n \in 1..inserted}
      BY <1>2, <1>4
    <2>2. QED
      BY <1>1, <1>4, <2>1
  <1>5. CASE endpoint.order \in {"newest", "oldest"}
    <2>1. /\ Pages!NewKeys \in {{last, last + 1}, {last + 1}}
          /\ ~endpoint.ties => Pages!NewKeys = {last + 1}
      BY <1>2, <1>5
    <2>2. x \in Nat /\ x >= last /\ (~endpoint.ties => x = last + 1)
      BY <1>1, <2>1
    <2>3. endpoint.order = "oldest" => \A n \in 1..inserted : key[n] <= last /\ key[n] \in Nat
      BY <1>1 DEF last, ListInv, KeysInOrder
    <2>4. QED
      BY <1>1, <1>5, <2>2, <2>3 DEF KindKnown
  <1>6. QED
    BY <1>1, <1>3, <1>4, <1>5 DEF KindKnown

LEMMA InsertStep ==
  ASSUME PagesHoldRows, ListInv, Pages!Insert
  PROVE  ListInv'
  <1> DEFINE new == inserted + 1
  <1>1. /\ endpoint \in Pages!Endpoints /\ KindKnown(endpoint)
        /\ MaxRows \in Nat /\ inserted \in Nat /\ inserted < MaxRows
        /\ key \in [1..MaxRows -> Nat] /\ there \subseteq 1..inserted
        /\ history \in HistoryRecord /\ history.stayed \subseteq there
    BY KindsOfLists DEF PagesHoldRows, ListInv, ListTypes, Pages!Insert
  <1>2. PICK x \in Pages!NewKeys : key' = [key EXCEPT ![new] = x]
    BY DEF Pages!Insert
  <1>3. /\ x \in Nat
        /\ endpoint.order = "oldest" => \A n \in 1..inserted : key[n] <= x
        /\ endpoint.cursor => \A n \in 1..inserted : key[n] # x
    BY KeyOfNewRow
  <1>4. /\ inserted' = new /\ there' = there \cup {new} /\ UNCHANGED <<endpoint, walk>>
        /\ walk.pc \notin {"done", "refused"}
    BY DEF Pages!Insert, Pages!Note
  <1>5. /\ key' \in [1..MaxRows -> Nat] /\ key'[new] = x /\ new \in 1..MaxRows
        /\ \A n \in 1..inserted : key'[n] = key[n] /\ n # new
    BY <1>1, <1>2, <1>3
  <1> DEFINE what == IF endpoint.order = "score" THEN {"moved"}
                     ELSE {"inserted"} \cup (IF walk.pc = "counted" THEN {"slippedIn"} ELSE {})
  <1>6. history' = [stayed |-> history.stayed \cap there',
                    happened |-> IF Pages!Reading THEN history.happened \cup what ELSE history.happened]
    <2>1. Pages!Note(there', what)
      BY Zenon DEF Pages!Insert
    <2> HIDE DEF what
    <2>2. QED
      BY <2>1 DEF Pages!Note
  <1>7. /\ endpoint.order = "score" => what = {"moved"}
        /\ endpoint.order # "score" /\ walk.pc = "counted" => what = {"inserted", "slippedIn"}
        /\ endpoint.order # "score" /\ walk.pc # "counted" => what = {"inserted"}
    OBVIOUS
  <1> HIDE DEF what
  <1>8. /\ history'.stayed = history.stayed
        /\ history'.happened = IF Pages!Reading THEN history.happened \cup what ELSE history.happened
        /\ history' \in HistoryRecord
    BY <1>1, <1>4, <1>6, <1>7 DEF HistoryRecord
  <1>9. ListTypes'
    BY <1>1, <1>4, <1>5, <1>8 DEF ListInv, ListTypes
  <1>10. KeysInOrder(endpoint', key', inserted')
    <2>1. ASSUME endpoint.order = "oldest", NEW m \in 1..new, NEW n \in 1..new, m <= n
          PROVE  key'[m] <= key'[n]
      <3>1. \A i, j \in 1..inserted : i <= j => key[i] <= key[j]
        BY <2>1 DEF ListInv, KeysInOrder
      <3>2. \A i \in 1..new : i = new \/ i \in 1..inserted
        BY <1>1
      <3>3. key'[new] = x /\ \A i \in 1..inserted : key'[i] = key[i] /\ key[i] <= x
        BY <1>3, <1>5, <2>1
      <3>4. CASE m \in 1..inserted /\ n \in 1..inserted
        BY <2>1, <3>1, <3>3, <3>4
      <3>5. CASE n = new
        BY <1>3, <3>2, <3>3, <3>5
      <3>6. CASE n # new /\ m = new
        BY <1>1, <2>1, <3>6
      <3>7. QED
        BY <3>2, <3>4, <3>5, <3>6
    <2>2. ASSUME endpoint.cursor, NEW m \in 1..new, NEW n \in 1..new, key'[m] = key'[n]
          PROVE  m = n
      <3>1. \A i, j \in 1..inserted : key[i] = key[j] => i = j
        BY <2>2 DEF ListInv, KeysInOrder
      <3>2. \A i \in 1..new : i = new \/ i \in 1..inserted
        BY <1>1
      <3>3. \A i \in 1..inserted : key'[i] # x
        BY <1>3, <1>5, <2>2
      <3>4. CASE m \in 1..inserted /\ n \in 1..inserted
        BY <1>5, <2>2, <3>1, <3>4
      <3>5. QED
        BY <1>5, <2>2, <3>2, <3>3, <3>4
    <2>3. QED
      BY <1>4, <2>1, <2>2 DEF KeysInOrder
  <1>11. CASE endpoint.cursor
    <2>1. ByCursor(endpoint, key, inserted, walk, history)
      BY <1>11 DEF ListInv
    <2>2. InOrder(endpoint, key', walk.shown)
      BY <1>5, <2>1 DEF ByCursor, InOrder, Before, Seen
    <2>3. ASSUME walk.pc = "turned", NEW n \in history.stayed,
                 ~ (n \in Seen(walk.shown)), ~ (walk.shown = << >>)
          PROVE  Before(endpoint, key', walk.shown[Len(walk.shown)], n)
      <3>1. walk.shown \in Seq(Nat) /\ Len(walk.shown) \in DOMAIN walk.shown
        BY <2>3 DEF ListInv, ListTypes, WalkRecord, Rows
      <3>2. walk.shown[Len(walk.shown)] \in 1..inserted /\ n \in 1..inserted
        BY <1>1, <2>1, <3>1 DEF ByCursor, Seen
      <3>3. QED
        BY <1>5, <2>1, <2>3, <3>2 DEF ByCursor, Before
    <2>4. ByCursor(endpoint, key', new, walk, history')
      BY <1>1, <1>4, <1>8, <2>1, <2>2, <2>3 DEF ByCursor
    <2>5. QED
      BY <1>4, <1>9, <1>10, <1>11, <2>4 DEF ListInv
  <1>12. CASE ~endpoint.cursor
    <2>1. ByNumber(endpoint, key, there, walk, history)
      BY <1>12 DEF ListInv
    <2>5. \A n \in 1..inserted : n \in 1..MaxRows
      BY <1>1
    <2>6. /\ there' \subseteq 1..MaxRows /\ there \subseteq there'
          /\ \A m \in there : key[m] = key'[m]
      BY <1>1, <1>4, <1>5, <2>5
    <2>2. CASE Pages!Reading
      <3>1. history'.happened # {} /\ history'.happened = history.happened \cup what
        BY <1>7, <1>8, <2>2 DEF KindKnown
      <3>2. \A n \in history.stayed :
               Rank(endpoint, key, there, n) <= Rank(endpoint, key', there', n)
        <4>1. SUFFICES ASSUME NEW n \in history.stayed
                       PROVE  Rank(endpoint, key, there, n) <= Rank(endpoint, key', there', n)
          OBVIOUS
        <4>2. key[n] = key'[n]
          BY <1>1, <1>5
        <4>3. QED
          BY <2>6, <4>2, RanksGrow
      <3>3. \A n \in history.stayed : /\ Rank(endpoint, key, there, n) \in Nat
                                      /\ Rank(endpoint, key', there', n) \in Nat
        <4>1. SUFFICES ASSUME NEW n \in history.stayed
                       PROVE  /\ Rank(endpoint, key, there, n) \in Nat
                              /\ Rank(endpoint, key', there', n) \in Nat
          OBVIOUS
        <4>2. key[n] = key'[n]
          BY <1>1, <1>5
        <4>3. QED
          BY <2>6, <4>2, RanksGrow
      <3>4. ASSUME Calm(endpoint, history'.happened)
            PROVE  /\ Calm(endpoint, history.happened)
                   /\ walk.pc = "counted" => endpoint.order = "oldest"
        BY <1>1, <1>7, <1>12, <3>1, <3>4 DEF Calm, KindKnown
      <3>5. ASSUME endpoint.order = "oldest", NEW n \in history.stayed
            PROVE  Rank(endpoint, key', there', n) = Rank(endpoint, key, there, n)
        <4>1. ~ Before(endpoint, key', new, n)
          <5>1. n \in 1..inserted /\ n \in 1..MaxRows
            BY <1>1, <2>5
          <5>2. key'[new] = x /\ key'[n] = key[n] /\ key[n] <= x /\ x \in Nat /\ key[n] \in Nat
            BY <1>1, <1>3, <1>5, <3>5, <5>1
          <5>3. QED
            BY <3>5, <5>2 DEF Before
        <4>2. Ahead(endpoint, key', there', n) = Ahead(endpoint, key, there, n)
          <5>1. \A m \in there : Before(endpoint, key', m, n) <=> Before(endpoint, key, m, n)
            BY <1>1, <1>5 DEF Before
          <5>2. QED
            BY <1>4, <4>1, <5>1 DEF Ahead
        <4>3. QED
          BY <4>2 DEF Rank
      <3>6. walk.asked.offset \in Nat
        BY DEF ListInv, ListTypes, WalkRecord, Question
      <3>7. walk.pc \in {"counted", "turned"}
        BY <2>2 DEF Pages!Reading
      <3>8. ASSUME Calm(endpoint, history'.happened), NEW n \in history.stayed,
                   Rank(endpoint, key', there', n) < walk.asked.offset
            PROVE  n \in Seen(walk.shown)
        <4>1. Rank(endpoint, key, there, n) < walk.asked.offset
          BY <3>2, <3>3, <3>6, <3>8
        <4>2. QED
          BY <2>1, <3>4, <3>7, <3>8, <4>1 DEF ByNumber
      <3>9. ASSUME Calm(endpoint, history'.happened), walk.pc = "counted", NEW n \in history.stayed
            PROVE  Rank(endpoint, key', there', n) < walk.total
        BY <2>1, <3>4, <3>5, <3>9 DEF ByNumber
      <3>10. ByNumber(endpoint, key', there', walk, history')
        BY <1>8, <2>1, <3>1, <3>7, <3>8, <3>9 DEF ByNumber
      <3>11. QED
        BY <1>4, <1>9, <1>10, <1>12, <3>10 DEF ListInv
    <2>3. CASE ~Pages!Reading
      <3>1. walk.pc \notin {"counted", "turned", "done"}
        BY <1>4, <2>3 DEF Pages!Reading
      <3>2. ByNumber(endpoint, key', there', walk, history')
        BY <3>1 DEF ByNumber
      <3>3. QED
        BY <1>4, <1>9, <1>10, <1>12, <3>2 DEF ListInv
    <2>4. QED
      BY <2>2, <2>3
  <1>13. QED
    BY <1>11, <1>12

\* Where something has moved, nothing is claimed any more.
LEMMA MovedIsNotCalm ==
  ASSUME NEW h, "moved" \in h PROVE ~ Calm(endpoint, h) /\ h # {}
  BY DEF Calm

LEMMA LeaveOrReturnStep ==
  ASSUME PagesHoldRows, ListInv, NEW n \in 1..inserted, Pages!LeaveOrReturn(n)
  PROVE  ListInv'
  <1>1. /\ there \subseteq 1..inserted /\ n \in 1..inserted
        /\ walk \in WalkRecord
        /\ history \in HistoryRecord /\ history.stayed \subseteq there
    BY DEF ListInv, ListTypes
  <1>2. /\ there' \in {there \ {n}, there \cup {n}}
        /\ UNCHANGED <<endpoint, key, inserted, walk>>
        /\ walk.pc \notin {"done", "refused"}
        /\ history' = [stayed |-> history.stayed \cap there',
                       happened |-> IF Pages!Reading THEN history.happened \cup {"moved"}
                                    ELSE history.happened]
    BY DEF Pages!LeaveOrReturn, Pages!Note
  <1>3. /\ history'.stayed = history.stayed \cap there'
        /\ Pages!Reading => "moved" \in history'.happened
        /\ history' \in HistoryRecord
    BY <1>1, <1>2 DEF HistoryRecord
  <1>4. there' \subseteq 1..inserted
    BY <1>1, <1>2
  <1>5. ListTypes'
    BY <1>2, <1>3, <1>4 DEF ListInv, ListTypes
  <1>6. endpoint.cursor => ByCursor(endpoint, key, inserted, walk, history')
    BY <1>2, <1>3 DEF ListInv, ByCursor
  <1>7. ASSUME ~endpoint.cursor PROVE ByNumber(endpoint, key, there', walk, history')
    <2>1. Pages!Reading => ~ Calm(endpoint, history'.happened) /\ history'.happened # {}
      BY <1>3, MovedIsNotCalm
    <2>2. walk.pc \in {"counted", "turned"} <=> Pages!Reading
      BY DEF Pages!Reading
    <2>3. walk.pc \in {"counted", "turned"} => InPlace(walk.asked)
      BY <1>7 DEF ListInv, ByNumber
    <2>4. QED
      BY <1>2, <2>1, <2>2, <2>3 DEF ByNumber
  <1>8. QED
    BY <1>2, <1>5, <1>6, <1>7 DEF ListInv

LEMMA RescoreStep ==
  ASSUME PagesHoldRows, ListInv, NEW n \in 1..inserted, Pages!Rescore(n)
  PROVE  ListInv'
  <1>1. /\ endpoint.order = "score" /\ KindKnown(endpoint)
        /\ MaxRows \in Nat /\ inserted \in 0..MaxRows /\ MaxKey \in Nat
        /\ key \in [1..MaxRows -> Nat]
        /\ history \in HistoryRecord /\ history.stayed \subseteq there
    BY KindsOfLists DEF ListInv, ListTypes, Pages!Rescore, PagesHoldRows
  <1>2. /\ \E k \in 1..MaxKey : key' = [key EXCEPT ![n] = k]
        /\ UNCHANGED <<endpoint, there, inserted, walk>>
        /\ walk.pc \notin {"done", "refused"}
        /\ history' = [stayed |-> history.stayed \cap there,
                       happened |-> IF Pages!Reading THEN history.happened \cup {"moved"}
                                    ELSE history.happened]
    BY DEF Pages!Rescore, Pages!Note
  <1>3. /\ history'.stayed = history.stayed
        /\ Pages!Reading => "moved" \in history'.happened
        /\ history' \in HistoryRecord
    BY <1>1, <1>2 DEF HistoryRecord
  <1>4. key' \in [1..MaxRows -> Nat]
    BY <1>1, <1>2
  <1>5. ListTypes'
    BY <1>2, <1>3, <1>4 DEF ListInv, ListTypes
  <1>6. ~endpoint.cursor /\ endpoint.order # "oldest"
    BY <1>1 DEF KindKnown
  <1>7. ByNumber(endpoint, key', there, walk, history')
    <2>1. Pages!Reading => ~ Calm(endpoint, history'.happened) /\ history'.happened # {}
      BY <1>3, MovedIsNotCalm
    <2>2. walk.pc \in {"counted", "turned"} <=> Pages!Reading
      BY DEF Pages!Reading
    <2>3. walk.pc \in {"counted", "turned"} => InPlace(walk.asked)
      BY <1>6 DEF ListInv, ByNumber
    <2>4. QED
      BY <1>2, <2>1, <2>2, <2>3 DEF ByNumber
  <1>8. QED
    BY <1>2, <1>5, <1>6, <1>7 DEF ListInv, KeysInOrder

-----------------------------------------------------------------------------
(* Lists: the reader *)

\* Every row there is has fewer rows before it than there are.
LEMMA RankBelowTotal ==
  ASSUME PagesHoldRows, ListInv, NEW n \in there
  PROVE  /\ Cardinality(there) \in Nat
         /\ Rank(endpoint, key, there, n) \in Nat
         /\ Rank(endpoint, key, there, n) < Cardinality(there)
  <1>1. IsFiniteSet(there)
    <2>1. IsFiniteSet(1..inserted)
      <3>1. inserted \in Int
        BY DEF ListInv, ListTypes, PagesHoldRows
      <3>2. QED
        BY <3>1, FS_Interval
    <2>2. QED
      BY <2>1, FS_Subset DEF ListInv, ListTypes
  <1>2. key[n] \in Nat
    BY DEF ListInv, ListTypes, PagesHoldRows
  <1>3. /\ Ahead(endpoint, key, there, n) \subseteq there
        /\ n \notin Ahead(endpoint, key, there, n)
    BY <1>2 DEF Ahead, Before
  <1>4. /\ IsFiniteSet(Ahead(endpoint, key, there, n))
        /\ Cardinality(Ahead(endpoint, key, there, n)) <= Cardinality(there)
        /\ Cardinality(Ahead(endpoint, key, there, n)) = Cardinality(there)
              => Ahead(endpoint, key, there, n) = there
    BY <1>1, <1>3, FS_Subset
  <1>5. Cardinality(there) \in Nat /\ Cardinality(Ahead(endpoint, key, there, n)) \in Nat
    BY <1>1, <1>4, FS_CardinalityType
  <1>6. Cardinality(Ahead(endpoint, key, there, n)) # Cardinality(there)
    BY <1>3, <1>4
  <1>7. QED
    BY <1>4, <1>5, <1>6 DEF Rank

LEMMA RefusedStep ==
  ASSUME ListInv, UNCHANGED <<endpoint, key, there, inserted>>,
         history' \in HistoryRecord, history'.stayed \subseteq there,
         walk' \in WalkRecord, walk'.pc = "refused", walk'.shown = walk.shown
  PROVE  ListInv'
  <1>1. ListTypes'
    BY DEF ListInv, ListTypes
  <1>2. endpoint.cursor => ByCursor(endpoint, key, inserted, walk', history')
    BY DEF ListInv, ByCursor
  <1>3. ByNumber(endpoint, key, there, walk', history')
    BY DEF ByNumber
  <1>4. QED
    BY <1>1, <1>2, <1>3 DEF ListInv

LEMMA RefusedKeepsWalk ==
  ASSUME ListInv, NEW asked, Pages!Refused(asked)
  PROVE  walk' \in WalkRecord /\ walk'.pc = "refused" /\ walk'.shown = walk.shown
  <1>1. KindKnown(endpoint)
    BY KindsOfLists DEF ListInv, ListTypes
  <1>2. PICK status \in Nat : walk' = [walk EXCEPT !.pc = "refused", !.status = status]
    <2>1. endpoint.refusals \subseteq Nat
      BY <1>1 DEF KindKnown
    <2>2. CASE walk' = [walk EXCEPT !.pc = "refused", !.status = 400]
      <3>1. 400 \in Nat
        OBVIOUS
      <3>2. QED
        BY Zenon, <2>2, <3>1
    <2>3. CASE \E status \in endpoint.refusals :
                  walk' = [walk EXCEPT !.pc = "refused", !.status = status]
      BY Zenon, <2>1, <2>3
    <2>4. QED
      BY <2>2, <2>3 DEF Pages!Refused
  <1>3. walk \in WalkRecord
    BY DEF ListInv, ListTypes
  <1>4. QED
    BY <1>2, <1>3 DEF WalkRecord, Moment

LEMMA CountedStep ==
  ASSUME PagesHoldRows, ListInv, NEW asked \in Question, Pages!Counted(asked), ~endpoint.cursor,
         UNCHANGED <<endpoint, key, there, inserted>>,
         history' \in HistoryRecord, history'.stayed \subseteq there,
         ByNumber(endpoint, key, there, [walk EXCEPT !.pc = "turned", !.asked = asked], history')
  PROVE  ListInv'
  <1>1. walk \in WalkRecord
    BY DEF ListInv, ListTypes
  <1>2. Cardinality(there) \in Nat
    <2>1. IsFiniteSet(1..inserted)
      <3>1. inserted \in Int
        BY DEF ListInv, ListTypes, PagesHoldRows
      <3>2. QED
        BY <3>1, FS_Interval
    <2>2. QED
      BY <2>1, FS_Subset, FS_CardinalityType DEF ListInv, ListTypes
  <1>3. walk' = [walk EXCEPT !.pc = "counted", !.asked = asked, !.total = Cardinality(there)]
    BY PagesCardinality DEF Pages!Counted
  <1>4. /\ walk' \in WalkRecord /\ walk'.pc = "counted" /\ walk'.asked = asked
        /\ walk'.total = Cardinality(there) /\ walk'.shown = walk.shown
    BY <1>1, <1>2, <1>3 DEF WalkRecord, Moment
  <1>5. ListTypes'
    BY <1>4 DEF ListInv, ListTypes
  <1> DEFINE turned == [walk EXCEPT !.pc = "turned", !.asked = asked]
  <1>6. turned.pc = "turned" /\ turned.asked = asked /\ turned.shown = walk.shown
    BY <1>1 DEF WalkRecord
  <1>7. ByNumber(endpoint, key, there, turned, history')
    OBVIOUS
  <1> HIDE DEF turned
  <1>8. \A n \in history'.stayed : Rank(endpoint, key, there, n) < walk'.total
    BY <1>4, RankBelowTotal
  <1>9. ByNumber(endpoint, key, there, walk', history')
    BY <1>4, <1>6, <1>7, <1>8 DEF ByNumber
  <1>10. QED
    BY <1>4, <1>5, <1>9 DEF ListInv

LEMMA ParsedLimitIsPositive ==
  ASSUME PagesHoldRows, NEW limit \in Nat
  PROVE  Pages!ParsedLimit(limit) \in Nat \ {0}
  BY DEF Pages!ParsedLimit, PagesHoldRows

LEMMA OpenStep ==
  ASSUME PagesHoldRows, ListInv, Pages!Open PROVE ListInv'
  <1>1. /\ walk.pc = "new" /\ ~endpoint.cursor
        /\ UNCHANGED <<endpoint, key, there, inserted>>
        /\ history' = [stayed |-> there, happened |-> {}]
    BY Zenon DEF Pages!Open
  <1>2. PICK p \in {0, 1}, limit \in 0..MaxLimit + 1, byOffset \in {FALSE, endpoint.offset} :
          LET asked == [page |-> p, limit |-> limit, byOffset |-> byOffset, offset |-> 0]
          IN  Pages!Refused(asked) \/ Pages!Counted(asked)
    BY Zenon DEF Pages!Open
  <1> DEFINE asked == [page |-> p, limit |-> limit, byOffset |-> byOffset, offset |-> 0]
  <1>3. Pages!Refused(asked) \/ Pages!Counted(asked)
    BY <1>2
  <1>4. asked \in Question
    <2>1. KindKnown(endpoint)
      BY KindsOfLists DEF ListInv, ListTypes
    <2>2. byOffset \in BOOLEAN
      BY <2>1 DEF KindKnown
    <2>3. p \in Nat /\ limit \in Nat
      BY DEF PagesHoldRows
    <2>4. QED
      BY <2>2, <2>3 DEF Question
  <1>5. InPlace(asked) /\ asked.offset = 0
    <2>1. Pages!ParsedLimit(limit) \in Nat
      BY ParsedLimitIsPositive DEF PagesHoldRows
    <2>2. PageNo(asked) = 1
      BY DEF PageNo
    <2>3. QED
      BY <2>1, <2>2 DEF InPlace
  <1> HIDE DEF asked
  <1>6. there \subseteq 1..inserted /\ inserted \in Nat
    BY DEF ListInv, ListTypes, PagesHoldRows
  <1>7. history' \in HistoryRecord /\ history'.stayed = there /\ history'.happened = {}
    BY <1>1, <1>6 DEF HistoryRecord
  <1>8. walk \in WalkRecord /\ walk.shown = << >>
    BY <1>1 DEF ListInv, ListTypes
  <1>9. CASE Pages!Refused(asked)
    BY <1>1, <1>7, <1>9, RefusedKeepsWalk, RefusedStep
  <1>10. CASE Pages!Counted(asked)
    <2> DEFINE turned == [walk EXCEPT !.pc = "turned", !.asked = asked]
    <2>1. turned.pc = "turned" /\ turned.asked = asked /\ turned.shown = << >>
      BY <1>8 DEF WalkRecord
    <2> HIDE DEF turned
    <2>2. Seen(<< >>) = {} /\ InOrder(endpoint, key, << >>)
      BY DEF Seen, InOrder
    <2>3. \A n \in there : ~ (Rank(endpoint, key, there, n) < 0)
      BY RankBelowTotal
    <2>4. ByNumber(endpoint, key, there, turned, history')
      BY <1>5, <1>7, <2>1, <2>2, <2>3 DEF ByNumber
    <2>5. QED
      BY <1>1, <1>4, <1>7, <1>10, <2>4, CountedStep DEF turned
  <1>11. QED
    BY <1>3, <1>9, <1>10

LEMMA AskNextStep ==
  ASSUME PagesHoldRows, ListInv, Pages!AskNext PROVE ListInv'
  <1>1. /\ walk.pc = "turned" /\ ~endpoint.cursor
        /\ UNCHANGED <<endpoint, key, there, inserted, history>>
        /\ Pages!Counted(walk.asked) \/ Pages!Refused(walk.asked)
    BY Zenon DEF Pages!AskNext
  <1>2. /\ history' \in HistoryRecord /\ history'.stayed \subseteq there
        /\ walk \in WalkRecord /\ walk.asked \in Question
    BY <1>1 DEF ListInv, ListTypes, WalkRecord
  <1>3. CASE Pages!Refused(walk.asked)
    BY <1>1, <1>2, <1>3, RefusedKeepsWalk, RefusedStep
  <1>4. CASE Pages!Counted(walk.asked)
    <2>1. [walk EXCEPT !.pc = "turned", !.asked = walk.asked] = walk
      BY <1>1, <1>2 DEF WalkRecord
    <2>2. ByNumber(endpoint, key, there, walk, history')
      BY <1>1 DEF ListInv
    <2>3. QED
      BY <1>1, <1>2, <1>4, <2>1, <2>2, CountedStep
  <1>5. QED
    BY <1>1, <1>3, <1>4

\* What has been seen after a page.
LEMMA SeenAfterPage ==
  ASSUME NEW S, NEW s \in Seq(S), NEW t \in Seq(S)
  PROVE  /\ s \o t \in Seq(S) /\ Len(s \o t) = Len(s) + Len(t)
         /\ Len(s) \in Nat /\ Len(t) \in Nat
         /\ Seen(s \o t) = Seen(s) \cup Seen(t)
         /\ \A i \in 1..Len(s \o t) :
               (s \o t)[i] = IF i <= Len(s) THEN s[i] ELSE t[i - Len(s)]
  <1>1. /\ s \o t \in Seq(S) /\ Len(s \o t) = Len(s) + Len(t)
        /\ Len(s) \in Nat /\ Len(t) \in Nat
        /\ \A i \in 1..Len(s \o t) :
              (s \o t)[i] = IF i <= Len(s) THEN s[i] ELSE t[i - Len(s)]
    OBVIOUS
  <1>2. DOMAIN s = 1..Len(s) /\ DOMAIN t = 1..Len(t) /\ DOMAIN (s \o t) = 1..Len(s \o t)
    BY <1>1
  <1>3. Seen(s \o t) \subseteq Seen(s) \cup Seen(t)
    <2>1. SUFFICES ASSUME NEW i \in 1..Len(s \o t)
                   PROVE  (s \o t)[i] \in Seen(s) \cup Seen(t)
      BY <1>2 DEF Seen
    <2>2. CASE i <= Len(s)
      <3>1. i \in 1..Len(s) /\ (s \o t)[i] = s[i]
        BY <1>1, <2>2
      <3>2. QED
        BY <1>2, <3>1 DEF Seen
    <2>3. CASE ~ (i <= Len(s))
      <3>1. i - Len(s) \in 1..Len(t) /\ (s \o t)[i] = t[i - Len(s)]
        BY <1>1, <2>3
      <3>2. QED
        BY <1>2, <3>1 DEF Seen
    <2>4. QED
      BY <2>2, <2>3
  <1>4. ASSUME NEW i \in 1..Len(s) PROVE s[i] \in Seen(s \o t)
    <2>1. i \in 1..Len(s \o t) /\ (s \o t)[i] = s[i]
      BY <1>1, <1>4
    <2>2. QED
      BY <1>2, <2>1 DEF Seen
  <1>5. ASSUME NEW i \in 1..Len(t) PROVE t[i] \in Seen(s \o t)
    <2>1. Len(s) + i \in 1..Len(s \o t) /\ ~ (Len(s) + i <= Len(s)) /\ Len(s) + i - Len(s) = i
      BY <1>1, <1>5
    <2>2. (s \o t)[Len(s) + i] = t[i]
      BY <1>1, <2>1
    <2>3. QED
      BY <1>2, <2>1, <2>2 DEF Seen
  <1>6. QED
    BY <1>1, <1>2, <1>3, <1>4, <1>5 DEF Seen

LEMMA OrderAfterPage ==
  ASSUME NEW S, NEW s \in Seq(S), NEW t \in Seq(S), NEW e, NEW k,
         InOrder(e, k, s), InOrder(e, k, t),
         \A m \in Seen(s), n \in Seen(t) : Before(e, k, m, n)
  PROVE  InOrder(e, k, s \o t)
  <1>1. /\ Len(s \o t) = Len(s) + Len(t) /\ s \o t \in Seq(S)
        /\ Len(s) \in Nat /\ Len(t) \in Nat
        /\ \A i \in 1..Len(s \o t) :
              (s \o t)[i] = IF i <= Len(s) THEN s[i] ELSE t[i - Len(s)]
    BY SeenAfterPage
  <1>2. DOMAIN s = 1..Len(s) /\ DOMAIN t = 1..Len(t) /\ DOMAIN (s \o t) = 1..Len(s \o t)
    BY <1>1
  <1>3. SUFFICES ASSUME NEW i \in 1..Len(s \o t), NEW j \in 1..Len(s \o t), i < j
                 PROVE  Before(e, k, (s \o t)[i], (s \o t)[j])
    BY <1>2 DEF InOrder
  <1>4. CASE j <= Len(s)
    <2>1. i \in 1..Len(s) /\ j \in 1..Len(s) /\ (s \o t)[i] = s[i] /\ (s \o t)[j] = s[j]
      BY <1>1, <1>3, <1>4
    <2>2. QED
      BY <1>2, <1>3, <2>1 DEF InOrder
  <1>5. CASE i <= Len(s) /\ ~ (j <= Len(s))
    <2>1. /\ i \in 1..Len(s) /\ j - Len(s) \in 1..Len(t)
          /\ (s \o t)[i] = s[i] /\ (s \o t)[j] = t[j - Len(s)]
      BY <1>1, <1>3, <1>5
    <2>2. s[i] \in Seen(s) /\ t[j - Len(s)] \in Seen(t)
      BY <1>2, <2>1 DEF Seen
    <2>3. QED
      BY <2>1, <2>2
  <1>6. CASE ~ (i <= Len(s)) /\ ~ (j <= Len(s))
    <2>1. /\ i - Len(s) \in 1..Len(t) /\ j - Len(s) \in 1..Len(t) /\ i - Len(s) < j - Len(s)
          /\ (s \o t)[i] = t[i - Len(s)] /\ (s \o t)[j] = t[j - Len(s)]
      BY <1>1, <1>3, <1>6
    <2>2. QED
      BY <1>2, <2>1 DEF InOrder
  <1>7. QED
    BY <1>1, <1>3, <1>4, <1>5, <1>6

\* Where a page begins and how many rows it may have; the next one begins after it.
LEMMA AtPlace ==
  ASSUME PagesHoldRows, NEW asked \in Question, InPlace(asked)
  PROVE  LET cut == Pages!ParsePagination(asked)
         IN  /\ cut.offset \in Nat /\ cut.limit \in Nat \ {0} /\ cut.page \in Nat
             /\ cut.offset = asked.offset
             /\ cut.offset + cut.limit = cut.page * cut.limit
             /\ \A next \in Question :
                   /\ next.limit = asked.limit /\ next.page = cut.page + 1
                   /\ next.offset = cut.offset + cut.limit
                   => InPlace(next)
  <1> DEFINE cut == Pages!ParsePagination(asked)
             limit == Pages!ParsedLimit(asked.limit)
             p == PageNo(asked)
  <1>1. /\ asked.page \in Nat /\ asked.limit \in Nat /\ asked.offset \in Nat
        /\ asked.byOffset \in BOOLEAN
    BY DEF Question
  <1>2. limit \in Nat \ {0}
    BY <1>1, ParsedLimitIsPositive
  <1>3. p \in Nat \ {0} /\ asked.offset = (p - 1) * limit
    BY <1>1 DEF PageNo, InPlace
  <1>4. cut = IF asked.byOffset
              THEN [page |-> (asked.offset \div limit) + 1, limit |-> limit, offset |-> asked.offset]
              ELSE [page |-> p, limit |-> limit, offset |-> (p - 1) * limit]
    BY Zenon DEF Pages!ParsePagination, Pages!Offset, PageNo
  <1> HIDE DEF cut, limit, p
  <1>5. asked.offset \div limit = p - 1
    <2>1. p - 1 \in Nat
      BY <1>3
    <2>2. QED
      BY <1>2, <1>3, <2>1, PageOfOffset
  <1>6. cut.page = p /\ cut.limit = limit /\ cut.offset = asked.offset
    BY <1>1, <1>3, <1>4, <1>5
  <1>7. (p - 1) * limit + limit = p * limit
    BY <1>2, <1>3
  <1>8. ASSUME NEW next \in Question, next.limit = asked.limit, next.page = p + 1,
               next.offset = asked.offset + limit
        PROVE  InPlace(next)
    <2>1. Pages!ParsedLimit(next.limit) = limit
      BY <1>8 DEF limit
    <2>2. PageNo(next) = p + 1
      BY <1>3, <1>8 DEF PageNo
    <2>3. next.offset = p * limit /\ PageNo(next) - 1 = p
      BY <1>3, <1>7, <1>8, <2>2
    <2>4. QED
      BY <2>1, <2>2, <2>3 DEF InPlace
  <1>9. QED
    BY <1>1, <1>2, <1>3, <1>6, <1>7, <1>8 DEF cut

\* What a page adds: rows in order, all those whose rank is on it and no others.
LEMMA PageIsRight ==
  ASSUME NEW rows, IsFiniteSet(rows), NEW order \in Pages!Orders(rows),
         \A n \in rows : key[n] \in Nat,
         \A m, n \in rows : key[m] = key[n] => m = n,
         NEW cut, cut.offset \in Nat, cut.limit \in Nat \ {0}
  PROVE  LET leaf == Pages!PageOf(order, cut)
         IN  /\ leaf \in Seq(rows) /\ Len(leaf) <= cut.limit
             /\ InOrder(endpoint, key, leaf)
             /\ \A n \in rows :
                   /\ Rank(endpoint, key, rows, n) \in Nat
                   /\ n \in Seen(leaf) <=>
                         /\ cut.offset <= Rank(endpoint, key, rows, n)
                         /\ Rank(endpoint, key, rows, n) < cut.offset + cut.limit
             /\ \A m, n \in rows :
                   Rank(endpoint, key, rows, m) < Rank(endpoint, key, rows, n)
                      => Before(endpoint, key, m, n)
             /\ Len(leaf) < cut.limit =>
                   \A n \in rows : Rank(endpoint, key, rows, n) < cut.offset + cut.limit
  <1> DEFINE size == Cardinality(rows)
             leaf == Pages!PageOf(order, cut)
             R(n) == Rank(endpoint, key, rows, n)
  <1>1. /\ size \in Nat /\ order \in [1..size -> rows]
        /\ \A n \in rows : \E i \in 1..size : order[i] = n
        /\ \A i, j \in 1..size : i < j => Before(endpoint, key, order[i], order[j])
        /\ \A i \in 1..size : R(order[i]) = i - 1
    BY OrderIsSorted
  <1> HIDE DEF size, R
  <1>2. PICK count \in Nat :
            /\ leaf \in Seq(rows) /\ Len(leaf) = count
            /\ \A i \in 1..count : /\ cut.offset + i \in 1..size
                                   /\ leaf[i] = order[cut.offset + i]
            /\ \A j \in 1..size : cut.offset < j /\ j <= cut.offset + cut.limit =>
                  j - cut.offset \in 1..count
            /\ count <= cut.limit
    <2>1. order \in [1..size -> rows]
      BY <1>1
    <2>2. size \in Nat
      BY <1>1
    <2>3. CutOut(leaf, order, size, cut, rows)
      BY Zenon, <2>1, <2>2, PageIsCutOut
    <2>4. QED
      BY Zenon, <2>3 DEF CutOut
  <1> HIDE DEF leaf
  <1>3. DOMAIN leaf = 1..count
    BY <1>2
  <1>4. InOrder(endpoint, key, leaf)
    <2>1. SUFFICES ASSUME NEW i \in 1..count, NEW j \in 1..count, i < j
                   PROVE  Before(endpoint, key, leaf[i], leaf[j])
      BY <1>3 DEF InOrder
    <2>2. /\ cut.offset + i \in 1..size /\ leaf[i] = order[cut.offset + i]
          /\ cut.offset + j \in 1..size /\ leaf[j] = order[cut.offset + j]
          /\ cut.offset + i < cut.offset + j
      BY <1>2, <2>1
    <2>3. QED
      BY <1>1, <2>2
  <1>5. ASSUME NEW n \in rows
        PROVE  \E i \in 1..size : order[i] = n /\ R(n) = i - 1
    BY <1>1, <1>5
  <1>6. ASSUME NEW n \in rows
        PROVE  /\ R(n) \in Nat
               /\ n \in Seen(leaf) <=> cut.offset <= R(n) /\ R(n) < cut.offset + cut.limit
    <2>1. PICK i \in 1..size : order[i] = n /\ R(n) = i - 1
      BY <1>5, <1>6
    <2>2. R(n) \in Nat
      BY <1>1, <2>1
    <2>3. ASSUME cut.offset <= R(n), R(n) < cut.offset + cut.limit
          PROVE  n \in Seen(leaf)
      <3>1. cut.offset < i /\ i <= cut.offset + cut.limit
        BY <1>1, <2>1, <2>3
      <3>2. i - cut.offset \in 1..count /\ cut.offset + (i - cut.offset) = i
        BY <1>1, <1>2, <3>1
      <3>3. leaf[i - cut.offset] = n
        BY <1>2, <2>1, <3>2
      <3>4. QED
        BY <1>3, <3>2, <3>3 DEF Seen
    <2>4. ASSUME n \in Seen(leaf)
          PROVE  cut.offset <= R(n) /\ R(n) < cut.offset + cut.limit
      <3>1. PICK j \in 1..count : leaf[j] = n
        BY <1>3, <2>4 DEF Seen
      <3>2. cut.offset + j \in 1..size /\ order[cut.offset + j] = n
        BY <1>2, <3>1
      <3>3. R(n) = cut.offset + j - 1
        BY <1>1, <3>2
      <3>4. j <= cut.limit /\ j >= 1
        BY <1>2
      <3>5. QED
        BY <1>2, <3>3, <3>4
    <2>5. QED
      BY <2>2, <2>3, <2>4
  <1>7. ASSUME NEW m \in rows, NEW n \in rows, R(m) < R(n)
        PROVE  Before(endpoint, key, m, n)
    <2>1. PICK i \in 1..size : order[i] = m /\ R(m) = i - 1
      BY <1>5
    <2>2. PICK j \in 1..size : order[j] = n /\ R(n) = j - 1
      BY <1>5
    <2>3. i < j
      BY <1>1, <1>7, <2>1, <2>2
    <2>4. QED
      BY <1>1, <2>1, <2>2, <2>3
  <1>8. ASSUME count < cut.limit, NEW n \in rows
        PROVE  R(n) < cut.offset + cut.limit
    <2>1. PICK i \in 1..size : order[i] = n /\ R(n) = i - 1
      BY <1>5
    <2>2. CASE i <= cut.offset + cut.limit
      BY <1>1, <2>1, <2>2
    <2>3. CASE ~ (i <= cut.offset + cut.limit)
      <3> DEFINE last == cut.offset + cut.limit
      <3>1. last \in 1..size /\ cut.offset < last /\ last <= cut.offset + cut.limit
        <4>1. last \in Nat /\ last >= 1 /\ cut.offset < last
          OBVIOUS
        <4>2. i \in Nat /\ i <= size /\ ~ (i <= last)
          BY <1>1, <2>3
        <4>3. last \in 1..size
          BY <1>1, <4>1, <4>2
        <4>4. last <= cut.offset + cut.limit
          BY <4>1
        <4>5. QED
          BY <4>1, <4>3, <4>4
      <3>2. last - cut.offset \in 1..count /\ last - cut.offset = cut.limit
        BY <1>2, <3>1
      <3>3. QED
        BY <1>2, <1>8, <3>2
    <2>4. QED
      BY <2>2, <2>3
  <1>9. QED
    BY <1>2, <1>4, <1>6, <1>7, <1>8 DEF R, leaf

LEMMA ListedRows ==
  ASSUME PagesHoldRows, ListInv, NEW rows \in SUBSET there
  PROVE  IsFiniteSet(rows) /\ \A n \in rows : n \in 1..inserted /\ key[n] \in Nat
  <1>1. IsFiniteSet(1..inserted)
    <2>1. inserted \in Int
      BY DEF ListInv, ListTypes, PagesHoldRows
    <2>2. QED
      BY <2>1, FS_Interval
  <1>2. rows \subseteq 1..inserted
    BY DEF ListInv, ListTypes
  <1>3. \A n \in 1..inserted : key[n] \in Nat
    BY DEF ListInv, ListTypes, PagesHoldRows
  <1>4. QED
    BY <1>1, <1>2, <1>3, FS_Subset

MovedOn(w, pc, asked, shown) == [w EXCEPT !.pc = pc, !.asked = asked, !.shown = shown]

LEMMA WalkTurns ==
  \A w \in WalkRecord, pc \in Moment, asked \in Question, shown \in Rows :
     /\ MovedOn(w, pc, asked, shown) \in WalkRecord
     /\ MovedOn(w, pc, asked, shown).pc = pc
     /\ MovedOn(w, pc, asked, shown).asked = asked
     /\ MovedOn(w, pc, asked, shown).shown = shown
  BY DEF WalkRecord, MovedOn

Halted(w, status) == [w EXCEPT !.pc = "refused", !.status = status]

LEMMA WalkRefused ==
  \A w \in WalkRecord, status \in Nat :
     /\ Halted(w, status) \in WalkRecord
     /\ Halted(w, status).pc = "refused"
     /\ Halted(w, status).shown = w.shown
  BY DEF WalkRecord, Moment, Halted

LEMMA SequenceOfMore ==
  ASSUME NEW S, NEW T, S \subseteq T, NEW s \in Seq(S)
  PROVE  s \in Seq(T) /\ Len(s) \in Nat /\ \A i \in DOMAIN s : s[i] \in S
  OBVIOUS

LEMMA SelectStep ==
  ASSUME PagesHoldRows, ListInv, Pages!Select PROVE ListInv'
  <1> DEFINE cut == Pages!ParsePagination(walk.asked)
             next == Pages!Turned(cut)
             R(n) == Rank(endpoint, key, there, n)
             tied == Pages!Tied
  <1>1. PICK order \in Pages!Orders(there) :
           walk' = [walk EXCEPT
                  !.pc = IF cut.page < Pages!Pages(walk.total, cut.limit) THEN "turned" ELSE "done",
                  !.asked = next,
                  !.shown = @ \o Pages!PageOf(order, cut)]
    BY Zenon DEF Pages!Select
  <1> DEFINE leaf == Pages!PageOf(order, cut)
  <1>2. /\ walk.pc = "counted" /\ UNCHANGED <<endpoint, key, there, inserted>>
        /\ history' = IF tied THEN [history EXCEPT !.happened = @ \cup {"ties"}] ELSE history
    BY Zenon DEF Pages!Select
  <1>3. /\ walk \in WalkRecord /\ walk.asked \in Question /\ walk.total \in Nat
        /\ walk.shown \in Seq(Nat)
        /\ history \in HistoryRecord /\ history.stayed \subseteq there
        /\ there \subseteq 1..inserted /\ inserted \in Nat
    BY DEF ListInv, ListTypes, WalkRecord, Rows, PagesHoldRows
  <1>4. ~endpoint.cursor /\ ByNumber(endpoint, key, there, walk, history)
    BY <1>2 DEF ListInv, ByCursor
  <1>5. InPlace(walk.asked)
    BY <1>2, <1>4 DEF ByNumber
  <1>6. next = [walk.asked EXCEPT !.page = cut.page + 1, !.offset = cut.offset + cut.limit]
    BY Zenon DEF Pages!Turned
  <1> HIDE DEF next
  <1>7. /\ cut.offset \in Nat /\ cut.limit \in Nat \ {0} /\ cut.page \in Nat
        /\ cut.offset = walk.asked.offset
        /\ cut.offset + cut.limit = cut.page * cut.limit
        /\ \A q \in Question :
              /\ q.limit = walk.asked.limit /\ q.page = cut.page + 1
              /\ q.offset = cut.offset + cut.limit
              => InPlace(q)
    BY Zenon, <1>3, <1>5, AtPlace
  <1> HIDE DEF cut, tied
  <1>8. /\ next \in Question /\ next.offset = cut.offset + cut.limit
        /\ next.limit = walk.asked.limit /\ next.page = cut.page + 1
    <2>1. cut.page + 1 \in Nat /\ cut.offset + cut.limit \in Nat
      BY <1>7
    <2>2. walk.asked \in Question
      BY <1>3
    <2>3. QED
      BY <1>6, <2>1, <2>2 DEF Question
  <1>9. InPlace(next)
    BY <1>7, <1>8
  <1>10. leaf \in Seq(Nat)
    <2>1. order \in Seq(there)
      <3>1. order \in Pages!SetToSeqs(there)
        BY DEF Pages!Orders
      <3>2. order \in [1..Pages!Cardinality(there) -> there]
        BY <3>1 DEF Pages!SetToSeqs
      <3>3. Pages!Cardinality(there) \in Nat
        BY <1>3, ListedRows, PagesCardinality, FS_CardinalityType
      <3>4. QED
        BY <3>2, <3>3
    <2>2. PICK size \in Nat : order \in [1..size -> there]
      BY <2>1
    <2>3. CutOut(leaf, order, size, cut, there)
      BY Zenon, <1>7, <2>2, PageIsCutOut
    <2> HIDE DEF leaf
    <2>4. leaf \in Seq(there)
      BY Zenon, <2>3 DEF CutOut
    <2>5. there \subseteq Nat
      BY <1>3
    <2>6. QED
      BY <2>4, <2>5, SequenceOfMore
  <1>11. /\ walk' \in WalkRecord /\ walk'.asked = next /\ walk'.shown = walk.shown \o leaf
         /\ walk'.pc = IF cut.page < Pages!Pages(walk.total, cut.limit) THEN "turned" ELSE "done"
    <2> DEFINE pc == IF cut.page < Pages!Pages(walk.total, cut.limit) THEN "turned" ELSE "done"
    <2>1. walk' = MovedOn(walk, pc, next, walk.shown \o leaf)
      BY <1>1, <1>3 DEF WalkRecord, MovedOn
    <2>2. pc \in Moment
      BY DEF Moment
    <2> HIDE DEF pc, leaf
    <2>3. walk.shown \o leaf \in Rows
      BY <1>3, <1>10 DEF Rows
    <2>4. walk' \in WalkRecord /\ walk'.asked = next /\ walk'.shown = walk.shown \o leaf /\ walk'.pc = pc
      <3>1. walk \in WalkRecord
        BY <1>3
      <3>2. next \in Question
        BY <1>8
      <3>3. QED
        <4> DEFINE more == walk.shown \o leaf
        <4> HIDE DEF more
        <4>1. walk' = MovedOn(walk, pc, next, more) /\ more \in Rows
          BY <2>1, <2>3 DEF more
        <4>2. /\ MovedOn(walk, pc, next, more) \in WalkRecord
              /\ MovedOn(walk, pc, next, more).pc = pc
              /\ MovedOn(walk, pc, next, more).asked = next
              /\ MovedOn(walk, pc, next, more).shown = more
          BY <3>1, <3>2, <2>2, <4>1, WalkTurns
        <4>3. QED
          BY Zenon, <4>1, <4>2 DEF more
    <2>5. QED
      BY <2>4 DEF pc
  <1> HIDE DEF leaf
  <1>12. /\ history' \in HistoryRecord /\ history'.stayed = history.stayed
         /\ tied => "ties" \in history'.happened
         /\ ~tied => history' = history
    BY <1>2, <1>3 DEF HistoryRecord
  <1>13. ListTypes'
    BY <1>2, <1>3, <1>11, <1>12 DEF ListInv, ListTypes
  <1>14. CASE tied
    <2>1. ~ Calm(endpoint, history'.happened) /\ history'.happened # {}
      BY <1>12, <1>14 DEF Calm
    <2>2. ByNumber(endpoint, key, there, walk', history')
      BY <1>9, <1>11, <2>1 DEF ByNumber
    <2>3. QED
      BY <1>2, <1>4, <1>11, <1>13, <2>2 DEF ListInv
  <1>15. CASE ~tied
    <2>1. \A m, n \in there : key[m] = key[n] => m = n
      BY <1>15 DEF tied, Pages!Tied
    <2>2. IsFiniteSet(there) /\ \A n \in there : key[n] \in Nat
      BY ListedRows
    <2>3. /\ leaf \in Seq(there)
          /\ InOrder(endpoint, key, leaf)
          /\ \A n \in there :
                /\ R(n) \in Nat
                /\ n \in Seen(leaf) <=> cut.offset <= R(n) /\ R(n) < cut.offset + cut.limit
          /\ \A m, n \in there : R(m) < R(n) => Before(endpoint, key, m, n)
      BY Zenon, <1>7, <2>1, <2>2, PageIsRight DEF leaf
    <2> HIDE DEF R
    <2>4. Seen(walk'.shown) = Seen(walk.shown) \cup Seen(leaf)
      BY <1>3, <1>10, <1>11, SeenAfterPage
    <2>5. Seen(leaf) \subseteq there
      BY <2>3 DEF Seen
    <2>6. ASSUME Calm(endpoint, history.happened), NEW n \in history.stayed, R(n) < next.offset
          PROVE  n \in Seen(walk'.shown)
      <3>1. R(n) < cut.offset => n \in Seen(walk.shown)
        BY <1>2, <1>4, <1>7, <2>6 DEF ByNumber, R
      <3>2. ~ (R(n) < cut.offset) => n \in Seen(leaf)
        BY <1>3, <1>7, <1>8, <2>3, <2>6
      <3>3. QED
        BY <2>4, <3>1, <3>2
    <2>7. ASSUME history.happened = {}
          PROVE  InOrder(endpoint, key, walk'.shown)
      <3>1. /\ InOrder(endpoint, key, walk.shown)
            /\ \A m \in Seen(walk.shown), n \in there :
                  R(n) >= cut.offset => Before(endpoint, key, m, n)
        BY <1>2, <1>4, <1>7, <2>7 DEF ByNumber, R
      <3>2. \A m \in Seen(walk.shown), n \in Seen(leaf) : Before(endpoint, key, m, n)
        BY <1>7, <2>3, <2>5, <3>1
      <3>3. QED
        BY <1>3, <1>10, <1>11, <2>3, <3>1, <3>2, OrderAfterPage
    <2>8. ASSUME history.happened = {}, NEW m \in Seen(walk'.shown), NEW n \in there,
                 R(n) >= next.offset
          PROVE  Before(endpoint, key, m, n)
      <3>1. CASE m \in Seen(walk.shown)
        <4>1. R(n) >= cut.offset
          BY <1>7, <1>8, <2>3, <2>8
        <4>2. QED
          BY <1>2, <1>4, <1>7, <2>8, <3>1, <4>1 DEF ByNumber, R
      <3>2. CASE m \in Seen(leaf)
        <4>1. m \in there /\ R(m) < R(n)
          BY <1>7, <1>8, <2>3, <2>5, <2>8, <3>2
        <4>2. QED
          BY <2>3, <4>1
      <3>3. QED
        BY <2>4, <2>8, <3>1, <3>2
    <2>9. ASSUME walk'.pc = "done", Calm(endpoint, history.happened)
          PROVE  history.stayed \subseteq Seen(walk'.shown)
      <3>1. walk.total <= next.offset
        BY <1>3, <1>7, <1>8, <1>11, <2>9, PagesCover
      <3>2. \A n \in history.stayed : R(n) < walk.total
        BY <1>2, <1>4, <2>9 DEF ByNumber, R
      <3>3. \A n \in history.stayed : R(n) < next.offset
        <4>1. SUFFICES ASSUME NEW n \in history.stayed PROVE R(n) < next.offset
          OBVIOUS
        <4>2. R(n) \in Nat
          BY <1>3, <2>3
        <4>3. next.offset \in Nat
          BY <1>7, <1>8
        <4>4. walk.total \in Nat
          BY <1>3
        <4>5. QED
          BY <3>1, <3>2, <4>2, <4>3, <4>4
      <3>4. QED
        BY <2>6, <2>9, <3>3
    <2>10. walk'.pc \in {"turned", "done"}
      BY <1>11
    <2>11. ByNumber(endpoint, key, there, walk', history')
      BY <1>9, <1>11, <1>12, <1>15, <2>6, <2>7, <2>8, <2>9, <2>10 DEF ByNumber, R
    <2>12. QED
      BY <1>2, <1>4, <1>11, <1>13, <2>11 DEF ListInv
  <1>16. QED
    BY <1>14, <1>15

\* A row after a later one is after an earlier one.
LEMMA BeforeAndBefore ==
  ASSUME NEW a, NEW b, NEW c, key[a] \in Nat, key[b] \in Nat, key[c] \in Nat,
         Before(endpoint, key, a, b), Before(endpoint, key, b, c)
  PROVE  Before(endpoint, key, a, c)
  BY DEF Before

LEMMA FetchPageStep ==
  ASSUME PagesHoldRows, ListInv, Pages!FetchPage PROVE ListInv'
  <1>1. /\ endpoint.cursor /\ walk.pc \in {"new", "turned"}
        /\ UNCHANGED <<endpoint, key, there, inserted>>
        /\ history' = IF walk.pc = "new" THEN [stayed |-> there, happened |-> {}] ELSE history
    BY Zenon DEF Pages!FetchPage
  <1>2. /\ walk \in WalkRecord /\ walk.shown \in Seq(Nat)
        /\ history \in HistoryRecord /\ history.stayed \subseteq there
        /\ there \subseteq 1..inserted /\ inserted \in Nat
        /\ ByCursor(endpoint, key, inserted, walk, history)
    BY <1>1 DEF ListInv, ListTypes, WalkRecord, Rows, PagesHoldRows
  <1>3. /\ history' \in HistoryRecord /\ history'.stayed \subseteq there
        /\ walk.pc = "new" => history'.stayed = there
        /\ walk.pc = "turned" => history' = history
    BY <1>1, <1>2 DEF HistoryRecord
  <1>4. CASE walk' = [walk EXCEPT !.pc = "refused", !.status = 502]
    <2>1. walk' \in WalkRecord /\ walk'.pc = "refused" /\ walk'.shown = walk.shown
      <3>1. walk \in WalkRecord
        BY <1>2
      <3>2. 502 \in Nat
        OBVIOUS
      <3>3. QED
        <4>1. walk' = Halted(walk, 502)
          BY Zenon, <1>4 DEF Halted
        <4>2. /\ Halted(walk, 502) \in WalkRecord /\ Halted(walk, 502).pc = "refused"
              /\ Halted(walk, 502).shown = walk.shown
          BY <3>1, <3>2, WalkRefused
        <4>3. QED
          BY Zenon, <4>1, <4>2
    <2>2. QED
      BY <1>1, <1>3, <2>1, RefusedStep
  <1> DEFINE rows == Pages!AfterLast
             cut == [offset |-> 0, limit |-> MaxLimit]
             last == walk.shown[Len(walk.shown)]
  <1>5. CASE \E order \in Pages!Orders(rows) :
               LET leaf == Pages!PageOf(order, cut)
               IN  walk' = [walk EXCEPT !.pc = IF Len(leaf) < MaxLimit THEN "done" ELSE "turned",
                                        !.shown = @ \o leaf]
    <2>1. PICK order \in Pages!Orders(rows) :
               LET leaf == Pages!PageOf(order, cut)
               IN  walk' = [walk EXCEPT !.pc = IF Len(leaf) < MaxLimit THEN "done" ELSE "turned",
                                        !.shown = @ \o leaf]
      BY Zenon, <1>5
    <2> DEFINE leaf == Pages!PageOf(order, cut)
               R(n) == Rank(endpoint, key, rows, n)
    <2>2. walk' = [walk EXCEPT !.pc = IF Len(leaf) < MaxLimit THEN "done" ELSE "turned",
                               !.shown = @ \o leaf]
      BY Zenon, <2>1
    <2>3. /\ rows \subseteq there
          /\ \A n \in there : n \in rows <=> \/ walk.shown = << >>
                                             \/ Before(endpoint, key, last, n)
      BY DEF Pages!AfterLast, Pages!Precedes, Before
    <2>4. cut.offset = 0 /\ cut.limit = MaxLimit /\ MaxLimit \in Nat \ {0}
      BY DEF PagesHoldRows
    <2> HIDE DEF rows, cut
    <2>5. IsFiniteSet(rows) /\ \A n \in rows : n \in 1..inserted /\ key[n] \in Nat
      BY <2>3, ListedRows
    <2>6. \A m, n \in rows : key[m] = key[n] => m = n
      BY <1>1, <2>5 DEF ListInv, KeysInOrder
    <2>7. cut.offset \in Nat /\ cut.limit \in Nat \ {0}
      BY <2>4
    <2>8. /\ leaf \in Seq(rows) /\ Len(leaf) <= cut.limit
          /\ InOrder(endpoint, key, leaf)
          /\ \A n \in rows :
                /\ R(n) \in Nat
                /\ n \in Seen(leaf) <=> cut.offset <= R(n) /\ R(n) < cut.offset + cut.limit
          /\ \A m, n \in rows : R(m) < R(n) => Before(endpoint, key, m, n)
          /\ Len(leaf) < cut.limit => \A n \in rows : R(n) < cut.offset + cut.limit
      BY Zenon, <2>5, <2>6, <2>7, PageIsRight
    <2> HIDE DEF leaf, R
    <2>9. leaf \in Seq(Nat) /\ Len(leaf) \in Nat /\ Seen(leaf) \subseteq rows
      <3>1. rows \subseteq Nat
        BY <1>2, <2>3
      <3>2. QED
        BY <2>8, <3>1, SequenceOfMore DEF Seen
    <2>10. /\ walk' \in WalkRecord /\ walk'.shown = walk.shown \o leaf
           /\ walk'.pc = IF Len(leaf) < MaxLimit THEN "done" ELSE "turned"
      <3> DEFINE pc == IF Len(leaf) < MaxLimit THEN "done" ELSE "turned"
      <3>1. walk' = MovedOn(walk, pc, walk.asked, walk.shown \o leaf)
        BY <1>2, <2>2 DEF WalkRecord, MovedOn
      <3>2. pc \in Moment /\ walk.asked \in Question
        BY <1>2 DEF Moment, WalkRecord
      <3> HIDE DEF pc
      <3>3. walk.shown \o leaf \in Rows
        BY <1>2, <2>9 DEF Rows
      <3>4. walk' \in WalkRecord /\ walk'.shown = walk.shown \o leaf /\ walk'.pc = pc
        <4>1. walk \in WalkRecord
          BY <1>2
        <4>2. pc \in Moment
          BY <3>2
        <4>3. walk.asked \in Question
          BY <3>2
        <4>4. QED
          <5> DEFINE more == walk.shown \o leaf
          <5> HIDE DEF more
          <5>1. walk' = MovedOn(walk, pc, walk.asked, more) /\ more \in Rows
            BY <3>1, <3>3 DEF more
          <5>2. /\ MovedOn(walk, pc, walk.asked, more) \in WalkRecord
                /\ MovedOn(walk, pc, walk.asked, more).pc = pc
                /\ MovedOn(walk, pc, walk.asked, more).shown = more
            BY <4>1, <4>2, <4>3, <5>1, WalkTurns
          <5>3. QED
            BY Zenon, <5>1, <5>2 DEF more
      <3>5. QED
        BY <3>4 DEF pc
    <2>11. Seen(walk'.shown) = Seen(walk.shown) \cup Seen(leaf)
      BY <1>2, <2>9, <2>10, SeenAfterPage
    <2>12. ListTypes'
      BY <1>1, <1>3, <2>10 DEF ListInv, ListTypes
    <2>13. Seen(walk'.shown) \subseteq 1..inserted
      BY <1>2, <2>5, <2>9, <2>11 DEF ByCursor
    <2>14. InOrder(endpoint, key, walk'.shown)
      <3>1. ASSUME NEW m \in Seen(walk.shown), NEW n \in Seen(leaf)
            PROVE  Before(endpoint, key, m, n)
        <4>1. PICK i \in DOMAIN walk.shown : walk.shown[i] = m
          BY DEF Seen
        <4>2. /\ i \in 1..Len(walk.shown) /\ Len(walk.shown) \in DOMAIN walk.shown
              /\ Len(walk.shown) \in Nat /\ walk.shown # << >>
          BY <1>2, <4>1
        <4>3. Before(endpoint, key, last, n) /\ key[n] \in Nat
          BY <2>3, <2>5, <2>9, <3>1, <4>2
        <4>4. CASE i = Len(walk.shown)
          BY <4>1, <4>3, <4>4
        <4>5. CASE i # Len(walk.shown)
          <5>1. i < Len(walk.shown)
            BY <4>2, <4>5
          <5>2. Before(endpoint, key, m, last)
            BY <1>2, <4>1, <4>2, <5>1 DEF ByCursor, InOrder
          <5>3. m \in 1..inserted /\ last \in 1..inserted
            BY <1>2, <4>1, <4>2 DEF ByCursor, Seen
          <5>4. key[m] \in Nat /\ key[last] \in Nat
            BY <5>3 DEF ListInv, ListTypes, PagesHoldRows
          <5>5. QED
            BY <4>3, <5>2, <5>4, BeforeAndBefore
        <4>6. QED
          BY <4>4, <4>5
      <3>2. QED
        BY <1>2, <2>8, <2>9, <2>10, <3>1, OrderAfterPage DEF ByCursor
    <2>15. ASSUME NEW n \in history'.stayed PROVE n \in Seen(walk.shown) \/ n \in rows
      <3>1. CASE walk.pc = "new"
        <4>1. walk.shown = << >>
          BY <3>1 DEF ListInv
        <4>2. QED
          BY <1>3, <2>3, <2>15, <4>1
      <3>2. CASE walk.pc = "turned"
        BY <1>2, <1>3, <2>3, <2>15, <3>2 DEF ByCursor
      <3>3. QED
        BY <1>1, <3>1, <3>2
    <2>16. ASSUME walk'.pc = "done" PROVE history'.stayed \subseteq Seen(walk'.shown)
      <3>1. Len(leaf) < cut.limit
        BY <2>4, <2>10, <2>16
      <3>2. \A n \in rows : n \in Seen(leaf)
        BY <2>4, <2>8, <3>1
      <3>3. QED
        BY <2>11, <2>15, <3>2
    <2>17. ASSUME walk'.pc = "turned", NEW n \in history'.stayed, ~ (n \in Seen(walk'.shown))
           PROVE  Before(endpoint, key, walk'.shown[Len(walk'.shown)], n)
      <3>1. n \in rows /\ ~ (n \in Seen(leaf))
        BY <2>11, <2>15, <2>17
      <3>2. Len(leaf) >= 1 /\ Len(leaf) \in DOMAIN leaf
        BY <2>4, <2>9, <2>10, <2>17
      <3>3. walk'.shown[Len(walk'.shown)] = leaf[Len(leaf)]
        <4>1. /\ Len(walk'.shown) = Len(walk.shown) + Len(leaf)
              /\ Len(walk.shown) \in Nat
              /\ \A i \in 1..Len(walk'.shown) :
                    walk'.shown[i] = IF i <= Len(walk.shown) THEN walk.shown[i]
                                     ELSE leaf[i - Len(walk.shown)]
          BY <1>2, <2>9, <2>10, SeenAfterPage
        <4>2. /\ Len(walk'.shown) \in 1..Len(walk'.shown)
              /\ ~ (Len(walk'.shown) <= Len(walk.shown))
              /\ Len(walk'.shown) - Len(walk.shown) = Len(leaf)
          BY <2>9, <3>2, <4>1
        <4>3. QED
          BY <4>1, <4>2
      <3>4. leaf[Len(leaf)] \in Seen(leaf) /\ leaf[Len(leaf)] \in rows
        BY <2>9, <3>2 DEF Seen
      <3>5. R(leaf[Len(leaf)]) < R(n)
        <4>1. /\ R(leaf[Len(leaf)]) < cut.limit /\ R(leaf[Len(leaf)]) \in Nat
              /\ R(n) \in Nat /\ ~ (R(n) < cut.limit)
          BY <2>4, <2>8, <3>1, <3>4
        <4>2. QED
          BY <2>7, <4>1
      <3>6. QED
        BY <2>8, <3>1, <3>3, <3>4, <3>5
    <2>18. ByCursor(endpoint, key, inserted, walk', history')
      BY <2>10, <2>13, <2>14, <2>16, <2>17 DEF ByCursor
    <2>19. QED
      BY <1>1, <2>10, <2>12, <2>18 DEF ListInv
  <1>6. QED
    BY Zenon, <1>4, <1>5 DEF Pages!FetchPage

\* Property: a reader who has turned all pages has seen every row that was there all along,
\* unless rows moved or were tied, or a new one slipped in ahead between a count and its page
\* (api/utils/http.ts, the paginated routes and usePagination.ts).  Of a list that did not change
\* he saw each row once and in order, and of offers and holders whatever became of the others.
THEOREM PagesMissNothing ==
  ASSUME PagesHoldRows
  PROVE  Pages!Spec => []WalkIsComplete
  <1>1. Pages!Init => ListInv
    <2>1. SUFFICES ASSUME Pages!Init PROVE ListInv
      OBVIOUS
    <2>2. /\ walk.pc = "new" /\ walk.shown = << >> /\ walk \in WalkRecord
      BY <2>1 DEF Pages!Init, WalkRecord, Moment, Question, Rows
    <2>3. /\ history.stayed = {} /\ history \in HistoryRecord
          /\ endpoint \in Pages!Endpoints /\ there = {} /\ inserted = 0
          /\ key \in [1..MaxRows -> Nat]
      BY <2>1 DEF Pages!Init, HistoryRecord
    <2>4. ListTypes
      BY <2>2, <2>3 DEF ListTypes, PagesHoldRows
    <2>5. KeysInOrder(endpoint, key, inserted)
      BY <2>3 DEF KeysInOrder
    <2>6. ByCursor(endpoint, key, inserted, walk, history)
      BY <2>2 DEF ByCursor, Seen, InOrder
    <2>7. ByNumber(endpoint, key, there, walk, history)
      BY <2>2 DEF ByNumber
    <2>8. QED
      BY <2>2, <2>4, <2>5, <2>6, <2>7 DEF ListInv
  <1>2. ListInv /\ [Pages!Next]_(Pages!vars) => ListInv'
    <2>1. SUFFICES ASSUME ListInv, [Pages!Next]_(Pages!vars) PROVE ListInv'
      OBVIOUS
    <2>2. CASE Pages!Insert
      BY <2>1, <2>2, InsertStep
    <2>3. CASE Pages!Open
      BY <2>1, <2>3, OpenStep
    <2>4. CASE Pages!Select
      BY <2>1, <2>4, SelectStep
    <2>5. CASE Pages!AskNext
      BY <2>1, <2>5, AskNextStep
    <2>6. CASE Pages!FetchPage
      BY <2>1, <2>6, FetchPageStep
    <2>7. ASSUME NEW n \in 1..inserted, Pages!LeaveOrReturn(n) PROVE ListInv'
      BY <2>1, <2>7, LeaveOrReturnStep
    <2>8. ASSUME NEW n \in 1..inserted, Pages!Rescore(n) PROVE ListInv'
      BY <2>1, <2>8, RescoreStep
    <2>9. CASE UNCHANGED Pages!vars
      <3>1. UNCHANGED <<endpoint, key, there, inserted, walk, history>>
        BY <2>9 DEF Pages!vars
      <3>2. ListTypes'
        BY <2>1, <3>1 DEF ListInv, ListTypes
      <3>3. QED
        BY <2>1, <3>1, <3>2 DEF ListInv
    <2>10. QED
      BY Zenon, <2>1, <2>2, <2>3, <2>4, <2>5, <2>6, <2>7, <2>8, <2>9 DEF Pages!Next
  <1>3. ListInv => WalkIsComplete
    <2>1. SUFFICES ASSUME ListInv, walk.pc = "done"
                   PROVE  Pages!WalkIsComplete
      BY DEF WalkIsComplete, Pages!WalkIsComplete
    <2>2. Pages!ToSet(walk.shown) = Seen(walk.shown)
      BY DEF Pages!ToSet, Seen
    <2>3. \A m, n : Pages!Precedes(m, n) <=> Before(endpoint, key, m, n)
      BY DEF Pages!Precedes, Before
    <2>4. CASE endpoint.cursor
      <3>1. history.stayed \subseteq Seen(walk.shown) /\ InOrder(endpoint, key, walk.shown)
        BY <2>1, <2>4 DEF ListInv, ByCursor
      <3>2. QED
        BY <2>2, <2>3, <3>1 DEF Pages!WalkIsComplete, InOrder
    <2>5. CASE ~endpoint.cursor
      <3>1. /\ Calm(endpoint, history.happened) => history.stayed \subseteq Seen(walk.shown)
            /\ history.happened = {} => InOrder(endpoint, key, walk.shown)
        BY <2>1, <2>5 DEF ListInv, ByNumber
      <3>2. QED
        BY <2>2, <2>3, <2>5, <3>1 DEF Pages!WalkIsComplete, InOrder, Calm
    <2>6. QED
      BY <2>4, <2>5
  <1>4. QED
    BY <1>1, <1>2, <1>3, PTL DEF Pages!Spec

-----------------------------------------------------------------------------
(* Requests: a rule, a value *)

\* A field is taken once it is trimmed, where it is.
Taken(rule, v) == (IF rule.trims THEN Shapes!Trimmed(v) ELSE v) \in rule.takes

Says(rule, trims, takes) == rule.trims = trims /\ rule.takes = takes

\* A form trims what the server trims, and takes what the server takes.
Milder(form, server) ==
  /\ form.trims = server.trims
  /\ \A v : Taken(server, v) => Taken(form, v)

LEMMA RuleSays == \A trims, takes : Says(Shapes!Rule(trims, takes), trims, takes)
  BY DEF Shapes!Rule, Says

LEMMA OptionalSays ==
  \A trims, takes :
     Says(Shapes!Optional(Shapes!Rule(trims, takes)), trims, takes \cup {"absent"})
  BY DEF Shapes!Optional, Shapes!Rule, Shapes!Absent, Says

LEMMA RulesOfServer ==
  /\ Says(Shapes!ServerKey, TRUE, {"good"})
  /\ Says(Shapes!ServerCode, TRUE, {"good", "XLM"})
  /\ Says(Shapes!ServerAmount, TRUE, {"good", "tooLarge"})
  /\ Says(Shapes!ServerMemo, TRUE, {"absent", "empty", "good", "hash"})
  /\ Says(Shapes!ServerName, TRUE, {"good"})
  /\ Says(Shapes!ServerText, TRUE, {"good", "empty", "absent"})
  /\ Says(Shapes!ServerRole, FALSE, {"good"})
  /\ Says(Shapes!LoanAmount, TRUE, {"good", "leadingZero", "tooLarge"})
  /\ Says(Shapes!LoanRate, FALSE, {"good", "absent"})
  /\ Says(Shapes!ServerBorrower, TRUE, {"good", "lender"})
  /\ Says(Shapes!TokenKey, FALSE, {"good", "badChecksum"})
  /\ Says(Shapes!TokenCode, FALSE, {"good", "XLM"})
  /\ Says(Shapes!TokenMemo, TRUE, {"absent", "empty", "good", "wide"})
  /\ Says(Shapes!Settings, FALSE, {"good", "absent"})
  <1>1. Says(Shapes!ServerKey, TRUE, {"good"})
    BY RuleSays DEF Shapes!ServerKey
  <1>2. Says(Shapes!ServerCode, TRUE, {"good", "XLM"})
    BY RuleSays DEF Shapes!ServerCode
  <1>3. Says(Shapes!ServerAmount, TRUE, {"good", "tooLarge"})
    BY RuleSays DEF Shapes!ServerAmount
  <1>4. Says(Shapes!ServerMemo, TRUE, {"absent", "empty", "good", "hash"})
    BY RuleSays DEF Shapes!ServerMemo
  <1>5. Says(Shapes!ServerName, TRUE, {"good"})
    BY RuleSays DEF Shapes!ServerName
  <1>6. Says(Shapes!ServerText, TRUE, {"good", "empty", "absent"})
    <2>1. Shapes!ServerText = Shapes!Optional(Shapes!Rule(TRUE, {"good", "empty"}))
      BY DEF Shapes!ServerText
    <2>2. {"good", "empty", "absent"} = {"good", "empty"} \cup {"absent"}
      OBVIOUS
    <2>3. QED
      BY Zenon, <2>1, <2>2, OptionalSays
  <1>7. Says(Shapes!ServerRole, FALSE, {"good"})
    BY RuleSays DEF Shapes!ServerRole
  <1>8. Says(Shapes!LoanAmount, TRUE, {"good", "leadingZero", "tooLarge"})
    BY RuleSays DEF Shapes!LoanAmount
  <1>9. Says(Shapes!LoanRate, FALSE, {"good", "absent"})
    <2>1. Shapes!LoanRate = Shapes!Optional(Shapes!Rule(FALSE, {"good"}))
      BY DEF Shapes!LoanRate
    <2>2. {"good", "absent"} = {"good"} \cup {"absent"}
      OBVIOUS
    <2>3. QED
      BY Zenon, <2>1, <2>2, OptionalSays
  <1>9a. Says(Shapes!ServerBorrower, TRUE, {"good", "lender"})
    BY RuleSays DEF Shapes!ServerBorrower
  <1>10. Says(Shapes!TokenKey, FALSE, {"good", "badChecksum"})
    BY RuleSays DEF Shapes!TokenKey
  <1>11. Says(Shapes!TokenCode, FALSE, {"good", "XLM"})
    BY RuleSays DEF Shapes!TokenCode
  <1>12. Says(Shapes!TokenMemo, TRUE, {"absent", "empty", "good", "wide"})
    BY RuleSays DEF Shapes!TokenMemo
  <1>13. Says(Shapes!Settings, FALSE, {"good", "absent"})
    <2>1. Shapes!Settings = Shapes!Optional(Shapes!Rule(FALSE, {"good"}))
      BY DEF Shapes!Settings
    <2>2. {"good", "absent"} = {"good"} \cup {"absent"}
      OBVIOUS
    <2>3. QED
      BY Zenon, <2>1, <2>2, OptionalSays
  <1>14. QED
    BY Zenon, <1>1, <1>2, <1>3, <1>4, <1>5, <1>6, <1>7, <1>8, <1>9, <1>9a, <1>10, <1>11, <1>12,
       <1>13

LEMMA RulesOfForms ==
  /\ Says(Shapes!FormKey, TRUE, {"good", "badChecksum"})
  /\ Says(Shapes!FormCode, TRUE, {"good", "XLM"})
  /\ Says(Shapes!FormAmount, TRUE, {"good", "leadingZero", "tooLarge"})
  /\ Says(Shapes!FormMemo, TRUE, {"absent", "empty", "good", "hash"})
  /\ Says(Shapes!FormName, TRUE, {"good"})
  /\ Says(Shapes!FormText, TRUE, {"good", "empty", "absent"})
  /\ Says(Shapes!FormRole, FALSE, {"good"})
  /\ Says(Shapes!FormUrl, FALSE, {"good"})
  /\ Says(Shapes!FormBorrower, TRUE, {"good", "badChecksum", "lender"})
  /\ Says(Shapes!TypedBorrower, TRUE, {"good", "badChecksum"})
  /\ Says(Shapes!TypedAmount, FALSE, {"good", "leadingZero", "tooLarge"})
  /\ Says(Shapes!TypedRate, FALSE, {"good", "absent"})
  /\ Says(Shapes!Unasked, FALSE, Shapes!Keys \cup Shapes!Codes \cup {"absent"})
  <1>1. Says(Shapes!FormKey, TRUE, {"good", "badChecksum"})
    BY RuleSays DEF Shapes!FormKey
  <1>2. Says(Shapes!FormCode, TRUE, {"good", "XLM"})
    BY RuleSays DEF Shapes!FormCode
  <1>3. Says(Shapes!FormAmount, TRUE, {"good", "leadingZero", "tooLarge"})
    BY RuleSays DEF Shapes!FormAmount
  <1>4. Says(Shapes!FormMemo, TRUE, {"absent", "empty", "good", "hash"})
    BY RuleSays DEF Shapes!FormMemo
  <1>5. Says(Shapes!FormName, TRUE, {"good"})
    BY RuleSays DEF Shapes!FormName
  <1>6. Says(Shapes!FormText, TRUE, {"good", "empty", "absent"})
    <2>1. Shapes!FormText = Shapes!Optional(Shapes!Rule(TRUE, {"good", "empty"}))
      BY DEF Shapes!FormText
    <2>2. {"good", "empty", "absent"} = {"good", "empty"} \cup {"absent"}
      OBVIOUS
    <2>3. QED
      BY Zenon, <2>1, <2>2, OptionalSays
  <1>7. Says(Shapes!FormRole, FALSE, {"good"})
    BY RuleSays DEF Shapes!FormRole
  <1>8. Says(Shapes!FormUrl, FALSE, {"good"})
    BY RuleSays DEF Shapes!FormUrl
  <1>8a. Says(Shapes!FormBorrower, TRUE, {"good", "badChecksum", "lender"})
    BY RuleSays DEF Shapes!FormBorrower
  <1>9. Says(Shapes!TypedBorrower, TRUE, {"good", "badChecksum"})
    BY RuleSays DEF Shapes!TypedBorrower
  <1>10. Says(Shapes!TypedAmount, FALSE, {"good", "leadingZero", "tooLarge"})
    BY RuleSays DEF Shapes!TypedAmount
  <1>11. Says(Shapes!TypedRate, FALSE, {"good", "absent"})
    <2>1. Shapes!TypedRate = Shapes!Optional(Shapes!Rule(FALSE, {"good"}))
      BY DEF Shapes!TypedRate
    <2>2. {"good", "absent"} = {"good"} \cup {"absent"}
      OBVIOUS
    <2>3. QED
      BY Zenon, <2>1, <2>2, OptionalSays
  <1>12. Says(Shapes!Unasked, FALSE, Shapes!Keys \cup Shapes!Codes \cup {"absent"})
    BY RuleSays DEF Shapes!Unasked, Shapes!Absent
  <1>13. QED
    BY Zenon, <1>1, <1>2, <1>3, <1>4, <1>5, <1>6, <1>7, <1>8, <1>8a, <1>9, <1>10, <1>11, <1>12

-----------------------------------------------------------------------------
(* Requests: a form beside the server's schema *)

\* The forms of lib/schemas.ts that take whatever the server takes.
Schemas == {"payment", "trustline", "community", "update", "member", "role", "loan"}

LEMMA MilderSays ==
  \A t \in BOOLEAN : \A form, server, few, more :
     Says(form, t, more) /\ Says(server, t, few) /\ few \subseteq more => Milder(form, server)
  BY DEF Says, Milder, Taken

LEMMA RulesAreMilder ==
  /\ Milder(Shapes!FormKey, Shapes!ServerKey)
  /\ Milder(Shapes!FormBorrower, Shapes!ServerBorrower)
  /\ Milder(Shapes!FormCode, Shapes!ServerCode)
  /\ Milder(Shapes!FormAmount, Shapes!ServerAmount)
  /\ Milder(Shapes!FormAmount, Shapes!LoanAmount)
  /\ Milder(Shapes!FormMemo, Shapes!ServerMemo)
  /\ Milder(Shapes!FormName, Shapes!ServerName)
  /\ Milder(Shapes!FormText, Shapes!ServerText)
  /\ Milder(Shapes!FormRole, Shapes!ServerRole)
  /\ Milder(Shapes!Settings, Shapes!Settings)
  <1>1. TRUE \in BOOLEAN /\ FALSE \in BOOLEAN
    OBVIOUS
  <1>2. Milder(Shapes!FormKey, Shapes!ServerKey)
    BY <1>1, RulesOfForms, RulesOfServer, MilderSays
  <1>2a. Milder(Shapes!FormBorrower, Shapes!ServerBorrower)
    BY <1>1, RulesOfForms, RulesOfServer, MilderSays
  <1>3. Milder(Shapes!FormCode, Shapes!ServerCode)
    BY <1>1, RulesOfForms, RulesOfServer, MilderSays
  <1>4. Milder(Shapes!FormAmount, Shapes!ServerAmount)
    BY <1>1, RulesOfForms, RulesOfServer, MilderSays
  <1>5. Milder(Shapes!FormAmount, Shapes!LoanAmount)
    BY <1>1, RulesOfForms, RulesOfServer, MilderSays
  <1>6. Milder(Shapes!FormMemo, Shapes!ServerMemo)
    BY <1>1, RulesOfForms, RulesOfServer, MilderSays
  <1>7. Milder(Shapes!FormName, Shapes!ServerName)
    BY <1>1, RulesOfForms, RulesOfServer, MilderSays
  <1>8. Milder(Shapes!FormText, Shapes!ServerText)
    BY <1>1, RulesOfForms, RulesOfServer, MilderSays
  <1>9. Milder(Shapes!FormRole, Shapes!ServerRole)
    BY <1>1, RulesOfForms, RulesOfServer, MilderSays
  <1>10. Milder(Shapes!Settings, Shapes!Settings)
    BY <1>1, RulesOfServer, MilderSays
  <1>11. QED
    BY Zenon, <1>2, <1>2a, <1>3, <1>4, <1>5, <1>6, <1>7, <1>8, <1>9, <1>10

LEMMA OptionalMilder ==
  \A t \in BOOLEAN : \A few, more :
     few \subseteq more =>
        Milder(Shapes!Optional(Shapes!Rule(t, more)), Shapes!Optional(Shapes!Rule(t, few)))
  <1>1. SUFFICES ASSUME NEW t \in BOOLEAN, NEW few, NEW more, few \subseteq more
                 PROVE  Milder(Shapes!Optional(Shapes!Rule(t, more)), Shapes!Optional(Shapes!Rule(t, few)))
    OBVIOUS
  <1>2. /\ Says(Shapes!Optional(Shapes!Rule(t, more)), t, more \cup {"absent"})
        /\ Says(Shapes!Optional(Shapes!Rule(t, few)), t, few \cup {"absent"})
    BY Zenon, OptionalSays
  <1>3. few \cup {"absent"} \subseteq more \cup {"absent"}
    BY <1>1
  <1>4. QED
    BY Zenon, <1>2, <1>3, MilderSays

LEMMA OptionalAreMilder ==
  /\ Milder(Shapes!Optional(Shapes!FormKey), Shapes!Optional(Shapes!ServerKey))
  /\ Milder(Shapes!Optional(Shapes!FormAmount), Shapes!Optional(Shapes!ServerAmount))
  /\ Milder(Shapes!Optional(Shapes!FormName), Shapes!Optional(Shapes!ServerName))
  /\ Milder(Shapes!Optional(Shapes!FormRole), Shapes!Optional(Shapes!ServerRole))
  <1>1. TRUE \in BOOLEAN /\ FALSE \in BOOLEAN
    OBVIOUS
  <1>2. Milder(Shapes!Optional(Shapes!FormKey), Shapes!Optional(Shapes!ServerKey))
    <2>1. {"good"} \subseteq {"good", "badChecksum"}
      OBVIOUS
    <2>2. QED
      BY Zenon, <1>1, <2>1, OptionalMilder DEF Shapes!FormKey, Shapes!ServerKey
  <1>3. Milder(Shapes!Optional(Shapes!FormAmount), Shapes!Optional(Shapes!ServerAmount))
    <2>1. {"good", "tooLarge"} \subseteq {"good", "leadingZero", "tooLarge"}
      OBVIOUS
    <2>2. QED
      BY Zenon, <1>1, <2>1, OptionalMilder DEF Shapes!FormAmount, Shapes!ServerAmount
  <1>4. Milder(Shapes!Optional(Shapes!FormName), Shapes!Optional(Shapes!ServerName))
    <2>1. {"good"} \subseteq {"good"}
      OBVIOUS
    <2>2. QED
      BY Zenon, <1>1, <2>1, OptionalMilder DEF Shapes!FormName, Shapes!ServerName
  <1>5. Milder(Shapes!Optional(Shapes!FormRole), Shapes!Optional(Shapes!ServerRole))
    <2>1. {"good"} \subseteq {"good"}
      OBVIOUS
    <2>2. QED
      BY Zenon, <1>1, <2>1, OptionalMilder DEF Shapes!FormRole, Shapes!ServerRole
  <1>6. QED
    BY <1>2, <1>3, <1>4, <1>5

LEMMA SchemasAreMilder ==
  \A k \in Schemas : \A f \in DOMAIN Shapes!Server[k] :
     Milder(Shapes!Form[k][f], Shapes!Server[k][f])
  <1>1. \A f \in DOMAIN Shapes!Server["payment"] :
           Milder(Shapes!Form["payment"][f], Shapes!Server["payment"][f])
    <2>1. /\ Shapes!Server["payment"] = Shapes!ServerPayment
          /\ Shapes!Form["payment"] = Shapes!FormPayment
      BY DEF Shapes!Server, Shapes!Form
    <2>2. QED
      BY <2>1, RulesAreMilder, OptionalAreMilder DEF Shapes!ServerPayment, Shapes!FormPayment
  <1>2. \A f \in DOMAIN Shapes!Server["trustline"] :
           Milder(Shapes!Form["trustline"][f], Shapes!Server["trustline"][f])
    <2>1. /\ Shapes!Server["trustline"] = Shapes!ServerTrustline
          /\ Shapes!Form["trustline"] = Shapes!FormTrustline
      BY DEF Shapes!Server, Shapes!Form
    <2>2. QED
      BY <2>1, RulesAreMilder, OptionalAreMilder DEF Shapes!ServerTrustline, Shapes!FormTrustline
  <1>3. \A f \in DOMAIN Shapes!Server["community"] :
           Milder(Shapes!Form["community"][f], Shapes!Server["community"][f])
    <2>1. /\ Shapes!Server["community"] = Shapes!ServerCommunity
          /\ Shapes!Form["community"] = Shapes!FormCommunity
      BY DEF Shapes!Server, Shapes!Form
    <2>2. QED
      BY <2>1, RulesAreMilder, OptionalAreMilder DEF Shapes!ServerCommunity, Shapes!FormCommunity
  <1>4. \A f \in DOMAIN Shapes!Server["update"] :
           Milder(Shapes!Form["update"][f], Shapes!Server["update"][f])
    <2>1. /\ Shapes!Server["update"] = Shapes!ServerUpdate
          /\ Shapes!Form["update"] = Shapes!FormUpdate
      BY DEF Shapes!Server, Shapes!Form
    <2>2. QED
      BY <2>1, RulesAreMilder, OptionalAreMilder DEF Shapes!ServerUpdate, Shapes!FormUpdate
  <1>5. \A f \in DOMAIN Shapes!Server["member"] :
           Milder(Shapes!Form["member"][f], Shapes!Server["member"][f])
    <2>1. /\ Shapes!Server["member"] = Shapes!ServerMember
          /\ Shapes!Form["member"] = Shapes!FormMember
      BY DEF Shapes!Server, Shapes!Form
    <2>2. QED
      BY <2>1, RulesAreMilder, OptionalAreMilder DEF Shapes!ServerMember, Shapes!FormMember
  <1>6. \A f \in DOMAIN Shapes!Server["role"] :
           Milder(Shapes!Form["role"][f], Shapes!Server["role"][f])
    <2>1. /\ Shapes!Server["role"] = Shapes!ServerSetRole
          /\ Shapes!Form["role"] = Shapes!FormSetRole
      BY DEF Shapes!Server, Shapes!Form
    <2>2. QED
      BY <2>1, RulesAreMilder DEF Shapes!ServerSetRole, Shapes!FormSetRole
  <1>7. \A f \in DOMAIN Shapes!Server["loan"] :
           Milder(Shapes!Form["loan"][f], Shapes!Server["loan"][f])
    <2>1. /\ Shapes!Server["loan"] = Shapes!ServerLoan
          /\ Shapes!Form["loan"] = Shapes!FormLoan
      BY DEF Shapes!Server, Shapes!Form
    <2>2. QED
      BY <2>1, RulesAreMilder, OptionalAreMilder DEF Shapes!ServerLoan, Shapes!FormLoan
  <1>8. QED
    BY Zenon, <1>1, <1>2, <1>3, <1>4, <1>5, <1>6, <1>7 DEF Schemas

\* An avatar without https is what the form refuses.
LEMMA AvatarForm ==
  /\ ~Shapes!Form["avatar"]["url"].trims
  /\ Shapes!Server["avatar"]["url"].trims
  /\ DOMAIN Shapes!Server["avatar"] = {"url"}
  /\ \A v \in Shapes!Urls \ {"http"} :
        Taken(Shapes!Server["avatar"]["url"], v) => Taken(Shapes!Form["avatar"]["url"], v)
  <1>1. /\ Shapes!Server["avatar"] = Shapes!ServerAvatar
        /\ Shapes!Form["avatar"] = Shapes!FormAvatar
    BY DEF Shapes!Server, Shapes!Form
  <1>2. /\ Shapes!ServerAvatar.url = Shapes!Rule(TRUE, {"good", "http"})
        /\ DOMAIN Shapes!ServerAvatar = {"url"} /\ Shapes!FormAvatar.url = Shapes!FormUrl
    BY DEF Shapes!ServerAvatar, Shapes!FormAvatar
  <1>3. /\ Shapes!Rule(TRUE, {"good", "http"}).trims = TRUE
        /\ Shapes!Rule(TRUE, {"good", "http"}).takes = {"good", "http"}
    BY DEF Shapes!Rule
  <1>4. Says(Shapes!FormUrl, FALSE, {"good"})
    BY RulesOfForms
  <1>5. QED
    BY <1>1, <1>2, <1>3, <1>4 DEF Says, Taken, Shapes!Urls, Shapes!Trimmed

\* Blanks around an amount and the lender as borrower are what the loan forms refuse.
Refused(f) ==
  IF f = "amount" THEN {"padded"} ELSE IF f = "borrower" THEN {"lender"} ELSE {}

Stricter(form, server, but) ==
  /\ form.trims => server.trims
  /\ \A v : v \notin but /\ Taken(server, v) => Taken(form, v)

LEMMA LoanForms ==
  \A k \in {"originate", "repay"} : \A f \in DOMAIN Shapes!Server[k] :
     Stricter(Shapes!Form[k][f], Shapes!Server[k][f], Refused(f))
  <1>1. /\ Stricter(Shapes!TypedBorrower, Shapes!ServerBorrower, {"lender"})
        /\ Stricter(Shapes!TypedAmount, Shapes!LoanAmount, {"padded"})
        /\ Stricter(Shapes!TypedRate, Shapes!LoanRate, {})
    <2>1. Stricter(Shapes!TypedBorrower, Shapes!ServerBorrower, {"lender"})
      BY RulesOfForms, RulesOfServer DEF Says, Stricter, Taken, Shapes!Trimmed
    <2>2. Stricter(Shapes!TypedAmount, Shapes!LoanAmount, {"padded"})
      BY RulesOfForms, RulesOfServer DEF Says, Stricter, Taken, Shapes!Trimmed
    <2>3. Stricter(Shapes!TypedRate, Shapes!LoanRate, {})
      BY RulesOfForms, RulesOfServer DEF Says, Stricter, Taken, Shapes!Trimmed
    <2>4. QED
      BY <2>1, <2>2, <2>3
  <1>2. /\ Stricter(Shapes!Unasked, Shapes!ServerKey, {})
        /\ Stricter(Shapes!Unasked, Shapes!ServerCode, {})
        /\ Stricter(Shapes!Unasked, Shapes!Optional(Shapes!ServerKey), {})
    <2>1. Says(Shapes!Unasked, FALSE, Shapes!Keys \cup Shapes!Codes \cup {"absent"})
      BY RulesOfForms
    <2>2. /\ Says(Shapes!ServerKey, TRUE, {"good"})
          /\ Says(Shapes!ServerCode, TRUE, {"good", "XLM"})
      BY RulesOfServer
    <2>3. Says(Shapes!Optional(Shapes!ServerKey), TRUE, {"good"} \cup {"absent"})
      BY OptionalSays DEF Shapes!ServerKey
    <2>4. Stricter(Shapes!Unasked, Shapes!ServerKey, {})
      BY <2>1, <2>2 DEF Says, Stricter, Taken, Shapes!Trimmed, Shapes!Keys, Shapes!Codes
    <2>5. Stricter(Shapes!Unasked, Shapes!ServerCode, {})
      BY <2>1, <2>2 DEF Says, Stricter, Taken, Shapes!Trimmed, Shapes!Keys, Shapes!Codes
    <2>6. Stricter(Shapes!Unasked, Shapes!Optional(Shapes!ServerKey), {})
      BY <2>1, <2>3 DEF Says, Stricter, Taken, Shapes!Trimmed, Shapes!Keys, Shapes!Codes
    <2>7. QED
      BY <2>4, <2>5, <2>6
  <1>3. Stricter(Shapes!Optional(Shapes!Rule(TRUE, Shapes!Texts)), Shapes!ServerText, {})
    <2>1. /\ Says(Shapes!Optional(Shapes!Rule(TRUE, Shapes!Texts)), TRUE, Shapes!Texts \cup {"absent"})
          /\ Says(Shapes!ServerText, TRUE, {"good", "empty", "absent"})
      BY OptionalSays, RulesOfServer
    <2>2. QED
      BY <2>1 DEF Says, Stricter, Taken, Shapes!Texts
  <1>4. \A f \in DOMAIN Shapes!Server["originate"] :
           Stricter(Shapes!Form["originate"][f], Shapes!Server["originate"][f], Refused(f))
    <2>1. /\ Shapes!Server["originate"] = Shapes!ServerOriginate
          /\ Shapes!Form["originate"] = Shapes!OriginateForm
      BY DEF Shapes!Server, Shapes!Form
    <2>2. DOMAIN Shapes!ServerOriginate =
             {"borrower", "lender", "amount", "code", "issuer", "purpose", "rate"}
      BY DEF Shapes!ServerOriginate
    <2>3. /\ Stricter(Shapes!OriginateForm["borrower"], Shapes!ServerOriginate["borrower"], {"lender"})
          /\ Stricter(Shapes!OriginateForm["amount"], Shapes!ServerOriginate["amount"], {"padded"})
          /\ Stricter(Shapes!OriginateForm["rate"], Shapes!ServerOriginate["rate"], {})
      BY <1>1 DEF Shapes!ServerOriginate, Shapes!OriginateForm
    <2>4. /\ Stricter(Shapes!OriginateForm["lender"], Shapes!ServerOriginate["lender"], {})
          /\ Stricter(Shapes!OriginateForm["code"], Shapes!ServerOriginate["code"], {})
          /\ Stricter(Shapes!OriginateForm["issuer"], Shapes!ServerOriginate["issuer"], {})
      BY <1>2 DEF Shapes!ServerOriginate, Shapes!OriginateForm
    <2>5. Stricter(Shapes!OriginateForm["purpose"], Shapes!ServerOriginate["purpose"], {})
      BY <1>3 DEF Shapes!ServerOriginate, Shapes!OriginateForm
    <2>6. \A f \in DOMAIN Shapes!ServerOriginate :
             Stricter(Shapes!OriginateForm[f], Shapes!ServerOriginate[f], Refused(f))
      BY <2>2, <2>3, <2>4, <2>5 DEF Refused
    <2>7. QED
      BY Zenon, <2>1, <2>6
  <1>5. \A f \in DOMAIN Shapes!Server["repay"] :
           Stricter(Shapes!Form["repay"][f], Shapes!Server["repay"][f], Refused(f))
    <2>1. /\ Shapes!Server["repay"] = Shapes!ServerRepay
          /\ Shapes!Form["repay"] = Shapes!RepayForm
      BY DEF Shapes!Server, Shapes!Form
    <2>2. QED
      BY <1>1, <2>1 DEF Shapes!ServerRepay, Shapes!RepayForm, Refused
  <1>6. QED
    BY <1>4, <1>5

-----------------------------------------------------------------------------
(* Requests: what is built *)

\* What the server takes and the builder does not.
Unbuildable(k, f, v) ==
  \/ v = "tooLarge"
  \/ k \in {"issue", "airdrop"} /\ f = "memo" /\ v = "wide"
  \/ k \in {"issue", "burn", "tokenTrustline"} /\ v = "badChecksum"

\* Nothing is trimmed any more, and what is taken is of these.
Fits(built, server, odd) ==
  /\ ~built.trims
  /\ server.takes \subseteq built.takes \cup odd

LEMMA RulesOfBuilders ==
  /\ Says(Shapes!BuiltKey, FALSE, {"good"})
  /\ Says(Shapes!BuiltCode, FALSE, {"good", "XLM"})
  /\ Says(Shapes!BuiltAmount, FALSE, {"good", "leadingZero"})
  /\ Says(Shapes!BatchAmount, FALSE, {"good"})
  /\ Says(Shapes!BuiltMemo, FALSE, {"absent", "empty", "good", "hash"})
  BY Zenon, RuleSays DEF Shapes!BuiltKey, Shapes!BuiltCode, Shapes!BuiltAmount, Shapes!BatchAmount,
     Shapes!BuiltMemo

LEMMA BuildersFit ==
  /\ Fits(Shapes!BuiltKey, Shapes!ServerKey, {})
  /\ Fits(Shapes!BuiltKey, Shapes!TokenKey, {"badChecksum"})
  /\ Fits(Shapes!BuiltCode, Shapes!ServerCode, {})
  /\ Fits(Shapes!BuiltCode, Shapes!TokenCode, {})
  /\ Fits(Shapes!BuiltAmount, Shapes!ServerAmount, {"tooLarge"})
  /\ Fits(Shapes!BatchAmount, Shapes!ServerAmount, {"tooLarge"})
  /\ Fits(Shapes!BuiltMemo, Shapes!ServerMemo, {})
  /\ Fits(Shapes!BuiltMemo, Shapes!TokenMemo, {"wide"})
  <1>1. Fits(Shapes!BuiltKey, Shapes!ServerKey, {})
    BY RulesOfBuilders, RulesOfServer DEF Says, Fits
  <1>2. Fits(Shapes!BuiltKey, Shapes!TokenKey, {"badChecksum"})
    BY RulesOfBuilders, RulesOfServer DEF Says, Fits
  <1>3. Fits(Shapes!BuiltCode, Shapes!ServerCode, {})
    BY RulesOfBuilders, RulesOfServer DEF Says, Fits
  <1>4. Fits(Shapes!BuiltCode, Shapes!TokenCode, {})
    BY RulesOfBuilders, RulesOfServer DEF Says, Fits
  <1>5. Fits(Shapes!BuiltAmount, Shapes!ServerAmount, {"tooLarge"})
    BY RulesOfBuilders, RulesOfServer DEF Says, Fits
  <1>6. Fits(Shapes!BatchAmount, Shapes!ServerAmount, {"tooLarge"})
    BY RulesOfBuilders, RulesOfServer DEF Says, Fits
  <1>7. Fits(Shapes!BuiltMemo, Shapes!ServerMemo, {})
    BY RulesOfBuilders, RulesOfServer DEF Says, Fits
  <1>8. Fits(Shapes!BuiltMemo, Shapes!TokenMemo, {"wide"})
    BY RulesOfBuilders, RulesOfServer DEF Says, Fits
  <1>9. QED
    BY Zenon, <1>1, <1>2, <1>3, <1>4, <1>5, <1>6, <1>7, <1>8

LEMMA OptionalFit ==
  /\ Fits(Shapes!Optional(Shapes!BuiltKey), Shapes!Optional(Shapes!ServerKey), {})
  /\ Fits(Shapes!Optional(Shapes!BuiltKey), Shapes!TokenKey, {"badChecksum"})
  /\ Fits(Shapes!Optional(Shapes!BuiltAmount), Shapes!Optional(Shapes!ServerAmount), {"tooLarge"})
  <1>1. /\ Says(Shapes!Optional(Shapes!BuiltKey), FALSE, {"good"} \cup {"absent"})
        /\ Says(Shapes!Optional(Shapes!ServerKey), TRUE, {"good"} \cup {"absent"})
    BY Zenon, OptionalSays DEF Shapes!BuiltKey, Shapes!ServerKey
  <1>2. /\ Says(Shapes!Optional(Shapes!BuiltAmount), FALSE, {"good", "leadingZero"} \cup {"absent"})
        /\ Says(Shapes!Optional(Shapes!ServerAmount), TRUE, {"good", "tooLarge"} \cup {"absent"})
    BY Zenon, OptionalSays DEF Shapes!BuiltAmount, Shapes!ServerAmount
  <1>3. Fits(Shapes!Optional(Shapes!BuiltKey), Shapes!Optional(Shapes!ServerKey), {})
    BY <1>1 DEF Says, Fits
  <1>4. Fits(Shapes!Optional(Shapes!BuiltAmount), Shapes!Optional(Shapes!ServerAmount), {"tooLarge"})
    BY <1>2 DEF Says, Fits
  <1>5. Fits(Shapes!Optional(Shapes!BuiltKey), Shapes!TokenKey, {"badChecksum"})
    BY <1>1, RulesOfServer DEF Says, Fits
  <1>6. QED
    BY <1>3, <1>4, <1>5

\* The fields of a kind and what may come so far that does not fit.
FitsBut(k, f) ==
  /\ ~Shapes!Builder[k][f].trims
  /\ \A v \in Shapes!Server[k][f].takes :
        v \in Shapes!Builder[k][f].takes \/ Unbuildable(k, f, v)

LEMMA WhatIsTakenFits ==
  \A k \in DOMAIN Shapes!Builder : \A f \in DOMAIN Shapes!Server[k] : FitsBut(k, f)
  <1>1. Fits(Shapes!BuiltKey, Shapes!Rule(FALSE, {"good"}), {})
    <2>1. Says(Shapes!Rule(FALSE, {"good"}), FALSE, {"good"})
      BY Zenon, RuleSays
    <2>2. QED
      BY <2>1, RulesOfBuilders DEF Says, Fits
  <1>2. \A f \in DOMAIN Shapes!Server["payment"] : FitsBut("payment", f)
    <2>1. /\ Shapes!Server["payment"] = Shapes!ServerPayment
          /\ Shapes!Builder["payment"] = Shapes!BuiltPayment
      BY DEF Shapes!Server, Shapes!Builder
    <2>2. \A f \in {"sender", "destination", "code", "issuer", "memo"} : Fits(Shapes!BuiltPayment[f], Shapes!ServerPayment[f], {})
      BY <1>1, BuildersFit, OptionalFit DEF Shapes!ServerPayment, Shapes!BuiltPayment
    <2>3. \A f \in {"amount"} : Fits(Shapes!BuiltPayment[f], Shapes!ServerPayment[f], {"tooLarge"})
      BY <1>1, BuildersFit, OptionalFit DEF Shapes!ServerPayment, Shapes!BuiltPayment
    <2>4. DOMAIN Shapes!ServerPayment = {"sender", "destination", "code", "issuer", "amount", "memo"}
      BY DEF Shapes!ServerPayment
    <2>5. QED
      BY <2>1, <2>2, <2>3, <2>4 DEF FitsBut, Fits, Unbuildable
  <1>3. \A f \in DOMAIN Shapes!Server["trustline"] : FitsBut("trustline", f)
    <2>1. /\ Shapes!Server["trustline"] = Shapes!ServerTrustline
          /\ Shapes!Builder["trustline"] = Shapes!BuiltTrustline
      BY DEF Shapes!Server, Shapes!Builder
    <2>2. \A f \in {"account", "code", "issuer"} : Fits(Shapes!BuiltTrustline[f], Shapes!ServerTrustline[f], {})
      BY <1>1, BuildersFit, OptionalFit DEF Shapes!ServerTrustline, Shapes!BuiltTrustline
    <2>3. \A f \in {"limit"} : Fits(Shapes!BuiltTrustline[f], Shapes!ServerTrustline[f], {"tooLarge"})
      BY <1>1, BuildersFit, OptionalFit DEF Shapes!ServerTrustline, Shapes!BuiltTrustline
    <2>4. DOMAIN Shapes!ServerTrustline = {"account", "code", "issuer", "limit"}
      BY DEF Shapes!ServerTrustline
    <2>5. QED
      BY <2>1, <2>2, <2>3, <2>4 DEF FitsBut, Fits, Unbuildable
  <1>4. \A f \in DOMAIN Shapes!Server["tokenTrustline"] : FitsBut("tokenTrustline", f)
    <2>1. /\ Shapes!Server["tokenTrustline"] = Shapes!TokenTrustline
          /\ Shapes!Builder["tokenTrustline"] = Shapes!BuiltTrustline
      BY DEF Shapes!Server, Shapes!Builder
    <2>2. \A f \in {"account", "issuer"} : Fits(Shapes!BuiltTrustline[f], Shapes!TokenTrustline[f], {"badChecksum"})
      BY <1>1, BuildersFit, OptionalFit DEF Shapes!TokenTrustline, Shapes!BuiltTrustline
    <2>3. \A f \in {"code"} : Fits(Shapes!BuiltTrustline[f], Shapes!TokenTrustline[f], {})
      BY <1>1, BuildersFit, OptionalFit DEF Shapes!TokenTrustline, Shapes!BuiltTrustline
    <2>4. \A f \in {"limit"} : Fits(Shapes!BuiltTrustline[f], Shapes!TokenTrustline[f], {"tooLarge"})
      BY <1>1, BuildersFit, OptionalFit DEF Shapes!TokenTrustline, Shapes!BuiltTrustline
    <2>5. DOMAIN Shapes!TokenTrustline = {"account", "code", "issuer", "limit"}
      BY DEF Shapes!TokenTrustline
    <2>6. QED
      BY <2>1, <2>2, <2>3, <2>4, <2>5 DEF FitsBut, Fits, Unbuildable
  <1>5. \A f \in DOMAIN Shapes!Server["issue"] : FitsBut("issue", f)
    <2>1. /\ Shapes!Server["issue"] = Shapes!TokenIssue
          /\ Shapes!Builder["issue"] = Shapes!BuiltPayment
      BY DEF Shapes!Server, Shapes!Builder
    <2>2. \A f \in {"sender", "destination"} : Fits(Shapes!BuiltPayment[f], Shapes!TokenIssue[f], {"badChecksum"})
      BY <1>1, BuildersFit, OptionalFit DEF Shapes!TokenIssue, Shapes!BuiltPayment
    <2>3. \A f \in {"code"} : Fits(Shapes!BuiltPayment[f], Shapes!TokenIssue[f], {})
      BY <1>1, BuildersFit, OptionalFit DEF Shapes!TokenIssue, Shapes!BuiltPayment
    <2>4. \A f \in {"amount"} : Fits(Shapes!BuiltPayment[f], Shapes!TokenIssue[f], {"tooLarge"})
      BY <1>1, BuildersFit, OptionalFit DEF Shapes!TokenIssue, Shapes!BuiltPayment
    <2>5. \A f \in {"memo"} : Fits(Shapes!BuiltPayment[f], Shapes!TokenIssue[f], {"wide"})
      BY <1>1, BuildersFit, OptionalFit DEF Shapes!TokenIssue, Shapes!BuiltPayment
    <2>6. DOMAIN Shapes!TokenIssue = {"sender", "destination", "code", "amount", "memo"}
      BY DEF Shapes!TokenIssue
    <2>7. QED
      BY <2>1, <2>2, <2>3, <2>4, <2>5, <2>6 DEF FitsBut, Fits, Unbuildable
  <1>6. \A f \in DOMAIN Shapes!Server["burn"] : FitsBut("burn", f)
    <2>1. /\ Shapes!Server["burn"] = Shapes!TokenBurn
          /\ Shapes!Builder["burn"] = Shapes!BuiltPayment
      BY DEF Shapes!Server, Shapes!Builder
    <2>2. \A f \in {"sender", "issuer"} : Fits(Shapes!BuiltPayment[f], Shapes!TokenBurn[f], {"badChecksum"})
      BY <1>1, BuildersFit, OptionalFit DEF Shapes!TokenBurn, Shapes!BuiltPayment
    <2>3. \A f \in {"code"} : Fits(Shapes!BuiltPayment[f], Shapes!TokenBurn[f], {})
      BY <1>1, BuildersFit, OptionalFit DEF Shapes!TokenBurn, Shapes!BuiltPayment
    <2>4. \A f \in {"amount"} : Fits(Shapes!BuiltPayment[f], Shapes!TokenBurn[f], {"tooLarge"})
      BY <1>1, BuildersFit, OptionalFit DEF Shapes!TokenBurn, Shapes!BuiltPayment
    <2>5. DOMAIN Shapes!TokenBurn = {"sender", "code", "issuer", "amount"}
      BY DEF Shapes!TokenBurn
    <2>6. QED
      BY <2>1, <2>2, <2>3, <2>4, <2>5 DEF FitsBut, Fits, Unbuildable
  <1>7. \A f \in DOMAIN Shapes!Server["airdrop"] : FitsBut("airdrop", f)
    <2>1. /\ Shapes!Server["airdrop"] = Shapes!TokenAirdrop
          /\ Shapes!Builder["airdrop"] = Shapes!BuiltBatch
      BY DEF Shapes!Server, Shapes!Builder
    <2>2. \A f \in {"sender"} : Fits(Shapes!BuiltBatch[f], Shapes!TokenAirdrop[f], {})
      <3>1. /\ Shapes!TokenAirdrop["sender"] = Shapes!Rule(FALSE, {"good"})
            /\ Shapes!BuiltBatch["sender"] = Shapes!BuiltKey
        BY DEF Shapes!TokenAirdrop, Shapes!BuiltBatch
      <3>2. QED
        BY Zenon, <1>1, <3>1
    <2>3. \A f \in {"amount"} : Fits(Shapes!BuiltBatch[f], Shapes!TokenAirdrop[f], {"tooLarge"})
      BY <1>1, BuildersFit, OptionalFit DEF Shapes!TokenAirdrop, Shapes!BuiltBatch
    <2>4. \A f \in {"memo"} : Fits(Shapes!BuiltBatch[f], Shapes!TokenAirdrop[f], {"wide"})
      BY <1>1, BuildersFit, OptionalFit DEF Shapes!TokenAirdrop, Shapes!BuiltBatch
    <2>5. DOMAIN Shapes!TokenAirdrop = {"sender", "amount", "memo"}
      BY DEF Shapes!TokenAirdrop
    <2>6. QED
      BY <2>1, <2>2, <2>3, <2>4, <2>5 DEF FitsBut, Fits, Unbuildable
  <1>8. DOMAIN Shapes!Builder = {"payment", "trustline", "tokenTrustline", "issue", "burn", "airdrop"}
    BY DEF Shapes!Builder
  <1>9. QED
    BY Zenon, <1>2, <1>3, <1>4, <1>5, <1>6, <1>7, <1>8

-----------------------------------------------------------------------------
(* Requests: from hand to hand *)

LEMMA PassesMeans ==
  \A rules, v :
     /\ Shapes!Passes(rules, v) <=> /\ \A f \in DOMAIN v : Taken(rules[f], v[f])
                                    /\ Shapes!Together(Shapes!Parsed(rules, v))
     /\ DOMAIN Shapes!Parsed(rules, v) = DOMAIN v
     /\ \A f \in DOMAIN v :
           Shapes!Parsed(rules, v)[f] = IF rules[f].trims THEN Shapes!Trimmed(v[f]) ELSE v[f]
  <1>1. SUFFICES ASSUME NEW rules, NEW v
                 PROVE  /\ Shapes!Passes(rules, v) <=>
                              /\ \A f \in DOMAIN v : Taken(rules[f], v[f])
                              /\ Shapes!Together(Shapes!Parsed(rules, v))
                        /\ DOMAIN Shapes!Parsed(rules, v) = DOMAIN v
                        /\ \A f \in DOMAIN v :
                              Shapes!Parsed(rules, v)[f] =
                                 IF rules[f].trims THEN Shapes!Trimmed(v[f]) ELSE v[f]
    OBVIOUS
  <1> DEFINE w == Shapes!Parsed(rules, v)
  <1>2. /\ DOMAIN w = DOMAIN v
        /\ \A f \in DOMAIN v : w[f] = IF rules[f].trims THEN Shapes!Trimmed(v[f]) ELSE v[f]
    BY Zenon DEF Shapes!Parsed
  <1>3. Shapes!Passes(rules, v) <=>
          (\A f \in DOMAIN w : w[f] \in rules[f].takes) /\ Shapes!Together(w)
    BY Zenon DEF Shapes!Passes
  <1> HIDE DEF w
  <1>4. \A f \in DOMAIN v : w[f] \in rules[f].takes <=> Taken(rules[f], v[f])
    BY <1>2 DEF Taken
  <1>5. QED
    BY <1>2, <1>3, <1>4 DEF w

\* Only what is paid and what is updated is looked at as a whole.
LEMMA TogetherElsewhere ==
  kind \notin {"payment", "update"} => \A v : Shapes!Together(v)
  BY DEF Shapes!Together

LEMMA KindsOfForms ==
  DOMAIN Shapes!Form = Schemas \cup {"avatar", "originate", "repay"}
  BY DEF Shapes!Form, Schemas

LEMMA FormsTrimLess ==
  \A k \in DOMAIN Shapes!Form : \A f \in DOMAIN Shapes!Server[k] :
     Shapes!Form[k][f].trims => Shapes!Server[k][f].trims
  <1>1. \A k \in Schemas : \A f \in DOMAIN Shapes!Server[k] :
           Shapes!Form[k][f].trims => Shapes!Server[k][f].trims
    BY SchemasAreMilder DEF Milder
  <1>2. \A f \in DOMAIN Shapes!Server["avatar"] :
           Shapes!Form["avatar"][f].trims => Shapes!Server["avatar"][f].trims
    BY AvatarForm
  <1>3. \A k \in {"originate", "repay"} : \A f \in DOMAIN Shapes!Server[k] :
           Shapes!Form[k][f].trims => Shapes!Server[k][f].trims
    BY LoanForms DEF Stricter
  <1>4. QED
    BY <1>1, <1>2, <1>3, KindsOfForms

\* What the form refuses, the server refuses too, but for the exceptions.
FormExcused ==
  \/ ~Shapes!Passes(Shapes!Server[kind], given)
  \/ kind = "avatar" /\ given.url = "http"
  \/ kind \in {"originate", "repay"} /\ given.amount = "padded"
  \/ kind = "originate" /\ given.borrower = "lender"

IsGiven ==
  /\ kind \in DOMAIN Shapes!Server
  /\ DOMAIN given = DOMAIN Shapes!Server[kind]
  /\ given = [f \in DOMAIN given |-> given[f]]
  /\ kind = "avatar" => given["url"] \in Shapes!Urls

LEMMA FormIsMild ==
  ASSUME IsGiven, kind \in DOMAIN Shapes!Form, ~Shapes!Passes(Shapes!Form[kind], given)
  PROVE  FormExcused
  <1>1. SUFFICES ASSUME Shapes!Passes(Shapes!Server[kind], given) PROVE FormExcused
    BY Zenon DEF FormExcused
  <1>2. /\ \A f \in DOMAIN given : Taken(Shapes!Server[kind][f], given[f])
        /\ Shapes!Together(Shapes!Parsed(Shapes!Server[kind], given))
    BY Zenon, <1>1, PassesMeans
  <1>3. ~ (\A f \in DOMAIN given : Taken(Shapes!Form[kind][f], given[f]))
          \/ ~Shapes!Together(Shapes!Parsed(Shapes!Form[kind], given))
    BY Zenon, PassesMeans
  <1>4. DOMAIN given = DOMAIN Shapes!Server[kind]
    BY DEF IsGiven
  <1>5. CASE kind \in Schemas
    <2>1. \A f \in DOMAIN given : Milder(Shapes!Form[kind][f], Shapes!Server[kind][f])
      BY <1>4, <1>5, SchemasAreMilder
    <2>2. \A f \in DOMAIN given : /\ Taken(Shapes!Form[kind][f], given[f])
                                  /\ Shapes!Form[kind][f].trims = Shapes!Server[kind][f].trims
      BY <1>2, <2>1 DEF Milder
    <2>3. Shapes!Parsed(Shapes!Form[kind], given) = Shapes!Parsed(Shapes!Server[kind], given)
      BY <2>2 DEF Shapes!Parsed
    <2>4. QED
      BY <1>2, <1>3, <2>2, <2>3
  <1>6. CASE kind = "avatar"
    <2>1. \A v : Shapes!Together(v)
      BY <1>6, TogetherElsewhere
    <2>2. ASSUME given["url"] # "http" PROVE FALSE
      <3>1. given["url"] \in Shapes!Urls \ {"http"} /\ DOMAIN given = {"url"}
        BY <1>4, <1>6, <2>2, AvatarForm DEF IsGiven
      <3>2. Taken(Shapes!Form["avatar"]["url"], given["url"])
        BY <1>2, <1>6, <3>1, AvatarForm
      <3>3. QED
        BY <1>3, <1>6, <2>1, <3>1, <3>2
    <2>3. QED
      BY <1>6, <2>2 DEF FormExcused
  <1>7. CASE kind \in {"originate", "repay"}
    <2>1. \A v : Shapes!Together(v)
      BY <1>7, TogetherElsewhere
    <2>2. ASSUME given.amount # "padded", kind = "originate" => given.borrower # "lender"
          PROVE  FALSE
      <3>a. kind = "repay" => "borrower" \notin DOMAIN given
        BY <1>4 DEF Shapes!Server, Shapes!ServerRepay
      <3>1. \A f \in DOMAIN given : given[f] \notin Refused(f)
        BY <1>7, <2>2, <3>a DEF Refused
      <3>2. \A f \in DOMAIN given : Taken(Shapes!Form[kind][f], given[f])
        BY <1>2, <1>4, <1>7, <3>1, LoanForms DEF Stricter
      <3>3. QED
        BY <1>3, <2>1, <3>2
    <2>3. QED
      BY <1>7, <2>2 DEF FormExcused
  <1>8. QED
    BY <1>5, <1>6, <1>7, KindsOfForms

\* Trimming twice is trimming once.
LEMMA ParsedAgain ==
  ASSUME IsGiven, kind \in DOMAIN Shapes!Form
  PROVE  Shapes!Parsed(Shapes!Server[kind], Shapes!Parsed(Shapes!Form[kind], given)) =
         Shapes!Parsed(Shapes!Server[kind], given)
  <1> DEFINE w == Shapes!Parsed(Shapes!Form[kind], given)
             Once(f) == IF Shapes!Server[kind][f].trims THEN Shapes!Trimmed(given[f]) ELSE given[f]
             Twice(f) == IF Shapes!Server[kind][f].trims THEN Shapes!Trimmed(w[f]) ELSE w[f]
  <1>1. /\ DOMAIN w = DOMAIN given
        /\ \A f \in DOMAIN given :
              w[f] = IF Shapes!Form[kind][f].trims THEN Shapes!Trimmed(given[f]) ELSE given[f]
    BY Zenon, PassesMeans
  <1>2. \A f \in DOMAIN given : Shapes!Form[kind][f].trims => Shapes!Server[kind][f].trims
    BY FormsTrimLess DEF IsGiven
  <1> HIDE DEF w
  <1>3. \A f \in DOMAIN given : Twice(f) = Once(f)
    BY <1>1, <1>2 DEF Shapes!Trimmed
  <1>4. /\ Shapes!Parsed(Shapes!Server[kind], w) = [f \in DOMAIN w |-> Twice(f)]
        /\ Shapes!Parsed(Shapes!Server[kind], given) = [f \in DOMAIN given |-> Once(f)]
    BY Zenon DEF Shapes!Parsed
  <1> HIDE DEF Once, Twice
  <1>5. QED
    BY <1>1, <1>3, <1>4 DEF w

\* The server's rules at least were passed.
WasTaken(v) == \A f \in DOMAIN v : v[f] \in Shapes!Server[kind][f].takes

BuilderExcused ==
  \/ "tooLarge" \in Shapes!Range(value)
  \/ kind \in {"issue", "airdrop"} /\ value.memo = "wide"
  \/ kind \in {"issue", "burn", "tokenTrustline"} /\ "badChecksum" \in Shapes!Range(value)

\* What each layer has made of the values, and whom it may blame.
ShapeInv ==
  /\ IsGiven
  /\ at \in {"asked", "sent", "accepted", "built", "refused"}
  /\ at # "refused" => by = "nobody"
  /\ at = "asked" => value = given
  /\ at = "sent" => \/ value = given
                    \/ /\ kind \in DOMAIN Shapes!Form
                       /\ value = Shapes!Parsed(Shapes!Form[kind], given)
  /\ at \in {"accepted", "built"} =>
       /\ value = Shapes!Parsed(Shapes!Server[kind], given)
       /\ WasTaken(value) /\ Shapes!Together(value)
  /\ by = "form" => FormExcused
  /\ by = "builder" => BuilderExcused

LEMMA GivenAtFirst ==
  ASSUME Shapes!Init PROVE IsGiven
  <1>1. kind \in DOMAIN Shapes!Server /\ given \in Shapes!Given(kind)
    BY DEF Shapes!Init
  <1> DEFINE fields == DOMAIN Shapes!Server[kind]
  <1>a. PICK s \in SUBSET fields :
           \E c \in [s -> UNION {Shapes!ValuesOf(f) : f \in s}] :
             /\ \A f \in s : c[f] \in Shapes!ValuesOf(f)
             /\ given = [f \in fields |-> IF f \in s THEN c[f] ELSE "good"]
    BY <1>1 DEF Shapes!Given
  <1>2. PICK c \in [s -> UNION {Shapes!ValuesOf(f) : f \in s}] :
           /\ \A f \in s : c[f] \in Shapes!ValuesOf(f)
           /\ given = [f \in fields |-> IF f \in s THEN c[f] ELSE "good"]
    BY <1>a
  <1>3. DOMAIN given = fields /\ given = [f \in DOMAIN given |-> given[f]]
    BY <1>2
  <1>4. ASSUME kind = "avatar" PROVE given["url"] \in Shapes!Urls
    <2>1. "url" \in fields
      BY <1>4, AvatarForm
    <2>2. Shapes!ValuesOf("url") = Shapes!Urls
      BY DEF Shapes!ValuesOf
    <2>3. given["url"] = IF "url" \in s THEN c["url"] ELSE "good"
      BY <1>2, <2>1
    <2>4. "good" \in Shapes!Urls
      BY DEF Shapes!Urls
    <2>5. QED
      BY <1>2, <2>2, <2>3, <2>4
  <1>5. QED
    BY <1>1, <1>3, <1>4 DEF IsGiven

LEMMA ParseInFormStep ==
  ASSUME ShapeInv, Shapes!ParseInForm PROVE ShapeInv'
  <1>1. /\ at = "asked" /\ kind \in DOMAIN Shapes!Form /\ UNCHANGED <<kind, given>>
        /\ IF Shapes!Passes(Shapes!Form[kind], value)
           THEN at' = "sent" /\ value' = Shapes!Parsed(Shapes!Form[kind], value) /\ UNCHANGED by
           ELSE at' = "refused" /\ by' = "form" /\ UNCHANGED value
    BY Zenon DEF Shapes!ParseInForm, Shapes!Layer
  <1>2. value = given /\ by = "nobody" /\ IsGiven
    BY <1>1 DEF ShapeInv
  <1>3. IsGiven' /\ (FormExcused' <=> FormExcused)
    BY <1>1, <1>2 DEF IsGiven, FormExcused, Shapes!Passes, Shapes!Together, Shapes!Parsed
  <1>4. CASE Shapes!Passes(Shapes!Form[kind], value)
    BY <1>1, <1>2, <1>3, <1>4 DEF ShapeInv
  <1>5. CASE ~Shapes!Passes(Shapes!Form[kind], value)
    <2>1. FormExcused
      BY <1>1, <1>2, <1>5, FormIsMild
    <2>2. QED
      BY <1>1, <1>3, <1>5, <2>1 DEF ShapeInv
  <1>6. QED
    BY <1>4, <1>5

LEMMA SendAsIsStep ==
  ASSUME ShapeInv, Shapes!SendAsIs PROVE ShapeInv'
  <1>1. at = "asked" /\ at' = "sent" /\ UNCHANGED <<kind, given, value, by>>
    BY DEF Shapes!SendAsIs
  <1>2. value = given /\ by = "nobody" /\ IsGiven
    BY <1>1 DEF ShapeInv
  <1>3. IsGiven'
    BY <1>1, <1>2 DEF IsGiven
  <1>4. QED
    BY <1>1, <1>2, <1>3 DEF ShapeInv

LEMMA ParseBodyStep ==
  ASSUME ShapeInv, Shapes!ParseBody PROVE ShapeInv'
  <1>1. /\ at = "sent" /\ UNCHANGED <<kind, given>>
        /\ IF Shapes!Passes(Shapes!Server[kind], value)
           THEN at' = "accepted" /\ value' = Shapes!Parsed(Shapes!Server[kind], value) /\ UNCHANGED by
           ELSE at' = "refused" /\ by' = "server" /\ UNCHANGED value
    BY Zenon DEF Shapes!ParseBody, Shapes!Layer
  <1>2. by = "nobody" /\ IsGiven
    BY <1>1 DEF ShapeInv
  <1>3. IsGiven'
    BY <1>1, <1>2 DEF IsGiven
  <1>4. CASE Shapes!Passes(Shapes!Server[kind], value)
    <2> DEFINE w == Shapes!Parsed(Shapes!Server[kind], value)
    <2>1. w = Shapes!Parsed(Shapes!Server[kind], given)
      BY <1>1, <1>2, ParsedAgain DEF ShapeInv
    <2>2. WasTaken(w) /\ Shapes!Together(w)
      <3>1. /\ Shapes!Together(w)
            /\ \A f \in DOMAIN value : Taken(Shapes!Server[kind][f], value[f])
            /\ DOMAIN w = DOMAIN value
            /\ \A f \in DOMAIN value :
                  w[f] = IF Shapes!Server[kind][f].trims THEN Shapes!Trimmed(value[f]) ELSE value[f]
        BY Zenon, <1>4, PassesMeans
      <3> HIDE DEF w
      <3>2. QED
        BY <3>1 DEF WasTaken, Taken
    <2>3. value' = w /\ at' = "accepted" /\ by' = by /\ kind' = kind /\ given' = given
      BY <1>1, <1>4
    <2> HIDE DEF w
    <2>4. WasTaken(value)' /\ Shapes!Together(value)'
      BY <2>2, <2>3 DEF WasTaken, Shapes!Together
    <2>5. QED
      BY <1>2, <1>3, <2>1, <2>3, <2>4 DEF ShapeInv
  <1>5. CASE ~Shapes!Passes(Shapes!Server[kind], value)
    BY <1>1, <1>3, <1>5 DEF ShapeInv
  <1>6. QED
    BY <1>4, <1>5

LEMMA BuildStep ==
  ASSUME ShapeInv, Shapes!Build PROVE ShapeInv'
  <1>1. /\ at = "accepted" /\ kind \in DOMAIN Shapes!Builder /\ UNCHANGED <<kind, given>>
        /\ IF Shapes!Passes(Shapes!Builder[kind], value)
           THEN at' = "built" /\ value' = Shapes!Parsed(Shapes!Builder[kind], value) /\ UNCHANGED by
           ELSE at' = "refused" /\ by' = "builder" /\ UNCHANGED value
    BY Zenon DEF Shapes!Build, Shapes!Layer
  <1>2. /\ by = "nobody" /\ IsGiven /\ value = Shapes!Parsed(Shapes!Server[kind], given)
        /\ WasTaken(value) /\ Shapes!Together(value)
    BY <1>1 DEF ShapeInv
  <1>3. IsGiven'
    BY <1>1, <1>2 DEF IsGiven
  <1>4. DOMAIN value = DOMAIN Shapes!Server[kind] /\ value = [f \in DOMAIN value |-> value[f]]
    BY <1>2 DEF IsGiven, Shapes!Parsed
  <1>5. \A f \in DOMAIN value : FitsBut(kind, f)
    BY <1>1, <1>4, WhatIsTakenFits
  <1>6. Shapes!Parsed(Shapes!Builder[kind], value) = value
    BY <1>4, <1>5 DEF Shapes!Parsed, FitsBut
  <1>7. CASE Shapes!Passes(Shapes!Builder[kind], value)
    <2>1. value' = value /\ at' = "built" /\ by' = by /\ kind' = kind /\ given' = given
      BY <1>1, <1>6, <1>7
    <2>2. WasTaken(value)' /\ Shapes!Together(value)'
      BY <1>2, <2>1 DEF WasTaken, Shapes!Together
    <2>3. QED
      BY <1>2, <1>3, <2>1, <2>2 DEF ShapeInv
  <1>8. CASE ~Shapes!Passes(Shapes!Builder[kind], value)
    <2>1. PICK f \in DOMAIN value : value[f] \notin Shapes!Builder[kind][f].takes
      <3>1. ~ (\A f \in DOMAIN value : Taken(Shapes!Builder[kind][f], value[f]))
        BY Zenon, <1>2, <1>6, <1>8, PassesMeans
      <3>2. QED
        BY <1>5, <3>1 DEF FitsBut, Taken
    <2>2. Unbuildable(kind, f, value[f])
      BY <1>2, <1>5, <2>1 DEF WasTaken, FitsBut
    <2>3. value[f] \in Shapes!Range(value)
      BY DEF Shapes!Range
    <2>4. BuilderExcused
      BY <2>2, <2>3 DEF Unbuildable, BuilderExcused
    <2>5. value' = value /\ at' = "refused" /\ by' = "builder" /\ kind' = kind /\ given' = given
      BY <1>1, <1>8
    <2>6. BuilderExcused'
      BY <2>4, <2>5 DEF BuilderExcused, Shapes!Range
    <2>7. QED
      BY <1>3, <2>5, <2>6 DEF ShapeInv
  <1>9. QED
    BY <1>7, <1>8

\* Property: the form refuses nothing the server would take, parsing twice changes nothing, and
\* what the server takes can be built, but for the listed exceptions (lib/schemas.ts, api/schemas,
\* contracts/validation.ts and memo.ts), whatever values a request has.
THEOREM LayersAgreeOnRequests == Shapes!Spec => []LayersAgree
  <1>1. Shapes!Init => ShapeInv
    <2>1. SUFFICES ASSUME Shapes!Init PROVE ShapeInv
      OBVIOUS
    <2>2. value = given /\ at = "asked" /\ by = "nobody" /\ IsGiven
      BY <2>1, GivenAtFirst DEF Shapes!Init
    <2>3. QED
      BY <2>2 DEF ShapeInv
  <1>2. ShapeInv /\ [Shapes!Next]_(Shapes!vars) => ShapeInv'
    <2>1. SUFFICES ASSUME ShapeInv, [Shapes!Next]_(Shapes!vars) PROVE ShapeInv'
      OBVIOUS
    <2>2. CASE Shapes!ParseInForm
      BY <2>1, <2>2, ParseInFormStep
    <2>3. CASE Shapes!SendAsIs
      BY <2>1, <2>3, SendAsIsStep
    <2>4. CASE Shapes!ParseBody
      BY <2>1, <2>4, ParseBodyStep
    <2>5. CASE Shapes!Build
      BY <2>1, <2>5, BuildStep
    <2>6. CASE UNCHANGED Shapes!vars
      BY <2>1, <2>6 DEF Shapes!vars, ShapeInv, IsGiven, WasTaken, FormExcused, BuilderExcused,
         Shapes!Passes, Shapes!Together, Shapes!Parsed, Shapes!Range
    <2>7. QED
      BY Zenon, <2>1, <2>2, <2>3, <2>4, <2>5, <2>6 DEF Shapes!Next
  <1>3. ShapeInv => LayersAgree
    BY DEF ShapeInv, FormExcused, BuilderExcused, LayersAgree, Shapes!LayersAgree
  <1>4. QED
    BY <1>1, <1>2, <1>3, PTL DEF Shapes!Spec
===============================================================================
