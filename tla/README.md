# CoopLumen: verification project

CoopLumen is a community-finance application: an Express API over PostgreSQL, Redis
and the Stellar network, and a Next.js front end that signs with the Freighter
wallet. This directory holds TLA+ specifications of its core logic, the TLC
configurations that check them on small instances, and TLAPS proofs about them.
Paths below are relative to the repository, those of the server to `backend/src/` and
those of the browser to `frontend/src/`.

Every property states what the code is meant to keep through interleavings, lost
calls, partial failures and unusual input. Where a document or a comment says something
else than the code does, "Disagreements" lists it; five of them are runs that let TLC
show it.

## Inventory

| Component | State it keeps | Operations | What is hard | What makes it correct |
|---|---|---|---|---|
| Loans (`api/routes/loans.ts`, `db/index.ts`) | `loans`, `loan_events`, `transactions_log`, `reputation_scores` | create, disburse, repay, default, cancel | unlocked checks before a transaction, row locks, two rows locked by one transaction, money compared as doubles, lost answers | the books balance; events, status and reputation agree; an ended loan stays as it is; every request ends |
| Stellar submission (`contracts/sequenceCache.ts`, `stellar.ts`) | cached sequence numbers, one promise chain per account | take a turn, submit, resend, rebuild after `tx_bad_seq` | chained callers, timeouts with unknown outcome, other submitters | no request applied twice; nobody is told to retry without a cause; every request is answered |
| Payments (`contracts/assets.ts`, `transactions.ts`, `batchPayments.ts`, `claimableBalance.ts`, `manageData.ts`, `feeBump.ts`, `api/routes/tokens.ts`, `transactions.ts`) | none of its own: the ledger, turns, cached balances | issue, burn, distribute, pay, batch, airdrop, lock and claim, sponsor; build for a wallet, submit what it signed | windows that run out while a request waits, batches that fail in the middle, which balances to evict | the cause is named; what changed is evicted; nothing is applied outside its window |
| Several signatures (`contracts/transactions.ts`, `signing.ts`) | an envelope on its way between signers | read the signers, sign, submit | weights, the fewest signers, signing twice | what is asked for is enough and no more |
| Trustlines (`contracts/trustlines.ts`) | the ledger's line, the holder's turn | establish, revoke with a preflight, build, set flags | checks made before the request's turn | the preflight judges as the ledger does |
| Time bounds (`contracts/timeBounds.ts`) | none | resolve, apply | omitted and equal bounds, the present as a boundary | as for payments |
| Envelopes (`contracts/xdrValidation.ts`, `xdrDetails.ts`, `api/utils/stellarTransaction.ts`) | none | validate, describe, read source and cost | four readers of one envelope | they agree |
| Errors of Horizon (`contracts/errors.ts`, `api/utils/horizonError.ts`, `api/middleware/errorHandler.ts`) | none | map a failure | two tables for the same codes | whoever can mend it is blamed, for the operation that failed |
| Recorded supply (`api/routes/tokens.ts`) | `tokens.total_supply` | submit, refresh | partial failure after the ledger applied | the recorded supply is the ledger's |
| Balance cache (`cache/balances.ts`, `api/routes/balances.ts`) | a Redis entry per account | read through, invalidate | a reader slower than an invalidation, lost invalidations | bounded staleness |
| XLM price (`api/routes/prices.ts`, `cache/prices.ts`, `services/prices.ts`) | a memory tier per process, a Redis entry | read through two tiers, four providers in turn | tiers refreshing each other, hanging providers, bad payloads | bounded age, bounded waiting |
| Redis connection (`cache/redis.ts`) | client, connect promise | get, setEx, del, disconnect | callers sharing a promise, disconnect while connecting, a client that reconnects for ever | one connection; nobody waits for ever once Redis is back |
| Migration runner (`db/migrate.ts`) | `schema_migrations`, the schema, an advisory lock | up, rollback, status, dry run | several processes and releases, crashes, failing statements | table and schema agree; nothing applied on another history |
| Communities and members (`api/routes/communities.ts`, `api/middleware/auth.ts`) | `communities`, `members` | create, rename, delete, add, change role, remove | check and write in separate statements, two foldings of a name, soft deletion | unique names; what is deleted stays, and nobody joins it |
| Idempotency middleware (`api/middleware/idempotency.ts`) | `idempotency_keys` | replay or pass on and record | retries during the first attempt, INSERTs nobody awaits | the first response stays |
| Lists (`api/utils/http.ts`, eleven endpoints; `contracts/dex.ts`, `assets.ts`; `hooks/usePagination.ts`) | none: a reader's place in a list | count, read a page, turn it | rows that come, go and move between two requests, ties | what stayed is shown |
| Request validation (`api/schemas`, `lib/schemas.ts`, loan forms, `contracts/validation.ts`, `memo.ts`) | none | parse, validate, build | three layers with rules of their own | no layer refuses what the one before it promised |
| Wallet sign-in (`api/routes/auth.ts`, `hooks/useWallet.ts`) | pending challenges, a token and hook state per tab | connect, sign, verify, poll, disconnect | asynchronous steps against switching accounts and networks, several tabs, an extension that fails or does not answer | the token names the account shown; a wrong network is shown; the page does not keep connecting |
| HTTP client (`lib/api.ts`) | the token provider, a timer and a listener per request | send, time out, cancel | a timer, a caller and an answer that race | the error names what ended the request |
| Drop-down list (`components/ui/Select.tsx`) | open, active, selected, what was typed | keys, pointer, typeahead | disabled options, lists without any other | nothing disabled is active or chosen |
| Notifications (`hooks/useToast.tsx`, `components/ToastDisplay.tsx`) | toasts, timers, exits | create, dismiss, dismiss all | timers of toasts that are gone, equal ids | none goes before it should |
| Colour scheme (`hooks/useTheme.tsx`, `lib/theme.ts`) | a stored choice, the class of `<html>` | first paint, mount, toggle | two programs that decide one after the other, another tab | no flash |

Interaction: routes call the Stellar layer, which goes through the submission queue;
after a transaction they invalidate the balance cache; both caches share the Redis
connection; loans and communities meet in PostgreSQL only (a loan's community may be
deleted meanwhile); the browser calls the routes over HTTP, with the token of the
sign-in, and repeats the server's validation in its forms. Failures of Horizon pass
through two layers of mapping before the browser's client makes an error of them.

`PROJECT.json` lists every component with the modules that stand for it, and every
place of the code at which something could go wrong that a test would hardly reach.

## Modules

### Server

**`LoanBook`** is the abstract specification of lending: the committed rows, with
each operation in one step. Money is counted in stroops (1e-7) and rates in basis
points, so that what the database keeps and checks is exact. What the handler computes
is not: it reads NUMERICs as doubles, compares them with a tolerance of one stroop and
writes the new sum with `toFixed(7)`. The result of its arithmetic lies within one part in
`Precision` of the exact one, and whatever that leaves open may happen: a comparison
within `Err` of its tie goes either way, and the sum is written up to `Off` stroops wrong
(nothing, while half a stroop and the error stay below a stroop). The doubles' own bits
are not modelled; `Precision` is 2^49 for them, and any number in the theorems.
**`LoanRequests`** extends it with the handlers as they run: an unlocked read, a
transaction with `SELECT ... FOR UPDATE`, staged writes, the reputation upsert in two
statements, commit, and an answer that may be lost. A transaction between its locking
read and its end owns the row; there is no separate lock variable. Its property
`BookSpec` is the refinement.

**`SequenceCache`** has one account's cached number (`cache`), the promise chain
(`tail` and the `prev` of each `run`), the ledger's number and the transactions whose
fate is unknown (`limbo`). `disturbed` is a history variable that records whether
anything but an applied submission touched the number since it was loaded.

**`Payments`** has every operation that pays the token: a request's checks, its turn
(`queues`), the building of its transaction with a window from **`TimeBounds`**, its
submission with repetitions, and the accounts it evicts. A payment is of one unit; the
ledger judges a transaction's payments one after the other (`Outcome`), so that one can
fail for what the ones before it left. Where a transaction is built for a wallet, it
comes back by `/tokens/submit`, by `/tokens/transfer` or within a fee bump, whenever the
wallet pleases. A refused batch knows the failure only as Horizon reports it (`Reports`:
result codes, or none), and finds the entry to blame from their positions (`FailedAt`,
`Blame`). **`Trustlines`** has one line with its balance, open offers, limit and
authorization, which others change between any two steps of a request. **`Signatures`**
follows one payment from the account's signers to the ledger, which refuses too few
signatures and one too many. **`TokenSupply`** has the ledger's supply, the row and the
requests between them.

**`HorizonErrors`** and **`Envelopes`** are operators without state. The first maps a
failure as the contract layer does, then the route, or the route alone; the second is
what validates, describes and debits an envelope and what the ledger makes of its
window. Both are compared over all inputs of a bounded size.

**`BalanceCache`** identifies a balance with the account's version, and measures how
long a served one has been wrong. **`PriceCache`** keeps ages instead of moments, so
that its clock never stops. **`RedisClient`** separates a promise's `.then`, its
`.finally` and the resumption of its waiters; `up` says whether the server is there, for
node-redis 4 goes on reconnecting while it is not and `connect` neither succeeds nor
fails. **`Migrations`** numbers migrations in the order of `compareMigrations`;
`Disk[r]` and `Down[r]` are the files of process r's release, a content stands for its
checksum, and the sessions' advisory lock is released when a process stops.
**`Communities`** runs each statement of a handler as a step; `Admits` and the role
check are those of `requireCommunityRole`. A name is folded twice, by JavaScript
(`ScriptFold`) and by Postgres (`DatabaseFold`), which need not agree; `odd` is a
history variable of the communities that ever had a name on which they do not.
**`Idempotency`** is the middleware around any handler; no route mounts it at this
commit. **`Listing`** describes an endpoint by the order of its rows, what it refuses
and whether rows can leave, and lets a reader turn its pages; the two walks through
Horizon's pages go by the last row read instead of by a number of rows.

### Browser

**`WalletSession`** composes the browser hook (one state per component that calls it),
the token of `lib/api.ts`, the server's challenges and the wallet extension, for several
tabs; an extension may answer, fail or stay silent. **`ApiClient`** has requests on
their way through `requestRaw`; a callback and the microtasks it sets off are one step.
**`Select`**, **`Toasts`** and **`Theme`** have the state of the React components and
one action per handler, timer or event. **`RequestShapes`** lets a request of fourteen
kinds pass the form, the server and the builder; a value is known by the class the
checks tell apart (a good amount, one with eight decimals, one with blanks around it).

### Instances

`MCLoanRequests` gives `LoanRequests` symmetry sets and definitions a `.cfg` file cannot
write. The others instantiate components that share no state of their own: a variable
`part`, chosen at the start, says which of them runs while the others rest in an initial
state, so that one run explores the sum of their states and not the product. Nothing is
lost by it, for no action of one reads a variable of another, and what rests has
nothing enabled that is treated fairly.

| Instance | Parts |
|---|---|
| `MCSharing` | `SequenceCache`, `RedisClient` |
| `MCDatabase` | `Migrations`, `Communities` |
| `MCCaches` | `PriceCache`, `Idempotency`, `BalanceCache` |
| `MCLedger` | `Payments` (with `TimeBounds`), `Trustlines`, `TokenSupply`, `Signatures`, `HorizonErrors`, `Envelopes` |
| `MCInterface` | `WalletSession`, `ApiClient`, `Select`, `Toasts`, `Theme`, `Listing`, `RequestShapes` |

Definitions marked "Slip" are what a plausible mistake would make of the definition
after them; the mutants of `PROJECT.json` put each in its place, and the property
beside it must then fail. They are in no specification.

## Runs

| Run | Instance | Question | Properties |
|---|---|---|---|
| `LoanHandlers` | 2 handlers, 1 loan, 2 parties, amounts 1 and 2 stroops, with and without interest, 3 repayments, doubles that are right to one part in 8 | do books, history and answers survive contention for one loan? | `BooksBalance`, `HistoryMatchesStatus`, `SettledWithinTolerance`, `AnswersAreBooked` |
| `LoanRefinement` | 2 handlers, 2 loans of one borrower, fairness | do the handlers implement `LoanBook`, are the counters of the shared reputation row never lost or doubled, is an ended loan left alone, does every request end? | `ReputationMatchesLoans`, `BookSpec`, `EndedIsFrozen`, `EveryRequestEnds` |
| `Ledger` | payments: one request of any of twelve operations and a burn, 3 accounts, 4 windows; trustlines: 2 requests, 2 changes by others; supply: 3 submissions in turn; signatures: 3 keys, weights to 3, thresholds to 7; failures and envelopes: all of up to 3 and 2 operations | is the right payment blamed, everything changed evicted, the window kept; is the preflight exact; is a refreshed supply right; are the signatures asked for enough; who is blamed; do the readers of an envelope agree? | `BlamesTheCause`, `ChangedAreEvicted`, `AppliedInWindow`, `PreflightIsExact`, `RefreshedMeansCurrent`, `FewestSuffice`, `RightlyBlamed`, `ReadersAgree` |
| `Sharing` | sequence: 2 requests, 2 sends of each transaction, 2 foreign transactions; connection: 3 callers, 3 clients, 1 disconnect; fairness | is nothing applied twice, does `tx_bad_seq` need a cause from outside; is there one connection; does everybody get an answer? | `AppliedAtMostOnce`, `BadSeqNeedsDisturbance`, `EveryRequestAnswered`, `OneConnection`, `EveryCallEnds` |
| `Database` | schema: 2 releases that disagree on a file, 3 starts each, rows without checksum, fairness; tables: one client with 4 names, of which 2 fold together and 2 only for Postgres, or 2 overlapping requests with 2 members | do table and schema agree, is success reported truthfully, is nothing applied on the other's version, do all end; are names unique, do deleted communities stay and gain no member? | `TableTellsSchema`, `SuccessMeansApplied`, `AppliedOnSameHistory`, `EveryRunEnds`, `NamesDifferInTurn`, `GoneIsLeftAlone` |
| `Caches` | prices: 2 processes, 2 requests, 2 providers, life 2, delay 1, no bound on time; replays: 3 attempts, 2 keys, 2 routes; balances: 2 reads, 2 writes, clock to 4 | how old can a price be and how long can a request take; is what is replayed right; how stale can a balance be? | `AgeIsBounded`, `AnsweredInTime`, `ReplaysAgree`, `StaleForTTLAtMost` |
| `Interface` | session: 2 tabs, 2 accounts, 2 networks, 2 challenges, fairness; client: 2 requests, one signal; list box: 2 options; notifications: 3; colours: 2 loads; lists: 3 rows, pages of 1 and 2; requests: 2 odd values | does the token name the account shown, is a mismatch shown, does connecting end; is the cause told; are disabled options skipped; does a notification stay, is there a flash; is a walk complete; do the layers agree? | `TokenNamesShownAccount`, `MismatchIsShown`, `EveryConnectEnds`, `ToldTheCause`, `DisabledAreSkipped`, `NoneGoesEarly`, `NoFlash`, `WalkIsComplete`, `LayersAgree` |

Most modules with state have a `TypeOK`, which documents their variables; no run spends
a property on it. The inductive invariants of "Proofs" contain it or what it says.

Why these sizes are enough. The hazards listed in `PROJECT.json` are meetings of two
actors, at times on two rows: each needs two handlers (in the promise chain a retry
queues again behind the other request, so that two requests make a chain of four
turns), two loans for a shared reputation row, two names that fold together, two
releases, two tabs. Amounts of one and two stroops with a rate of one
half give totals on both sides of the tolerance and with a fraction of a stroop. A
`Precision` of 8 is far below the doubles', so that these few stroops meet what takes
billions in reality: comparisons that go wrong on either side and sums of the larger
loan that are written wrong; three repayments let such errors add up. In
`Payments` the second request burns, which is what empties the account or fills the turn
of the first; a batch of two has a payment that succeeds before one that fails, and
one request more than `MaxBatch` is refused. Four windows lie before, at and after the
present and have no end. Three keys with weights to 3 are what a greedy choice in
the wrong order needs to go wrong. Two options of a list box
show a disabled one that is skipped (the first, when the list opens or Home is pressed)
and one that an arrow must not reach. Three rows make a full page and a rest, for pages
of one row and of two. Three attempts are what it takes for one to be
stored, one replayed and one to write late. Time only matters in relation to a life and a
delay, so that lives of two ticks show expiry, renewal and the tick in between.

Bounds on counters (`MaxOutside`, `MaxSteps`, `MaxRuns`, `MaxClients`, `MaxDisconnects`,
`MaxVersion`, `MaxNow`, `MaxTime`, `MaxSupply`, `MaxMoves`, `MaxChallenges`, `MaxOpen`,
`MaxRepayments`, `MaxChanges`, `MaxToasts`, `MaxLoads`, `MaxRows`, `Load`) are guards of
the environment's or the clock's actions; `MaxSends` and `MaxBatch` are the code's own
limits. At its bound the system still finishes what it began. `Kinds` and `Load` are
sets of loads, one of which a behaviour keeps: which operation a request is, which
slots, communities, addresses and names it uses. Runs with a liveness property use
symmetry only for accounts of the wallet, which neither the fairness conditions nor
those properties name: permuting them maps fair behaviours to fair ones and leaves the
properties as they are. Deadlock is checked except where a system that was used up (each
attempt made once, each challenge issued, the last page turned) may stop.

Fairness is weak on every step the process itself takes: Node's event loop runs what is
ready, and a client library's call ends with an answer or an error. It is strong for
acquiring a row lock, because PostgreSQL grants row locks in the order of arrival.
Nothing is assumed of requests arriving, of failures, of a user, of the wallet's
extension, or of a provider answering. Where an outcome depends on such a one, the
property says so: `EveryCallEnds` is about a Redis that is up for good from some moment
on (until then `connect` may hang, and every cached read with it); `EveryConnectEnds`
about an extension that does not stay silent for ever, for `connect` puts no timeout on
its calls; `MismatchIsShown` about polls of which one that is made again and again gets
through, though any number fail. In `AnsweredInTime` a call of Redis is assumed to end
within `Delay`; the providers need no such assumption, for the code aborts them.

## Disagreements between code and documentation

Five are runs, in which TLC must find the documented sentence violated; `PROJECT.json`
quotes each sentence.

| Run | What it shows | Properties |
|---|---|---|
| `CommunityNameRace` | overlapping requests create names that differ in case only | `NamesDiffer` |
| `SupplyFalseAnswer` | an applied transaction is answered as invalid | `InvalidMeansNotApplied` |
| `StaleAfterSubmit` | what a wallet submitted leaves cached balances in place | `EveryChangeEvicts` |
| `ErrorsMappedApart` | one failure has two statuses, by the layer that mapped it | `MappedAlike` |
| `WalletLoanRequests` | loan requests carry no token and are refused | `SignedInRequestsAreServed` |

The others were met while modelling and are recorded here only. The properties that
are checked keep clear of them, or say how far the code does keep to the sentence.

Loans, database and caches:

- `api/routes/loans.ts:446`: the tolerance closes a loan with its last stroop
  outstanding, where the comment at 390 speaks of a balance of zero
  (`SettledWithinTolerance` has the tolerance); an overpayment within it passes the
  handler's check (440) and is refused by the database with 500, where
  `docs/openapi.yaml:973` promises 400.
- `api/routes/loans.ts:53-56`, 438-458: the doubles. A loan of 65539.7311001 at 9.99 %
  owes 72087.15023699999; a repayment of 72087.1502369 leaves it active with 0.9999 of a
  stroop, the next stroop is accepted by the handler and refused by the database (500),
  and no payment closes it: `Settleable` excepts totals within the doubles' error below a
  whole stroop. Beyond some hundreds of millions of units a double does not tell
  stroops apart: 2000000000 and a repayment of one stroop make the sum 2000000000, so
  that `amount_repaid` falls behind its events. `BooksBalance` allows `Off` for each
  repayment, which is 0 for loans of up to 28 million units (2^48 stroops).
- `api/routes/loans.ts:629` leaves `closed_at` of a cancelled loan null, and with interest
  `amount_repaid` exceeds the principal, against `docs/database.md:410-413`.
- `db/migrate.ts:281`: an older release's full rollback skips a migration it has no down
  file for and then drops the table with that migration's row (`TableTellsSchema` speaks
  of migrations every release can take back); 252: a rollback does not compare checksums;
  216: a dry run creates the tracking table (`docs/database.md:274-285`).
- `api/routes/communities.ts:443`: a community deleted between the check and the UPDATE is
  changed with a success answer (`GoneIsLeftAlone` is about requests in turn); 670, 712:
  roles of a deleted community's members are still changed, and members removed, by
  whoever may; 81: the exact name of a deleted community stays taken.
- `api/routes/communities.ts:77`, 115: the name that is looked for is folded by JavaScript,
  the stored ones by Postgres. They differ on some names ("ΟΔΟΣ" becomes "οδος" with a
  final sigma in JavaScript only; "İ" becomes two characters there): such a name is not
  found in another case, even by requests in turn, and a PUT that changes nothing but the
  case is not searched for. `NamesDifferInTurn` excepts communities that ever had one.
- `api/routes/tokens.ts:356`: of two overlapping refreshes the older figure may stay
  (`RefreshedMeansCurrent` is about submissions in turn).
- `cache/redis.ts:18`: `disconnect` forgets a connection being made, which then opens.
  100: while Redis is down, `connect` retries without end and every cached read waits for
  it, where the message at 106 says cache operations will be skipped.
- `cache/prices.ts:90`: a price can be served for almost two lives of the cache
  (`AgeIsBounded`), against `docs/openapi.yaml:130`.
- `api/middleware/idempotency.ts`: a retry that arrives while the first attempt is being
  handled repeats the work (`Idempotency!NoDoubleMint` states what is missing); a key used
  on a second route is not recorded there (38). No route mounts the middleware.
- Lists sort by one column, so rows with equal values may be skipped or repeated from one
  page to the next; a newest-first list misses its last row if another is inserted
  between the count and the page. `WalkIsComplete` excepts both.

Stellar:

- `contracts/sequenceCache.ts:107`: a retry queues behind other requests and may use the
  account the first of them loaded, where the comment at 91 says it is loaded anew.
- `api/utils/horizonError.ts` looks at the first operation of a failed transaction only.
- `contracts/transactions.ts:238`: with a medium threshold of 0 no signature is asked for,
  but the ledger refuses an envelope that nobody signed (`FewestSuffice` excepts it).
- `contracts/assets.ts`: `issueAsset` resolves its window before it waits for its turn, so
  that it may have run out when the turn comes.
- `contracts/claimableBalance.ts:50-72` takes Horizon's `id`, which is the transaction's
  hash, for the id of the claimable balance; claiming with it cannot work.
- `contracts/trustlines.ts`: the issuer's account is loaded outside the turns (368);
  `authorizeTrustline` sends `authorized` only, which the ledger refuses after
  `keepLiabilities`, against 429-430 (`Trustlines!AuthorizeGrants`).
- `contracts/xdrValidation.ts:92-93` says of a result without errors that the envelope
  targets the expected network; an envelope does not name its network. A window whose
  beginning lies behind its end is accepted. `submitSignedXdr` cannot parse the fee bump
  that `validateXdr` accepts.
- `contracts/xdrDetails.ts`: the summary of a strict-receive path payment calls the amount
  that arrives one of the asset that is sent; `asset` of a strict-send one names the asset
  that arrives beside the amount that is sent.
- `api/utils/stellarTransaction.ts`: a transfer whose payment names a source of its own
  evicts that account and not the one that pays the fee.

Validation:

- `api/schemas/token.ts` counts the characters of a memo, `contracts/memo.ts` its bytes: a
  memo between the two is refused by the builder with 500 (`/build-issue`) or 400.
- The payment schemas refuse an amount with leading zeros, which the form's schema and
  those of loans take, against `lib/schemas.ts:4-6`; only the form insists on https for an
  avatar; its loan schema lacks the interest rate. No page calls it yet. Amounts beyond
  2^63 - 1 stroops pass all schemas and are refused by the SDK. The loan forms do not trim
  amounts, and only the page refuses a loan of somebody to himself
  (`CreateLoanForm.tsx:33`).

Browser:

- `hooks/useWallet.ts:77-83`: an extension that never answers leaves the Connect button
  disabled for good; `EveryConnectEnds` excepts it. While every poll fails (131), a wrong
  network is not shown; `MismatchIsShown` excepts that.
- `components/ui/ErrorBoundary.tsx`, used in `app/layout.tsx:32`: "Try again" mounts the
  page anew, with a hook that is disconnected, while the module of `lib/api.ts` keeps
  the token of before, until somebody signs in or disconnects. `WalletSession` has no
  such remount, and `TokenNamesShownAccount` does not speak of it.
- `components/Dashboard.tsx:24`: the panels never appear, because the hook state they
  look at is the dashboard's own.
- `lib/api.ts:16-18` promises an `ApiError` for every failure; one while the body is read,
  or of the token provider, is passed on as it is (`ApiClient!OneErrorShape`). Reading the
  body has no timeout and cannot be cancelled; a cancelled request counts as a server
  error in `isServerError`.
- `components/ui/Select.tsx:48-49`: a list that is open when the control is disabled still
  takes a click (`Select!DisabledIsFixed`).
- `hooks/useToast.tsx`: a duration above 2^31 ms strikes at once.
- `lib/theme.ts:78`: with storage blocked the script sets no class, and the provider then
  sets the operating system's: the flash that `hooks/useTheme.tsx:43-44` speaks of.
- `components/ui/Pagination.tsx:38` shows three page numbers also where fewer are asked
  for; no page uses it yet. `mutate` clears the cached lists of loans while they are
  read again, which unmounts their cards with what was typed in them.
- `components/ui/ConfirmDialog.tsx`: the Enter handler keeps the `onConfirm` of an earlier
  render, and Escape cancels while the action runs.

## Proofs

Every safety invariant and every action property that a passing run checks is also a
theorem, for all values of the constants, and so is the refinement of `LoanBook` by
`LoanRequests`. The theorems stand beside the instances: `LoanBookProofs` and
`LoanRequestsProofs` extend the modules they are named after, the others extend the MC
module of their components, so that a theorem states the very property its run checks,
of the component's own specification (`Trust!Spec => PreflightIsExact`, `Pages!Spec =>
[]WalkIsComplete`). They do not speak of the variable `part`. The one exception are
`HorizonErrors` and `Envelopes`, which have no behaviour: what they are compared on is
chosen by `LedgerSpec`, and that is what these theorems start from.

Two kinds of assumption are used. The named `ASSUME`s of the modules (amounts and the
precision are positive, a batch's limit is a number, rates lie between 0 and 1000
percent, loans and migrations are finite in number, the issuer is an account, a release
contains the bootstrap migration) are evaluated by TLC in every run. What concerns the
instance only is a hypothesis of the theorem, defined in the proof module beside it:
bounds are numbers (`PriceTimes`, `CacheTimes`, `NoticeBounds`, `Numbered`,
`WindowsKnown`, `SignersKnown`, `PagesHoldRows`), values that stand for nothing are not
among the others (`Distinct`), a load names slots and rows that exist (`LoadWithin`).
The constants of the runs satisfy all of them. One hypothesis limits what is said:
`MaxOpen = 1`, in `RefreshIsCurrent`, has the submissions follow one another, without
which the property is false ("Disagreements").

### Loans

`LoanBookProofs` is about the abstract book.

- `BookTyping`: the rows have their shapes. Lemmas on the row operations
  (`NewLoanIsRow`, `RowSteps`, `KeysKept`) do the work.
- `Balance`, `History`, `Settlement`: none of the three is inductive by itself. That
  `amount_repaid` stays within the total due is the database's doing, but what is left to
  pay when a loan closes depends on the handler's arithmetic and its errors; that a
  closed loan has exactly one closing event depends on its status; and neither survives
  a step without types. The invariant `BookInv` is the typing together with one
  condition on each loan (`Sound`: its sums, its events and its status at once), and
  `NextSound` shows that a step changes one loan and keeps its condition. `Precision` is
  any positive number; of `Err` and `Off` the proofs need that they are numbers
  (`ErrorType`), and for the payment that settles an active loan that `Off` is 0 and the
  fraction of a stroop in its total is further than `Err` from a whole one (`Settleable`).
- `Frozen`: no step changes an ended loan.
- `Reputation`: counters equal numbers of loans. The step lemma `CountStep` says how the
  cardinality of a set of loans changes when one loan's status does; `BumpMatches`
  matches that against each counter an operation increments, and `BumpScores` shows that
  the score is computed from the counters it is stored with.

`LoanRequestsProofs` carries this over to the concurrent handlers.

- `Snapshots`: the invariant `LockInv` says that what a transaction read under its locks
  and what it staged stay true until it commits (`Current`), and that two transactions
  never own a row together (`Apart`): the second keeps the first, for a commit changes
  only rows its transaction owns.
- `Refinement`: a commit, and the conditional UPDATE of a cancellation, is one step of
  the book; everything else leaves the book as it is. `HandlersKeepBooks` draws the
  conclusion: all that `LoanBookProofs` shows of the book holds of the handlers.
- `Answers`: what clients were told is booked. `AckInv` counts, beside what was told,
  what a handler is still about to tell, for each loan and kind of operation.

### Submission and connection (`SharingProofs`)

- `AtMostOnce`: `OnceInv` says that a request takes its second turn only after its first
  transaction has been refused for good, and is not among those whose fate is unknown.
- `OneTurnAtATime`: the chain of promises as a line. `InLine` numbers the turns so that
  each waits for the one numbered before it; the numbering exists at first, and a step
  extends it at one end or shortens it at the other.
- `NoOneTrips`: `tx_bad_seq` needs a cause from outside. `NumberInv` says that between
  two turns nothing is in limbo and a fresh cached number is the ledger's, and that
  whatever is under way was built on the ledger's number, as long as nothing disturbed
  it. It needs one turn at a time.
- `SharedConnection`: `LastOnly` says which client each of the promise, its `.then` and
  the stored client stand for; until somebody disconnects, it is the last one created.

### Tables (`DatabaseProofs`)

- `LockIsExclusive` (the typing, with the advisory lock and who is inside it),
  `TableIsTrue`, `SameHistory`, `SuccessIsTrue`: `MigrationInv` adds to the property
  what a run knows while it holds the lock: what is left of its plan is what it computed
  it from (`PlanHolds`: nobody else changed the table), and a rollback takes its list
  from the top (`FromTheTop`). Without it a step of a run would apply on a table it has
  not read.
- `NamesStayApart`, `DeletedIsLeftAlone`: `CommunityInv` remembers of each request what
  its statements so far found (`Looked`). In turn, what was found is still true at the
  write. A lookup folds with JavaScript and the rows with Postgres, so that what it found
  is worth something only for names on which they agree: communities outside `odd` only
  ever had such names (`OthersPlain`). `RowWritten` and `MembersStep` say what a statement
  changes of the two tables, and that nobody joins a deleted community by it.

### The ledger (`LedgerProofs`)

- `InWindow`, `BatchesBlameTheCause`, `WhatChangedIsEvicted`: `PaymentInv` says of each
  request that its window is the one its bounds resolve to (`Timed`). The ledger goes
  through a batch payment by payment, and the server sees result codes only, or none. That
  the position it finds in them (`FirstFailure`) is that of a payment the holdings did not
  suffice for, after payments they did suffice for, is shown from what each payment leaves
  (`PaymentCounted`, `CauseOfFailure`): what an account holds at one is what it held, less
  what it paid and with what it was paid before. That a batch changes no balance but those
  of the parties is shown by looking at the first payment that would.
- `PreflightIsTheLedgers`: at one moment, the two judge alike (`RevocableIsAccepted`).
  What the request saw is part of `TrustInv`, so that a refusal of the ledger proves the
  line changed since.
- `RefreshIsCurrent`: `SupplyInv` has at most one submission open, and whatever it has
  read since it was applied is the ledger's supply.
- `FailuresAreRightlyBlamed`, `EnvelopesAreReadAlike`: over all failures and envelopes
  of any number of operations. The first operation that fails is found (`FirstIsFound`),
  and the four readers of an envelope look for the same first operation.
- `ToldSignersSuffice`: `SigningInv` says of what a caller was told that it is the
  fewest (`FewestAreTold`) and of what was signed that no key signed twice (`SignOnce`).
  The argument is the exchange that makes a greedy choice right: `n` signers never
  outweigh the `n` heaviest. A sum of weights is reasoned about as the cardinality of a
  set of votes, as many for each key as it weighs.

### Caches (`CachesProofs`)

- `ReplaysAreOneResponse`: `ReplaysInv` says that a stored row is the response of one
  answered attempt under this key (`Stored`), that it stays, and that whoever was given
  another's response was given the stored one.
- `PricesAgeOnce`, `ProvidersAreAskedOnce`: `PriceInv` bounds the age of a price by its
  tier and by the time its entry has left, and the time a request has spent by the point
  it has reached; both bounds have to name every intermediate point (`AgesWell`,
  `GoesWell`).
- `StaleForALife`: `BalanceInv` says for which moment a version was the account's, in
  the entry and in each reader's hands, and that a reader is no slower than `Delay`.

### The browser (`InterfaceProofs`)

- `TokenIsShown`: `SessionInv` adds that a tab that is signing in is not connected
  (`Busy`), for otherwise its last step could store a token for an account that is no
  longer shown.
- `ErrorsNameTheirCause`: `ClientInv` relates the timer, the listener and the signals to
  the place a request has reached; what is told is compared with what ended the request.
- `DisabledStaySkipped`: the property is inductive once types are added (`SelectInv`).
  The work is in `findEnabled` and in typeahead, of which `FindsEnabled` and its
  neighbours say that what they return can be chosen.
- `ToastsGoInTime`: `ToastInv` says that an identifier is the number of its
  notification, so that a late timer can meet no other, and that one that is wanted gone
  has a timer no earlier than that.
- `FirstPaintStays`: `ThemeInv` says what was painted at each stage, as long as no
  preference changed.
- `PagesMissNothing`: `ListInv` has an argument for each kind of walk. By the last row
  read (`ByCursor`): what stayed is behind the reader or was shown. By number
  (`ByNumber`): the rank of a row is the number of rows ahead of it; a row that stayed
  and was not yet shown has at least the reader's offset, since ranks do not shrink
  while nothing leaves from ahead, and the total that was counted tells whether a page
  is left.
- `LayersAgreeOnRequests`: each rule of a form takes what the server's rule takes
  (`SchemasAreMilder`), what the server takes fits the builder but for the excepted
  classes (`WhatIsTakenFits`), and trimming twice is trimming once (`ParsedAgain`);
  `ShapeInv` says what a request has become at each layer.

`Numbers` has the one principle these proofs share: a non-empty set of numbers has a
least member (`LeastNumber`). Whatever goes through a sequence (a batch, the operations
of a transaction, the signers in order, a page) is a function by recursion or a fold
with one definition per step, and a claim about all of it is proved by looking at the
least place where it fails.

### Only model-checked

`EveryRequestEnds`, `EveryRequestAnswered`, `EveryCallEnds`, `EveryRunEnds`,
`MismatchIsShown` and `EveryConnectEnds` are liveness under fairness, which needs
ENABLED and is out of the prover's reach. The five runs that expect a violation show a
behaviour and leave nothing to prove. That the instances bring the components together
without loss ("Instances") is an argument about TLC's runs; the theorems do not use it.

## Not modelled

SQL, JSON and XDR as text, cryptography, logging, rate limiting (a library's), layout
and accessibility of the front end, seeds and scripts. Webhooks check a signature and
store nothing; the health check and the single reads keep no state. Proposals, votes,
notifications, KYC records and multi-signature requests have tables, and no code writes
them. The screen of a loan (`LoanActions`, `useLoanActions`, `CreateLoanForm`) has forms
whose rules are in `RequestShapes`; its further state is left out, for every request it
makes is refused (`WalletLoanRequests`), and the portfolio panel never appears. The
remaining data hooks leave their state to the SWR library. Creating an account on the
ledger (`StellarService.createAccount`) pays XLM, of which no property speaks;
its turn and its resending are those of `SequenceCache`.

PostgreSQL, Redis, Horizon, the ledger, Freighter, React and the browser are external:
they are modelled by the outcomes the code distinguishes, failures and lost answers
included.

## Plan

What could follow:

1. The modules' other statements as theorems: `TypeOK` where it is not yet a part of an
   invariant, and the order in which `SequenceCache` serves requests.
2. An abstract specification of what a cache promises, which both `BalanceCache` and
   `PriceCache` implement, with the refinement proved as that of `LoanBook` is.
3. `Communities` under overlapping requests: which of its properties hold of any two
   requests, instead of those in turn.
