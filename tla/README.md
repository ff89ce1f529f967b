# Turbo DA: specification and proofs

Turbo DA sells posting of data to the Avail chain. A customer buys credits,
sends data over HTTP and gets a submission id back at once; the service posts
the data later, from its own wallets, and debits the credits. This directory
models the parts of the repository that decide whether data is posted, whether
it is billed and where credits come from, and the web front end in which credits
are bought and handed to apps; it checks the models with TLC on small instances
and proves the main results with TLAPS for every instance.

All paths below are relative to `src/`.

## 1. The system

Four Rust processes share one Postgres database and one Redis server; the
dashboard is a React page that talks to their API, to wallets and to the identity
provider (Clerk).

| Part | Where | State it keeps | Operations |
|---|---|---|---|
| Submission service | `data_submission` | a broadcast channel, N worker threads with their position in it, detached insert tasks (all in memory) | `submit_data`, `submit_raw_data`, worker loop `response_handler`, `process_response` |
| Fallback monitor | `fallback_monitor` | a round of attempts under way (in memory) | rounds of `monitor_failed_transactions` |
| Expenditure rows | `db/.../customer_expenditure.rs` | `customer_expenditures` | insert, record the extrinsic, write an error, count a retry, reset the counter |
| Credit accounts | `db/.../misc.rs`, `apps.rs`, `users.rs` | `users`, `apps` | fund, allocate, reclaim, debit, delete |
| Reservations | Redis, from `consumer.rs` | one list per pair of balances | `RPUSH`, `LRANGE` |
| EVM funds monitor | `funds_monitor/src/evm.rs`, `utils.rs` | `start_block` (in memory), `indexer_block_numbers`, `credit_requests` | header, `get_logs`, handling of a deposit |
| Avail funds monitor | `funds_monitor/src/avail.rs` | saved block | blocks, deposits |
| Credit requests | `turbo-da-core/.../fund.rs`, `db/.../fund.rs` | `credit_requests` | create an order, attach a transaction |
| API keys | `auth.rs`, `redis.rs`, `users.rs` | `api_keys`, a Redis cache | create, look up, delete |
| Deposit contract | `contracts/src/TurboDAResolver.sol` | valid tokens, paused flag, balances | deposit, withdraw, pause |
| Dashboard: purchases | `buy-button.tsx`, `ConfigProvider.tsx` and the transaction dialogs and toasts | handlers, a status list, the shown transaction, timers, balance polling | buy with a native token, an ERC20 token or AVAIL; follow the transaction; wait for the credits |
| Dashboard: purchase form | `module/purchase-credit/index.tsx`, `OverviewProvider.tsx` | amount, error, selection (also in `localStorage`), balances, estimate | type, select chain and token, estimate, enable the button |
| Dashboard: session | `AuthProvider.tsx`, `UserProvider.tsx` | token, user record, balance | sign in and out, refresh, fetch, register, first app |
| Dashboard: apps | `module/user-apps/*`, `services/app` | the list of apps and keys, the open dialog | assign, unassign, switch, edit, create, delete, keys |
| Dashboard: nationality check | `country-check.tsx`, `country-block-check.tsx`, `user-store.ts` | a store in the browser, metadata at Clerk | ask, save, redirect to `/block` |
| The rest | `turbo-da-core`, `enigma`, `observability`, histories and layout of the dashboard | none of their own | API, encryption client, metrics, pages that only show |

How they interact:

* `submit_data` spawns an insert of the row and broadcasts the message; both
  happen after the answer, in either order, and either may fail.
* A worker and the monitor run the same `process_response`: read the balances,
  estimate the cost, `validate_balance`, reserve in Redis, post, record the
  extrinsic on the row, debit the app, debit the user. They do not talk to each
  other; they meet in Postgres and Redis.
* No two SQL statements of this code are in a transaction. What comes between
  them is any statement of any other task.
* The API changes `users` and `apps` while submissions are billed from them.
* The funds monitor and the API both write `credit_requests`.
* A purchase in the dashboard creates an order at the API, pays through a wallet,
  reports the inclusion to the API and polls the balance until the funds monitor
  has credited it. The form is what the purchase starts from.
* A session refresh, every five minutes, unmounts most of the page and mounts it
  again; the handlers, promises and timers of what was unmounted go on.
* The dialogs of apps send one or two requests each and then read the balance, the
  apps or the keys again, without waiting for the answers.

What is hard: a worker drops its attempt at any await after 120 seconds; a
process restart forgets the channel and the inserts; the monitor picks up what
the worker is still busy with; a lagging thread stops for good; checks are made
on values read minutes before; statements succeed without matching a row; a
chain query may fail, and chains reorganise; columns round. In the dashboard:
handlers outlive their component and its refs; timers are not cancelled; answers
are applied in the order in which they come; closures keep what an earlier render
showed; users change under a request; a wallet answers after its promise gave up.
`PROJECT.json` lists each of these at its line under `hazards`.

What makes each part correct:

* submissions: nobody is billed without a post; posts are bounded; rows do not
  lie; the pre-image can always be served; what is resolved stays resolved;
  everything that has a row is resolved or runs out of retries;
* reservations: attempts that saw the same balance do not spend it twice;
* credits: nothing appears or disappears, and what is overdrawn is bounded;
* deposits: none is lost unnoticed, none credited before it is final, and
  repeated credits have a cause;
* purchases: one handler per button, a status that only advances, a dialog that
  shows what the list says, a completion that was reported, a polling that ends;
* the form: no purchase beyond a known balance, an estimate of what is in the form;
* the session: the record of who is signed in, one first app per user;
* apps: a page that catches up with the server, no credits left on an app that
  cannot use them;
* the nationality check: nobody gets past it, and nobody answers for another.

## 2. The modules

| Module | Models | Proofs |
|---|---|---|
| `CreditBilling` | `validate_balance`, the split of a bill, the walk of a reservation list | |
| `SubmissionPromise` | abstract: answer, store, post, record, report, bill | |
| `SubmissionPipeline` | submission service, fallback monitor, rows, reservations | `SubmissionPipelineProofs`, `SubmissionBoundsProofs` |
| `CreditLedger` | credit accounts and the requests that change them | `CreditLedgerProofs` |
| `EvmIndexer` | EVM funds monitor and credit requests | `EvmIndexerProofs` |
| `CreditPurchase` | dashboard: purchases | `CreditPurchaseProofs` |
| `PurchaseForm` | dashboard: the form of a purchase | `PagesProofs` |
| `DashboardSession` | dashboard: session and user | `PagesProofs` |
| `AppCredits` | dashboard: apps and keys | `AppCreditsProofs` |
| `CountryGate` | dashboard: nationality check | `PagesProofs` |
| `SumTheorems` | nothing: lemmas about sums over finite sets | in it |
| `MC...` | instances for TLC | |

`SubmissionPipeline` and `CreditLedger` extend `CreditBilling`;
`SubmissionPipeline` instantiates `SubmissionPromise`.

### SubmissionPipeline

An attempt is whoever runs `process_response`: a worker thread, or the monitor
for one submission. `pc` says at which await it is, `cur` which message a
worker holds, `snap` what it has read (credit selection, both balances, cost).
The nullable columns of a row are sets: `payload`, `txHash` and `error` hold
the submissions whose column is not NULL. `createdAt` is the insertion order,
`overdue` is the 15-minute condition of the monitor's query, `carried` are the
rows the query returned with a payload.

| Action | Code |
|---|---|
| `Submit`, `InsertRow`, `InsertFails` | `_submit_data` and its detached task |
| `Receive`, `Lagged` | the receive loop; `Err(Lagged)` ends it for good |
| `CheckResolved`, `SkipMessage` | `get_did_fallback_resolved` (a failed query counts as "no") |
| `ReadAccount`, `PushReservation`, `ScanReservations`, `Post`, `RecordExtrinsic`, `DebitApp`, `DebitUser` | `process_response`, await by await |
| `Abort`, `MarkError` | early return, failed statement, 120 s timeout; then `update_error_entry` |
| `StartRound`, `Increment`, `IncrementFails` | a round of the monitor |
| `SubmissionRestarts`, `MonitorRestarts`, `ResetRetry` | restarts, the administrator |

Abstractions: data, wallets and fees are left out; a cost is any member of
`Quotes`, in whole credits. `Lagged` may happen once more messages were sent
than the channel holds, which includes every case in which the receiver really
lags. An app's `credit_selection` is fixed during a behaviour but any value,
`"unset"` standing for NULL. Apps are not deleted here (they are in
`CreditLedger`). `reset_retry_count` is given any integer of `ResetTo`: below zero,
between, and above the limit; `Left` is how many retries such a count leaves.
`Post` counts an extrinsic whenever one reaches the chain, also when the caller
then sees an error: `Abort` follows it at the next await.

History variables (`posts`, `charges`, `picks`, `granted`, `admitted`,
`missed`, `writtenOff`) are written and never read by a guard.

`SubmissionPromise` is what a customer can rely on. It keeps two things apart that the
row keeps in different columns: whether an extrinsic is recorded (for good, and only
after a post), and the state `get_submission_info` reports, read off the row as
`handle_submission_info` does (`Reported`). The second promises less than one would
expect: an error entry of the worker hides an extrinsic that was recorded before it
came, and the answer goes from `Finalized` back to `Error`, without data. What is
promised instead is that this happens once at most, while the worker still has the
message (`closed`: it has not), and that only a record made later shows the extrinsic
again; `Pending` never comes back.

### CreditLedger

The credit columns of one user and of the user's apps. A request (`Reqs`) reads
and checks in one step (`Allocate`, `Reclaim`, `DeleteAccount`, `Bill`) and then
executes its `UPDATE`s one by one; `Abandon` ends it between any two, as a
failed statement, a crash or a dropped handler future does. An `UPDATE` of an
app that was deleted matches no row, succeeds, and the `UPDATE` of the user
follows. `Bill` stands for an attempt of the pipeline: what comes between its
check and its debits changes no credits and is left out. The columns are
`NUMERIC(39, 0)` while amounts are decimals, so each assignment rounds
(`Stored`). Amounts are counted in half credits: moving an amount from one
column to another rounds both alike except for exact halves, where one credit
can appear or vanish. `apps.fallback_credit_used` is in `SubmissionPipeline`
(`FallbackLedger`). Grants are not negative.

### EvmIndexer

One chain. Deposits are numbered in chain order; `BlockOf`, `OrderOf` and `TxOf`
say what their events contain. `FetchLogs` is `get_logs` with its answer,
`batch` the logs not yet handled, `SaveBlock`, `Claim`, `Credit` the three
statements run for a log, `GiveUpLog` every way in which handling one fails.
`Headers` lets headers skip blocks and fall back by up to `MaxReorg`; a range
that ends before it starts is answered with an error by some nodes (`FetchFails`)
and with no logs by others (`FetchLogs`, counted in `rewinds`). `Restarts`
reads the saved block, or 0 when that query fails. `CreateCreditRequest` and
`AddInclusionDetails` are the API's. Amounts are left out; credits are counted.
All orders are on this chain. `ChainAssumption`: the chain is older than the
threshold, and no reorganisation is deeper than the threshold.

### CreditPurchase

A click of Buy Now is a number `p`; `Kind[p]` says which of the three flows it
starts. `pc[p]` is the await its handler is at, `inst[p]` the instance of the
button that was clicked, whose flag and refs (`loading`, `initial`, `latest`,
`interval`) the handler and its timers keep using after `Unmount`. `list`, `show`,
`open` and `toast` belong to the providers at the root. `left` holds the time left
of every `setTimeout` and `setInterval`; `Tick` takes all of them one unit on, and
not past one that is due, so that timers fire in the order of their times and
those due together in any order.

| Action | Code (`buy-button.tsx` unless named) |
|---|---|
| `Click`, `CreateOrder`, `OrderFails`, `Approve`, `WalletRejects` | the handler up to the wallet, and its `catch` |
| `Deposit`, `Include`, `PostInclusion` | EVM flows: the hash, the receipt, `handleTransactionFinality` |
| `WalletTimeout`, `Broadcast`, `InBlock`, `Finalize`, `Drop` | the promise around `batchTransferAndRemark` and its callbacks |
| `Credit` | the funds monitor |
| `FireInblock` to `FireStop` | one per timer |
| `StartPolling`, `FirePoll`, `AnswerPoll`, `CheckBalance`, `ObserveBalance` | `startCreditBalancePolling`, `checkBalanceUpdate`, the effect on the balance |
| `Minimize`, `Expand`, `DismissToasts` | the dialog and the toast |
| `Unmount`, `Mount` | a session refresh or another tab |

Every step of wallet and chain may fail, come late or not come at all. Amounts and
addresses are left out; a payment that is credited raises the balance by one. A wallet
that reports `Broadcast` twice for one transaction is left out: the code then lists it
a second time.

### PurchaseForm

The input is one of five: empty, "0", another zero, and two amounts of which a
wallet covers the smaller. Balances arrive at any time, and the session's token, which
a request for an estimate needs and no effect of the form depends on, may be missing at
any time (`Estimate`). The effects of the
component run in the step that changes what they depend on, in the order in which
the component has them (`ResetThenChecked`: the effect on the selection resets the
error before the other compares again). `flights` are the requests for estimates
on their way, of which one at most has the newest id; `requested` (history) is what the
last one asked for and `skipped` that none could be made for what is in the form.
Emptying the input takes an estimate off the form but gives up no request, so the answer
may still be shown over an empty input, and a purchase empties the input alone:
`EstimateMatches` promises the amount only while it is not zero. `SelectChain` unsets the
token, and the copy in `localStorage` then keeps the old one, as
`JSON.stringify` leaves `undefined` out.

### DashboardSession

`signed` is Clerk's session, `holder` the owner of the token the page holds,
`tokenCalls` the calls of `getToken` on their way. A fetch goes from `user` to
`register`, `starter` and `again`, each a request whose answer may be lost;
`UserEffect` is the effect of `UserProvider`. The history follows what outlives a
session from where it comes: `lateCalls` are the calls of `getToken` on their way when
a session ended, `leftover` says that the token is the answer to one, `late` are the
fetches on their way then or begun with such a token, and `stray` that the record shown
was last set by one of those. They are set when a session ends, a token arrives and a
fetch begins, before anyone knows whose record comes, and never from the record.

### AppCredits

The server has a balance, apps and keys; the page has a copy of each (`view`). A
handler is a job with the closure of its click (`job`) and the request it is at
(`pc`); a request and its answer are one step, which may fail (`Refused`) or lose
its answer (`Break` after the effect). A read is asked, served and applied in
three steps, so that answers overtake one another; `card` is the read of the
page's own effect, the only one that is aborted. `dlg` is the state of the open
dialog's component and is lost when the component is unmounted or mounted anew.
The list comes in no order and its items are keyed by index, so with any answer an item
may be mounted anew (`Remount`).

The callback that saves an edit is memoized without the app among its dependencies
(`create-app.tsx:129`): `dlg.sel` is the selection of the render in which a field last
changed (`TypeInForm`), which a switch or an assignment since then does not renew. An
edit of the Avail app id makes a second request (`StoreAppId`). The form of a new app
is unmounted with the page and comes back without the flag of a handler on its way, so
that two creations may overlap.

What the properties except is recorded where it happens, as narrowly as the code allows:

* `excused`, the views left behind the server: what a handler changed and had not read
  again when it broke off (`Unread`, and what the request itself changed), what a failed
  read was for, what a deletion or a client's submission changed, and a view whose
  newest answer was overtaken by an older one with another value. An answer that is
  right takes the view out again. A request that is refused before it changed anything
  excuses nothing.
* `loose`, the apps that `NothingStranded` does not speak of: an assignment broke off
  between its two requests (`BreakHalfway`), one overlapped a switch or an edit to the
  main balance of the same app, or such a switch or edit began when the app had more
  credits than its closure takes back (`Careless`). Overlap of other kinds, refusals and
  sessions coming and going are not excepted.

`assigned` holds the apps that were ever given credits.

### CountryGate

`metadata` is what Clerk keeps, `known` what the page has of it, `store` what the
browser keeps beyond session and user. `Effects` are the effects of
`CountrySelectionModal` and `CountryBlockCheck`, run in the step that changes what
they depend on. `submit` is the handler of Continue, `orphans` are requests whose
page was left. `chosen` (history) holds what each user submitted, `strayed` says
that an answer came after another user had taken over the store.

## 3. The runs

| Run | Config | Properties | What it shows |
|---|---|---|---|
| `pipeline_crash` | `MCPipelineCrash` | `TypeOK` `ChargedOnlyForPosts` `PreImageAvailable` `FallbackLedger` `ResolvedIsFinal` | bills, rows and balances stay consistent wherever attempts are cut short |
| `pipeline_reservations` | `MCPipelineReservations` | `ReservationsCovered` | submissions admitted under one key are covered together |
| `pipeline_retries` | `MCPipelineRetries` | `PostsBounded` `RowsTellTheTruth` `KeepsPromise` | posts are bounded, rows tell what happened, the promise is kept |
| `pipeline_live` | `MCPipelineLive` | `EventuallyResolvedOrExhausted` | every row is resolved or runs out of retries |
| `pipeline_lost` | `MCPipelineLost` | `EveryAcceptedIsHandled` (violated) | an answered submission can be lost |
| `pipeline_twice` | `MCPipelineTwice` | `WorkerSkipsResolved` (violated) | a worker posts what the monitor has resolved |
| `ledger` | `MCLedger` | `TypeOK` `UserLedger` `AppLedger` `OverdraftBounded` | every credit is accounted for, overdrafts are bounded |
| `ledger_delete` | `MCLedgerDelete` | `DeleteUnlocksAllocation` (violated) | deletion refunds the wrong column |
| `indexer` | `MCIndexer` | `TypeOK` `NothingSlips` `CreditsBounded` `OnlyFinalCredited` `EventuallyHandled` | no deposit is lost unnoticed, none credited early |
| `indexer_lost` | `MCIndexerLost` | `ConfirmedIsProcessed` (violated) | the order of a confirmed deposit can stay PENDING |
| `purchase` | `MCPurchase` | `TypeOK` `ButtonWaits` `ShownIsListed` `CompletedWasReported` `PollingIsBounded` `StatusOnlyAdvances` | button, dialog, toast and polling agree under every order of timers, callbacks and answers |
| `pages` | `MCPages` | `TypeOK` `ViewsCatchUp` `NothingStranded` `FundedSelection` (apps), `BuyIsCovered` `EstimateMatches` `SpinnerHasRequest` (form), `OwnRecord` `OneStarterApp` (session), `OwnCountry` `GateHolds` (nationality check) | four parts of the page, each alone |

`MCPages` checks four modules in one run. They share no variable, so that the
product of their states would show nothing more than each on its own: `part` is
chosen in the first state and only that part moves.

Bounds, and why they are enough:

* Crash: two submissions of one app, one worker, one retry, one restart of
  either process. Rows interact only through the app's balances and the
  monitor's batch, which two submissions show (`Limit = 1` makes them compete);
  the bill of 2 is split between both balances, so there is an `UPDATE` to be
  cut off from.
* Reservations: two apps with equal balances, which share a Redis key, a worker and
  the monitor, which attempt different submissions or both the same. Every order of
  their `RPUSH` and `LRANGE`; a retried submission is in the list twice, and the first
  at another cost than before (`MovingQuote`).
* Retries: one submission is enough for what a single row promises; two workers
  (a message has one receiver, which the model does not assume), two retries
  and a reset, to below zero, into the middle of the range or above it.
* Live: two submissions, `Limit = 1` and `Capacity = 1`, so that the newest row
  can stand before the older and a worker can go deaf.
* Ledger: three requests at once, because the overdraft grows with their number
  and two do not show that; amounts of minus a half, a half and one credit; 1.5
  credits granted at a time; five requests in all.
* Indexer: two deposits in one transaction and block and one a block later, so
  that a stop can fall between two logs of a block, that the saved block differs
  from the last one and that `UNIQUE(chain_id, tx_hash)` bites; a threshold of
  one, reorganisations of one block, two stops, one rewind.
* Purchase: an ERC20 deposit and an Avail transfer in either order (the flow with a
  native token is the one with an ERC20 token without `Approve`) and two instances
  of the button (`MaxMounts`), so that the handler and the timers of the one meet
  those of the other. The delays keep the order of those in the code (1 s, 2 s, 2 s,
  4 s, 2 s, and 2 s, 5 s and 2 min of the polling), in small units.
* Pages, apps: two apps, of which one has a credit, a main balance of two, two
  requests at once (`MaxJobs`), and one event from outside (`MaxOutside`: a
  submission, a session refresh or a failed refresh); `Dialog` is bounded to states
  in which a request can follow.
* Pages, form: two chains with a token each and two estimates on their way
  (`MaxFlights`), an older and the newest. Session: two people and two fetches at
  once. Nationality check: two users, an allowed and a denied country, and one
  request whose page was left (`MaxOrphans`).

Each config switches deadlock checking off: every bound (retries, crashes,
requests, headers) lets the model stop, as the services do when there is nothing
to do.

Fairness. `SubmissionPipeline!FairSpec`: tokio schedules the tasks of both
processes, time passes (`Overdue`), the calls an attempt waits for return an
answer or an error, and rounds go on. It assumes that `increase_retry_count`
succeeds in the end if it is tried again and again (strong fairness of
`Increment`) and nothing else of success: inserts, posts and attempts may fail
every time. `EvmIndexer!FairSpec`: headers keep coming and are not answered with
errors for ever (strong fairness), and a log is handled or given up. Nothing
makes `Restarts` happen, for the code does not resubscribe; `EventuallyHandled`
speaks of behaviours in which somebody starts the monitor again and again. For the
dashboard no fairness is assumed and no liveness stated: its requests have no
timeout, its wallets may never answer, and its user may leave.

### What the violated runs say

* `pipeline_lost`: `README.md` promises resubmission of failed transactions. A
  message whose detached insert fails is known only to its worker, and when that
  worker fails its error entry matches no row.
* `pipeline_twice`: the resolved check is one read at the start. The monitor can
  record its extrinsic before the worker posts, and both bill.
* `ledger_delete`: the comment says allocated credits are unlocked on deletion;
  what is refunded is `credit_used`, and `credit_balance` is lost with the row.
* `indexer_lost`: `start_block` moves on before logs are handled. A failed price
  lookup is logged, and no later query returns the deposit.

## 4. The proofs

All theorems hold for every value of the constants that satisfies the named
assumptions of the modules (`SubsAssumption`, `AmountsAssumption`,
`DepositsAssumption`, `ChainAssumption` and so on): sets are finite where the
code counts them, costs and grants are not negative, deposits are numbered in
block order, the chain is older than the threshold.

`SubmissionPipelineProofs`

* `TypeCorrect` (`TypeOK`). The invariant is proved part by part; the lemmas
  `SendSteps` to `HistorySteps` say which actions touch which variables, so that
  each part deals only with its own.
* `BillsHavePosts` (`ChargedOnlyForPosts`). Not inductive: an attempt between
  the post and the debit could have its post billed by nobody yet. `Covered`
  adds one due bill (`ToBill`) for an attempt at `record` or `debitApp`.
* `PreImageKept` (`PreImageAvailable`). `RowInv` adds that an insert still to
  run has no row, and that rows belong to accepted submissions: otherwise an
  insert could put a payload back on a resolved row.
* `ResolvedStays` (`ResolvedIsFinal`), an action property: a row with an
  extrinsic has no payload by `RowInv`, so a round does not carry it, and by
  `Moves` the monitor enters `process_response` only with rows it carries.

`SubmissionBoundsProofs`

* `RowsAreTrue` (`RowsTellTheTruth`). `Covered` says that what is recorded was
  posted; `Written` adds that a submission about to be debited has been recorded,
  or was when it had no row.
* `PostsStayBounded` (`PostsBounded`). `MessageInv`: a message lies with one worker,
  which receives it once, so that what the worker has posted and what it is about to
  post make one at most. `RetryInv`: posts of the monitor do not exceed its picks,
  and picks and retry counter rise together below what was granted.
* `PromiseKept` (`KeepsPromise`): `SubmissionPromise` is implemented, under the
  mapping of `Promise` that reads the extrinsic and the reported state off the row.
  `PromiseStep` goes through the actions; it needs `RowInv` (an insert comes once),
  `Covered` (a bill has its post), `KnownSubs` (what is processed was accepted) and
  `MessageInv`, by which a worker that ends was the last to hold its message, so that
  no second error entry can follow.
* `FallbackIsBooked` (`FallbackLedger`), inductive with the types alone: what left an
  app's balance is in its rows, or with an attempt between the two statements. A step
  of an attempt changes one term of the sum over the rows or the attempts.
* `ReservationsCover` (`ReservationsCovered`). `ReserveInv` says of what passed the check
  under a key that its entry and those before it are still there, which `ListsGrow`
  (a list is only appended to) preserves, and that an attempt about to scan finds its
  own entry. The costs of a list up to the last entry admitted bound the sum of what
  was admitted (`SumOfPointed`).

`CreditLedgerProofs`

* `LedgerTypes` (`TypeOK`), with whole columns and no negative amount anywhere.
* `UserRowAccounts` (`UserLedger`), from the types and `MoveKeepsSum`: an amount
  moved between two whole columns leaves their sum alone up to half a credit
  each, and not at all when the amount is whole.
* `AppRowsAccount` (`AppLedger`): `AppsInv` adds that the rows that are gone hold nothing
  and that nothing is booked outside the two steps of a move, so that a step changes
  one term of the sum over the apps and one of that over the requests.
* `StaleChecksOverdrawLittle` (`OverdraftBounded`). Not inductive: a balance can be at
  its bound while a request that checked it before has yet to take from it.
  `OverdraftInv` says what is left of each balance once every request under way has
  taken what it may: a request that starts has checked the balance, and those that
  had started before it are at most all others.

`SumTheorems` proves about `SumFunctionOnSet` of the community modules what these need:
the sum of a set with one element more or less, of two functions, of one that changed
at one argument, of a part of a set. The library defines the sum as a recursive
function that takes an arbitrary element at each turn; that it exists and obeys its
recursion is shown by induction over subsets, from the least cardinality of a
counterexample (`LeastNatural`), without the library's induction theorems, which take an
operator.

`EvmIndexerProofs`, all from `StepKinds`, which sums up what a step does to the
task:

* `IndexerTypes` (`TypeOK`).
* `DepositsAreKept` (`NothingSlips`), with `BatchBehind`: the logs under way lie
  behind `start_block`, and saving the block of the first leaves the others at
  or after it.
* `CreditsStayBounded` (`CreditsBounded`), with `CreditsPaid`: a deposit that is
  ahead of `start_block` or still in the batch has at most one credit for each
  stop and rewind.
* `CreditsAreFinal` (`OnlyFinalCredited`), with `FinalOnly`: the batch too holds
  only final deposits.

`PagesProofs`, three pages with an invariant each:

* the form, from `FormInv`: `BuyStaysCovered` (`BuyIsCovered`; the error is right even
  while the button is disabled for another reason, `ErrorShown`), `SpinnerStops`
  (`SpinnerHasRequest`; one request has the newest id, `OneNewest`) and
  `EstimateIsForForm` (`EstimateMatches`; `AskedFor` says of what was asked last that it
  is what is on its way and what is on show, and that it is for what is in the form);
* the session: `StarterAppOnce` (`OneStarterApp`), with `StarterOnce`: an unregistered
  user has no first app, and one fetch at most, the one that registered her, is on its
  way to create it; `RecordIsOwn` (`OwnRecord`), with `OwnInv`: whatever outlives no
  session, the token, the calls for tokens and the fetches, is of who is signed in;
* the nationality check, from `GateInv`: `GateIsKept` (`GateHolds`; `Guarded` says it
  behind an open dialog too) and `CountryIsOwn` (`OwnCountry`; wherever a country of a
  user is kept or on its way, the user submitted it, `OwnAnswers`, and a selection has
  an owner, `OwnedStore`).

`AppCreditsProofs`, for any apps, keys, jobs and bounds. `RequestEnds`, `RowsAfter`,
`JobsAfter`, `ReadEffects` and the lemmas on queues (`QueueWithout` and so on) sum up
what a request, a read and the removal of an answer do, so that the invariants are
proved from these and not from the actions:

* `AppTypes` (`TypeOK`), from `Types`, which writes the sets of rows and answers out.
* `OnlyFundedSelected` (`FundedSelection`). The server takes any selection, so the
  invariant follows one to wherever it can be sent from: `FundInv` says of the page, of
  every answer on its way, of the open dialog and of a handler about to send a
  selection that it has no app on credits it was never given.
* `NothingIsStranded` (`NothingStranded`). `DrainInv`, of the apps that are not `loose`:
  one on the main balance has credits only while the assignment that brought them has
  its selection to send (`MainIsEmpty`), and a handler about to move an app there meets
  no assignment and takes back all the credits the app has (`LeaverKnows`), which
  submissions can only lessen.
* `ViewsDoCatchUp` (`ViewsCatchUp`). `CoverInv`: a view that nothing left behind will be
  read again (a read is asked for, or a handler that changed it has its refresh before
  it, `Unread`), or its newest answer has the server's value and is not late, or it is
  right and only late answers are on their way. `OwnOnly` is needed because the page's
  own read is aborted: it has one answer at most, and only while it waits for it.

`CreditPurchaseProofs`, from `PurchaseInv`, for any purchases and instances and any
delays in the order of `DelaysAssumption`:

* `PurchaseTypes` (`TypeOK`) and `ButtonAlwaysWaits` (`ButtonWaits`), with
  `Instances`: a new instance has a number no handler has yet.
* `PollingStaysBounded` (`PollingIsBounded`), with `OwnInterval`: what an instance
  clears is a polling of its own, so that a start or an end elsewhere leaves the
  others with their safety stops.
* `CompletedIsReported` (`CompletedWasReported`) and `StatusesAdvance`
  (`StatusOnlyAdvances`), from `Flow` of each purchase: `Listed` ties the list to the
  chain and the backend, and `InOrder` says which status a running timer will find,
  and that the inclusion timer is due before the finality one, which is where the
  order of the delays comes in.
* `ShownStaysListed` (`ShownIsListed`), with `ToastGoesFirst`: the toast of a completed
  purchase has less time left than its entry.

Every type invariant, safety invariant and action property that a passing run checks
is stated by one of these theorems. Only model-checked is liveness
(`EventuallyResolvedOrExhausted`, `EventuallyHandled`), which is out of the prover's
reach. Of the operators of `CreditBilling`, `BillIsCovered` says that a bill takes from
a balance no more than it holds when `BalanceCovers` passed, and `LastReservedPaysAll`
that the cost accumulated up to an entry includes the first entries of all before it.

## 5. Not modelled

* Avail funds monitor: its statements are those of the EVM monitor, but its way
  through the blocks (nothing is caught up after a restart, a failing deposit ends
  its block) has no module and is listed as a hazard.
* API key cache: nothing in the code bounds how long a deleted key goes on working,
  so that only a weaker promise than the API makes could be stated.
* Deposit contract: sequential, and atomic by the chain it runs on; it enters as the
  deposits the indexer reads and the chain steps of a purchase.
* Prices, fees and their conversion: quotients of external quotes.
* KYC, files, S3, profile edits: no state others depend on.
* Encryption: a step that may fail, part of `ReadAccount` and `Abort`.
* Two receivers for one thread id, which a stalled runtime can cause
  (`consumer.rs:88`); a chain call of the fallback monitor that never returns
  (`monitor.rs:180`: a round waits for all its attempts, without a timeout).
* A chain younger than the threshold (`evm.rs:91` underflows), which
  `ChainAssumption` excludes; a subscription that ends and is not renewed
  (`evm.rs:86`) is `Stops`.
* Column overflow at 39 digits, integer overflow of `retry_count`.
* Dashboard: histories, discount eligibility and the balance page, which only read
  and show; the filter of the app list; wallet connection menus; dialogs no page
  opens (`assign-credits.tsx`, `reclaim-credits.tsx`,
  `switch-main-balance-alert.tsx`); the polling inside `useTransactionProgress`,
  which nothing calls; layout, animation, wording.

## 6. Order of the work

Billing arithmetic; the pipeline with its safety runs; promise and refinement; the
liveness run; the ledger; the indexer; their proofs; purchases in the dashboard;
its form, session, apps and nationality check; their proofs; the bounds and the
refinement of the pipeline; sums and the bounds of ledger and reservations; the apps
of the dashboard.

What could follow:

1. `AvailIndexer`: blocks missed while the task is down, sharing `Claim` and
   `Credit` with `EvmIndexer`.
2. `ApiKeyCache`: look-up, fill and deletion racing.
3. Two receivers per thread id in the pipeline.
4. The reservation list read against the ledger: what `ReservationsCovered` says of
   two balances, said of the debits that follow.
5. Three handlers at once in `MCPages`, which today exceeds the time of a run.
