------------------------- MODULE SubmissionPipeline -------------------------
(***************************************************************************)
(* The path of a submission: POST /v1/submit_data answers at once, a       *)
(* detached task inserts its customer_expenditures row, a worker thread    *)
(* posts the data to Avail and bills it, and the fallback monitor, another *)
(* process, resubmits what failed or stayed behind.  Workers and monitor   *)
(* run the same process_response and meet only in Postgres and Redis.      *)
(*                                                                         *)
(* An attempt is identified by who makes it: a worker thread w, or, for    *)
(* the monitor, the submission s it is retrying (a round holds a row at    *)
(* most once, and rounds do not overlap).  Every SQL statement, every      *)
(* Redis command and the chain call is a step of its own.                  *)
(* Costs are whole credits here, which the columns store exactly; what     *)
(* they do to a fraction is in CreditLedger.                               *)
(***************************************************************************)
EXTENDS CreditBilling, FiniteSets, FiniteSetsExt

CONSTANTS
  Subs,          \* submission ids
  NoSub,         \* an idle worker's submission
  Workers,       \* thread ids 0 .. NUMBER_OF_THREADS - 1
  Apps,          \* the apps of one user
  AppOf,         \* the app a submission belongs to
  Quotes,        \* the credit costs the estimator may return, per submission
  InitialApp,    \* apps.credit_balance at the start
  InitialUser,   \* users.credit_balance at the start
  Selected,      \* the values apps.credit_selection may have
  Retry,         \* RETRY_COUNT of the fallback monitor
  Capacity,      \* BROADCAST_CHANNEL_SIZE
  Limit,         \* rows the monitor takes per round
  ResetTo,       \* the counts an administrator may reset to, any i32
  MaxCrashes,    \* bound: restarts of either process
  MaxResets      \* bound: PUT /v1/admin/reset_retry_count calls

ASSUME SubsAssumption ==
  /\ IsFiniteSet(Subs) /\ NoSub \notin Subs
  /\ IsFiniteSet(Workers)
  /\ Subs \cap Workers = {}
ASSUME AppsAssumption ==
  /\ IsFiniteSet(Apps)
  /\ AppOf \in [Subs -> Apps]
  /\ Selected \subseteq Selections
  /\ InitialApp \in [Apps -> Int]
  /\ InitialUser \in Int
ASSUME QuotesAssumption == Quotes \in [Subs -> SUBSET Nat]
ASSUME BoundsAssumption ==
  /\ Retry \in Nat \ {0} /\ Limit \in Nat \ {0} /\ Capacity \in Nat \ {0}
  /\ ResetTo \subseteq Int
  /\ MaxCrashes \in Nat /\ MaxResets \in Nat

VARIABLES
  \* data_submission, in memory
  sentAt,        \* position of the submission in the broadcast; 0: not sent
  inbox,         \* per worker, the messages of its thread_id not yet received
  inserting,     \* rows whose detached insert task has not run
  alive,         \* workers still inside their receive loop
  \* Postgres: customer_expenditures, a set per nullable column
  createdAt,     \* insertion order; 0: no row
  payload, txHash, error,
  overdue,       \* rows created more than 15 minutes ago
  retry,
  \* Postgres: apps and users
  selection, appBal, appUsed, fallbackUsed, userBal, userUsed,
  \* Redis: one list per (user, app balance, user balance) key
  reserved,
  \* attempts
  pc, cur, snap,
  carried,       \* rows the monitor's query returned with a payload
  \* history, read by no guard
  posts, charges, picks, granted, admitted, missed, writtenOff,
  crashes, resets

sendVars    == <<sentAt, inbox, inserting, alive>>
rowVars     == <<createdAt, payload, txHash, error, overdue, retry>>
balanceVars == <<selection, appBal, appUsed, fallbackUsed, userBal, userUsed>>
attemptVars == <<pc, cur, snap, carried>>
history     == <<posts, charges, picks, granted, admitted, missed, writtenOff>>
bounds      == <<crashes, resets>>
vars == <<sendVars, rowVars, balanceVars, reserved, attemptVars, history, bounds>>

-----------------------------------------------------------------------------
Attempts == Workers \cup Subs
NoSnap   == [sel |-> "unset", app |-> 0, user |-> 0, cost |-> 0]

\* The await points of process_response, in order.
ProcessPcs == {"account", "push", "scan", "post", "record", "debitApp", "debitUser"}
WorkerPcs  == {"idle", "resolved", "failed"} \cup ProcessPcs
MonitorPcs == {"idle", "increment"} \cup ProcessPcs

Stored   == {s \in Subs : createdAt[s] > 0}
Accepted == {s \in Subs : sentAt[s] > 0}

SubOf(p) == IF p \in Subs THEN p ELSE cur[p]
AppOfAttempt(p) == AppOf[SubOf(p)]

\* The Redis key of an attempt: the balances it read, not the app it is for.
Key(p)  == <<snap[p].app, snap[p].user>>
List(k) == IF k \in DOMAIN reserved THEN reserved[k] ELSE << >>
Bill(p) == BillSplit(snap[p].sel, snap[p].cost, snap[p].app)

Goto(p, label) == pc' = [pc EXCEPT ![p] = label]

\* Mutant: the message of an ended attempt is not forgotten.
FinishKeepsMessage(p) ==
  /\ Goto(p, "idle")
  /\ snap' = [snap EXCEPT ![p] = NoSnap]
  /\ carried' = carried \ {p}
  /\ UNCHANGED cur

\* An attempt ends: its future is dropped and with it what it had read.
Finish(p) ==
  /\ Goto(p, "idle")
  /\ snap' = [snap EXCEPT ![p] = NoSnap]
  /\ cur' = IF p \in Workers THEN [cur EXCEPT ![p] = NoSub] ELSE cur
  /\ carried' = carried \ {p}

\* A worker's attempt has returned an error, or its 120 s are over.
GiveUp(p) ==
  /\ p \in Workers
  /\ Goto(p, "failed")
  /\ snap' = [snap EXCEPT ![p] = NoSnap]
  /\ UNCHANGED <<cur, carried>>

\* Its last statement has taken effect; the reply may still be too late.
Complete(p) == Finish(p) \/ GiveUp(p)

Init ==
  /\ sentAt = [s \in Subs |-> 0]
  /\ inbox = [w \in Workers |-> {}]
  /\ inserting = {} /\ alive = Workers
  /\ createdAt = [s \in Subs |-> 0]
  /\ payload = {} /\ txHash = {} /\ error = {} /\ overdue = {}
  /\ retry = [s \in Subs |-> 0]
  /\ selection \in [Apps -> Selected]
  /\ appBal = InitialApp /\ userBal = InitialUser
  /\ appUsed = [a \in Apps |-> 0] /\ fallbackUsed = [a \in Apps |-> 0]
  /\ userUsed = 0
  /\ reserved = << >>
  /\ pc = [p \in Attempts |-> "idle"]
  /\ cur = [w \in Workers |-> NoSub]
  /\ snap = [p \in Attempts |-> NoSnap]
  /\ carried = {}
  /\ posts = [p \in Attempts |-> [s \in Subs |-> 0]]
  /\ charges = [p \in Attempts |-> [s \in Subs |-> 0]]
  /\ picks = [s \in Subs |-> 0]
  /\ granted = [s \in Subs |-> Retry]
  /\ admitted = {} /\ missed = {}
  /\ writtenOff = [p \in Attempts |-> 0]
  /\ crashes = 0 /\ resets = 0
-----------------------------------------------------------------------------
(* data_submission: the HTTP handler and its detached insert               *)

\* _submit_data: the id is fresh, the insert task is spawned, the message goes
\* to a random thread, and 200 is returned whatever becomes of the two.
Submit(s) ==
  /\ sentAt[s] = 0
  /\ sentAt' = [sentAt EXCEPT ![s] = Cardinality(Accepted) + 1]
  /\ inserting' = inserting \cup {s}
  /\ \E w \in Workers :
       inbox' = IF w \in alive THEN [inbox EXCEPT ![w] = @ \cup {s}] ELSE inbox
  /\ UNCHANGED <<alive, rowVars, balanceVars, reserved, attemptVars, history, bounds>>

\* create_customer_expenditure_entry.
InsertRow(s) ==
  /\ s \in inserting
  /\ inserting' = inserting \ {s}
  /\ createdAt' = [createdAt EXCEPT ![s] = Cardinality(Stored) + 1]
  /\ payload' = payload \cup {s}
  /\ UNCHANGED <<sentAt, inbox, alive, txHash, error, overdue, retry,
                 balanceVars, reserved, attemptVars, history, bounds>>

\* No connection, or the INSERT failed: logged, and there will be no row.
InsertFails(s) ==
  /\ s \in inserting
  /\ inserting' = inserting \ {s}
  /\ UNCHANGED <<sentAt, inbox, alive, rowVars, balanceVars, reserved,
                 attemptVars, history, bounds>>

\* The 15 minutes of get_unresolved_transactions have passed for a row (the
\* query asks for its age only while it has a payload).
Overdue(s) ==
  /\ s \in payload \ overdue
  /\ overdue' = overdue \cup {s}
  /\ UNCHANGED <<sendVars, createdAt, payload, txHash, error, retry,
                 balanceVars, reserved, attemptVars, history, bounds>>

-----------------------------------------------------------------------------
(* Worker threads: the receive loop and response_handler                   *)

\* receiver.recv(): the messages of a thread arrive in the order they were sent.
Receive(w) ==
  /\ w \in alive /\ pc[w] = "idle"
  /\ \E s \in inbox[w] :
       /\ \A t \in inbox[w] : sentAt[s] <= sentAt[t]
       /\ cur' = [cur EXCEPT ![w] = s]
       /\ inbox' = [inbox EXCEPT ![w] = @ \ {s}]
  /\ Goto(w, "resolved")
  /\ UNCHANGED <<sentAt, inserting, alive, rowVars, balanceVars, reserved,
                 snap, carried, history, bounds>>

\* recv() returns Err(Lagged): more messages than the channel holds were sent
\* while the thread was busy, for whatever thread they were.  The while-let
\* ends, the thread never receives again, and as its heartbeat task lives on
\* nobody restarts it.
Lagged(w) ==
  /\ w \in alive /\ pc[w] = "idle"
  /\ Cardinality(Accepted) > Capacity
  /\ alive' = alive \ {w}
  /\ inbox' = [inbox EXCEPT ![w] = {}]
  /\ UNCHANGED <<sentAt, inserting, rowVars, balanceVars, reserved,
                 attemptVars, history, bounds>>

\* get_did_fallback_resolved answers no: the row has no extrinsic, is missing, or
\* the query failed, which counts as no for a resolved row too.
CheckResolved(w) ==
  /\ pc[w] = "resolved"
  /\ Goto(w, "account")
  /\ UNCHANGED <<sendVars, rowVars, balanceVars, reserved, cur, snap, carried,
                 history, bounds>>

\* "Fallback resolved transaction", or no connection: nothing is recorded.
SkipMessage(w) ==
  /\ pc[w] = "resolved"
  /\ Finish(w)
  /\ UNCHANGED <<sendVars, rowVars, balanceVars, reserved, history, bounds>>

\* update_error_entry after an error or after the 120 s timeout.  The UPDATE
\* may fail (logged) and finds nothing when the row is not there yet.
MarkError(w) ==
  /\ pc[w] = "failed"
  /\ error' \in {error, error \cup ({cur[w]} \cap Stored)}
  /\ Finish(w)
  /\ UNCHANGED <<sendVars, createdAt, payload, txHash, overdue, retry,
                 balanceVars, reserved, history, bounds>>
-----------------------------------------------------------------------------
(* process_response, run by workers and by the monitor alike               *)

\* get_account_by_id, the encryption and the cost estimate, then
\* validate_balance on what was read.  (A failure is Abort.)
ReadAccount(p) ==
  /\ pc[p] = "account"
  /\ \E c \in Quotes[SubOf(p)] :
       LET a == AppOfAttempt(p)
       IN  /\ BalanceCovers(selection[a], c, appBal[a], userBal)
           /\ snap' = [snap EXCEPT ![p] = [sel |-> selection[a], app |-> appBal[a],
                                           user |-> userBal, cost |-> c]]
  /\ Goto(p, "push")
  /\ UNCHANGED <<sendVars, rowVars, balanceVars, reserved, cur, carried, history, bounds>>

\* RPUSH of "submission:cost".  Entries are never removed.
PushReservation(p) ==
  /\ pc[p] = "push"
  /\ LET entry == [sub |-> SubOf(p), cost |-> snap[p].cost]
     IN  reserved' = [k \in DOMAIN reserved \cup {Key(p)} |->
                        IF k = Key(p) THEN Append(List(k), entry) ELSE reserved[k]]
  /\ Goto(p, "scan")
  /\ UNCHANGED <<sendVars, rowVars, balanceVars, cur, snap, carried, history, bounds>>

\* Mutant: the check looks at this submission's cost alone.
OwnCostCovers(p) ==
  BalanceCovers(snap[p].sel, snap[p].cost, snap[p].app, snap[p].user)

\* LRANGE, the cumulative cost up to the first entry of this submission, and
\* validate_balance on it.
ReservationCovers(p) ==
  LET list == List(Key(p))
  IN  BalanceCovers(snap[p].sel, CumulativeCost(list, FirstEntry(list, SubOf(p))),
                    snap[p].app, snap[p].user)

ScanReservations(p) ==
  /\ pc[p] = "scan"
  /\ ReservationCovers(p)
  /\ admitted' = admitted \cup {<<Key(p), SubOf(p)>>}
  /\ Goto(p, "post")
  /\ UNCHANGED <<sendVars, rowVars, balanceVars, reserved, cur, snap, carried,
                 posts, charges, picks, granted, missed, writtenOff, bounds>>

\* Mutant: an error of submit_data is swallowed.
PostErrorIgnored(p) ==
  /\ pc[p] = "post"
  /\ posts' \in {posts, [posts EXCEPT ![p][SubOf(p)] = @ + 1]}
  /\ Goto(p, "record")
  /\ UNCHANGED <<sendVars, rowVars, balanceVars, reserved, cur, snap, carried,
                 charges, picks, granted, admitted, missed, writtenOff, bounds>>

\* Mutant: the bill is written before the row.
PostThenBill(p) ==
  /\ pc[p] = "post"
  /\ posts' = [posts EXCEPT ![p][SubOf(p)] = @ + 1]
  /\ Goto(p, "debitApp")
  /\ UNCHANGED <<sendVars, rowVars, balanceVars, reserved, cur, snap, carried,
                 charges, picks, granted, admitted, missed, writtenOff, bounds>>

\* submit_data: sign_and_submit puts the extrinsic on the chain; the receipt
\* and its events may still fail, and the caller cannot tell.
Post(p) ==
  /\ pc[p] = "post"
  /\ posts' = [posts EXCEPT ![p][SubOf(p)] = @ + 1]
  /\ Goto(p, "record")
  /\ UNCHANGED <<sendVars, rowVars, balanceVars, reserved, cur, snap, carried,
                 charges, picks, granted, admitted, missed, writtenOff, bounds>>

\* Mutant: the payload is left on the row.
RecordKeepsPayload(p) ==
  /\ pc[p] = "record"
  /\ txHash' = txHash \cup ({SubOf(p)} \cap Stored)
  /\ error' = error \ {SubOf(p)}
  /\ missed' = missed \cup ({SubOf(p)} \ Stored)
  /\ Goto(p, "debitApp")
  /\ UNCHANGED <<sendVars, createdAt, payload, overdue, retry, balanceVars, reserved,
                 cur, snap, carried, posts, charges, picks, granted, admitted,
                 writtenOff, bounds>>

\* Mutant: the error of an earlier attempt is left on the row.
RecordKeepsError(p) ==
  /\ pc[p] = "record"
  /\ txHash' = txHash \cup ({SubOf(p)} \cap Stored)
  /\ payload' = payload \ {SubOf(p)}
  /\ missed' = missed \cup ({SubOf(p)} \ Stored)
  /\ Goto(p, "debitApp")
  /\ UNCHANGED <<sendVars, createdAt, error, overdue, retry, balanceVars, reserved,
                 cur, snap, carried, posts, charges, picks, granted, admitted,
                 writtenOff, bounds>>

\* update_customer_expenditure: one UPDATE, Ok even when it matches no row.
RecordExtrinsic(p) ==
  /\ pc[p] = "record"
  /\ LET row == {SubOf(p)} \cap Stored
     IN  /\ txHash' = txHash \cup row
         /\ payload' = payload \ row
         /\ error' = error \ row
  /\ missed' = missed \cup ({SubOf(p)} \ Stored)
  /\ Goto(p, "debitApp")
  /\ UNCHANGED <<sendVars, createdAt, overdue, retry, balanceVars, reserved,
                 cur, snap, carried, posts, charges, picks, granted, admitted,
                 writtenOff, bounds>>

\* update_credit_balance, first statement.  Without a fallback part it is the
\* last step of the attempt.
DebitApp(p) ==
  /\ pc[p] = "debitApp"
  /\ LET a == AppOfAttempt(p)
     IN  /\ appBal' = [appBal EXCEPT ![a] = @ - Bill(p).credit]
         /\ appUsed' = [appUsed EXCEPT ![a] = @ + Bill(p).credit]
         /\ fallbackUsed' = [fallbackUsed EXCEPT ![a] = @ + Bill(p).fallback]
  /\ charges' = [charges EXCEPT ![p][SubOf(p)] = @ + 1]
  /\ \/ Bill(p).fallback > 0 /\ Goto(p, "debitUser") /\ UNCHANGED <<cur, snap, carried>>
     \/ Bill(p).fallback = 0 /\ Complete(p)
  /\ UNCHANGED <<sendVars, rowVars, selection, userBal, userUsed, reserved,
                 posts, picks, granted, admitted, missed, writtenOff, bounds>>

\* Mutant: the user pays the whole cost, not the fallback part.
DebitUserWholeCost(p) ==
  /\ pc[p] = "debitUser"
  /\ userBal' = userBal - snap[p].cost
  /\ userUsed' = userUsed + snap[p].cost
  /\ Complete(p)
  /\ UNCHANGED <<sendVars, rowVars, selection, appBal, appUsed, fallbackUsed,
                 reserved, history, bounds>>

\* update_credit_balance, second statement.
DebitUser(p) ==
  /\ pc[p] = "debitUser"
  /\ userBal' = userBal - Bill(p).fallback
  /\ userUsed' = userUsed + Bill(p).fallback
  /\ Complete(p)
  /\ UNCHANGED <<sendVars, rowVars, selection, appBal, appUsed, fallbackUsed,
                 reserved, history, bounds>>

\* What an attempt cut short now has booked on the app but never on the user.
Unbooked(p) == IF pc[p] = "debitUser" THEN Bill(p).fallback ELSE 0

\* The attempt fails before its next step takes effect: an early return of
\* process_response, a failed statement or command, or the worker's timeout,
\* which drops the future at any await.  The monitor has no timeout and writes
\* no error: it logs, and the row stays as it is.
Abort(p) ==
  /\ pc[p] \in ProcessPcs
  /\ GiveUp(p) \/ (p \in Subs /\ Finish(p))
  /\ writtenOff' = [writtenOff EXCEPT ![p] = @ + Unbooked(p)]
  /\ UNCHANGED <<sendVars, rowVars, balanceVars, reserved, posts, charges, picks,
                 granted, admitted, missed, bounds>>

-----------------------------------------------------------------------------
(* The fallback monitor                                                    *)

\* Mutant: one retry more than RETRY_COUNT.
UnresolvedOnceMore ==
  {s \in Stored : /\ s \in error \/ (s \in payload /\ s \in overdue)
                  /\ retry[s] <= Retry}

\* Mutant: only rows with an error are taken, not those merely left behind.
UnresolvedErrors ==
  {s \in Stored : s \in error /\ retry[s] < Retry}

\* get_unresolved_transactions.
Unresolved ==
  {s \in Stored : /\ s \in error \/ (s \in payload /\ s \in overdue)
                  /\ retry[s] < Retry}

\* ORDER BY created_at DESC LIMIT: the newest rows of a set.
Newest(rows, n) ==
  {s \in rows : Cardinality({t \in rows : createdAt[t] > createdAt[s]}) < n}

\* A round starts when the one before is over (join_all), with the rows as the
\* query returned them.
StartRound ==
  /\ \A s \in Subs : pc[s] = "idle"
  /\ Unresolved # {}
  /\ LET batch == Newest(Unresolved, Limit)
     IN  /\ pc' = [p \in Attempts |-> IF p \in batch THEN "increment" ELSE pc[p]]
         /\ carried' = batch \cap payload
  /\ UNCHANGED <<sendVars, rowVars, balanceVars, reserved, cur, snap, history, bounds>>

\* Mutant: a row that came without a payload is resubmitted.
IncrementIgnoresPayload(s) ==
  /\ pc[s] = "increment"
  /\ retry' = [retry EXCEPT ![s] = @ + 1]
  /\ picks' = [picks EXCEPT ![s] = @ + 1]
  /\ Goto(s, "account")
  /\ UNCHANGED <<sendVars, createdAt, payload, txHash, error, overdue, balanceVars,
                 reserved, cur, snap, carried, posts, charges, granted, admitted,
                 missed, writtenOff, bounds>>

\* increase_retry_count, then the payload the query returned is looked at: a row
\* without one (already on chain, with an error written later) goes no further.
\* The second retry check of the code can never fail, the query has made it.
Increment(s) ==
  /\ pc[s] = "increment"
  /\ retry' = [retry EXCEPT ![s] = @ + 1]
  /\ picks' = [picks EXCEPT ![s] = @ + 1]
  /\ Goto(s, IF s \in carried THEN "account" ELSE "idle")
  /\ UNCHANGED <<sendVars, createdAt, payload, txHash, error, overdue, balanceVars,
                 reserved, cur, snap, carried, posts, charges, granted, admitted,
                 missed, writtenOff, bounds>>

IncrementFails(s) ==
  /\ pc[s] = "increment"
  /\ Finish(s)
  /\ UNCHANGED <<sendVars, rowVars, balanceVars, reserved, history, bounds>>

-----------------------------------------------------------------------------
(* Restarts and the administrator                                          *)

\* What a set of attempts was doing is lost; Postgres and Redis remain.
DropAttempts(ps) ==
  /\ pc' = [p \in Attempts |-> IF p \in ps THEN "idle" ELSE pc[p]]
  /\ snap' = [p \in Attempts |-> IF p \in ps THEN NoSnap ELSE snap[p]]
  /\ cur' = [w \in Workers |-> IF w \in ps THEN NoSub ELSE cur[w]]
  /\ writtenOff' = [p \in Attempts |->
                      writtenOff[p] + IF p \in ps THEN Unbooked(p) ELSE 0]
  /\ crashes < MaxCrashes /\ crashes' = crashes + 1
  /\ carried' = carried \ ps
  /\ UNCHANGED <<rowVars, balanceVars, reserved, sentAt, posts, charges,
                 picks, granted, admitted, missed, resets>>

\* The broadcast channel and the detached inserts live in memory only.
SubmissionRestarts ==
  /\ DropAttempts(Workers)
  /\ inbox' = [w \in Workers |-> {}]
  /\ inserting' = {} /\ alive' = Workers

MonitorRestarts ==
  /\ DropAttempts(Subs)
  /\ UNCHANGED <<inbox, inserting, alive>>

\* The retries a count leaves.
Left(n) == IF n < Retry THEN Retry - n ELSE 0

\* handle_reset_retry_count: for one row, for an app, or for every row, and to
\* whatever count the administrator names, below zero or above the limit.
ResetRetry ==
  /\ resets < MaxResets /\ resets' = resets + 1
  /\ \E n \in ResetTo,
        scope \in {{s} : s \in Subs} \cup {{s \in Subs : AppOf[s] = a} : a \in Apps}
                  \cup {Subs} :
       /\ retry' = [s \in Subs |-> IF s \in scope \cap Stored THEN n ELSE retry[s]]
       /\ granted' = [s \in Subs |-> granted[s] +
                        IF s \in scope \cap Stored THEN Left(n) ELSE 0]
  /\ UNCHANGED <<sendVars, createdAt, payload, txHash, error, overdue, balanceVars,
                 reserved, attemptVars, posts, charges, picks, admitted, missed,
                 writtenOff, crashes>>

-----------------------------------------------------------------------------
Process(p) ==
  \/ ReadAccount(p)
  \/ PushReservation(p)
  \/ ScanReservations(p)
  \/ Post(p)
  \/ RecordExtrinsic(p)
  \/ DebitApp(p)
  \/ DebitUser(p)

Worker(w) ==
  \/ Receive(w)
  \/ CheckResolved(w)
  \/ SkipMessage(w)
  \/ MarkError(w)

Environment ==
  \/ \E s \in Subs : Submit(s) \/ InsertFails(s) \/ IncrementFails(s)
  \/ \E w \in Workers : Lagged(w)
  \/ \E p \in Attempts : Abort(p)
  \/ SubmissionRestarts \/ MonitorRestarts \/ ResetRetry

Next ==
  \/ \E s \in Subs : InsertRow(s) \/ Overdue(s) \/ Increment(s)
  \/ \E w \in Workers : Worker(w)
  \/ \E p \in Attempts : Process(p)
  \/ StartRound
  \/ Environment

Spec == Init /\ [][Next]_vars

\* The tasks of both processes are scheduled, time passes, and the monitor's
\* calls return.  A statement that fails now and then succeeds in the end
\* (strong fairness of Increment); nothing is assumed of inserts or attempts
\* succeeding.
Fairness ==
  /\ \A s \in Subs : /\ WF_vars(InsertRow(s) \/ InsertFails(s))
                     /\ WF_vars(Overdue(s))
                     /\ SF_vars(Increment(s))
                     /\ WF_vars(Increment(s) \/ IncrementFails(s))
  /\ \A w \in Workers : WF_vars(Worker(w))
  /\ \A p \in Attempts : WF_vars(Process(p) \/ Abort(p))
  /\ WF_vars(StartRound)

FairSpec == Spec /\ Fairness

-----------------------------------------------------------------------------
(* Properties                                                              *)

Entries == [sub : Subs, cost : Nat]
Snaps   == [sel : Selections, app : Int, user : Int, cost : Nat]

SendTypes ==
  /\ sentAt \in [Subs -> Nat]
  /\ inbox \in [Workers -> SUBSET Subs]
  /\ inserting \subseteq Subs /\ alive \subseteq Workers

RowTypes ==
  /\ createdAt \in [Subs -> Nat] /\ retry \in [Subs -> Int]
  /\ payload \subseteq Subs /\ txHash \subseteq Subs
  /\ error \subseteq Subs /\ overdue \subseteq Subs

BalanceTypes ==
  /\ selection \in [Apps -> Selections]
  /\ appBal \in [Apps -> Int] /\ appUsed \in [Apps -> Int]
  /\ fallbackUsed \in [Apps -> Int] /\ userBal \in Int /\ userUsed \in Int

ReservationTypes ==
  /\ DOMAIN reserved \subseteq Int \X Int
  /\ \A k \in DOMAIN reserved : reserved[k] \in Seq(Entries)

PcTypes ==
  /\ pc \in [Attempts -> WorkerPcs \cup MonitorPcs]
  /\ \A w \in Workers : pc[w] \in WorkerPcs
  /\ \A s \in Subs : pc[s] \in MonitorPcs
  /\ cur \in [Workers -> Subs \cup {NoSub}]
  /\ \A w \in Workers : cur[w] = NoSub <=> pc[w] = "idle"

AttemptTypes == snap \in [Attempts -> Snaps] /\ carried \subseteq Subs

HistoryTypes ==
  /\ posts \in [Attempts -> [Subs -> Nat]]
  /\ charges \in [Attempts -> [Subs -> Nat]]
  /\ picks \in [Subs -> Nat] /\ granted \in [Subs -> Nat]
  /\ missed \subseteq Subs
  /\ writtenOff \in [Attempts -> Int]
  /\ crashes \in Nat /\ resets \in Nat

\* The columns, the channel, the lists and the attempts have their types; a
\* worker holds a message exactly while its attempt runs.
TypeOK ==
  /\ SendTypes /\ RowTypes /\ BalanceTypes /\ ReservationTypes
  /\ PcTypes /\ AttemptTypes /\ HistoryTypes

\* A customer is never billed for data that was not posted: each signer has put
\* a submission on the chain at least as often as it has debited its cost,
\* through timeouts, errors after the post, restarts and retries.
ChargedOnlyForPosts ==
  \A p \in Attempts, s \in Subs : charges[p][s] <= posts[p][s]

\* The pre-image of a stored submission can always be served
\* (get_pre_image): the row has either the payload or the extrinsic it is in,
\* exactly one of them, whatever was interrupted and whoever wrote last.
PreImageAvailable ==
  /\ payload \cup txHash = Stored
  /\ payload \cap txHash = {}

\* A row claims an extrinsic only if someone posted the submission, and a bill
\* is recorded on its row before it is debited, unless the row was not there
\* when the extrinsic was recorded.
RowsTellTheTruth ==
  \A s \in Subs :
    /\ s \in txHash => \E p \in Attempts : posts[p][s] > 0
    /\ (\E p \in Attempts : charges[p][s] > 0) => s \in txHash \cup missed

\* RETRY_COUNT bounds what the monitor may post for a submission, and a worker
\* posts it at most once: together Retry + 1 extrinsics, and for each reset by
\* an administrator as many more as the new count leaves.
PostsBounded ==
  \A s \in Subs :
    /\ posts[s][s] <= granted[s]
    /\ \A w \in Workers : posts[w][s] <= 1
    /\ \A v, w \in Workers : posts[v][s] > 0 /\ posts[w][s] > 0 => v = w

\* The reservation list keeps attempts that saw the same balances from
\* spending them twice: the submissions admitted under one key would, at the
\* costs they reserved first, all together still pass validate_balance.
FirstCost(k, s) == List(k)[FirstEntry(List(k), s)].cost
ReservationsCovered ==
  \A k \in DOMAIN reserved :
    LET subs == {s \in Subs : <<k, s>> \in admitted}
        sels == {selection[AppOf[s]] : s \in subs}
    IN  subs # {} => \E sel \in sels :
          BalanceCovers(sel, SumFunctionOnSet([s \in subs |-> FirstCost(k, s)], subs),
                        k[1], k[2])

\* What apps report as paid from fallback credits is what the user was debited,
\* up to the attempts between the two UPDATEs and those cut short there.
Owed == [p \in Attempts |-> writtenOff[p] + Unbooked(p)]
FallbackLedger ==
  SumFunctionOnSet(fallbackUsed, Apps) = userUsed + SumFunctionOnSet(Owed, Attempts)

\* Once the extrinsic is on the row it stays there, and a submission the monitor
\* does not hold at that moment is never taken up by it again, even if a worker
\* that timed out late writes an error over it.
ResolvedIsFinal ==
  [][\A s \in txHash :
       /\ s \in txHash'
       /\ pc[s] \notin ProcessPcs /\ s \notin carried
            => pc'[s] \notin ProcessPcs /\ s \notin carried']_vars

\* "state" of handle_submission_info: an error hides an extrinsic.
Reported(s) ==
  IF s \notin Stored THEN "notFound"
  ELSE IF s \in error THEN "Error"
  ELSE IF s \in txHash THEN "Finalized" ELSE "Pending"

\* Submissions some worker has still to receive or is on.
Open == {s \in Subs : \E w \in Workers : s \in inbox[w] \/ cur[w] = s}

\* The pipeline keeps the promise of SubmissionPromise, for the state that
\* get_submission_info reports as for the extrinsic on the row: a late error
\* entry may hide the extrinsic, once, and only a later record shows it again.
Promise == INSTANCE SubmissionPromise WITH
  Signers <- Attempts,
  answered <- Accepted,
  status <- [s \in Subs |-> Reported(s)],
  recorded <- txHash,
  closed <- Accepted \ Open
KeepsPromise == Promise!Spec

\* Every stored submission is on the chain in the end, or its retries are used
\* up: neither newer rows, nor a deaf worker, nor failing attempts keep the
\* monitor's rounds from it.
EventuallyResolvedOrExhausted ==
  \A s \in Subs : s \in Stored ~> (s \in txHash \/ retry[s] >= Retry)

\* README.md, "Automatic monitoring and resubmission of failed transactions",
\* of every submission the API has answered with an id.  Not true: a message
\* whose row was never inserted is known to nobody once its worker fails.
EveryAcceptedIsHandled ==
  \A s \in Subs : s \in Accepted ~>
    (s \in txHash \/ retry[s] >= Retry \/ \E p \in Attempts : posts[p][s] > 0)

\* "Fallback resolved transaction": a worker does not post a submission whose
\* row already has its extrinsic.  Not true: the row is read once, before the
\* chain client is connected and the attempt begins, and a failed read says no.
WorkerSkipsResolved ==
  [][\A w \in Workers, s \in txHash : posts'[w][s] = posts[w][s]]_vars
=============================================================================
