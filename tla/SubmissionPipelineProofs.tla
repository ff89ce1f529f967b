---------------------- MODULE SubmissionPipelineProofs ----------------------
(***************************************************************************)
(* Proofs about SubmissionPipeline, for every set of submissions, workers  *)
(* and apps, every quote and every bound.                                  *)
(***************************************************************************)
EXTENDS SubmissionPipeline, FiniteSetTheorems, TLAPS

\* Stamps are numbers: finitely many submissions exist.
LEMMA StampsAreNat ==
  /\ Cardinality(Accepted) \in Nat
  /\ Cardinality(Stored) \in Nat
<1>1. IsFiniteSet(Accepted) /\ IsFiniteSet(Stored)
  BY SubsAssumption, FS_Subset DEF Accepted, Stored
<1> QED
  BY <1>1, FS_CardinalityType

\* The split of a bill has two integer parts for every selection.
LEMMA BillParts ==
  ASSUME NEW sel \in Selections, NEW cost \in Nat, NEW app \in Int
  PROVE  /\ BillSplit(sel, cost, app) \in [credit : Nat, fallback : Nat]
         /\ BillSplit(sel, cost, app).credit + BillSplit(sel, cost, app).fallback = cost
  BY DEF BillSplit, Selections

\* What a step may change, one fact per group of variables: an action of the
\* list, or nothing.
LEMMA SendSteps ==
  [Next]_vars => \/ \E s \in Subs : Submit(s) \/ InsertRow(s) \/ InsertFails(s)
                 \/ \E w \in Workers : Receive(w) \/ Lagged(w)
                 \/ SubmissionRestarts
                 \/ UNCHANGED sendVars
<1> USE DEF sendVars
<1>1. \A s \in Subs : Overdue(s) \/ Increment(s) \/ IncrementFails(s) => UNCHANGED sendVars
  BY DEF Overdue, Increment, IncrementFails
<1>2. \A w \in Workers : CheckResolved(w) \/ SkipMessage(w) \/ MarkError(w) => UNCHANGED sendVars
  BY DEF CheckResolved, SkipMessage, MarkError
<1>3. \A p \in Attempts : Process(p) \/ Abort(p) => UNCHANGED sendVars
  BY DEF Process, ReadAccount, PushReservation, ScanReservations, Post,
         RecordExtrinsic, DebitApp, DebitUser, Abort
<1>4. StartRound \/ MonitorRestarts \/ ResetRetry => UNCHANGED sendVars
  BY DEF StartRound, MonitorRestarts, DropAttempts, ResetRetry
<1>5. UNCHANGED vars => UNCHANGED sendVars
  BY DEF vars
<1> QED
  BY <1>1, <1>2, <1>3, <1>4, <1>5 DEF Next, Environment, Worker

\* The same of the row's columns.
LEMMA RowSteps ==
  [Next]_vars => \/ \E s \in Subs : InsertRow(s) \/ Overdue(s) \/ Increment(s)
                 \/ \E w \in Workers : MarkError(w)
                 \/ \E p \in Attempts : RecordExtrinsic(p)
                 \/ ResetRetry
                 \/ UNCHANGED rowVars
<1> USE DEF rowVars
<1>1. \A s \in Subs : Submit(s) \/ InsertFails(s) \/ IncrementFails(s) => UNCHANGED rowVars
  BY DEF Submit, InsertFails, IncrementFails
<1>2. \A w \in Workers : Receive(w) \/ Lagged(w) \/ CheckResolved(w) \/ SkipMessage(w)
                           => UNCHANGED rowVars
  BY DEF Receive, Lagged, CheckResolved, SkipMessage
<1>3. \A p \in Attempts : Process(p) \/ Abort(p) => RecordExtrinsic(p) \/ UNCHANGED rowVars
  BY DEF Process, ReadAccount, PushReservation, ScanReservations, Post,
         DebitApp, DebitUser, Abort
<1>4. StartRound \/ SubmissionRestarts \/ MonitorRestarts => UNCHANGED rowVars
  BY DEF StartRound, SubmissionRestarts, MonitorRestarts, DropAttempts
<1>5. UNCHANGED vars => UNCHANGED rowVars
  BY DEF vars
<1> QED
  BY <1>1, <1>2, <1>3, <1>4, <1>5 DEF Next, Environment, Worker

\* The same of the balances.
LEMMA BalanceSteps ==
  [Next]_vars => \/ \E p \in Attempts : DebitApp(p) \/ DebitUser(p)
                 \/ UNCHANGED balanceVars
<1> USE DEF balanceVars
<1>1. \A s \in Subs : Submit(s) \/ InsertRow(s) \/ InsertFails(s) \/ Overdue(s)
                      \/ Increment(s) \/ IncrementFails(s) => UNCHANGED balanceVars
  BY DEF Submit, InsertRow, InsertFails, Overdue, Increment, IncrementFails
<1>2. \A w \in Workers : Receive(w) \/ Lagged(w) \/ CheckResolved(w) \/ SkipMessage(w)
                         \/ MarkError(w) => UNCHANGED balanceVars
  BY DEF Receive, Lagged, CheckResolved, SkipMessage, MarkError
<1>3. \A p \in Attempts : Process(p) \/ Abort(p)
                            => DebitApp(p) \/ DebitUser(p) \/ UNCHANGED balanceVars
  BY DEF Process, ReadAccount, PushReservation, ScanReservations, Post,
         RecordExtrinsic, Abort
<1>4. StartRound \/ SubmissionRestarts \/ MonitorRestarts \/ ResetRetry
        => UNCHANGED balanceVars
  BY DEF StartRound, SubmissionRestarts, MonitorRestarts, DropAttempts, ResetRetry
<1>5. UNCHANGED vars => UNCHANGED balanceVars
  BY DEF vars
<1> QED
  BY <1>1, <1>2, <1>3, <1>4, <1>5 DEF Next, Environment, Worker

\* The same of the reservation lists.
LEMMA ReservationSteps ==
  [Next]_vars => \/ \E p \in Attempts : PushReservation(p)
                 \/ UNCHANGED reserved
<1>1. \A s \in Subs : Submit(s) \/ InsertRow(s) \/ InsertFails(s) \/ Overdue(s)
                      \/ Increment(s) \/ IncrementFails(s) => UNCHANGED reserved
  BY DEF Submit, InsertRow, InsertFails, Overdue, Increment, IncrementFails
<1>2. \A w \in Workers : Receive(w) \/ Lagged(w) \/ CheckResolved(w) \/ SkipMessage(w)
                         \/ MarkError(w) => UNCHANGED reserved
  BY DEF Receive, Lagged, CheckResolved, SkipMessage, MarkError
<1>3. \A p \in Attempts : Process(p) \/ Abort(p)
                            => PushReservation(p) \/ UNCHANGED reserved
  BY DEF Process, ReadAccount, ScanReservations, Post, RecordExtrinsic, DebitApp,
         DebitUser, Abort
<1>4. StartRound \/ SubmissionRestarts \/ MonitorRestarts \/ ResetRetry
        => UNCHANGED reserved
  BY DEF StartRound, SubmissionRestarts, MonitorRestarts, DropAttempts, ResetRetry
<1>5. UNCHANGED vars => UNCHANGED reserved
  BY DEF vars
<1> QED
  BY <1>1, <1>2, <1>3, <1>4, <1>5 DEF Next, Environment, Worker

\* The same of the history variables.
LEMMA HistorySteps ==
  [Next]_vars => /\ (\E p \in Attempts : Post(p)) \/ UNCHANGED posts
                 /\ (\E p \in Attempts : DebitApp(p)) \/ UNCHANGED charges
                 /\ (\E s \in Subs : Increment(s)) \/ UNCHANGED picks
                 /\ ResetRetry \/ UNCHANGED granted
                 /\ (\E p \in Attempts : RecordExtrinsic(p)) \/ UNCHANGED missed
<1> DEFINE G == /\ (\E p \in Attempts : Post(p)) \/ UNCHANGED posts
                /\ (\E p \in Attempts : DebitApp(p)) \/ UNCHANGED charges
                /\ (\E s \in Subs : Increment(s)) \/ UNCHANGED picks
                /\ ResetRetry \/ UNCHANGED granted
                /\ (\E p \in Attempts : RecordExtrinsic(p)) \/ UNCHANGED missed
<1> USE DEF history
<1>1. ASSUME NEW s \in Subs, Submit(s) \/ InsertRow(s) \/ InsertFails(s) \/ Overdue(s)
             \/ Increment(s) \/ IncrementFails(s)
      PROVE G
  BY <1>1 DEF Submit, InsertRow, InsertFails, Overdue, Increment, IncrementFails
<1>2. ASSUME NEW w \in Workers, Receive(w) \/ Lagged(w) \/ CheckResolved(w)
             \/ SkipMessage(w) \/ MarkError(w)
      PROVE G
  BY <1>2 DEF Receive, Lagged, CheckResolved, SkipMessage, MarkError
<1>3. ASSUME NEW p \in Attempts, ReadAccount(p) \/ PushReservation(p)
             \/ ScanReservations(p) \/ DebitUser(p) \/ Abort(p)
      PROVE G
  BY <1>3 DEF ReadAccount, PushReservation, ScanReservations, DebitUser, Abort
<1>4. ASSUME NEW p \in Attempts, Post(p) PROVE G
  BY <1>4 DEF Post
<1>5. ASSUME NEW p \in Attempts, RecordExtrinsic(p) PROVE G
  BY <1>5 DEF RecordExtrinsic
<1>6. ASSUME NEW p \in Attempts, DebitApp(p) PROVE G
  BY <1>6 DEF DebitApp
<1>7. ASSUME StartRound \/ SubmissionRestarts \/ MonitorRestarts \/ ResetRetry PROVE G
  BY <1>7 DEF StartRound, SubmissionRestarts, MonitorRestarts, DropAttempts, ResetRetry
<1>8. ASSUME UNCHANGED vars PROVE G
  BY <1>8 DEF vars
<1> HIDE DEF G
<1>9. [Next]_vars => G
  BY <1>1, <1>2, <1>3, <1>4, <1>5, <1>6, <1>7, <1>8 DEF Next, Environment, Worker, Process
<1> QED
  BY <1>9 DEF G

-----------------------------------------------------------------------------
(* Types                                                                   *)

\* The initial tables, channel and attempts have their types.
LEMMA TypeInit == Init => TypeOK
<1> SUFFICES ASSUME Init PROVE TypeOK
  OBVIOUS
<1>1. SendTypes /\ RowTypes
  BY DEF Init, SendTypes, RowTypes
<1>2. BalanceTypes
  BY AppsAssumption DEF Init, BalanceTypes
<1>3. ReservationTypes
  <2>1. DOMAIN reserved = {}
    BY DEF Init
  <2> QED
    BY <2>1 DEF ReservationTypes
<1>4. PcTypes
  BY SubsAssumption DEF Init, PcTypes, Attempts, WorkerPcs, MonitorPcs
<1>5. AttemptTypes
  BY DEF Init, AttemptTypes, NoSnap, Snaps, Selections
<1>6. HistoryTypes
  BY BoundsAssumption DEF Init, HistoryTypes
<1> QED
  BY <1>1, <1>2, <1>3, <1>4, <1>5, <1>6 DEF TypeOK

\* One part of the type invariant after the other is kept by every step.
LEMMA SendTypesStep == TypeOK /\ [Next]_vars => SendTypes'
<1> SUFFICES ASSUME TypeOK, [Next]_vars PROVE SendTypes'
  OBVIOUS
<1> USE DEF TypeOK, SendTypes
<1>1. ASSUME NEW s \in Subs, Submit(s) PROVE SendTypes'
  BY <1>1, StampsAreNat DEF Submit
<1>2. ASSUME NEW s \in Subs, InsertRow(s) \/ InsertFails(s) PROVE SendTypes'
  BY <1>2 DEF InsertRow, InsertFails
<1>3. ASSUME NEW w \in Workers, Receive(w) \/ Lagged(w) PROVE SendTypes'
  BY <1>3 DEF Receive, Lagged
<1>4. ASSUME SubmissionRestarts PROVE SendTypes'
  BY <1>4 DEF SubmissionRestarts, DropAttempts
<1>5. ASSUME UNCHANGED sendVars PROVE SendTypes'
  BY <1>5 DEF sendVars
<1> QED
  BY <1>1, <1>2, <1>3, <1>4, <1>5, SendSteps

\* Rows keep their types.
LEMMA RowTypesStep == TypeOK /\ [Next]_vars => RowTypes'
<1> SUFFICES ASSUME TypeOK, [Next]_vars PROVE RowTypes'
  OBVIOUS
<1> USE DEF TypeOK, RowTypes
<1>1. ASSUME NEW s \in Subs, InsertRow(s) PROVE RowTypes'
  BY <1>1, StampsAreNat DEF InsertRow
<1>2. ASSUME NEW s \in Subs, Overdue(s) \/ Increment(s) PROVE RowTypes'
  BY <1>2 DEF Overdue, Increment
<1>3. ASSUME NEW w \in Workers, MarkError(w) PROVE RowTypes'
  BY <1>3 DEF MarkError, Stored
<1>4. ASSUME NEW p \in Attempts, RecordExtrinsic(p) PROVE RowTypes'
  BY <1>4 DEF RecordExtrinsic, Stored
<1>5. ASSUME ResetRetry PROVE RowTypes'
  BY <1>5, BoundsAssumption DEF ResetRetry
<1>6. ASSUME UNCHANGED rowVars PROVE RowTypes'
  BY <1>6 DEF rowVars
<1> QED
  BY <1>1, <1>2, <1>3, <1>4, <1>5, <1>6, RowSteps

\* Which submission, app and bill a running attempt is about.
LEMMA AttemptData ==
  ASSUME TypeOK, NEW p \in Attempts
  PROVE  /\ pc[p] # "idle" => SubOf(p) \in Subs /\ AppOfAttempt(p) \in Apps
         /\ Bill(p) \in [credit : Nat, fallback : Nat]
         /\ Key(p) \in Int \X Int
         /\ snap[p].cost \in Nat
         /\ Unbooked(p) \in Nat
<1>1. pc[p] # "idle" => SubOf(p) \in Subs
  BY DEF TypeOK, PcTypes, SubOf, Attempts
<1>2. Bill(p) \in [credit : Nat, fallback : Nat]
  BY BillParts DEF TypeOK, AttemptTypes, Bill, Snaps
<1> QED
  BY <1>1, <1>2, AppsAssumption
     DEF TypeOK, AttemptTypes, AppOfAttempt, Key, Snaps, Unbooked

\* Balances stay integers.
LEMMA BalanceTypesStep == TypeOK /\ [Next]_vars => BalanceTypes'
<1> SUFFICES ASSUME TypeOK, [Next]_vars PROVE BalanceTypes'
  OBVIOUS
<1> USE DEF TypeOK, BalanceTypes
<1>1. ASSUME NEW p \in Attempts, DebitApp(p) PROVE BalanceTypes'
  <2>1. AppOfAttempt(p) \in Apps /\ Bill(p) \in [credit : Nat, fallback : Nat]
    BY <1>1, AttemptData DEF DebitApp
  <2> QED
    BY <1>1, <2>1 DEF DebitApp
<1>2. ASSUME NEW p \in Attempts, DebitUser(p) PROVE BalanceTypes'
  BY <1>2, AttemptData DEF DebitUser
<1>3. ASSUME UNCHANGED balanceVars PROVE BalanceTypes'
  BY <1>3 DEF balanceVars
<1> QED
  BY <1>1, <1>2, <1>3, BalanceSteps

\* Reservation lists stay lists of submissions and costs.
LEMMA ReservationTypesStep == TypeOK /\ [Next]_vars => ReservationTypes'
<1> SUFFICES ASSUME TypeOK, [Next]_vars PROVE ReservationTypes'
  OBVIOUS
<1>1. ASSUME NEW p \in Attempts, PushReservation(p) PROVE ReservationTypes'
  <2> DEFINE entry == [sub |-> SubOf(p), cost |-> snap[p].cost]
  <2>1. entry \in Entries /\ Key(p) \in Int \X Int
    BY <1>1, AttemptData DEF PushReservation, Entries
  <2>2. List(Key(p)) \in Seq(Entries)
    BY DEF List, TypeOK, ReservationTypes
  <2>3. Append(List(Key(p)), entry) \in Seq(Entries)
    BY <2>1, <2>2
  <2>4. reserved' = [k \in DOMAIN reserved \cup {Key(p)} |->
                       IF k = Key(p) THEN Append(List(k), entry) ELSE reserved[k]]
    BY <1>1 DEF PushReservation
  <2> HIDE DEF entry
  <2> QED
    BY <2>1, <2>3, <2>4 DEF TypeOK, ReservationTypes
<1> QED
  BY <1>1, ReservationSteps DEF TypeOK, ReservationTypes

\* A running attempt that moves on to another await point, or ends.
LEMMA PcMove ==
  ASSUME PcTypes, NEW p \in Attempts, pc[p] # "idle",
         NEW label \in ProcessPcs, Goto(p, label), UNCHANGED cur
  PROVE  PcTypes'
<1>1. label \in WorkerPcs /\ label \in MonitorPcs /\ label # "idle"
  BY DEF ProcessPcs, WorkerPcs, MonitorPcs
<1> QED
  BY <1>1 DEF PcTypes, Goto, Attempts

\* An attempt that ends is idle.
LEMMA PcFinish ==
  ASSUME PcTypes, NEW p \in Attempts, Finish(p)
  PROVE  PcTypes'
<1>1. "idle" \in WorkerPcs /\ "idle" \in MonitorPcs
  BY DEF WorkerPcs, MonitorPcs
<1> QED
  BY <1>1, SubsAssumption DEF PcTypes, Finish, Goto, Attempts

\* A worker's attempt that failed has an error entry to write.
LEMMA PcGiveUp ==
  ASSUME PcTypes, NEW p \in Attempts, pc[p] # "idle", GiveUp(p)
  PROVE  PcTypes'
<1>1. "failed" \in WorkerPcs /\ "failed" # "idle"
  BY DEF WorkerPcs
<1> QED
  BY <1>1, SubsAssumption DEF PcTypes, GiveUp, Goto, Attempts

\* Every attempt stays at an await point of its kind.
LEMMA PcTypesStep == TypeOK /\ [Next]_vars => PcTypes'
<1> SUFFICES ASSUME TypeOK, [Next]_vars PROVE PcTypes'
  OBVIOUS
<1>0. PcTypes
  BY DEF TypeOK
<1>1. ASSUME NEW s \in Subs, Submit(s) \/ InsertRow(s) \/ InsertFails(s) \/ Overdue(s)
      PROVE PcTypes'
  BY <1>0, <1>1 DEF Submit, InsertRow, InsertFails, Overdue, attemptVars, PcTypes
<1>2. ASSUME NEW w \in Workers, Lagged(w) PROVE PcTypes'
  BY <1>0, <1>2 DEF Lagged, attemptVars, PcTypes
<1>3. ASSUME ResetRetry \/ UNCHANGED vars PROVE PcTypes'
  BY <1>0, <1>3 DEF ResetRetry, vars, attemptVars, PcTypes
<1>4. ASSUME NEW w \in Workers, Receive(w) PROVE PcTypes'
  <2>1. "resolved" \in WorkerPcs /\ "resolved" # "idle"
    BY DEF WorkerPcs
  <2> QED
    BY <1>0, <1>4, <2>1, SubsAssumption
       DEF Receive, Goto, PcTypes, Attempts, TypeOK, SendTypes
<1>5. ASSUME NEW w \in Workers, CheckResolved(w) PROVE PcTypes'
  BY <1>0, <1>5, PcMove DEF CheckResolved, Attempts, ProcessPcs
<1>6. ASSUME NEW w \in Workers, SkipMessage(w) \/ MarkError(w) PROVE PcTypes'
  BY <1>0, <1>6, PcFinish DEF SkipMessage, MarkError, Attempts
<1>7. ASSUME NEW p \in Attempts,
             ReadAccount(p) \/ PushReservation(p) \/ ScanReservations(p) \/ Post(p)
             \/ RecordExtrinsic(p)
      PROVE PcTypes'
  BY <1>0, <1>7, PcMove DEF ReadAccount, PushReservation, ScanReservations, Post,
     RecordExtrinsic, ProcessPcs
<1>8. ASSUME NEW p \in Attempts, DebitApp(p) \/ DebitUser(p) PROVE PcTypes'
  BY <1>0, <1>8, PcMove, PcFinish, PcGiveUp DEF DebitApp, DebitUser, Complete, ProcessPcs
<1>9. ASSUME NEW p \in Attempts, Abort(p) PROVE PcTypes'
  BY <1>0, <1>9, PcFinish, PcGiveUp DEF Abort, ProcessPcs
<1>10. ASSUME StartRound PROVE PcTypes'
  <2>1. "increment" \in MonitorPcs
    BY DEF MonitorPcs
  <2>2. Newest(Unresolved, Limit) \subseteq Subs
    BY DEF Newest, Unresolved, Stored
  <2> QED
    BY <1>0, <1>10, <2>1, <2>2, SubsAssumption DEF StartRound, PcTypes, Attempts
<1>11. ASSUME NEW s \in Subs, Increment(s) PROVE PcTypes'
  <2>1. {"account", "idle"} \subseteq MonitorPcs
    BY DEF MonitorPcs, ProcessPcs
  <2> QED
    BY <1>0, <1>11, <2>1, SubsAssumption DEF Increment, Goto, PcTypes, Attempts
<1>12. ASSUME NEW s \in Subs, IncrementFails(s) PROVE PcTypes'
  BY <1>0, <1>12, PcFinish DEF IncrementFails, Attempts
<1>13. ASSUME NEW ps, DropAttempts(ps) PROVE PcTypes'
  <2>1. "idle" \in WorkerPcs /\ "idle" \in MonitorPcs
    BY DEF WorkerPcs, MonitorPcs
  <2> QED
    BY <1>0, <1>13, <2>1, SubsAssumption DEF DropAttempts, PcTypes, Attempts
<1>14. ASSUME SubmissionRestarts \/ MonitorRestarts PROVE PcTypes'
  BY <1>13, <1>14 DEF SubmissionRestarts, MonitorRestarts
<1> QED
  BY <1>1, <1>2, <1>3, <1>4, <1>5, <1>6, <1>7, <1>8, <1>9, <1>10, <1>11, <1>12, <1>14
     DEF Next, Environment, Worker, Process

\* What attempts have read keeps its type.
LEMMA AttemptTypesStep == TypeOK /\ [Next]_vars => AttemptTypes'
<1> SUFFICES ASSUME TypeOK, [Next]_vars PROVE AttemptTypes'
  OBVIOUS
<1> USE DEF AttemptTypes
<1>0. AttemptTypes
  BY DEF TypeOK
<1>a. NoSnap \in Snaps
  BY DEF NoSnap, Snaps, Selections
<1>1. ASSUME UNCHANGED <<snap, carried>> PROVE AttemptTypes'
  BY <1>0, <1>1
<1>2. ASSUME NEW p \in Attempts, Finish(p) PROVE AttemptTypes'
  BY <1>0, <1>a, <1>2 DEF Finish
<1>b. ASSUME NEW p \in Attempts, GiveUp(p) PROVE AttemptTypes'
  BY <1>0, <1>a, <1>b DEF GiveUp
<1>3. ASSUME NEW s \in Subs, Submit(s) \/ InsertRow(s) \/ InsertFails(s) \/ Overdue(s)
             \/ Increment(s) \/ IncrementFails(s)
      PROVE AttemptTypes'
  BY <1>1, <1>2, <1>3 DEF Submit, InsertRow, InsertFails, Overdue, Increment,
     IncrementFails, attemptVars, Attempts
<1>4. ASSUME NEW w \in Workers, Receive(w) \/ Lagged(w) \/ CheckResolved(w)
             \/ SkipMessage(w) \/ MarkError(w)
      PROVE AttemptTypes'
  BY <1>1, <1>2, <1>4 DEF Receive, Lagged, CheckResolved, SkipMessage, MarkError,
     attemptVars, Attempts
<1>5. ASSUME NEW p \in Attempts, ReadAccount(p) PROVE AttemptTypes'
  <2>1. PICK c \in Quotes[SubOf(p)] :
          snap' = [snap EXCEPT ![p] = [sel |-> selection[AppOfAttempt(p)],
                     app |-> appBal[AppOfAttempt(p)], user |-> userBal, cost |-> c]]
    BY <1>5 DEF ReadAccount
  <2>2. SubOf(p) \in Subs /\ AppOfAttempt(p) \in Apps
    BY <1>5, AttemptData DEF ReadAccount
  <2>3. c \in Nat
    BY <2>1, <2>2, QuotesAssumption
  <2> QED
    BY <1>0, <1>5, <2>1, <2>2, <2>3 DEF ReadAccount, Snaps, TypeOK, BalanceTypes
<1>6. ASSUME NEW p \in Attempts, PushReservation(p) \/ ScanReservations(p) \/ Post(p)
             \/ RecordExtrinsic(p)
      PROVE AttemptTypes'
  BY <1>1, <1>6 DEF PushReservation, ScanReservations, Post, RecordExtrinsic
<1>7. ASSUME NEW p \in Attempts, DebitApp(p) \/ DebitUser(p) PROVE AttemptTypes'
  BY <1>1, <1>2, <1>b, <1>7 DEF DebitApp, DebitUser, Complete
<1>8. ASSUME NEW p \in Attempts, Abort(p) PROVE AttemptTypes'
  BY <1>2, <1>b, <1>8 DEF Abort
<1>9. ASSUME StartRound PROVE AttemptTypes'
  BY <1>0, <1>9 DEF StartRound, TypeOK, RowTypes
<1>10. ASSUME SubmissionRestarts \/ MonitorRestarts PROVE AttemptTypes'
  BY <1>0, <1>a, <1>10 DEF SubmissionRestarts, MonitorRestarts, DropAttempts
<1>11. ASSUME ResetRetry \/ UNCHANGED vars PROVE AttemptTypes'
  BY <1>1, <1>11 DEF ResetRetry, vars, attemptVars
<1> QED
  BY <1>3, <1>4, <1>5, <1>6, <1>7, <1>8, <1>9, <1>10, <1>11
     DEF Next, Environment, Worker, Process

\* The counters stay natural numbers.
LEMMA HistoryTypesStep == TypeOK /\ [Next]_vars => HistoryTypes'
<1> SUFFICES ASSUME TypeOK, [Next]_vars PROVE HistoryTypes'
  OBVIOUS
<1> USE DEF TypeOK, HistoryTypes
<1>1. posts' \in [Attempts -> [Subs -> Nat]]
  <2>1. ASSUME NEW p \in Attempts, Post(p) PROVE posts' \in [Attempts -> [Subs -> Nat]]
    <3>1. SubOf(p) \in Subs
      BY <2>1, AttemptData DEF Post
    <3> QED
      BY <2>1, <3>1 DEF Post
  <2> QED
    BY <2>1, HistorySteps
<1>2. charges' \in [Attempts -> [Subs -> Nat]]
  <2>1. ASSUME NEW p \in Attempts, DebitApp(p) PROVE charges' \in [Attempts -> [Subs -> Nat]]
    <3>1. SubOf(p) \in Subs
      BY <2>1, AttemptData DEF DebitApp
    <3> QED
      BY <2>1, <3>1 DEF DebitApp
  <2> QED
    BY <2>1, HistorySteps
<1>3. picks' \in [Subs -> Nat]
  BY HistorySteps DEF Increment
<1>4. granted' \in [Subs -> Nat]
  <2>1. \A n \in Int : Left(n) \in Nat
    BY BoundsAssumption DEF Left
  <2> QED
    BY <2>1, HistorySteps, BoundsAssumption DEF ResetRetry
<1>5. missed' \subseteq Subs
  BY HistorySteps, AttemptData DEF RecordExtrinsic
<1>6. writtenOff' \in [Attempts -> Int]
  <2>1. ASSUME NEW p \in Attempts, Abort(p) PROVE writtenOff' \in [Attempts -> Int]
    BY <2>1, AttemptData DEF Abort
  <2>2. ASSUME NEW ps, DropAttempts(ps) PROVE writtenOff' \in [Attempts -> Int]
    BY <2>2, AttemptData DEF DropAttempts
  <2>3. \/ \E p \in Attempts : Abort(p)
        \/ DropAttempts(Workers) \/ DropAttempts(Subs)
        \/ UNCHANGED writtenOff
    BY DEF Next, Environment, Worker, Process, Submit, InsertRow, InsertFails, Overdue,
       Receive, Lagged, CheckResolved, SkipMessage, MarkError, ReadAccount,
       PushReservation, ScanReservations, Post, RecordExtrinsic, DebitApp, DebitUser,
       StartRound, Increment, IncrementFails, SubmissionRestarts, MonitorRestarts,
       ResetRetry, vars, history
  <2> QED
    BY <2>1, <2>2, <2>3
<1>7. crashes' \in Nat /\ resets' \in Nat
  <2>1. \/ crashes' = crashes + 1 \/ UNCHANGED crashes
    BY DEF Next, Environment, Worker, Process, Submit, InsertRow, InsertFails, Overdue,
       Receive, Lagged, CheckResolved, SkipMessage, MarkError, ReadAccount,
       PushReservation, ScanReservations, Post, RecordExtrinsic, DebitApp, DebitUser,
       Abort, StartRound, Increment, IncrementFails, SubmissionRestarts,
       MonitorRestarts, DropAttempts, ResetRetry, vars, bounds
  <2>2. \/ resets' = resets + 1 \/ UNCHANGED resets
    BY DEF Next, Environment, Worker, Process, Submit, InsertRow, InsertFails, Overdue,
       Receive, Lagged, CheckResolved, SkipMessage, MarkError, ReadAccount,
       PushReservation, ScanReservations, Post, RecordExtrinsic, DebitApp, DebitUser,
       Abort, StartRound, Increment, IncrementFails, SubmissionRestarts,
       MonitorRestarts, DropAttempts, ResetRetry, vars, bounds
  <2> QED
    BY <2>1, <2>2
<1> QED
  BY <1>1, <1>2, <1>3, <1>4, <1>5, <1>6, <1>7

\* Every reachable state has the types of the tables, the channel, the lists
\* and the attempts.
THEOREM TypeCorrect == Spec => []TypeOK
<1>1. TypeOK /\ [Next]_vars => TypeOK'
  BY SendTypesStep, RowTypesStep, BalanceTypesStep, ReservationTypesStep, PcTypesStep,
     AttemptTypesStep, HistoryTypesStep DEF TypeOK
<1> QED
  BY <1>1, TypeInit, PTL DEF Spec

-----------------------------------------------------------------------------
(* How an attempt moves                                                    *)

\* An attempt stays where it is, or moves by an action of its own, by a round
\* of the monitor or a restart; as long as it runs it is about one submission.
Moved(p) ==
  \/ pc'[p] \in {pc[p], "idle"}
  \/ pc'[p] = "resolved" /\ p \in Workers /\ Receive(p)
  \/ pc'[p] = "failed" /\ GiveUp(p)
  \/ pc'[p] = "increment" /\ StartRound /\ p \in Newest(Unresolved, Limit)
  \/ pc'[p] = "account" /\ p \in Workers /\ CheckResolved(p)
  \/ pc'[p] = "account" /\ p \in carried /\ Increment(p)
  \/ pc'[p] = "push" /\ ReadAccount(p)
  \/ pc'[p] = "scan" /\ PushReservation(p)
  \/ pc'[p] = "post" /\ ScanReservations(p)
  \/ pc'[p] = "record" /\ Post(p)
  \/ pc'[p] = "debitApp" /\ RecordExtrinsic(p)
  \/ pc'[p] = "debitUser" /\ DebitApp(p)

\* Every step of the pipeline moves an attempt as the code orders its awaits.
LEMMA Moves ==
  ASSUME TypeOK, [Next]_vars, NEW p \in Attempts
  PROVE  /\ Moved(p)
         /\ pc[p] # "idle" /\ pc'[p] # "idle" => SubOf(p)' = SubOf(p)
<1> DEFINE Same == pc[p] # "idle" /\ pc'[p] # "idle" => SubOf(p)' = SubOf(p)
<1> USE DEF TypeOK, PcTypes, SubOf
<1>1. ASSUME UNCHANGED <<pc, cur>> PROVE Moved(p) /\ Same
  BY <1>1 DEF Moved
<1>2. ASSUME NEW q \in Attempts, Finish(q) PROVE Moved(p) /\ Same
  BY <1>2 DEF Moved, Finish, Goto, Attempts
<1>b. ASSUME NEW q \in Attempts, GiveUp(q) PROVE Moved(p) /\ Same
  BY <1>b DEF Moved, GiveUp, Goto, Attempts
<1>3. ASSUME NEW s \in Subs, Submit(s) \/ InsertRow(s) \/ InsertFails(s) \/ Overdue(s)
      PROVE Moved(p) /\ Same
  BY <1>1, <1>3 DEF Submit, InsertRow, InsertFails, Overdue, attemptVars
<1>4. ASSUME NEW s \in Subs, Increment(s) PROVE Moved(p) /\ Same
  BY <1>4 DEF Increment, Goto, Moved
<1>5. ASSUME NEW s \in Subs, IncrementFails(s) PROVE Moved(p) /\ Same
  BY <1>2, <1>5 DEF IncrementFails, Attempts
<1>6. ASSUME NEW w \in Workers, Receive(w) PROVE Moved(p) /\ Same
  BY <1>6, SubsAssumption DEF Receive, Goto, Moved, Attempts
<1>7. ASSUME NEW w \in Workers, CheckResolved(w) PROVE Moved(p) /\ Same
  BY <1>7 DEF CheckResolved, Goto, Moved
<1>8. ASSUME NEW w \in Workers, Lagged(w) PROVE Moved(p) /\ Same
  BY <1>1, <1>8 DEF Lagged, attemptVars
<1>9. ASSUME NEW w \in Workers, SkipMessage(w) \/ MarkError(w) PROVE Moved(p) /\ Same
  BY <1>2, <1>9 DEF SkipMessage, MarkError, Attempts
<1>10. ASSUME NEW q \in Attempts, ReadAccount(q) \/ PushReservation(q)
              \/ ScanReservations(q) \/ Post(q) \/ RecordExtrinsic(q)
       PROVE Moved(p) /\ Same
  <2>1. CASE q = p
    BY <1>10, <2>1 DEF ReadAccount, PushReservation, ScanReservations, Post,
       RecordExtrinsic, Goto, Moved
  <2>2. CASE q # p
    BY <1>10, <2>2 DEF ReadAccount, PushReservation, ScanReservations, Post,
       RecordExtrinsic, Goto, Moved
  <2> QED
    BY <2>1, <2>2
<1>11. ASSUME NEW q \in Attempts, DebitApp(q) PROVE Moved(p) /\ Same
  <2>1. CASE Complete(q)
    BY <1>2, <1>b, <2>1 DEF Complete
  <2>2. CASE Goto(q, "debitUser") /\ UNCHANGED <<cur, snap, carried>>
    BY <1>11, <2>2 DEF Goto, Moved
  <2> QED
    BY <1>11, <2>1, <2>2 DEF DebitApp
<1>12. ASSUME NEW q \in Attempts, DebitUser(q) PROVE Moved(p) /\ Same
  BY <1>2, <1>b, <1>12 DEF DebitUser, Complete
<1>13. ASSUME NEW q \in Attempts, Abort(q) PROVE Moved(p) /\ Same
  BY <1>2, <1>b, <1>13 DEF Abort
<1>14. ASSUME StartRound PROVE Moved(p) /\ Same
  BY <1>14 DEF StartRound, Moved, Attempts
<1>15. ASSUME SubmissionRestarts \/ MonitorRestarts PROVE Moved(p) /\ Same
  BY <1>15 DEF SubmissionRestarts, MonitorRestarts, DropAttempts, Moved, Attempts
<1>16. ASSUME ResetRetry \/ UNCHANGED vars PROVE Moved(p) /\ Same
  BY <1>1, <1>16 DEF ResetRetry, vars, attemptVars
<1> HIDE DEF Same
<1>17. Moved(p) /\ Same
  BY <1>3, <1>4, <1>5, <1>6, <1>7, <1>8, <1>9, <1>10, <1>11, <1>12, <1>13, <1>14,
     <1>15, <1>16 DEF Next, Environment, Worker, Process
<1> QED
  BY <1>17 DEF Same

-----------------------------------------------------------------------------
(* Bills                                                                   *)

\* ChargedOnlyForPosts is not inductive: an attempt between the post and the
\* debit must have a post of its own that is not billed yet.
ToBill(p, s) == IF SubOf(p) = s /\ pc[p] \in {"record", "debitApp"} THEN 1 ELSE 0
Covered == \A p \in Attempts, s \in Subs : charges[p][s] + ToBill(p, s) <= posts[p][s]

\* Covered is inductive.
LEMMA CoveredStep == TypeOK /\ Covered /\ [Next]_vars => Covered'
<1> SUFFICES ASSUME TypeOK, Covered, [Next]_vars,
                    NEW p \in Attempts, NEW s \in Subs
             PROVE  (charges[p][s] + ToBill(p, s) <= posts[p][s])'
  BY DEF Covered
<1>1. /\ charges[p][s] \in Nat /\ posts[p][s] \in Nat
      /\ charges[p][s] + ToBill(p, s) <= posts[p][s]
  BY DEF TypeOK, HistoryTypes, Covered
<1>2. CASE Post(p)
  <2>1. /\ charges' = charges
        /\ posts' = [posts EXCEPT ![p][SubOf(p)] = @ + 1]
        /\ pc[p] = "post" /\ pc'[p] = "record"
    BY <1>2 DEF Post, Goto, TypeOK, PcTypes
  <2>2. SubOf(p)' = SubOf(p) /\ SubOf(p) \in Subs
    BY <2>1, Moves, AttemptData
  <2>3. posts'[p][s] = posts[p][s] + IF SubOf(p) = s THEN 1 ELSE 0
    BY <2>1, <2>2 DEF TypeOK, HistoryTypes
  <2> QED
    BY <1>1, <2>1, <2>2, <2>3 DEF ToBill
<1>3. CASE DebitApp(p)
  <2>1. /\ posts' = posts
        /\ charges' = [charges EXCEPT ![p][SubOf(p)] = @ + 1]
        /\ pc[p] = "debitApp" /\ pc'[p] \in {"idle", "failed", "debitUser"}
    BY <1>3 DEF DebitApp, Goto, Finish, GiveUp, Complete, TypeOK, PcTypes
  <2>2. SubOf(p) \in Subs
    BY <2>1, AttemptData
  <2>3. charges'[p][s] = charges[p][s] + IF SubOf(p) = s THEN 1 ELSE 0
    BY <2>1, <2>2 DEF TypeOK, HistoryTypes
  <2> QED
    BY <1>1, <2>1, <2>3 DEF ToBill
<1>4. CASE ~Post(p) /\ ~DebitApp(p)
  <2>1. posts'[p] = posts[p]
    <3>1. ASSUME NEW q \in Attempts, Post(q) PROVE posts'[p] = posts[p]
      BY <1>4, <3>1 DEF Post, TypeOK, HistoryTypes
    <3> QED
      BY <3>1, HistorySteps
  <2>2. charges'[p] = charges[p]
    <3>1. ASSUME NEW q \in Attempts, DebitApp(q) PROVE charges'[p] = charges[p]
      BY <1>4, <3>1 DEF DebitApp, TypeOK, HistoryTypes
    <3> QED
      BY <3>1, HistorySteps
  <2>3. ToBill(p, s)' <= ToBill(p, s)
    <3>1. Moved(p) /\ (pc[p] # "idle" /\ pc'[p] # "idle" => SubOf(p)' = SubOf(p))
      BY Moves
    <3>2. RecordExtrinsic(p) => pc[p] = "record"
      BY DEF RecordExtrinsic
    <3> QED
      BY <1>4, <3>1, <3>2 DEF Moved, ToBill
  <2>4. ToBill(p, s) \in Nat /\ ToBill(p, s)' \in Nat
    BY DEF ToBill
  <2> QED
    BY <1>1, <2>1, <2>2, <2>3, <2>4
<1> QED
  BY <1>2, <1>3, <1>4

\* A bill that is still due has a post.
LEMMA CoveredAlways == Spec => []Covered
<1>1. Init => Covered
  BY DEF Init, Covered, ToBill
<1> QED
  BY <1>1, CoveredStep, TypeCorrect, PTL DEF Spec

\* No signer ever bills a submission more often than it has posted it.
THEOREM BillsHavePosts == Spec => []ChargedOnlyForPosts
<1>1. TypeOK /\ Covered => ChargedOnlyForPosts
  <2> SUFFICES ASSUME TypeOK, Covered, NEW p \in Attempts, NEW s \in Subs
               PROVE  charges[p][s] <= posts[p][s]
    BY DEF ChargedOnlyForPosts
  <2>1. charges[p][s] + ToBill(p, s) <= posts[p][s]
    BY DEF Covered
  <2>2. charges[p][s] \in Nat /\ posts[p][s] \in Nat /\ ToBill(p, s) \in Nat
    BY DEF TypeOK, HistoryTypes, ToBill
  <2> QED
    BY <2>1, <2>2
<1> QED
  BY <1>1, CoveredAlways, TypeCorrect, PTL

-----------------------------------------------------------------------------
(* Rows                                                                    *)

\* PreImageAvailable needs to know that an insert is run once, for a submission
\* that has no row yet.
RowInv ==
  /\ PreImageAvailable
  /\ error \subseteq Stored
  /\ inserting \cap Stored = {}
  /\ inserting \cup Stored \subseteq Accepted

\* RowInv is inductive.
LEMMA RowStep == TypeOK /\ RowInv /\ [Next]_vars => RowInv'
<1> SUFFICES ASSUME TypeOK, RowInv, [Next]_vars PROVE RowInv'
  OBVIOUS
<1> USE DEF RowInv, PreImageAvailable, Stored, Accepted, TypeOK, SendTypes, RowTypes
<1>1. ASSUME NEW s \in Subs, Submit(s) PROVE RowInv'
  <2>1. sentAt'[s] > 0 /\ \A t \in Subs : sentAt[t] > 0 => sentAt'[t] > 0
    BY <1>1, StampsAreNat DEF Submit
  <2>2. createdAt' = createdAt /\ payload' = payload /\ txHash' = txHash
        /\ error' = error /\ inserting' = inserting \cup {s} /\ sentAt[s] = 0
    BY <1>1 DEF Submit, rowVars
  <2>3. Accepted \cup {s} \subseteq Accepted' /\ s \notin Accepted
    BY <2>1, <2>2
  <2>4. Stored' = Stored
    BY <2>2
  <2> HIDE DEF Stored, Accepted
  <2> QED
    BY <2>2, <2>3, <2>4
<1>2. ASSUME NEW s \in Subs, InsertRow(s) PROVE RowInv'
  <2>1. createdAt'[s] > 0 /\ \A t \in Subs \ {s} : createdAt'[t] = createdAt[t]
    BY <1>2, StampsAreNat DEF InsertRow
  <2>2. Stored' = Stored \cup {s} /\ s \notin txHash
    BY <1>2, <2>1 DEF InsertRow
  <2>3. payload' = payload \cup {s} /\ txHash' = txHash /\ inserting' = inserting \ {s}
        /\ sentAt' = sentAt /\ error' = error
    BY <1>2 DEF InsertRow
  <2>4. s \in Accepted
    BY <1>2 DEF InsertRow
  <2> HIDE DEF Stored, Accepted
  <2>5. Accepted' = Accepted
    BY <2>3 DEF Accepted
  <2> QED
    BY <2>2, <2>3, <2>4, <2>5
<1>3. ASSUME NEW s \in Subs, InsertFails(s) PROVE RowInv'
  BY <1>3 DEF InsertFails, rowVars
<1>4. ASSUME NEW s \in Subs, Overdue(s) \/ Increment(s) PROVE RowInv'
  BY <1>4 DEF Overdue, Increment, sendVars
<1>5. ASSUME NEW w \in Workers, Receive(w) \/ Lagged(w) \/ MarkError(w) PROVE RowInv'
  BY <1>5 DEF Receive, Lagged, MarkError, rowVars, sendVars
<1>6. ASSUME NEW p \in Attempts, RecordExtrinsic(p) PROVE RowInv'
  BY <1>6 DEF RecordExtrinsic, sendVars
<1>7. ASSUME ResetRetry \/ SubmissionRestarts PROVE RowInv'
  BY <1>7 DEF ResetRetry, SubmissionRestarts, DropAttempts, rowVars, sendVars
<1>8. ASSUME UNCHANGED <<sendVars, rowVars>> PROVE RowInv'
  BY <1>8 DEF sendVars, rowVars
<1> HIDE DEF RowInv, PreImageAvailable, Stored, Accepted
<1> QED
  BY <1>1, <1>2, <1>3, <1>4, <1>5, <1>6, <1>7, <1>8, SendSteps, RowSteps

\* Rows come from accepted submissions and never have both columns.
LEMMA RowAlways == Spec => []RowInv
<1>1. Init => RowInv
  BY DEF Init, RowInv, PreImageAvailable, Stored, Accepted
<1> QED
  BY <1>1, RowStep, TypeCorrect, PTL DEF Spec

\* Every stored row has its payload or its extrinsic, never both and never
\* neither.
THEOREM PreImageKept == Spec => []PreImageAvailable
<1>1. RowInv => PreImageAvailable
  BY DEF RowInv
<1> QED
  BY <1>1, RowAlways, PTL

\* An extrinsic once on a row stays, and the monitor does not take the
\* submission up again.
THEOREM ResolvedStays == Spec => ResolvedIsFinal
<1> DEFINE A == \A s \in txHash :
                  /\ s \in txHash'
                  /\ pc[s] \notin ProcessPcs /\ s \notin carried
                       => pc'[s] \notin ProcessPcs /\ s \notin carried'
<1>1. ASSUME TypeOK, RowInv, [Next]_vars PROVE A
  <2> SUFFICES ASSUME NEW s \in txHash
               PROVE  /\ s \in txHash'
                      /\ pc[s] \notin ProcessPcs /\ s \notin carried
                           => pc'[s] \notin ProcessPcs /\ s \notin carried'
    OBVIOUS
  <2>1. s \in Subs /\ s \in Attempts /\ s \notin payload /\ s \notin Workers
    BY <1>1, SubsAssumption DEF TypeOK, RowTypes, Attempts, RowInv, PreImageAvailable
  <2>2. s \in txHash'
    BY <1>1, RowSteps DEF InsertRow, Overdue, Increment, MarkError, RecordExtrinsic,
       ResetRetry, rowVars
  <2>3. ASSUME pc[s] \notin ProcessPcs, s \notin carried PROVE pc'[s] \notin ProcessPcs
    <3>1. Moved(s)
      BY <1>1, <2>1, Moves
    <3> QED
      BY <2>1, <2>3, <3>1 DEF Moved, ProcessPcs, ReadAccount, PushReservation,
         ScanReservations, Post, RecordExtrinsic, DebitApp
  <2>4. ASSUME s \notin carried PROVE s \notin carried'
    <3>1. ASSUME StartRound PROVE s \notin carried'
      BY <2>1, <3>1 DEF StartRound
    <3>2. ASSUME ~StartRound PROVE carried' \subseteq carried
      <4>1. \A p \in Attempts : Finish(p) \/ GiveUp(p) => carried' \subseteq carried
        BY DEF Finish, GiveUp
      <4>2. \A t \in Subs : Submit(t) \/ InsertRow(t) \/ InsertFails(t) \/ Overdue(t)
                            \/ Increment(t) \/ IncrementFails(t) => carried' \subseteq carried
        BY <4>1 DEF Submit, InsertRow, InsertFails, Overdue, Increment, IncrementFails,
           attemptVars, Attempts
      <4>3. \A w \in Workers : Receive(w) \/ Lagged(w) \/ CheckResolved(w)
                               \/ SkipMessage(w) \/ MarkError(w) => carried' \subseteq carried
        BY <4>1 DEF Receive, Lagged, CheckResolved, SkipMessage, MarkError, attemptVars,
           Attempts
      <4>4. \A p \in Attempts : Process(p) \/ Abort(p) => carried' \subseteq carried
        BY <4>1 DEF Process, ReadAccount, PushReservation, ScanReservations, Post,
           RecordExtrinsic, DebitApp, DebitUser, Abort, Complete
      <4>5. SubmissionRestarts \/ MonitorRestarts \/ ResetRetry \/ UNCHANGED vars
              => carried' \subseteq carried
        BY DEF SubmissionRestarts, MonitorRestarts, DropAttempts, ResetRetry, vars,
           attemptVars
      <4> QED
        BY <1>1, <3>2, <4>2, <4>3, <4>4, <4>5 DEF Next, Environment, Worker
    <3> QED
      BY <2>4, <3>1, <3>2
  <2> QED
    BY <2>2, <2>3, <2>4
<1>2. ASSUME TypeOK, RowInv, [Next]_vars PROVE [A]_vars
  BY <1>1, <1>2
<1> HIDE DEF A
<1>3. TypeOK /\ RowInv /\ [Next]_vars => [A]_vars
  BY <1>2
<1>4. Spec => [][A]_vars
  BY <1>3, TypeCorrect, RowAlways, PTL DEF Spec
<1> QED
  BY <1>4 DEF A, ResolvedIsFinal
=============================================================================
