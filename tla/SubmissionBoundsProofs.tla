----------------------- MODULE SubmissionBoundsProofs -----------------------
(***************************************************************************)
(* How often a submission is posted, what its row then says, that the      *)
(* pipeline implements SubmissionPromise, that what is booked on the apps  *)
(* is booked on the user, and that reservations cover what was admitted:   *)
(* for every set of submissions, workers and apps, every quote and every   *)
(* bound.                                                                  *)
(***************************************************************************)
EXTENDS SubmissionPipelineProofs, SumTheorems

-----------------------------------------------------------------------------
(* Rows and the promise                                                    *)

\* An extrinsic, once recorded or missed, stays so, and posts are never undone.
LEMMA Growing ==
  ASSUME TypeOK, [Next]_vars
  PROVE  /\ txHash \subseteq txHash' /\ missed \subseteq missed'
         /\ Stored \subseteq Stored' /\ Accepted \subseteq Accepted'
         /\ \A p \in Attempts, s \in Subs : posts[p][s] <= posts'[p][s]
<1>1. txHash \subseteq txHash'
  BY RowSteps DEF InsertRow, Overdue, Increment, MarkError, RecordExtrinsic, ResetRetry, rowVars
<1>2. missed \subseteq missed'
  BY HistorySteps DEF RecordExtrinsic
<1>3. \A s \in Subs : createdAt[s] > 0 => createdAt'[s] > 0
  <2>1. ASSUME NEW t \in Subs, InsertRow(t)
        PROVE  \A s \in Subs : createdAt[s] > 0 => createdAt'[s] > 0
    BY <2>1, StampsAreNat DEF InsertRow, TypeOK, RowTypes
  <2>2. (\E t \in Subs : InsertRow(t)) \/ UNCHANGED createdAt
    BY RowSteps DEF Overdue, Increment, MarkError, RecordExtrinsic, ResetRetry, rowVars
  <2> QED
    BY <2>1, <2>2
<1>4. \A s \in Subs : sentAt[s] > 0 => sentAt'[s] > 0
  <2>1. ASSUME NEW t \in Subs, Submit(t)
        PROVE  \A s \in Subs : sentAt[s] > 0 => sentAt'[s] > 0
    BY <2>1, StampsAreNat DEF Submit, TypeOK, SendTypes
  <2>2. (\E t \in Subs : Submit(t)) \/ UNCHANGED sentAt
    BY SendSteps DEF InsertRow, InsertFails, Receive, Lagged, SubmissionRestarts, DropAttempts,
       sendVars
  <2> QED
    BY <2>1, <2>2
<1>5. ASSUME NEW p \in Attempts, NEW s \in Subs
      PROVE  posts[p][s] <= posts'[p][s]
  <2>1. posts[p][s] \in Nat
    BY DEF TypeOK, HistoryTypes
  <2>2. ASSUME NEW q \in Attempts, Post(q) PROVE posts[p][s] <= posts'[p][s]
    BY <2>1, <2>2 DEF Post, TypeOK, HistoryTypes
  <2> QED
    BY <2>1, <2>2, HistorySteps
<1> QED
  BY <1>1, <1>2, <1>3, <1>4, <1>5 DEF Stored, Accepted

\* A submission about to be debited has been recorded or missed.
Written == \A p \in Attempts : pc[p] = "debitApp" => SubOf(p) \in txHash \cup missed
TruthInv == RowsTellTheTruth /\ Written

\* TruthInv is inductive: with Covered, what is recorded was posted.
LEMMA TruthStep == TypeOK /\ Covered /\ TruthInv /\ [Next]_vars => TruthInv'
<1> SUFFICES ASSUME TypeOK, Covered, TruthInv, [Next]_vars PROVE TruthInv'
  OBVIOUS
<1>1. ASSUME NEW p \in Attempts, pc'[p] = "debitApp" PROVE (SubOf(p) \in txHash \cup missed)'
  <2>1. Moved(p) /\ (pc[p] # "idle" => SubOf(p)' = SubOf(p))
    BY <1>1, Moves
  <2>2. CASE pc[p] = "debitApp"
    BY <2>1, <2>2, Growing DEF TruthInv, Written
  <2>3. CASE RecordExtrinsic(p)
    <3>1. SubOf(p)' = SubOf(p) /\ SubOf(p) \in Subs
      BY <2>1, <2>3, AttemptData DEF RecordExtrinsic
    <3> QED
      BY <2>3, <3>1 DEF RecordExtrinsic
  <2> QED
    BY <1>1, <2>1, <2>2, <2>3 DEF Moved
<1>2. ASSUME NEW s \in Subs, s \in txHash' PROVE \E p \in Attempts : posts'[p][s] > 0
  <2>1. CASE s \in txHash
    <3>1. PICK p \in Attempts : posts[p][s] > 0
      BY <2>1 DEF TruthInv, RowsTellTheTruth
    <3>2. posts[p][s] \in Nat /\ posts'[p][s] \in Nat /\ posts[p][s] <= posts'[p][s]
      BY Growing, HistoryTypesStep DEF TypeOK, HistoryTypes
    <3> QED
      BY <3>1, <3>2
  <2>2. CASE s \notin txHash
    <3>1. PICK p \in Attempts : RecordExtrinsic(p)
      BY <1>2, <2>2, RowSteps DEF InsertRow, Overdue, Increment, MarkError, ResetRetry, rowVars
    <3>2. SubOf(p) = s /\ pc[p] = "record" /\ posts' = posts
      BY <1>2, <2>2, <3>1 DEF RecordExtrinsic
    <3>3. charges[p][s] \in Nat /\ posts[p][s] \in Nat /\ charges[p][s] + 1 <= posts[p][s]
      BY <3>2 DEF TypeOK, HistoryTypes, Covered, ToBill
    <3> QED
      BY <3>2, <3>3
  <2> QED
    BY <2>1, <2>2
<1>3. ASSUME NEW s \in Subs, NEW p \in Attempts, charges'[p][s] > 0
      PROVE  s \in txHash' \cup missed'
  <2>1. CASE charges[p][s] > 0
    BY <2>1, Growing DEF TruthInv, RowsTellTheTruth
  <2>2. CASE ~(charges[p][s] > 0)
    <3>1. PICK q \in Attempts : DebitApp(q)
      BY <1>3, <2>2, HistorySteps
    <3>2. SubOf(q) = s /\ pc[q] = "debitApp"
      BY <1>3, <2>2, <3>1 DEF DebitApp, TypeOK, HistoryTypes
    <3> QED
      BY <3>2, Growing DEF TruthInv, Written
  <2> QED
    BY <2>1, <2>2
<1> QED
  BY <1>1, <1>2, <1>3 DEF TruthInv, Written, RowsTellTheTruth

\* What rows and bills claim holds in every reachable state.
LEMMA TruthAlways == Spec => []TruthInv
<1>1. Init => TruthInv
  BY DEF Init, TruthInv, Written, RowsTellTheTruth
<1> QED
  BY <1>1, TruthStep, TypeCorrect, CoveredAlways, PTL DEF Spec

\* A row with an extrinsic was posted by someone, and what was billed is on its row
\* or was recorded before there was one (update_customer_expenditure before
\* update_credit_balance in process_response).
THEOREM RowsAreTrue == Spec => []RowsTellTheTruth
<1>1. TruthInv => RowsTellTheTruth
  BY DEF TruthInv
<1> QED
  BY <1>1, TruthAlways, PTL

-----------------------------------------------------------------------------
(* One message, one worker                                                 *)

\* The message of a submission is with the one worker it was sent to.
Has(w, s) == s \in inbox[w] \/ cur[w] = s \/ posts[w][s] > 0

\* What a worker may still post of the message it is on.
StillToPost(w, s) ==
  IF cur[w] = s /\ pc[w] \in {"resolved", "account", "push", "scan", "post"} THEN 1 ELSE 0

MessageInv ==
  /\ \A w \in Workers, s \in Subs : Has(w, s) => s \in Accepted
  /\ \A v, w \in Workers, s \in Subs : Has(v, s) /\ Has(w, s) => v = w
  /\ \A w \in Workers, s \in Subs : s \in inbox[w] => posts[w][s] = 0 /\ cur[w] # s
  /\ \A w \in Workers, s \in Subs : posts[w][s] + StillToPost(w, s) <= 1

\* What comes to a worker is what Submit sends to it and to no other, and what it takes
\* from its inbox; it posts what it is on.
LEMMA MessageMoves ==
  ASSUME TypeOK, [Next]_vars, NEW w \in Workers, NEW s \in Subs
  PROVE  /\ s \in inbox'[w] => \/ s \in inbox[w]
                               \/ Submit(s) /\ \A v \in Workers \ {w} : inbox'[v] = inbox[v]
         /\ cur'[w] = s => \/ cur[w] = s
                           \/ Receive(w) /\ s \in inbox[w] /\ s \notin inbox'[w]
         /\ \/ posts'[w][s] = posts[w][s]
            \/ Post(w) /\ cur[w] = s /\ posts'[w][s] = posts[w][s] + 1
<1>1. s \in inbox'[w] => \/ s \in inbox[w]
                         \/ Submit(s) /\ \A v \in Workers \ {w} : inbox'[v] = inbox[v]
  <2>1. ASSUME NEW t \in Subs, Submit(t), s \in inbox'[w], s \notin inbox[w]
        PROVE  Submit(s) /\ \A v \in Workers \ {w} : inbox'[v] = inbox[v]
    <3>1. PICK v \in Workers :
            inbox' = IF v \in alive THEN [inbox EXCEPT ![v] = @ \cup {t}] ELSE inbox
      BY <2>1 DEF Submit
    <3>2. v = w /\ t = s
      BY <2>1, <3>1 DEF TypeOK, SendTypes
    <3> QED
      BY <2>1, <3>1, <3>2 DEF TypeOK, SendTypes
  <2>2. ASSUME NEW v \in Workers, Receive(v) \/ Lagged(v), s \in inbox'[w]
        PROVE  s \in inbox[w]
    BY <2>2 DEF Receive, Lagged, TypeOK, SendTypes
  <2>3. ASSUME SubmissionRestarts PROVE s \notin inbox'[w]
    BY <2>3 DEF SubmissionRestarts
  <2> QED
    BY <2>1, <2>2, <2>3, SendSteps DEF InsertRow, InsertFails, sendVars
<1>2. ASSUME cur'[w] = s, cur[w] # s
      PROVE  Receive(w) /\ s \in inbox[w] /\ s \notin inbox'[w]
  <2>1. pc'[w] # "idle" /\ pc'[w] \in WorkerPcs
    BY <1>2, PcTypesStep, SubsAssumption DEF PcTypes
  <2>2. pc[w] = "idle" /\ Moved(w) /\ w \notin Subs
    BY <1>2, <2>1, Moves, SubsAssumption DEF SubOf, Attempts
  <2>3. cur[w] = NoSub /\ s # NoSub
    BY <2>2, SubsAssumption DEF TypeOK, PcTypes
  <2>4. Receive(w)
    BY <1>2, <2>1, <2>2, <2>3
       DEF Moved, GiveUp, StartRound, CheckResolved, Increment, ReadAccount, PushReservation,
           ScanReservations, Post, RecordExtrinsic, DebitApp, WorkerPcs, ProcessPcs
  <2>5. PICK t \in inbox[w] : cur' = [cur EXCEPT ![w] = t] /\ inbox' = [inbox EXCEPT ![w] = @ \ {t}]
    BY <2>4 DEF Receive
  <2>6. t = s
    BY <1>2, <2>5 DEF TypeOK, PcTypes
  <2> QED
    BY <2>4, <2>5, <2>6 DEF TypeOK, SendTypes
<1>3. \/ posts'[w][s] = posts[w][s]
      \/ Post(w) /\ cur[w] = s /\ posts'[w][s] = posts[w][s] + 1
  <2>1. ASSUME NEW p \in Attempts, Post(p), posts'[w][s] # posts[w][s]
        PROVE  Post(w) /\ cur[w] = s /\ posts'[w][s] = posts[w][s] + 1
    <3>1. p = w /\ SubOf(p) = s
      BY <2>1 DEF Post, TypeOK, HistoryTypes, Attempts
    <3> QED
      BY <2>1, <3>1, SubsAssumption DEF Post, SubOf, TypeOK, HistoryTypes, Attempts
  <2> QED
    BY <2>1, HistorySteps
<1> QED
  BY <1>1, <1>2, <1>3

\* A worker still has to post what it had to post before, or what it has just received.
LEMMA StillMoves ==
  ASSUME TypeOK, [Next]_vars, NEW w \in Workers, NEW s \in Subs, StillToPost(w, s)' = 1
  PROVE  /\ ~Post(w)
         /\ StillToPost(w, s) = 1 \/ (Receive(w) /\ s \in inbox[w])
<1>1. cur'[w] = s /\ pc'[w] \in {"resolved", "account", "push", "scan", "post"}
  BY DEF StillToPost
<1>2. ~Post(w)
  BY <1>1 DEF Post, Goto, TypeOK, PcTypes, Attempts
<1>3. CASE cur[w] = s
  <2>1. pc[w] # "idle" /\ pc[w] \in WorkerPcs /\ Moved(w)
    BY <1>3, Moves, SubsAssumption DEF TypeOK, PcTypes, Attempts
  <2> QED
    BY <1>1, <1>2, <1>3, <2>1
       DEF Moved, StillToPost, Receive, CheckResolved, Increment, ReadAccount, PushReservation,
           ScanReservations, WorkerPcs, ProcessPcs
<1> QED
  BY <1>1, <1>2, <1>3, MessageMoves

\* Every step leaves a message with one worker at most.
LEMMA MessageStep == TypeOK /\ MessageInv /\ [Next]_vars => MessageInv'
<1> SUFFICES ASSUME TypeOK, MessageInv, [Next]_vars PROVE MessageInv'
  OBVIOUS
<1>1. ASSUME NEW w \in Workers, NEW s \in Subs
      PROVE  /\ posts[w][s] \in Nat /\ posts'[w][s] \in Nat
             /\ ~Has(w, s) => posts[w][s] = 0
             /\ Submit(s) => s \notin Accepted /\ s \in Accepted'
             /\ s \in Accepted => s \in Accepted'
  BY HistoryTypesStep, Growing, StampsAreNat
     DEF TypeOK, HistoryTypes, SendTypes, Attempts, Has, Submit, Accepted
<1>2. ASSUME NEW w \in Workers, NEW s \in Subs, Has(w, s)'
      PROVE  Has(w, s) \/ (Submit(s) /\ \A v \in Workers \ {w} : inbox'[v] = inbox[v])
  BY <1>1, <1>2, MessageMoves DEF Has
<1>3. ASSUME NEW w \in Workers, NEW s \in Subs, Has(w, s)' PROVE s \in Accepted'
  BY <1>1, <1>2, <1>3 DEF MessageInv
<1>4. ASSUME NEW v \in Workers, NEW w \in Workers, NEW s \in Subs, Has(v, s)', Has(w, s)', v # w
      PROVE  FALSE
  <2>1. ~Has(v, s) \/ ~Has(w, s)
    BY <1>4 DEF MessageInv
  <2>2. Submit(s) /\ ~Has(v, s) /\ ~Has(w, s)
    BY <1>1, <1>2, <1>4, <2>1 DEF MessageInv
  <2>3. inbox'[v] = inbox[v] /\ inbox'[w] = inbox[w]
    BY <1>2, <1>4, <2>2
  <2> QED
    BY <1>4, <2>2, <2>3, <1>1, MessageMoves DEF Has
<1>5. ASSUME NEW w \in Workers, NEW s \in Subs, s \in inbox'[w]
      PROVE  posts'[w][s] = 0 /\ cur'[w] # s
  <2>1. posts[w][s] = 0 /\ cur[w] # s
    BY <1>1, <1>5, MessageMoves DEF MessageInv, Has
  <2> QED
    BY <1>5, <2>1, MessageMoves
<1>6. ASSUME NEW w \in Workers, NEW s \in Subs
      PROVE  posts'[w][s] + StillToPost(w, s)' <= 1
  <2>1. StillToPost(w, s) \in {0, 1} /\ StillToPost(w, s)' \in {0, 1}
    BY DEF StillToPost
  <2>2. CASE Post(w) /\ cur[w] = s /\ posts'[w][s] = posts[w][s] + 1
    <3>1. StillToPost(w, s) = 1 /\ StillToPost(w, s)' = 0
      BY <2>1, <2>2, StillMoves DEF StillToPost, Post
    <3> QED
      BY <1>1, <2>2, <3>1 DEF MessageInv
  <2>3. CASE posts'[w][s] = posts[w][s]
    <3>1. StillToPost(w, s)' = 1 => StillToPost(w, s) = 1 \/ posts[w][s] = 0
      BY StillMoves DEF MessageInv
    <3> QED
      BY <1>1, <2>1, <2>3, <3>1 DEF MessageInv
  <2> QED
    BY <2>2, <2>3, MessageMoves
<1> QED
  BY <1>3, <1>4, <1>5, <1>6 DEF MessageInv

\* In every reachable state a message is with one worker at most.
LEMMA MessageAlways == Spec => []MessageInv
<1>1. Init => MessageInv
  BY SubsAssumption DEF Init, MessageInv, Has, StillToPost, Attempts
<1> QED
  BY <1>1, MessageStep, TypeCorrect, PTL DEF Spec

-----------------------------------------------------------------------------
(* Retries                                                                 *)

MonitorToPost(s) == IF pc[s] \in {"account", "push", "scan", "post"} THEN 1 ELSE 0
ToIncrement(s)   == IF pc[s] = "increment" THEN 1 ELSE 0

\* The monitor posts once per increment; increments and the counter rise together, and
\* the query takes only rows whose counter is below the limit.
RetryInv ==
  \A s \in Subs :
    /\ posts[s][s] + MonitorToPost(s) <= picks[s]
    /\ picks[s] + Retry <= granted[s] + retry[s]
    /\ picks[s] + ToIncrement(s) <= granted[s]

\* Every step keeps the count of retries.
LEMMA RetryStep == TypeOK /\ RetryInv /\ [Next]_vars => RetryInv'
<1> SUFFICES ASSUME TypeOK, RetryInv, [Next]_vars, NEW s \in Subs
             PROVE  (/\ posts[s][s] + MonitorToPost(s) <= picks[s]
                     /\ picks[s] + Retry <= granted[s] + retry[s]
                     /\ picks[s] + ToIncrement(s) <= granted[s])'
  BY DEF RetryInv
<1>1. /\ posts[s][s] \in Nat /\ picks[s] \in Nat /\ granted[s] \in Nat /\ retry[s] \in Int
      /\ Retry \in Nat /\ s \in Attempts /\ s \notin Workers /\ SubOf(s) = s
  BY SubsAssumption, BoundsAssumption DEF TypeOK, HistoryTypes, RowTypes, Attempts, SubOf
<1>2. /\ posts[s][s] + MonitorToPost(s) <= picks[s]
      /\ picks[s] + Retry <= granted[s] + retry[s]
      /\ picks[s] + ToIncrement(s) <= granted[s]
  BY DEF RetryInv
<1>3. /\ MonitorToPost(s) \in {0, 1} /\ MonitorToPost(s)' \in {0, 1}
      /\ ToIncrement(s) \in {0, 1} /\ ToIncrement(s)' \in {0, 1}
  BY DEF MonitorToPost, ToIncrement
<1>4. Moved(s) /\ pc[s] \in MonitorPcs
  BY <1>1, Moves DEF TypeOK, PcTypes
<1>5. CASE Increment(s)
  <2>1. /\ retry'[s] = retry[s] + 1 /\ picks'[s] = picks[s] + 1
        /\ posts' = posts /\ granted' = granted
        /\ ToIncrement(s) = 1 /\ ToIncrement(s)' = 0 /\ MonitorToPost(s) = 0
    BY <1>1, <1>5
       DEF Increment, Goto, ToIncrement, MonitorToPost, TypeOK, HistoryTypes, RowTypes, PcTypes
  <2> QED
    BY <1>1, <1>2, <1>3, <2>1
<1>6. CASE ~Increment(s)
  <2>0. posts'[s][s] \in Nat /\ granted'[s] \in Nat /\ retry'[s] \in Int
    BY <1>1, HistoryTypesStep, RowTypesStep DEF HistoryTypes, RowTypes
  <2>1. picks'[s] = picks[s]
    <3>1. ASSUME NEW t \in Subs, Increment(t) PROVE picks'[s] = picks[s]
      BY <1>6, <3>1 DEF Increment, TypeOK, HistoryTypes
    <3> QED
      BY <3>1, HistorySteps
  <2>2. posts'[s][s] + MonitorToPost(s)' <= posts[s][s] + MonitorToPost(s)
    <3>1. CASE Post(s)
      <4>1. posts'[s][s] = posts[s][s] + 1 /\ MonitorToPost(s) = 1 /\ MonitorToPost(s)' = 0
        BY <1>1, <3>1 DEF Post, Goto, MonitorToPost, TypeOK, HistoryTypes, PcTypes
      <4> QED
        BY <1>1, <4>1
    <3>2. CASE ~Post(s)
      <4>1. posts'[s][s] = posts[s][s]
        <5>1. ASSUME NEW q \in Attempts, Post(q) PROVE posts'[s][s] = posts[s][s]
          BY <1>1, <3>2, <5>1 DEF Post, TypeOK, HistoryTypes
        <5> QED
          BY <5>1, HistorySteps
      <4>2. MonitorToPost(s)' = 1 => MonitorToPost(s) = 1
        BY <1>1, <1>4, <1>6
           DEF Moved, MonitorToPost, ReadAccount, PushReservation, ScanReservations
      <4> QED
        BY <1>1, <1>3, <4>1, <4>2
    <3> QED
      BY <3>1, <3>2
  <2>3. picks[s] + Retry <= granted'[s] + retry'[s] /\ granted[s] <= granted'[s]
    <3>1. CASE ResetRetry
      <4>1. \/ granted'[s] = granted[s] /\ retry'[s] = retry[s]
            \/ \E n \in Int : granted'[s] = granted[s] + Left(n) /\ retry'[s] = n
        BY <3>1, <1>1, BoundsAssumption DEF ResetRetry, TypeOK, HistoryTypes, RowTypes
      <4>2. \A n \in Int : Left(n) \in Nat /\ Left(n) + n >= Retry
        BY <1>1 DEF Left
      <4> QED
        BY <1>1, <1>2, <1>3, <4>1, <4>2
    <3>2. CASE ~ResetRetry
      <4>1. granted' = granted
        BY <3>2, HistorySteps
      <4>2. retry'[s] = retry[s]
        <5>1. ASSUME NEW t \in Subs, Increment(t) PROVE retry'[s] = retry[s]
          BY <1>6, <5>1 DEF Increment, TypeOK, RowTypes
        <5> QED
          BY <3>2, <5>1, RowSteps DEF InsertRow, Overdue, MarkError, RecordExtrinsic, rowVars
      <4> QED
        BY <1>1, <1>2, <4>1, <4>2
    <3> QED
      BY <3>1, <3>2
  <2>4. CASE pc[s] # "increment" /\ pc'[s] = "increment"
    <3>1. StartRound /\ s \in Newest(Unresolved, Limit)
      BY <1>4, <2>4 DEF Moved
    <3>2. retry[s] < Retry /\ granted' = granted
      BY <3>1 DEF StartRound, Newest, Unresolved, history
    <3> QED
      BY <1>1, <1>2, <1>3, <2>0, <2>1, <2>2, <2>3, <3>2
  <2>5. CASE ~(pc[s] # "increment" /\ pc'[s] = "increment")
    <3>1. ToIncrement(s)' <= ToIncrement(s)
      BY <2>5 DEF ToIncrement
    <3> QED
      BY <1>1, <1>2, <1>3, <2>0, <2>1, <2>2, <2>3, <3>1
  <2> QED
    BY <2>4, <2>5
<1> QED
  BY <1>5, <1>6

\* The count of retries holds in every reachable state.
LEMMA RetryAlways == Spec => []RetryInv
<1>1. Init => RetryInv
  BY BoundsAssumption DEF Init, RetryInv, MonitorToPost, ToIncrement, Attempts
<1> QED
  BY <1>1, RetryStep, TypeCorrect, PTL DEF Spec

\* The monitor posts a submission at most RETRY_COUNT times, and for each reset as many
\* times more as the new count leaves; of the workers one at most posts it, and once (get_unresolved_transactions,
\* increase_retry_count, response_handler).
THEOREM PostsStayBounded == Spec => []PostsBounded
<1>1. TypeOK /\ MessageInv /\ RetryInv => PostsBounded
  <2> SUFFICES ASSUME TypeOK, MessageInv, RetryInv, NEW s \in Subs
               PROVE  /\ posts[s][s] <= granted[s]
                      /\ \A w \in Workers : posts[w][s] <= 1
                      /\ \A v, w \in Workers : posts[v][s] > 0 /\ posts[w][s] > 0 => v = w
    BY DEF PostsBounded
  <2>1. /\ posts[s][s] \in Nat /\ picks[s] \in Nat /\ granted[s] \in Nat
        /\ MonitorToPost(s) \in Nat /\ ToIncrement(s) \in Nat
        /\ \A w \in Workers : posts[w][s] \in Nat /\ StillToPost(w, s) \in Nat
    BY DEF TypeOK, HistoryTypes, Attempts, MonitorToPost, ToIncrement, StillToPost
  <2>2. posts[s][s] + MonitorToPost(s) <= picks[s] /\ picks[s] + ToIncrement(s) <= granted[s]
    BY DEF RetryInv
  <2>3. \A w \in Workers : posts[w][s] + StillToPost(w, s) <= 1
    BY DEF MessageInv
  <2>4. \A v, w \in Workers : posts[v][s] > 0 /\ posts[w][s] > 0 => v = w
    BY DEF MessageInv, Has
  <2> QED
    BY <2>1, <2>2, <2>3, <2>4
<1> QED
  BY <1>1, TypeCorrect, MessageAlways, RetryAlways, PTL

-----------------------------------------------------------------------------
(* The promise                                                             *)

\* Whoever processes a submission, it has been accepted.
KnownSubs == \A p \in Attempts : pc[p] # "idle" => SubOf(p) \in Accepted

\* Every step keeps what an attempt is about known.
LEMMA KnownStep == TypeOK /\ RowInv /\ MessageInv /\ KnownSubs /\ [Next]_vars => KnownSubs'
<1> SUFFICES ASSUME TypeOK, RowInv, MessageInv, KnownSubs, [Next]_vars,
                    NEW p \in Attempts, pc'[p] # "idle"
             PROVE  (SubOf(p) \in Accepted)'
  BY DEF KnownSubs
<1>1. Moved(p) /\ (pc[p] # "idle" => SubOf(p)' = SubOf(p))
  BY Moves
<1>2. CASE pc[p] # "idle"
  BY <1>1, <1>2, Growing DEF KnownSubs
<1>3. CASE pc[p] = "idle" /\ p \in Workers
  <2>1. cur'[p] \in Subs /\ cur[p] = NoSub /\ SubOf(p)' = cur'[p]
    BY <1>3, PcTypesStep, SubsAssumption DEF TypeOK, PcTypes, SubOf
  <2>2. cur'[p] \in inbox[p]
    BY <1>3, <2>1, MessageMoves, SubsAssumption
  <2> QED
    BY <1>3, <2>1, <2>2, Growing DEF MessageInv, Has
<1>4. CASE pc[p] = "idle" /\ p \in Subs
  <2>1. SubOf(p)' = p /\ p \notin Workers
    BY <1>4, SubsAssumption DEF SubOf
  <2>2. p \in Newest(Unresolved, Limit)
    BY <1>1, <1>4, <2>1
       DEF Moved, GiveUp, Increment, ReadAccount, PushReservation, ScanReservations, Post,
           RecordExtrinsic, DebitApp
  <2>3. p \in Stored
    BY <2>2 DEF Newest, Unresolved
  <2> QED
    BY <2>1, <2>3, Growing DEF RowInv
<1> QED
  BY <1>2, <1>3, <1>4 DEF Attempts

\* What an attempt is about was accepted, in every reachable state.
LEMMA KnownAlways == Spec => []KnownSubs
<1>1. Init => KnownSubs
  BY DEF Init, KnownSubs
<1> QED
  BY <1>1, KnownStep, TypeCorrect, RowAlways, MessageAlways, PTL DEF Spec

\* Every step but the one that sends a submission leaves it as open or closes it.
LEMMA OpenShrinks ==
  ASSUME TypeOK, [Next]_vars
  PROVE  /\ \A s \in Subs : s \in Open' => s \in Open \/ Submit(s)
         /\ sentAt' = sentAt => (Accepted \ Open) \cup ((Accepted \ Open)') = (Accepted \ Open)'
<1>1. ASSUME NEW s \in Subs, s \in Open' PROVE s \in Open \/ Submit(s)
  BY <1>1, MessageMoves DEF Open
<1>2. ASSUME sentAt' = sentAt PROVE Accepted' = Accepted /\ \A s \in Subs : ~Submit(s)
  <2>1. ASSUME NEW s \in Subs, Submit(s) PROVE FALSE
    BY <1>2, <2>1, StampsAreNat DEF Submit, TypeOK, SendTypes
  <2> QED
    BY <1>2, <2>1 DEF Accepted
<1>3. Accepted \subseteq Subs
  BY DEF Accepted
<1> QED
  BY <1>1, <1>2, <1>3

\* Who is done with a message was the last to hold it.
LEMMA DoneCloses ==
  ASSUME TypeOK, MessageInv, [Next]_vars, NEW w \in Workers, NEW s \in Subs, cur[w] = s,
         cur'[w] = NoSub, \A t \in Subs : ~Submit(t)
  PROVE  s \notin Open'
<1>1. ASSUME NEW v \in Workers, s \in inbox'[v] PROVE FALSE
  <2>1. s \in inbox[v]
    BY <1>1, MessageMoves
  <2> QED
    BY <2>1 DEF MessageInv, Has
<1>2. ASSUME NEW v \in Workers, cur'[v] = s PROVE FALSE
  <2>1. v # w
    BY <1>2, SubsAssumption
  <2>2. cur[v] = s \/ s \in inbox[v]
    BY <1>2, MessageMoves
  <2> QED
    BY <2>1, <2>2 DEF MessageInv, Has
<1> QED
  BY <1>1, <1>2 DEF Open

\* A step that touches neither rows, posts nor bills, and sends nothing, lets go of some
\* messages at most.
LEMMA LetGoStep ==
  ASSUME TypeOK, [Next]_vars, UNCHANGED <<sentAt, createdAt, txHash, error, posts, charges>>
  PROVE  Promise!Next
<1>1. /\ Accepted' = Accepted /\ Stored' = Stored
      /\ \A s \in Subs : Reported(s)' = Reported(s)
  BY DEF Accepted, Stored, Reported
<1>2. (Accepted \ Open)' = (Accepted \ Open) \cup ((Accepted \ Open)')
  BY OpenShrinks
<1>3. (Accepted \ Open)' \in SUBSET Accepted
  BY <1>1
<1>4. Promise!LetGo
  BY <1>1, <1>2, <1>3 DEF Promise!LetGo, Promise!Close
<1> QED
  BY <1>4 DEF Promise!Next

\* Sending a submission answers it; a thread that does not receive closes it at once.
LEMMA AnswerStep ==
  ASSUME TypeOK, MessageInv, [Next]_vars, NEW s \in Subs, Submit(s)
  PROVE  Promise!Answer(s)
<1>1. s \notin Accepted /\ Accepted' = Accepted \cup {s}
  <2>1. sentAt[s] = 0 /\ \A t \in Subs : sentAt'[t] > 0 <=> t = s \/ sentAt[t] > 0
    BY StampsAreNat DEF Submit, TypeOK, SendTypes
  <2> QED
    BY <2>1 DEF Accepted
<1>2. UNCHANGED <<txHash, Stored, posts, charges>> /\ \A t \in Subs : Reported(t)' = Reported(t)
  BY DEF Submit, rowVars, history, Stored, Reported
<1>3. cur' = cur
  BY DEF Submit, attemptVars
<1>4. \A t \in Subs : t # s => (t \in Open' <=> t \in Open)
  <2>1. PICK w \in Workers :
          inbox' = IF w \in alive THEN [inbox EXCEPT ![w] = @ \cup {s}] ELSE inbox
    BY DEF Submit
  <2>2. \A v \in Workers, t \in Subs : t # s => (t \in inbox'[v] <=> t \in inbox[v])
    BY <2>1 DEF TypeOK, SendTypes
  <2> QED
    BY <1>3, <2>2 DEF Open
<1>5. s \notin Open
  BY <1>1 DEF MessageInv, Has, Open
<1>6. \/ (Accepted \ Open)' = (Accepted \ Open) \cup {}
      \/ (Accepted \ Open)' = (Accepted \ Open) \cup {s}
  <2>1. Accepted \subseteq Subs /\ Accepted' \subseteq Subs
    BY DEF Accepted
  <2> QED
    BY <1>1, <1>4, <1>5, <2>1
<1> QED
  BY <1>1, <1>2, <1>6 DEF Promise!Answer, Promise!Close

\* An inserted row is reported as pending.
LEMMA StoreStep ==
  ASSUME TypeOK, RowInv, [Next]_vars, NEW s \in Subs, InsertRow(s)
  PROVE  Promise!Store(s)
<1>1. s \in Accepted /\ s \notin Stored /\ s \notin txHash /\ s \notin error
  BY DEF InsertRow, RowInv, PreImageAvailable
<1>2. Stored' = Stored \cup {s}
  <2>1. \A t \in Subs : createdAt'[t] > 0 <=> t = s \/ createdAt[t] > 0
    BY StampsAreNat DEF InsertRow, TypeOK, RowTypes
  <2> QED
    BY <2>1 DEF Stored
<1>3. UNCHANGED <<txHash, error, sentAt, inbox, cur, posts, charges>>
  BY DEF InsertRow, history, attemptVars
<1>4. Accepted' = Accepted /\ Open' = Open
  BY <1>3 DEF Accepted, Open
<1>5. Reported(s) = "notFound" /\ \A t \in Subs : Reported(t)' = IF t = s THEN "Pending"
                                                                ELSE Reported(t)
  BY <1>1, <1>2, <1>3 DEF Reported
<1> QED
  BY <1>1, <1>3, <1>4, <1>5 DEF Promise!Store, Promise!Report

\* A post is of an accepted submission.
LEMMA PostStep ==
  ASSUME TypeOK, KnownSubs, [Next]_vars, NEW p \in Attempts, NEW s \in Subs, s = SubOf(p), Post(p)
  PROVE  Promise!Post(p, s)
<1>1. s \in Accepted
  BY DEF Post, KnownSubs
<1>2. /\ UNCHANGED <<txHash, Stored, Accepted, Open, charges>>
      /\ \A t \in Subs : Reported(t)' = Reported(t)
  BY DEF Post, rowVars, sendVars, Stored, Accepted, Open, Reported
<1> QED
  BY <1>1, <1>2 DEF Post, Promise!Post

\* A recorded extrinsic takes the place of the state reported before, if there is a row.
LEMMA RecordStep ==
  ASSUME TypeOK, Covered, [Next]_vars,
         NEW p \in Attempts, NEW s \in Subs, s = SubOf(p), RecordExtrinsic(p)
  PROVE  Promise!Next
<1>1. /\ pc[p] = "record"
      /\ UNCHANGED <<Stored, Accepted, Open, posts, charges>>
      /\ txHash' = txHash \cup ({s} \cap Stored)
      /\ error' = error \ ({s} \cap Stored)
  BY DEF RecordExtrinsic, sendVars, Stored, Accepted, Open
<1>2. posts[p][s] > 0
  <2>1. /\ charges[p][s] \in Nat /\ posts[p][s] \in Nat
        /\ charges[p][s] + ToBill(p, s) <= posts[p][s]
    BY DEF TypeOK, HistoryTypes, Covered
  <2> QED
    BY <1>1, <2>1 DEF ToBill
<1>3. CASE s \in Stored
  <2>1. /\ Reported(s) # "notFound"
        /\ \A t \in Subs : Reported(t)' = IF t = s THEN "Finalized" ELSE Reported(t)
    BY <1>1, <1>3 DEF Reported
  <2>2. Promise!Record(s)
    BY <1>1, <1>2, <1>3, <2>1 DEF Promise!Record, Promise!Report
  <2> QED
    BY <2>2 DEF Promise!Next
<1>4. CASE s \notin Stored
  <2>1. UNCHANGED <<sentAt, createdAt, txHash, error, posts, charges>>
    BY <1>1, <1>4 DEF RecordExtrinsic, sendVars
  <2> QED
    BY <2>1, LetGoStep
<1> QED
  BY <1>3, <1>4

\* A bill has a post behind it, and may end what a worker has to do.
LEMMA BillStep ==
  ASSUME TypeOK, Covered, MessageInv, [Next]_vars,
         NEW p \in Attempts, NEW s \in Subs, s = SubOf(p), DebitApp(p)
  PROVE  Promise!Bill(p, s)
<1>1. charges[p][s] < posts[p][s]
  <2>1. /\ charges[p][s] \in Nat /\ posts[p][s] \in Nat
        /\ charges[p][s] + 1 <= posts[p][s]
    BY DEF DebitApp, TypeOK, HistoryTypes, Covered, ToBill
  <2> QED
    BY <2>1
<1>2. /\ UNCHANGED <<txHash, Stored, Accepted, inbox, sentAt, posts>>
      /\ \A t \in Subs : Reported(t)' = Reported(t)
  BY DEF DebitApp, rowVars, sendVars, Stored, Accepted, Reported
<1>3. charges' = [charges EXCEPT ![p][s] = @ + 1]
  BY DEF DebitApp
<1>4. cur' = cur \/ (p \in Workers /\ cur' = [cur EXCEPT ![p] = NoSub])
  BY DEF DebitApp, Complete, Finish, GiveUp
<1>5. CASE cur' = cur
  <2>1. Open' = Open
    BY <1>2, <1>5 DEF Open
  <2>2. Promise!Close({})
    BY <1>2, <2>1 DEF Promise!Close
  <2> QED
    BY <1>1, <1>2, <1>3, <2>2 DEF Promise!Bill
<1>6. CASE p \in Workers /\ cur' = [cur EXCEPT ![p] = NoSub]
  <2>1. s = cur[p] /\ cur'[p] = NoSub /\ \A v \in Workers : v # p => cur'[v] = cur[v]
    BY <1>6, SubsAssumption DEF SubOf, TypeOK, PcTypes
  <2>2. \A t \in Subs : ~Submit(t)
    BY <1>2, StampsAreNat DEF Submit, TypeOK, SendTypes
  <2>3. s \notin Open'
    BY <1>6, <2>1, <2>2, DoneCloses
  <2>4. \A t \in Subs : t # s => (t \in Open' <=> t \in Open)
    BY <1>2, <1>6, <2>1, SubsAssumption DEF Open
  <2>5. s \in Accepted /\ Accepted \subseteq Subs
    BY <1>6, <2>1 DEF MessageInv, Has, Accepted
  <2>6. Promise!Close({s})
    BY <1>2, <2>3, <2>4, <2>5 DEF Promise!Close
  <2> QED
    BY <1>1, <1>2, <1>3, <2>6 DEF Promise!Bill
<1> QED
  BY <1>4, <1>5, <1>6

\* An error entry is the worker's last word on a submission it still held.
LEMMA FailStep ==
  ASSUME TypeOK, MessageInv, [Next]_vars, NEW w \in Workers, MarkError(w)
  PROVE  Promise!Next
<1> DEFINE s == cur[w]
<1>1. s \in Subs /\ w \notin Subs
  BY SubsAssumption DEF MarkError, TypeOK, PcTypes
<1>2. UNCHANGED <<sentAt, inbox, createdAt, txHash, posts, charges>>
  BY DEF MarkError, sendVars, history
<1>3. CASE error' = error
  BY <1>2, <1>3, LetGoStep
<1>4. CASE error' # error
  <2>1. s \in Stored /\ error' = error \cup {s}
    BY <1>4 DEF MarkError
  <2>2. Accepted' = Accepted /\ Stored' = Stored
    BY <1>2 DEF Accepted, Stored
  <2>3. /\ Reported(s) # "notFound"
        /\ \A t \in Subs : Reported(t)' = IF t = s THEN "Error" ELSE Reported(t)
    BY <1>1, <1>2, <2>1, <2>2 DEF Reported
  <2>4. cur' = [cur EXCEPT ![w] = NoSub]
    BY DEF MarkError, Finish
  <2>5. cur'[w] = NoSub /\ \A v \in Workers : v # w => cur'[v] = cur[v]
    BY <2>4 DEF TypeOK, PcTypes
  <2>6. \A t \in Subs : ~Submit(t)
    BY <1>2, StampsAreNat DEF Submit, TypeOK, SendTypes
  <2>7. s \notin Open'
    BY <1>1, <2>5, <2>6, DoneCloses
  <2>8. s \in Open /\ \A t \in Subs : t # s => (t \in Open' <=> t \in Open)
    BY <1>1, <1>2, <2>5, SubsAssumption DEF Open
  <2>9. s \in Accepted /\ Accepted \subseteq Subs
    BY <1>1 DEF MessageInv, Has, Accepted
  <2>10. Promise!Close({s}) /\ s \in Accepted \ (Accepted \ Open)
    BY <1>1, <2>2, <2>7, <2>8, <2>9 DEF Promise!Close
  <2>11. Promise!Fail(s)
    BY <1>1, <1>2, <2>2, <2>3, <2>10 DEF Promise!Fail, Promise!Report
  <2> QED
    BY <1>1, <2>11 DEF Promise!Next
<1> QED
  BY <1>3, <1>4

\* Every step of the pipeline is a step of the promise, or changes nothing it speaks of.
LEMMA PromiseStep ==
  ASSUME TypeOK, RowInv, Covered, MessageInv, KnownSubs, [Next]_vars
  PROVE  Promise!Next
<1>1. \A s \in Subs : Submit(s) \/ InsertRow(s) => Promise!Next
  BY AnswerStep, StoreStep DEF Promise!Next
<1>2. \A p \in Attempts : Post(p) \/ RecordExtrinsic(p) \/ DebitApp(p)
                            => \E s \in Subs : s = SubOf(p)
  BY AttemptData DEF Post, RecordExtrinsic, DebitApp
<1>3. \A p \in Attempts : Post(p) \/ DebitApp(p) => Promise!Next
  BY <1>2, PostStep, BillStep DEF Promise!Next
<1>4. \A p \in Attempts : RecordExtrinsic(p) => Promise!Next
  BY <1>2, RecordStep
<1>5. \A w \in Workers : MarkError(w) => Promise!Next
  BY FailStep
<1>6. \/ \E s \in Subs : Submit(s) \/ InsertRow(s)
      \/ \E p \in Attempts : Post(p) \/ RecordExtrinsic(p) \/ DebitApp(p)
      \/ \E w \in Workers : MarkError(w)
      \/ UNCHANGED <<sentAt, createdAt, txHash, error, posts, charges>>
  <2>1. (\E s \in Subs : Submit(s)) \/ UNCHANGED sentAt
    BY SendSteps DEF InsertRow, InsertFails, Receive, Lagged, SubmissionRestarts, DropAttempts,
       sendVars
  <2>2. \/ \E s \in Subs : InsertRow(s)
        \/ \E p \in Attempts : RecordExtrinsic(p)
        \/ \E w \in Workers : MarkError(w)
        \/ UNCHANGED <<createdAt, txHash, error>>
    BY RowSteps DEF Overdue, Increment, ResetRetry, rowVars
  <2> QED
    BY <2>1, <2>2, HistorySteps
<1> QED
  BY <1>1, <1>3, <1>4, <1>5, <1>6, LetGoStep

\* The pipeline implements SubmissionPromise: an id is answered, a row appears once and
\* comes to carry an extrinsic, after a post and for good, with a post behind every bill;
\* the state handle_submission_info reports turns to "Error" at most once, by the worker
\* that still held the message (update_error_entry), be the extrinsic recorded or not, and
\* from there only to "Finalized".
THEOREM PromiseKept == Spec => KeepsPromise
<1>1. Init => Promise!Init
  BY DEF Init, Promise!Init, Accepted, Stored, Reported
<1>2. TypeOK /\ RowInv /\ Covered /\ MessageInv /\ KnownSubs /\ [Next]_vars
        => [Promise!Next]_(Promise!promise)
  BY PromiseStep
<1> QED
  BY <1>1, <1>2, TypeCorrect, RowAlways, CoveredAlways, MessageAlways, KnownAlways, PTL
     DEF Spec, KeepsPromise, Promise!Spec

-----------------------------------------------------------------------------
(* Bills                                                                   *)

\* Workers, submissions and apps are finitely many, and what an attempt owes is
\* an integer.
LEMMA OwedTyped ==
  /\ IsFiniteSet(Attempts) /\ IsFiniteSet(Apps)
  /\ TypeOK => \A p \in Attempts :
                 /\ Owed[p] = writtenOff[p] + Unbooked(p) /\ Owed[p] \in Int
                 /\ writtenOff[p] \in Int /\ Unbooked(p) \in Nat
<1>1. IsFiniteSet(Attempts) /\ IsFiniteSet(Apps)
  BY SubsAssumption, AppsAssumption, FS_Union DEF Attempts
<1>2. ASSUME TypeOK, NEW p \in Attempts
      PROVE  /\ Owed[p] = writtenOff[p] + Unbooked(p) /\ Owed[p] \in Int
             /\ writtenOff[p] \in Int /\ Unbooked(p) \in Nat
  BY <1>2, AttemptData DEF Owed, TypeOK, HistoryTypes
<1> QED
  BY <1>1, <1>2

\* A step that leaves the attempts or drops some of them changes nothing that is
\* owed: what was not booked is written off.
LEMMA OwedKept ==
  ASSUME TypeOK, TypeOK', NEW p \in Attempts,
         \/ /\ writtenOff'[p] = writtenOff[p]
            /\ \/ pc'[p] = pc[p] /\ snap'[p] = snap[p]
               \/ pc[p] # "debitUser" /\ pc'[p] # "debitUser"
         \/ writtenOff'[p] = writtenOff[p] + Unbooked(p) /\ pc'[p] # "debitUser"
  PROVE  Owed'[p] = Owed[p]
<1>1. /\ Owed[p] = writtenOff[p] + Unbooked(p)
      /\ Owed'[p] = writtenOff'[p] + Unbooked(p)'
      /\ writtenOff[p] \in Int /\ Unbooked(p) \in Nat
  BY OwedTyped DEF Owed
<1>2. CASE writtenOff'[p] = writtenOff[p] /\ pc'[p] = pc[p] /\ snap'[p] = snap[p]
  BY <1>1, <1>2 DEF Unbooked, Bill
<1>3. CASE writtenOff'[p] = writtenOff[p] /\ pc[p] # "debitUser" /\ pc'[p] # "debitUser"
  BY <1>1, <1>3 DEF Unbooked
<1>4. CASE writtenOff'[p] = writtenOff[p] + Unbooked(p) /\ pc'[p] # "debitUser"
  BY <1>1, <1>4 DEF Unbooked
<1> QED
  BY <1>2, <1>3, <1>4


\* Every other step than the two statements of the bill leaves what is owed.
LEMMA OwedSteps ==
  ASSUME TypeOK, TypeOK', [Next]_vars
  PROVE  \/ \E p \in Attempts : DebitApp(p) \/ DebitUser(p)
         \/ UNCHANGED balanceVars /\ \A p \in Attempts : Owed'[p] = Owed[p]
<1> DEFINE Kept == \A p \in Attempts : Owed'[p] = Owed[p]
<1>1. ASSUME UNCHANGED <<pc, snap, writtenOff>> PROVE Kept
  BY <1>1, OwedKept
<1>2. ASSUME NEW q \in Attempts, Finish(q), pc[q] # "debitUser", UNCHANGED writtenOff PROVE Kept
  <2>1. \A p \in Attempts : p # q => pc'[p] = pc[p] /\ snap'[p] = snap[p]
    BY <1>2 DEF Finish, Goto, TypeOK, PcTypes, AttemptTypes
  <2>2. pc'[q] = "idle"
    BY <1>2 DEF Finish, Goto, TypeOK, PcTypes
  <2> QED
    BY <1>2, <2>1, <2>2, OwedKept
<1>3. ASSUME NEW q \in Attempts, NEW label \in WorkerPcs \cup MonitorPcs, Goto(q, label),
             pc[q] # "debitUser", label # "debitUser", UNCHANGED writtenOff,
             \A p \in Attempts : p # q => snap'[p] = snap[p]
      PROVE  Kept
  <2>1. \A p \in Attempts : p # q => pc'[p] = pc[p] /\ snap'[p] = snap[p]
    BY <1>3 DEF Goto, TypeOK, PcTypes
  <2>2. pc'[q] = label
    BY <1>3 DEF Goto, TypeOK, PcTypes
  <2> QED
    BY <1>3, <2>1, <2>2, OwedKept
<1> HIDE DEF Kept
<1>4. ASSUME NEW s \in Subs, Submit(s) \/ InsertRow(s) \/ InsertFails(s) \/ Overdue(s)
      PROVE Kept
  BY <1>1, <1>4 DEF Submit, InsertRow, InsertFails, Overdue, attemptVars, history
<1>5. ASSUME NEW s \in Subs, Increment(s) PROVE Kept
  <2>1. s \in Attempts /\ pc[s] = "increment"
    BY <1>5 DEF Attempts, Increment
  <2>2. PICK label \in {"account", "idle"} : Goto(s, label)
    BY <1>5 DEF Increment
  <2> QED
    BY <1>3, <1>5, <2>1, <2>2 DEF Increment, WorkerPcs, ProcessPcs
<1>6. ASSUME NEW s \in Subs, IncrementFails(s) PROVE Kept
  BY <1>2, <1>6 DEF IncrementFails, Attempts, history
<1>7. ASSUME NEW w \in Workers, Receive(w) \/ CheckResolved(w) PROVE Kept
  <2>1. PICK label \in {"resolved", "account"} : Goto(w, label)
    BY <1>7 DEF Receive, CheckResolved
  <2> QED
    BY <1>3, <1>7, <2>1 DEF Receive, CheckResolved, WorkerPcs, ProcessPcs, Attempts, history
<1>8. ASSUME NEW w \in Workers, Lagged(w) PROVE Kept
  BY <1>1, <1>8 DEF Lagged, attemptVars, history
<1>9. ASSUME NEW w \in Workers, SkipMessage(w) \/ MarkError(w) PROVE Kept
  BY <1>2, <1>9 DEF SkipMessage, MarkError, Attempts, history
<1>10. ASSUME NEW p \in Attempts, ReadAccount(p) PROVE Kept
  <2>1. \A q \in Attempts : q # p => snap'[q] = snap[q]
    BY <1>10 DEF ReadAccount, TypeOK, AttemptTypes
  <2> QED
    BY <1>3, <1>10, <2>1 DEF ReadAccount, WorkerPcs, ProcessPcs, history
<1>11. ASSUME NEW p \in Attempts, PushReservation(p) \/ ScanReservations(p) \/ Post(p)
              \/ RecordExtrinsic(p)
       PROVE Kept
  <2>1. PICK label \in {"scan", "post", "record", "debitApp"} : Goto(p, label)
    BY <1>11 DEF PushReservation, ScanReservations, Post, RecordExtrinsic
  <2>2. UNCHANGED <<snap, writtenOff>> /\ pc[p] # "debitUser"
    BY <1>11 DEF PushReservation, ScanReservations, Post, RecordExtrinsic, history
  <2> QED
    BY <1>3, <2>1, <2>2 DEF WorkerPcs, ProcessPcs
<1>12. ASSUME NEW p \in Attempts, Abort(p) PROVE Kept
  <2>1. pc'[p] # "debitUser" /\ writtenOff'[p] = writtenOff[p] + Unbooked(p)
    BY <1>12 DEF Abort, GiveUp, Finish, Goto, TypeOK, PcTypes, HistoryTypes
  <2>2. \A q \in Attempts : q # p => /\ pc'[q] = pc[q] /\ snap'[q] = snap[q]
                                     /\ writtenOff'[q] = writtenOff[q]
    BY <1>12 DEF Abort, GiveUp, Finish, Goto, TypeOK, PcTypes, AttemptTypes, HistoryTypes
  <2> QED
    BY <2>1, <2>2, OwedKept DEF Kept
<1>13. ASSUME StartRound PROVE Kept
  <2>1. \A q \in Attempts : q \notin Subs => pc'[q] = pc[q]
    BY <1>13 DEF StartRound, Newest, Unresolved, Stored
  <2>2. \A q \in Subs : pc[q] # "debitUser" /\ pc'[q] # "debitUser"
    BY <1>13 DEF StartRound, Attempts
  <2>3. UNCHANGED <<snap, writtenOff>>
    BY <1>13 DEF StartRound, history
  <2> QED
    BY <2>1, <2>2, <2>3, OwedKept DEF Kept
<1>14. ASSUME NEW ps, DropAttempts(ps) PROVE Kept
  <2>1. ASSUME NEW q \in Attempts PROVE Owed'[q] = Owed[q]
    <3>1. CASE q \in ps
      <4>1. pc'[q] # "debitUser" /\ writtenOff'[q] = writtenOff[q] + Unbooked(q)
        BY <1>14, <3>1 DEF DropAttempts
      <4> QED
        BY <4>1, OwedKept
    <3>2. CASE q \notin ps
      <4>1. pc'[q] = pc[q] /\ snap'[q] = snap[q] /\ writtenOff'[q] = writtenOff[q] + 0
        BY <1>14, <3>2 DEF DropAttempts
      <4>2. writtenOff'[q] = writtenOff[q]
        BY <4>1, OwedTyped
      <4> QED
        BY <4>1, <4>2, OwedKept
    <3> QED
      BY <3>1, <3>2
  <2> QED
    BY <2>1 DEF Kept
<1>15. ASSUME SubmissionRestarts \/ MonitorRestarts PROVE Kept
  BY <1>14, <1>15 DEF SubmissionRestarts, MonitorRestarts
<1>16. ASSUME ResetRetry \/ UNCHANGED vars PROVE Kept
  BY <1>1, <1>16 DEF ResetRetry, vars, attemptVars, history
<1>17. Kept \/ \E p \in Attempts : DebitApp(p) \/ DebitUser(p)
  BY <1>4, <1>5, <1>6, <1>7, <1>8, <1>9, <1>10, <1>11, <1>12, <1>13, <1>15, <1>16
     DEF Next, Environment, Worker, Process
<1> QED
  BY <1>17, BalanceSteps DEF Kept

\* The two statements of a bill move the same amount: DebitApp from nowhere to what
\* is owed, DebitUser from there to what the user was debited.
LEMMA FallbackStep == TypeOK /\ TypeOK' /\ FallbackLedger /\ [Next]_vars => FallbackLedger'
<1> SUFFICES ASSUME TypeOK, TypeOK', FallbackLedger, [Next]_vars PROVE FallbackLedger'
  OBVIOUS
<1> DEFINE booked  == SumFunctionOnSet(fallbackUsed, Apps)
           booked2 == SumFunctionOnSet(fallbackUsed', Apps)
           owed    == SumFunctionOnSet(Owed, Attempts)
           owed2   == SumFunctionOnSet(Owed', Attempts)
           before  == userUsed
           after   == userUsed'
<1>1. /\ IsFiniteSet(Attempts) /\ IsFiniteSet(Apps)
      /\ \A a \in Apps : fallbackUsed[a] \in Int /\ fallbackUsed'[a] \in Int
      /\ \A p \in Attempts : Owed[p] \in Int /\ Owed'[p] \in Int
  <2>1. \A p \in Attempts : writtenOff'[p] \in Int /\ Unbooked(p)' \in Nat
    <3>1. ASSUME NEW p \in Attempts PROVE Unbooked(p)' \in Nat
      <4>1. Bill(p)' \in [credit : Nat, fallback : Nat]
        BY BillParts DEF TypeOK, AttemptTypes, Bill, Snaps
      <4> QED
        BY <4>1 DEF Unbooked
    <3> QED
      BY <3>1 DEF TypeOK, HistoryTypes
  <2> QED
    BY <2>1, OwedTyped DEF Owed, TypeOK, BalanceTypes
<1>2. booked \in Int /\ owed \in Int /\ before \in Int /\ after \in Int
      /\ booked2 \in Int /\ owed2 \in Int
  BY <1>1, SumInt DEF TypeOK, BalanceTypes
<1>3. booked = before + owed
  BY DEF FallbackLedger
<1> HIDE DEF booked, booked2, owed, owed2, before, after
<1>4. ASSUME NEW p \in Attempts, DebitApp(p) PROVE booked2 = after + owed2
  <2> DEFINE a == AppOfAttempt(p)
             amount == Bill(p).fallback
  <2>1. a \in Apps /\ amount \in Nat /\ pc[p] = "debitApp"
    BY <1>4, AttemptData DEF DebitApp
  <2>2. fallbackUsed' = [fallbackUsed EXCEPT ![a] = @ + amount]
        /\ UNCHANGED <<userUsed, writtenOff>>
    BY <1>4 DEF DebitApp
  <2>3. Owed'[p] = Owed[p] + amount
    <3>1. Unbooked(p) = 0
      BY <2>1 DEF Unbooked
    <3>2. Unbooked(p)' = amount
      <4>1. CASE Goto(p, "debitUser") /\ UNCHANGED snap
        BY <4>1 DEF Goto, Unbooked, Bill, TypeOK, PcTypes
      <4>2. CASE amount = 0 /\ Complete(p)
        BY <4>2 DEF Complete, Finish, GiveUp, Goto, Unbooked, TypeOK, PcTypes
      <4> QED
        BY <1>4, <4>1, <4>2 DEF DebitApp
    <3>3. Owed[p] = writtenOff[p] + Unbooked(p) /\ Owed'[p] = writtenOff'[p] + Unbooked(p)'
          /\ writtenOff[p] \in Int
      BY OwedTyped DEF Owed
    <3> HIDE DEF amount
    <3> QED
      BY <2>1, <2>2, <3>1, <3>2, <3>3
  <2>4. \A q \in Attempts : q # p => Owed'[q] = Owed[q]
    <3>1. \A q \in Attempts : q # p => pc'[q] = pc[q] /\ snap'[q] = snap[q]
      BY <1>4 DEF DebitApp, Complete, Finish, GiveUp, Goto, TypeOK, PcTypes, AttemptTypes
    <3> QED
      BY <2>2, <3>1, OwedKept
  <2> HIDE DEF a, amount
  <2>5. owed2 = owed + amount
    <3>1. owed2 = owed + Owed'[p] - Owed[p]
      BY <1>1, <2>4, SumChange DEF owed, owed2
    <3> QED
      BY <1>1, <1>2, <2>1, <2>3, <3>1
  <2>6. booked2 = booked + amount
    <3>1. \A b \in Apps : b # a => fallbackUsed'[b] = fallbackUsed[b]
      BY <2>1, <2>2 DEF TypeOK, BalanceTypes
    <3>2. fallbackUsed'[a] = fallbackUsed[a] + amount
      BY <2>1, <2>2 DEF TypeOK, BalanceTypes
    <3>3. booked2 = booked + fallbackUsed'[a] - fallbackUsed[a]
      BY <1>1, <2>1, <3>1, SumChange DEF booked, booked2
    <3> QED
      BY <1>1, <1>2, <2>1, <3>2, <3>3
  <2>7. after = before
    BY <2>2 DEF after, before
  <2> QED
    BY <1>2, <1>3, <2>1, <2>5, <2>6, <2>7
<1>5. ASSUME NEW p \in Attempts, DebitUser(p) PROVE booked2 = after + owed2
  <2> DEFINE amount == Bill(p).fallback
  <2>1. amount \in Nat /\ pc[p] = "debitUser"
    BY <1>5, AttemptData DEF DebitUser
  <2>2. after = before + amount /\ UNCHANGED <<fallbackUsed, writtenOff>>
    BY <1>5 DEF DebitUser, history, after, before
  <2>3. Owed[p] = Owed'[p] + amount
    <3>1. Unbooked(p) = amount
      BY <2>1 DEF Unbooked
    <3>2. Unbooked(p)' = 0
      BY <1>5 DEF DebitUser, Complete, Finish, GiveUp, Goto, Unbooked, TypeOK, PcTypes
    <3>3. Owed[p] = writtenOff[p] + Unbooked(p) /\ Owed'[p] = writtenOff'[p] + Unbooked(p)'
          /\ writtenOff[p] \in Int
      BY OwedTyped DEF Owed
    <3> HIDE DEF amount
    <3> QED
      BY <2>1, <2>2, <3>1, <3>2, <3>3
  <2>4. \A q \in Attempts : q # p => Owed'[q] = Owed[q]
    <3>1. \A q \in Attempts : q # p => pc'[q] = pc[q] /\ snap'[q] = snap[q]
      BY <1>5 DEF DebitUser, Complete, Finish, GiveUp, Goto, TypeOK, PcTypes, AttemptTypes
    <3> QED
      BY <2>2, <3>1, OwedKept
  <2> HIDE DEF amount
  <2>5. owed = owed2 + amount
    <3>1. owed2 = owed + Owed'[p] - Owed[p]
      BY <1>1, <2>4, SumChange DEF owed, owed2
    <3> QED
      BY <1>1, <1>2, <2>1, <2>3, <3>1
  <2>6. booked2 = booked
    BY <2>2 DEF booked, booked2
  <2> QED
    BY <1>2, <1>3, <2>1, <2>2, <2>5, <2>6
<1>6. ASSUME UNCHANGED balanceVars, \A p \in Attempts : Owed'[p] = Owed[p]
      PROVE  booked2 = after + owed2
  <2>1. owed2 = owed
    BY <1>1, <1>6, SumSame DEF owed, owed2
  <2>2. booked2 = booked /\ after = before
    BY <1>6 DEF balanceVars, booked, booked2, after, before
  <2> QED
    BY <1>3, <2>1, <2>2
<1>7. booked2 = after + owed2
  BY <1>4, <1>5, <1>6, OwedSteps
<1> QED
  BY <1>7 DEF FallbackLedger, booked2, after, owed2

\* Whatever is interrupted, what the apps report as paid from fallback credits is what
\* the user was debited and what attempts still owe or were cut short with
\* (the two statements of update_credit_balance).
THEOREM FallbackIsBooked == Spec => []FallbackLedger
<1>1. Init => FallbackLedger
  <2> SUFFICES ASSUME Init PROVE FallbackLedger
    OBVIOUS
  <2>1. \A a \in Apps : fallbackUsed[a] = 0
    BY DEF Init
  <2>2. \A p \in Attempts : Owed[p] = 0
    BY DEF Init, Owed, Unbooked
  <2>3. SumFunctionOnSet(fallbackUsed, Apps) = 0 /\ SumFunctionOnSet(Owed, Attempts) = 0
    BY <2>1, <2>2, OwedTyped, SumZero
  <2> QED
    BY <2>3 DEF Init, FallbackLedger
<1> QED
  BY <1>1, FallbackStep, TypeCorrect, PTL DEF Spec

-----------------------------------------------------------------------------
(* The reservation list                                                    *)

\* The submission has an entry in the list.
Reserved(list, s) == \E i \in DOMAIN list : list[i].sub = s

IsFirst(list, s, i) ==
  i \in DOMAIN list /\ list[i].sub = s /\ \A j \in 1 .. i - 1 : list[j].sub # s

\* FirstEntry finds the first entry of a submission that has one.
LEMMA FirstEntryIs ==
  ASSUME NEW list \in Seq(Entries), NEW s, Reserved(list, s)
  PROVE  /\ IsFirst(list, s, FirstEntry(list, s))
         /\ FirstEntry(list, s) \in 1 .. Len(list)
         /\ \A i : IsFirst(list, s, i) => i = FirstEntry(list, s)
<1> DEFINE at == {i \in 1 .. Len(list) : list[i].sub = s}
<1>1. at \in SUBSET Nat /\ at # {} /\ DOMAIN list = 1 .. Len(list) /\ Len(list) \in Nat
  BY DEF Reserved
<1>2. PICK m \in at : \A n \in at : m <= n
  <2> HIDE DEF at
  <2> QED
    BY <1>1, LeastNatural
<1>3. IsFirst(list, s, m)
  BY <1>1, <1>2 DEF IsFirst
<1>4. FirstEntry(list, s) = CHOOSE i \in DOMAIN list : IsFirst(list, s, i)
  BY DEF FirstEntry, IsFirst
<1>5. IsFirst(list, s, FirstEntry(list, s))
  BY <1>3, <1>4 DEF IsFirst
<1>6. ASSUME NEW i, NEW j, IsFirst(list, s, i), IsFirst(list, s, j) PROVE i = j
  BY <1>1, <1>6 DEF IsFirst
<1> QED
  BY <1>1, <1>5, <1>6 DEF IsFirst

\* An RPUSH leaves the first entry of a submission and what it costs up to there.
LEMMA AppendKeepsFirst ==
  ASSUME NEW list \in Seq(Entries), NEW entry \in Entries, NEW s, Reserved(list, s)
  PROVE  LET longer == Append(list, entry)
         IN  /\ Reserved(longer, s)
             /\ FirstEntry(longer, s) = FirstEntry(list, s)
             /\ CumulativeCost(longer, FirstEntry(longer, s))
                  = CumulativeCost(list, FirstEntry(list, s))
<1> DEFINE longer == Append(list, entry)
           i == FirstEntry(list, s)
<1>1. /\ longer \in Seq(Entries) /\ Len(list) \in Nat
      /\ DOMAIN longer = 1 .. Len(list) + 1 /\ DOMAIN list = 1 .. Len(list)
      /\ \A j \in 1 .. Len(list) : longer[j] = list[j]
  OBVIOUS
<1>2. IsFirst(list, s, i) /\ i \in 1 .. Len(list)
  BY FirstEntryIs
<1> HIDE DEF longer, i
<1>3. Reserved(longer, s)
  BY <1>1, <1>2 DEF Reserved, IsFirst
<1>4. IsFirst(longer, s, i)
  BY <1>1, <1>2 DEF IsFirst
<1>5. FirstEntry(longer, s) = i
  BY <1>1, <1>3, <1>4, FirstEntryIs
<1>6. \A j \in 1 .. i : longer[j] = list[j]
  BY <1>1, <1>2
<1>7. [j \in 1 .. i |-> longer[j].cost] = [j \in 1 .. i |-> list[j].cost]
  BY <1>6
<1>8. CumulativeCost(longer, i) = CumulativeCost(list, i)
  BY <1>7 DEF CumulativeCost
<1> QED
  BY <1>3, <1>5, <1>8 DEF longer, i

\* The first costs of some submissions of a list are all in what one of them, the last
\* to reserve, has accumulated.
LEMMA LastReservedPaysAll ==
  ASSUME NEW list \in Seq(Entries), NEW S, IsFiniteSet(S), S # {},
         \A s \in S : Reserved(list, s)
  PROVE  \E s \in S :
           /\ SumFunctionOnSet([t \in S |-> list[FirstEntry(list, t)].cost], S)
                <= CumulativeCost(list, FirstEntry(list, s))
           /\ SumFunctionOnSet([t \in S |-> list[FirstEntry(list, t)].cost], S) \in Int
           /\ CumulativeCost(list, FirstEntry(list, s)) \in Int
<1> DEFINE at == [t \in S |-> FirstEntry(list, t)]
           cost == [t \in S |-> list[FirstEntry(list, t)].cost]
           back == {n \in Nat : \E t \in S : n = Len(list) - at[t]}
<1>1. Len(list) \in Nat /\ \A j \in 1 .. Len(list) : list[j].cost \in Nat
  <2>1. Len(list) \in Nat /\ \A j \in 1 .. Len(list) : list[j] \in Entries
    OBVIOUS
  <2> QED
    BY <2>1 DEF Entries
<1>2. \A t \in S : at[t] \in 1 .. Len(list) /\ list[at[t]].sub = t /\ cost[t] = list[at[t]].cost
  BY FirstEntryIs DEF IsFirst
<1>3. PICK m \in back : \A n \in back : m <= n
  <2>1. back \in SUBSET Nat /\ back # {}
    <3>1. PICK t \in S : TRUE
      OBVIOUS
    <3>2. Len(list) - at[t] \in Nat
      BY <1>1, <1>2
    <3> HIDE DEF at
    <3> QED
      BY <3>2
  <2> HIDE DEF back
  <2> QED
    BY <2>1, LeastNatural
<1>4. PICK s \in S : m = Len(list) - at[s]
  BY <1>3
<1> DEFINE T == 1 .. at[s]
           g == [j \in 1 .. at[s] |-> list[j].cost]
<1>5. \A t \in S : at[t] \in T
  <2> SUFFICES ASSUME NEW t \in S PROVE at[t] \in T
    OBVIOUS
  <2>1. Len(list) - at[t] \in Nat /\ at[t] \in 1 .. Len(list) /\ at[s] \in 1 .. Len(list)
    BY <1>1, <1>2
  <2>2. Len(list) - at[s] <= Len(list) - at[t]
    <3> HIDE DEF at
    <3> QED
      BY <1>3, <1>4, <2>1
  <2> HIDE DEF at
  <2> QED
    BY <1>1, <2>1, <2>2
<1>6. IsFiniteSet(T) /\ \A j \in T : g[j] \in Nat /\ g[j] = list[j].cost
  <2>1. at[s] \in 1 .. Len(list)
    BY <1>2
  <2>2. at[s] \in Int
    BY <2>1
  <2> HIDE DEF at
  <2>3. IsFiniteSet(1 .. at[s])
    BY <2>2, FS_Interval
  <2> QED
    BY <1>1, <2>1, <2>3
<1>7. at \in [S -> T]
  BY <1>5
<1>8. /\ \A t \in S : cost[t] = g[at[t]]
      /\ \A t \in S : \A u \in S : at[t] = at[u] => t = u
  <2> HIDE DEF at, cost, g, T
  <2> QED
    BY <1>2, <1>5, <1>6
<1>9. CumulativeCost(list, FirstEntry(list, s)) = SumFunctionOnSet(g, T)
  BY DEF CumulativeCost
<1> HIDE DEF at, cost, g, T
<1>10. SumFunctionOnSet(cost, S) <= SumFunctionOnSet(g, T)
  BY <1>6, <1>7, <1>8, SumOfPointed
<1>11. \A t \in S : cost[t] \in Int
  BY <1>5, <1>6, <1>8
<1>12. SumFunctionOnSet(cost, S) \in Int /\ SumFunctionOnSet(g, T) \in Int
  BY <1>6, <1>11, SumInt
<1> QED
  BY <1>9, <1>10, <1>12 DEF cost

\* What passed the check on the list before it posted; the entry and the
\* selection the check rested on are still there.
ReserveInv ==
  /\ admitted \subseteq (DOMAIN reserved) \X Subs
  /\ \A k \in DOMAIN reserved, s \in Subs : <<k, s>> \in admitted =>
       /\ Reserved(reserved[k], s)
       /\ BalanceCovers(selection[AppOf[s]],
                        CumulativeCost(reserved[k], FirstEntry(reserved[k], s)), k[1], k[2])
  /\ \A p \in Attempts :
       /\ pc[p] \in {"push", "scan"} => snap[p].sel = selection[AppOfAttempt(p)]
       /\ pc[p] = "scan" => Key(p) \in DOMAIN reserved /\ Reserved(reserved[Key(p)], SubOf(p))

\* The selection of an app is not changed here, and reservations are only added.
LEMMA ListsGrow ==
  ASSUME TypeOK, [Next]_vars
  PROVE  /\ selection' = selection
         /\ DOMAIN reserved \subseteq DOMAIN reserved'
         /\ \A k \in DOMAIN reserved :
              \/ reserved'[k] = reserved[k]
              \/ \E entry \in Entries : reserved'[k] = Append(reserved[k], entry)
<1>1. selection' = selection
  BY BalanceSteps DEF DebitApp, DebitUser, balanceVars
<1>2. ASSUME NEW p \in Attempts, PushReservation(p)
      PROVE  /\ DOMAIN reserved \subseteq DOMAIN reserved'
             /\ \A k \in DOMAIN reserved :
                  \/ reserved'[k] = reserved[k]
                  \/ \E entry \in Entries : reserved'[k] = Append(reserved[k], entry)
  <2> DEFINE entry == [sub |-> SubOf(p), cost |-> snap[p].cost]
  <2>1. entry \in Entries
    BY <1>2, AttemptData DEF PushReservation, Entries
  <2>2. reserved' = [k \in DOMAIN reserved \cup {Key(p)} |->
                       IF k = Key(p) THEN Append(List(k), entry) ELSE reserved[k]]
    BY <1>2 DEF PushReservation
  <2> HIDE DEF entry
  <2> QED
    BY <2>1, <2>2 DEF List
<1> QED
  BY <1>1, <1>2, ReservationSteps

\* What admits a submission is the check of ScanReservations.
LEMMA AdmittedSteps ==
  [Next]_vars => (\E p \in Attempts : ScanReservations(p)) \/ UNCHANGED admitted
<1>1. \A s \in Subs : Submit(s) \/ InsertRow(s) \/ InsertFails(s) \/ Overdue(s)
                      \/ Increment(s) \/ IncrementFails(s) => UNCHANGED admitted
  BY DEF Submit, InsertRow, InsertFails, Overdue, Increment, IncrementFails, history
<1>2. \A w \in Workers : Receive(w) \/ Lagged(w) \/ CheckResolved(w) \/ SkipMessage(w)
                         \/ MarkError(w) => UNCHANGED admitted
  BY DEF Receive, Lagged, CheckResolved, SkipMessage, MarkError, history
<1>3. \A p \in Attempts : Process(p) \/ Abort(p)
                            => ScanReservations(p) \/ UNCHANGED admitted
  BY DEF Process, ReadAccount, PushReservation, Post, RecordExtrinsic, DebitApp,
         DebitUser, Abort, history
<1>4. StartRound \/ SubmissionRestarts \/ MonitorRestarts \/ ResetRetry
        => UNCHANGED admitted
  BY DEF StartRound, SubmissionRestarts, MonitorRestarts, DropAttempts, ResetRetry, history
<1>5. UNCHANGED vars => UNCHANGED admitted
  BY DEF vars, history
<1> QED
  BY <1>1, <1>2, <1>3, <1>4, <1>5 DEF Next, Environment, Worker

\* What an attempt has read it keeps until it ends.
LEMMA SnapSteps ==
  ASSUME TypeOK, [Next]_vars, NEW p \in Attempts
  PROVE  snap'[p] = snap[p] \/ ReadAccount(p) \/ pc'[p] \in {"idle", "failed"}
<1> DEFINE Kept == snap'[p] = snap[p] \/ ReadAccount(p) \/ pc'[p] \in {"idle", "failed"}
<1> USE DEF TypeOK, PcTypes, AttemptTypes
<1>1. ASSUME NEW q \in Attempts, Finish(q) \/ GiveUp(q) PROVE Kept
  BY <1>1 DEF Finish, GiveUp, Goto
<1>2. \A s \in Subs : Submit(s) \/ InsertRow(s) \/ InsertFails(s) \/ Overdue(s)
                      \/ Increment(s) => UNCHANGED snap
  BY DEF Submit, InsertRow, InsertFails, Overdue, Increment, attemptVars
<1>3. \A s \in Subs : IncrementFails(s) => Finish(s)
  BY DEF IncrementFails
<1>4. \A w \in Workers : Receive(w) \/ Lagged(w) \/ CheckResolved(w) => UNCHANGED snap
  BY DEF Receive, Lagged, CheckResolved, attemptVars
<1>5. \A w \in Workers : SkipMessage(w) \/ MarkError(w) => Finish(w)
  BY DEF SkipMessage, MarkError
<1>6. ASSUME NEW q \in Attempts, ReadAccount(q) PROVE Kept
  BY <1>6 DEF ReadAccount
<1>7. \A q \in Attempts : PushReservation(q) \/ ScanReservations(q) \/ Post(q)
                          \/ RecordExtrinsic(q) => UNCHANGED snap
  BY DEF PushReservation, ScanReservations, Post, RecordExtrinsic
<1>8. \A q \in Attempts : DebitApp(q) \/ DebitUser(q) \/ Abort(q)
                          => Finish(q) \/ GiveUp(q) \/ UNCHANGED snap
  BY DEF DebitApp, DebitUser, Abort, Complete
<1>9. StartRound \/ ResetRetry \/ UNCHANGED vars => UNCHANGED snap
  BY DEF StartRound, ResetRetry, vars, attemptVars
<1>10. ASSUME SubmissionRestarts \/ MonitorRestarts PROVE Kept
  BY <1>10 DEF SubmissionRestarts, MonitorRestarts, DropAttempts
<1>11. Workers \subseteq Attempts /\ Subs \subseteq Attempts
  BY DEF Attempts
<1>12. UNCHANGED snap => Kept
  OBVIOUS
<1> HIDE DEF Kept
<1>13. Kept
  BY <1>1, <1>2, <1>3, <1>4, <1>5, <1>6, <1>7, <1>8, <1>9, <1>10, <1>11, <1>12
     DEF Next, Environment, Worker, Process
<1> QED
  BY <1>13 DEF Kept

\* ReserveInv is inductive: lists only grow behind what is there, and a worker or the
\* monitor adds its entry before it reads the list.
LEMMA ReserveStep == TypeOK /\ ReserveInv /\ [Next]_vars => ReserveInv'
<1> SUFFICES ASSUME TypeOK, ReserveInv, [Next]_vars PROVE ReserveInv'
  OBVIOUS
<1>1. ASSUME NEW k \in DOMAIN reserved, NEW s, Reserved(reserved[k], s)
      PROVE  /\ k \in DOMAIN reserved' /\ Reserved(reserved'[k], s)
             /\ CumulativeCost(reserved'[k], FirstEntry(reserved'[k], s))
                  = CumulativeCost(reserved[k], FirstEntry(reserved[k], s))
  <2>1. reserved[k] \in Seq(Entries)
    BY DEF TypeOK, ReservationTypes
  <2> QED
    BY <1>1, <2>1, ListsGrow, AppendKeepsFirst
<1>2. ASSUME NEW p \in Attempts, pc'[p] \in {"push", "scan"}
      PROVE  snap'[p].sel = selection'[AppOfAttempt(p)']
  <2>1. Moved(p) /\ pc[p] # "idle" /\ SubOf(p)' = SubOf(p)
    BY <1>2, Moves DEF Moved, ReadAccount, PushReservation
  <2>2. AppOfAttempt(p)' = AppOfAttempt(p) /\ selection' = selection
    BY <2>1, ListsGrow DEF AppOfAttempt
  <2>3. CASE ReadAccount(p)
    <3>1. snap'[p].sel = selection[AppOfAttempt(p)]
      BY <2>3 DEF ReadAccount, TypeOK, AttemptTypes
    <3> QED
      BY <2>2, <3>1
  <2>4. CASE ~ReadAccount(p)
    <3>1. pc[p] \in {"push", "scan"} /\ snap'[p] = snap[p]
      BY <1>2, <2>1, <2>4, SnapSteps DEF Moved, PushReservation
    <3> QED
      BY <2>2, <3>1 DEF ReserveInv
  <2> QED
    BY <2>3, <2>4
<1>3. ASSUME NEW p \in Attempts, pc'[p] = "scan"
      PROVE  Key(p)' \in DOMAIN reserved' /\ Reserved(reserved'[Key(p)'], SubOf(p)')
  <2>1. pc[p] # "idle" /\ SubOf(p)' = SubOf(p) /\ (pc[p] = "scan" \/ PushReservation(p))
    BY <1>3, Moves DEF Moved, PushReservation
  <2>2. snap'[p] = snap[p]
    BY <1>3, <2>1, SnapSteps DEF PushReservation, ReadAccount
  <2>3. Key(p)' = Key(p)
    BY <2>2 DEF Key
  <2>4. CASE pc[p] = "scan"
    <3>1. Key(p) \in DOMAIN reserved /\ Reserved(reserved[Key(p)], SubOf(p))
      BY <2>4 DEF ReserveInv
    <3>2. Key(p) \in DOMAIN reserved' /\ Reserved(reserved'[Key(p)], SubOf(p))
      BY <1>1, <3>1
    <3> QED
      BY <2>1, <2>3, <3>2
  <2>5. CASE PushReservation(p)
    <3> DEFINE entry == [sub |-> SubOf(p), cost |-> snap[p].cost]
               list == List(Key(p))
    <3>1. reserved'[Key(p)] = Append(list, entry) /\ Key(p) \in DOMAIN reserved'
      BY <2>5 DEF PushReservation
    <3>2. entry \in Entries /\ list \in Seq(Entries) /\ entry.sub = SubOf(p)
      <4>1. entry \in Entries /\ entry.sub = SubOf(p)
        BY <2>5, AttemptData DEF PushReservation, Entries
      <4>2. list \in Seq(Entries)
        BY DEF List, TypeOK, ReservationTypes
      <4> QED
        BY <4>1, <4>2
    <3> HIDE DEF entry, list
    <3>3. Len(list) + 1 \in DOMAIN Append(list, entry)
          /\ Append(list, entry)[Len(list) + 1] = entry
      BY <3>2
    <3>4. Reserved(Append(list, entry), SubOf(p))
      BY <3>2, <3>3 DEF Reserved
    <3> QED
      BY <2>1, <2>3, <3>1, <3>4
  <2> QED
    BY <2>1, <2>4, <2>5
<1>4. ASSUME NEW k, NEW s, <<k, s>> \in admitted'
      PROVE  /\ k \in DOMAIN reserved' /\ s \in Subs /\ Reserved(reserved'[k], s)
             /\ BalanceCovers(selection[AppOf[s]],
                  CumulativeCost(reserved'[k], FirstEntry(reserved'[k], s)), k[1], k[2])
  <2>1. CASE <<k, s>> \in admitted
    <3>0. k \in DOMAIN reserved /\ s \in Subs
      BY <2>1 DEF ReserveInv
    <3>1. Reserved(reserved[k], s)
          /\ BalanceCovers(selection[AppOf[s]],
               CumulativeCost(reserved[k], FirstEntry(reserved[k], s)), k[1], k[2])
      BY <2>1, <3>0 DEF ReserveInv
    <3> QED
      BY <1>1, <3>0, <3>1
  <2>2. CASE <<k, s>> \notin admitted
    <3>1. PICK p \in Attempts : ScanReservations(p)
      BY <1>4, <2>2, AdmittedSteps
    <3>2. k = Key(p) /\ s = SubOf(p) /\ pc[p] = "scan" /\ ReservationCovers(p)
          /\ reserved' = reserved
      BY <1>4, <2>2, <3>1 DEF ScanReservations
    <3>3. /\ k \in DOMAIN reserved /\ Reserved(reserved[k], s)
          /\ snap[p].sel = selection[AppOf[s]]
          /\ List(k) = reserved[k]
      BY <3>2 DEF ReserveInv, AppOfAttempt, List
    <3>4. s \in Subs /\ k[1] = snap[p].app /\ k[2] = snap[p].user
      BY <3>2, AttemptData DEF Key
    <3> QED
      BY <3>2, <3>3, <3>4 DEF ReservationCovers
  <2> QED
    BY <2>1, <2>2
<1>5. admitted' \subseteq (DOMAIN reserved') \X Subs
  <2>1. \A x \in admitted' : \E k, s : x = <<k, s>>
    BY AdmittedSteps DEF ScanReservations, ReserveInv
  <2> QED
    BY <1>4, <2>1
<1>6. selection' = selection
  BY ListsGrow
<1> QED
  BY <1>2, <1>3, <1>4, <1>5, <1>6 DEF ReserveInv

\* What all the submissions admitted under one key reserved first would together still
\* have passed the check.
LEMMA ReserveCovers == TypeOK /\ ReserveInv => ReservationsCovered
<1> SUFFICES ASSUME TypeOK, ReserveInv, NEW k \in DOMAIN reserved,
                    {s \in Subs : <<k, s>> \in admitted} # {}
             PROVE  \E sel \in {selection[AppOf[s]] : s \in {t \in Subs : <<k, t>> \in admitted}} :
                      BalanceCovers(sel,
                        SumFunctionOnSet([s \in {t \in Subs : <<k, t>> \in admitted} |->
                                            FirstCost(k, s)],
                                         {t \in Subs : <<k, t>> \in admitted}), k[1], k[2])
  BY DEF ReservationsCovered
<1> DEFINE S == {t \in Subs : <<k, t>> \in admitted}
           list == reserved[k]
<1>1. List(k) = list /\ list \in Seq(Entries) /\ k[1] \in Int /\ k[2] \in Int
  BY DEF List, TypeOK, ReservationTypes
<1>2. IsFiniteSet(S) /\ S # {} /\ \A s \in S : Reserved(list, s)
  BY SubsAssumption, FS_Subset DEF ReserveInv
<1>3. \A s \in S : BalanceCovers(selection[AppOf[s]],
                                 CumulativeCost(list, FirstEntry(list, s)), k[1], k[2])
  BY DEF ReserveInv
<1> HIDE DEF S, list
<1> DEFINE sum == SumFunctionOnSet([t \in S |-> list[FirstEntry(list, t)].cost], S)
<1>4. PICK s \in S : /\ sum <= CumulativeCost(list, FirstEntry(list, s))
                     /\ sum \in Int
                     /\ CumulativeCost(list, FirstEntry(list, s)) \in Int
  BY <1>1, <1>2, LastReservedPaysAll
<1>5. SumFunctionOnSet([t \in S |-> FirstCost(k, t)], S) = sum
  BY <1>1 DEF FirstCost
<1> HIDE DEF sum
<1>6. BalanceCovers(selection[AppOf[s]], sum, k[1], k[2])
  BY <1>1, <1>3, <1>4 DEF BalanceCovers
<1> QED
  BY <1>5, <1>6 DEF S

\* Attempts that saw the same balances never together pass validate_balance for more
\* than these balances, at the costs they pushed to the list first
\* (validate_race_condition).
THEOREM ReservationsCover == Spec => []ReservationsCovered
<1>1. Init => ReserveInv
  BY DEF Init, ReserveInv
<1> QED
  BY <1>1, ReserveStep, ReserveCovers, TypeCorrect, PTL DEF Spec
=============================================================================
