-------------------------- MODULE EvmIndexerProofs --------------------------
(***************************************************************************)
(* For any chain, threshold, reorganisation depth and number of stops:     *)
(* the indexer loses sight of no deposit, credits none more often than it  *)
(* stopped or was sent back, and credits none that is not final.           *)
(***************************************************************************)
EXTENDS EvmIndexer, TLAPS

\* The log under way is in the earliest block of those left.
LEMMA FirstIsLeast ==
  ASSUME TypeOK, NEW d \in Deposits, First(d)
  PROVE  /\ d \in batch /\ BlockOf[d] \in Nat
         /\ \A e \in batch : BlockOf[d] <= BlockOf[e]
  BY DepositsAssumption DEF TypeOK, First

\* Every step keeps the types.
LEMMA StepTypes ==
  ASSUME TypeOK, Next
  PROVE  TypeOK'
<1> USE DepositsAssumption, ChainAssumption DEF TypeOK
<1>1. ASSUME NEW n \in Headers, FetchLogs(n) PROVE TypeOK'
  <2>1. n \in Int
    BY DEF Headers
  <2>2. Logs(startBlock, n - Threshold) \subseteq Deposits
    BY DEF Logs
  <2> QED
    BY <1>1, <2>1, <2>2 DEF FetchLogs, Answered, SeeHeader, orderVars
<1>2. ASSUME NEW n \in Headers, FetchFails(n) PROVE TypeOK'
  BY <1>2 DEF FetchFails, SeeHeader, Headers, taskVars, orderVars
<1>3. ASSUME NEW d \in Deposits, HandleLog(d) PROVE TypeOK'
  <2>1. CASE SaveBlock(d)
    BY <2>1, FirstIsLeast DEF SaveBlock, First, orderVars
  <2>2. CASE Claim(d)
    BY <2>2 DEF Claim, First
  <2>3. CASE Credit(d)
    BY <2>3 DEF Credit, First, NextLog, orderVars
  <2>4. CASE GiveUpLog(d)
    BY <2>4 DEF GiveUpLog, First, NextLog, orderVars
  <2> QED
    BY <1>3, <2>1, <2>2, <2>3, <2>4 DEF HandleLog
<1>4. CASE Stops
  <2>1. stops' \in Nat
    BY <1>4 DEF Stops
  <2>2. running' \in BOOLEAN /\ batch' = {} /\ pc' = "idle"
    BY <1>4 DEF Stops
  <2> QED
    BY <1>4, <2>1, <2>2 DEF Stops, orderVars
<1>5. CASE Restarts
  BY <1>5 DEF Restarts, orderVars
<1>6. ASSUME NEW o \in Orders, CreateCreditRequest(o) PROVE TypeOK'
  BY <1>6 DEF CreateCreditRequest, taskVars
<1>7. ASSUME NEW o \in Orders, NEW tx \in Txs, AddInclusionDetails(o, tx) PROVE TypeOK'
  BY <1>7 DEF AddInclusionDetails, taskVars
<1> QED
  BY <1>1, <1>2, <1>3, <1>4, <1>5, <1>6, <1>7 DEF Next

\* Every reachable state of the indexer is well typed: a query is being handled
\* exactly while logs of it are left, and only while the task runs.
THEOREM IndexerTypes == Spec => []TypeOK
<1>1. Init => TypeOK
  BY DepositsAssumption, ChainAssumption DEF Init, TypeOK
<1>2. TypeOK /\ [Next]_vars => TypeOK'
  <2>1. TypeOK /\ UNCHANGED vars => TypeOK'
    BY DEF TypeOK, vars, taskVars, orderVars
  <2> QED
    BY <2>1, StepTypes
<1> QED
  BY <1>1, <1>2, PTL DEF Spec

-----------------------------------------------------------------------------
(* The steps of Next, as the three invariants see them: what happens to    *)
(* the query, to the saved block and to the credits.                       *)

Queried(n) ==
  /\ running /\ batch = {}
  /\ head' >= head /\ n <= head'
  /\ batch' = Logs(startBlock, n - Threshold)
  /\ startBlock' = n - Threshold + 1
  /\ rewinds' = IF startBlock' < startBlock THEN rewinds + 1 ELSE rewinds
  /\ UNCHANGED <<running, lastBlock, credits, lost, stops>>

Moved(d) ==
  /\ d \in batch /\ batch' = batch \ {d}
  /\ \/ credits' = [credits EXCEPT ![d] = @ + 1] /\ lost' = lost
     \/ lost' = lost \cup {d} /\ credits' = credits
  /\ UNCHANGED <<head, running, startBlock, lastBlock, stops, rewinds>>

Saved(d) ==
  /\ First(d) /\ lastBlock' \in {lastBlock, BlockOf[d]}
  /\ UNCHANGED <<head, running, startBlock, batch, credits, lost, stops, rewinds>>

Stopped ==
  /\ running /\ running' = FALSE /\ batch' = {} /\ stops' = stops + 1
  /\ UNCHANGED <<head, startBlock, lastBlock, credits, lost, rewinds>>

Restarted ==
  /\ ~running /\ running' = TRUE
  /\ startBlock' \in {lastBlock, 0}
  /\ UNCHANGED <<head, batch, lastBlock, credits, lost, stops, rewinds>>

Elsewhere ==
  /\ head' >= head
  /\ UNCHANGED <<running, startBlock, batch, lastBlock, credits, lost, stops, rewinds>>

\* What a step of the task can be, in terms of its queries and its log.
LEMMA StepKinds ==
  ASSUME TypeOK, [Next]_vars
  PROVE  \/ \E n \in Headers : Queried(n)
         \/ \E d \in Deposits : Moved(d) \/ Saved(d)
         \/ Stopped \/ Restarted \/ Elsewhere
<1>1. head \in Nat /\ (pc = "idle" <=> batch = {})
  BY DEF TypeOK
<1>2. ASSUME NEW n \in Headers, FetchLogs(n) PROVE Queried(n)
  BY <1>1, <1>2, ChainAssumption DEF FetchLogs, Answered, SeeHeader, Queried, Headers
<1>3. ASSUME NEW n \in Headers, FetchFails(n) PROVE Elsewhere
  BY <1>1, <1>3, ChainAssumption DEF FetchFails, SeeHeader, Elsewhere, Headers, taskVars
<1>4. ASSUME NEW d \in Deposits, HandleLog(d) PROVE Moved(d) \/ Saved(d) \/ Elsewhere
  BY <1>1, <1>4
     DEF HandleLog, SaveBlock, Claim, Credit, GiveUpLog, NextLog, First, Moved, Saved,
         Elsewhere
<1>5. Stops => Stopped
  BY DEF Stops, Stopped
<1>6. Restarts => Restarted
  BY DEF Restarts, Restarted
<1>7. ASSUME NEW o \in Orders,
             CreateCreditRequest(o) \/ \E tx \in Txs : AddInclusionDetails(o, tx)
      PROVE  Elsewhere
  BY <1>1, <1>7 DEF CreateCreditRequest, AddInclusionDetails, Elsewhere, taskVars
<1>8. UNCHANGED vars => Elsewhere
  BY <1>1 DEF vars, taskVars, Elsewhere
<1> QED
  BY <1>2, <1>3, <1>4, <1>5, <1>6, <1>7, <1>8 DEF Next

-----------------------------------------------------------------------------
\* What is being handled lies behind start_block.
BatchBehind == \A d \in batch : BlockOf[d] < startBlock

\* BatchBehind is inductive: first logs are taken, then start_block is behind them.
LEMMA BehindStep ==
  ASSUME TypeOK, BatchBehind, [Next]_vars
  PROVE  BatchBehind'
<1>1. ASSUME NEW n \in Headers, Queried(n) PROVE BatchBehind'
  BY <1>1, DepositsAssumption, ChainAssumption DEF Queried, Logs, BatchBehind, Headers, TypeOK
<1>2. ASSUME NEW d \in Deposits, Moved(d) \/ Saved(d) PROVE BatchBehind'
  BY <1>2 DEF Moved, Saved, BatchBehind
<1>3. CASE Stopped \/ Restarted \/ Elsewhere
  BY <1>3 DEF Stopped, Restarted, Elsewhere, BatchBehind, TypeOK
<1> QED
  BY <1>1, <1>2, <1>3, StepKinds

\* No deposit slips between the blocks asked for, the logs under way and the
\* saved block.
THEOREM DepositsAreKept == Spec => []NothingSlips
<1> DEFINE Inv == NothingSlips /\ BatchBehind
<1>1. Init => Inv
  BY DepositsAssumption DEF Init, NothingSlips, BatchBehind
<1>2. TypeOK /\ Inv /\ [Next]_vars => Inv'
  <2> SUFFICES ASSUME TypeOK, Inv, [Next]_vars PROVE Inv'
    OBVIOUS
  <2> USE DepositsAssumption DEF NothingSlips, Unhandled
  <2>1. ASSUME NEW n \in Headers, Queried(n) PROVE NothingSlips'
    BY <2>1, ChainAssumption DEF Queried, Logs, Headers, TypeOK
  <2>2. ASSUME NEW d \in Deposits, Moved(d) PROVE NothingSlips'
    BY <2>2 DEF Moved, TypeOK
  <2>3. ASSUME NEW d \in Deposits, Saved(d) PROVE NothingSlips'
    <3>1. \A e \in batch : BlockOf[d] <= BlockOf[e]
      BY <2>3, FirstIsLeast DEF Saved
    <3>2. BlockOf[d] < startBlock /\ running
      BY <2>3 DEF Saved, First, BatchBehind, TypeOK
    <3> QED
      BY <2>3, <3>1, <3>2 DEF Saved, TypeOK
  <2>4. ASSUME Stopped PROVE NothingSlips'
    BY <2>4 DEF Stopped, TypeOK
  <2>5. ASSUME Restarted PROVE NothingSlips'
    BY <2>5 DEF Restarted, TypeOK
  <2>6. ASSUME Elsewhere PROVE NothingSlips'
    BY <2>6 DEF Elsewhere, TypeOK
  <2> QED
    BY <2>1, <2>2, <2>3, <2>4, <2>5, <2>6, BehindStep, StepKinds
<1> QED
  BY <1>1, <1>2, IndexerTypes, PTL DEF Spec

-----------------------------------------------------------------------------
\* A deposit has its own credit only once it lies behind start_block and has
\* left the batch; every other one was paid for by a stop or a rewind.
Handled(d) == running /\ d \notin batch /\ BlockOf[d] < startBlock
CreditsPaid ==
  \A d \in Deposits : credits[d] <= stops + rewinds + IF Handled(d) THEN 1 ELSE 0

\* A deposit is credited at most once more than the task stopped or was sent
\* backwards.
THEOREM CreditsStayBounded == Spec => []CreditsBounded
<1> DEFINE Inv == CreditsPaid /\ BatchBehind
<1>1. Init => Inv
  BY DepositsAssumption DEF Init, CreditsPaid, BatchBehind, Handled
<1>2. TypeOK /\ Inv /\ [Next]_vars => Inv'
  <2> SUFFICES ASSUME TypeOK, Inv, [Next]_vars PROVE Inv'
    OBVIOUS
  <2> USE DepositsAssumption DEF CreditsPaid, Handled
  <2>1. ASSUME NEW n \in Headers, Queried(n) PROVE CreditsPaid'
    BY <2>1, ChainAssumption DEF Queried, Logs, Headers, TypeOK
  <2>2. ASSUME NEW d \in Deposits, Moved(d) PROVE CreditsPaid'
    BY <2>2 DEF Moved, BatchBehind, TypeOK
  <2>3. ASSUME NEW d \in Deposits, Saved(d) PROVE CreditsPaid'
    BY <2>3 DEF Saved
  <2>4. ASSUME Stopped PROVE CreditsPaid'
    BY <2>4 DEF Stopped, TypeOK
  <2>5. ASSUME Restarted PROVE CreditsPaid'
    BY <2>5 DEF Restarted, TypeOK
  <2>6. ASSUME Elsewhere PROVE CreditsPaid'
    BY <2>6 DEF Elsewhere, TypeOK
  <2> QED
    BY <2>1, <2>2, <2>3, <2>4, <2>5, <2>6, BehindStep, StepKinds
<1>3. TypeOK /\ Inv => CreditsBounded
  BY DEF CreditsPaid, CreditsBounded, TypeOK
<1> QED
  BY <1>1, <1>2, <1>3, IndexerTypes, PTL DEF Spec

-----------------------------------------------------------------------------
Final(d) == BlockOf[d] + Threshold <= head
FinalOnly == \A d \in Deposits : d \in batch \/ credits[d] > 0 => Final(d)

\* Whatever the reorganisations, only deposits that were Threshold deep in the
\* chain are ever worked on or credited.
THEOREM CreditsAreFinal == Spec => []OnlyFinalCredited
<1>1. Init => FinalOnly
  BY DepositsAssumption DEF Init, FinalOnly
<1>2. TypeOK /\ FinalOnly /\ [Next]_vars => FinalOnly'
  <2> SUFFICES ASSUME TypeOK, FinalOnly, [Next]_vars PROVE FinalOnly'
    OBVIOUS
  <2> USE DepositsAssumption, ChainAssumption DEF FinalOnly, Final
  <2>1. head' \in Nat
    <3>1. TypeOK'
      BY StepTypes DEF vars, taskVars, orderVars, TypeOK
    <3> QED
      BY <3>1 DEF TypeOK
  <2>2. ASSUME NEW n \in Headers, Queried(n) PROVE FinalOnly'
    BY <2>1, <2>2 DEF Queried, Logs, Headers, TypeOK
  <2>3. ASSUME NEW d \in Deposits, Moved(d) \/ Saved(d) PROVE FinalOnly'
    BY <2>3 DEF Moved, Saved, TypeOK
  <2>4. CASE Stopped \/ Restarted \/ Elsewhere
    BY <2>1, <2>4 DEF Stopped, Restarted, Elsewhere, TypeOK
  <2> QED
    BY <2>2, <2>3, <2>4, StepKinds
<1>3. FinalOnly => OnlyFinalCredited
  BY DEF FinalOnly, Final, OnlyFinalCredited
<1> QED
  BY <1>1, <1>2, <1>3, IndexerTypes, PTL DEF Spec
=============================================================================
