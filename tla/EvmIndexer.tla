----------------------------- MODULE EvmIndexer -----------------------------
(***************************************************************************)
(* The funds monitor's task for one EVM chain: every header of the         *)
(* subscription makes it ask for the Deposit events of the blocks that     *)
(* have become final, and each event credits the user of its order.  The   *)
(* first block of the next query lives in memory; the block of the event   *)
(* being handled is saved in indexer_block_numbers, where a restart takes  *)
(* it from.  The API creates orders and attaches transaction hashes to     *)
(* them at the same time.                                                  *)
(*                                                                         *)
(* Deposits are numbered in the order of the chain, the order in which     *)
(* eth_getLogs returns them.                                               *)
(***************************************************************************)
EXTENDS Integers

CONSTANTS
  Last,           \* deposits are 1 .. Last
  BlockOf,        \* the block a deposit is in
  OrderOf,        \* the order id its event names
  TxOf,           \* its transaction; one transaction may hold several
  Orders, Txs, NoTx,
  Threshold,      \* finalised_threshold of the network
  FirstHead,      \* the newest block when the model starts
  MaxReorg,       \* how far a reorganisation takes the chain back
  MaxHead,        \* bound: the newest block
  MaxStops,       \* bound: crashes and ended subscriptions
  MaxRewinds,     \* bound: empty answers to a range that ends before it starts
  MaxInclusions   \* bound: add_inclusion_details calls

Deposits == 1 .. Last

ASSUME DepositsAssumption ==
  /\ Last \in Nat
  /\ BlockOf \in [Deposits -> Nat]
  /\ \A d, e \in Deposits : d <= e => BlockOf[d] <= BlockOf[e]
  /\ OrderOf \in [Deposits -> Orders] /\ TxOf \in [Deposits -> Txs]
  /\ NoTx \notin Txs
\* The chain is older than the threshold, so header.number - threshold does not
\* underflow, and what is final stays.
ASSUME ChainAssumption ==
  /\ Threshold \in Nat /\ MaxReorg \in 0 .. Threshold
  /\ FirstHead \in Nat /\ Threshold + MaxReorg <= FirstHead
  /\ MaxHead \in Nat /\ FirstHead <= MaxHead
  /\ MaxStops \in Nat /\ MaxRewinds \in Nat /\ MaxInclusions \in Nat

VARIABLES
  head,           \* the newest block whose header was seen
  running,        \* the task lives
  startBlock,     \* EVM.start_block
  batch,          \* logs of the current query not yet handled
  pc,             \* where the handling of the first of them is
  lastBlock,      \* indexer_block_numbers.block_number
  status, txHash, \* credit_requests, per order
  \* history, read by no guard
  credits, lost, stops, rewinds, inclusions

taskVars  == <<running, startBlock, batch, pc>>
orderVars == <<status, txHash>>
vars == <<head, taskVars, lastBlock, orderVars, credits, lost, stops, rewinds, inclusions>>

Init ==
  /\ head = FirstHead
  /\ running = TRUE /\ startBlock = 0 /\ lastBlock = 0
  /\ batch = {} /\ pc = "idle"
  /\ status = [o \in Orders |-> "absent"]
  /\ txHash = [o \in Orders |-> NoTx]
  /\ credits = [d \in Deposits |-> 0] /\ lost = {}
  /\ stops = 0 /\ rewinds = 0 /\ inclusions = 0

-----------------------------------------------------------------------------
(* monitor_evm_chain and check_deposits                                    *)

\* Headers come with rising numbers, some may be dropped, and those of a branch
\* that replaces another one start again below the newest.
Headers == head - MaxReorg .. MaxHead

\* The stream yields a header while no query is being handled.
SeeHeader(n) ==
  /\ running /\ pc = "idle"
  /\ head' = IF n > head THEN n ELSE head

Logs(from, to) == {d \in Deposits : from <= BlockOf[d] /\ BlockOf[d] <= to}

Answered(n, logs, next) ==
  /\ SeeHeader(n)
  /\ batch' = logs
  /\ pc' = IF logs = {} THEN "idle" ELSE "save"
  /\ startBlock' = next
  /\ rewinds' = IF next < startBlock THEN rewinds + 1 ELSE rewinds
  /\ rewinds' <= MaxRewinds
  /\ UNCHANGED <<running, lastBlock, orderVars, credits, lost, stops, inclusions>>

\* Mutant: the threshold is not subtracted.
FetchUnfinal(n) == Answered(n, Logs(startBlock, n), n + 1)

\* Mutant: the next query starts with the last block of this one.
FetchLastBlockAgain(n) == Answered(n, Logs(startBlock, n - Threshold), n - Threshold)

\* start_block moves on before the logs are handled, and backwards when a node
\* answers a range that ends before it starts with no logs.
FetchLogs(n) == Answered(n, Logs(startBlock, n - Threshold), n - Threshold + 1)

\* Mutant: start_block moves on although there was no answer.
FetchFailsMovesOn(n) ==
  /\ SeeHeader(n)
  /\ startBlock' = n - Threshold + 1
  /\ UNCHANGED <<running, batch, pc, lastBlock, orderVars, credits, lost, stops,
                 rewinds, inclusions>>

\* get_logs returns an error, as other nodes do for such a range: the next
\* header asks again from the same block.
FetchFails(n) ==
  /\ SeeHeader(n)
  /\ UNCHANGED <<taskVars, lastBlock, orderVars, credits, lost, stops, rewinds, inclusions>>

-----------------------------------------------------------------------------
(* One log: what check_deposits and update_database_on_deposit do to it    *)

First(d) == d \in batch /\ \A e \in batch : d <= e

\* Mutant: after the last log there is another one.
NextLogAlways(d) ==
  /\ batch' = batch \ {d}
  /\ pc' = "save"

NextLog(d) ==
  /\ batch' = batch \ {d}
  /\ pc' = IF batch' = {} THEN "idle" ELSE "save"

\* Mutant: the block is taken for finished.
SaveNextBlock(d) ==
  /\ pc = "save" /\ First(d)
  /\ lastBlock' = BlockOf[d] + 1
  /\ pc' = "claim"
  /\ UNCHANGED <<head, running, startBlock, batch, orderVars, credits, lost, stops,
                 rewinds, inclusions>>

\* update_finalised_block_number; when it fails the deposit is handled anyway.
SaveBlock(d) ==
  /\ pc = "save" /\ First(d)
  /\ lastBlock' \in {lastBlock, BlockOf[d]}
  /\ pc' = "claim"
  /\ UNCHANGED <<head, running, startBlock, batch, orderVars, credits, lost, stops,
                 rewinds, inclusions>>

\* The amount is known and the order's row takes the transaction, which no other
\* row of the chain may have (UNIQUE(chain_id, tx_hash)).
Claim(d) ==
  /\ pc = "claim" /\ First(d)
  /\ LET o == OrderOf[d]
     IN  /\ status[o] # "absent"
         /\ \A p \in Orders \ {o} : txHash[p] # TxOf[d]
         /\ status' = [status EXCEPT ![o] = "Processed"]
         /\ txHash' = [txHash EXCEPT ![o] = TxOf[d]]
  /\ pc' = "credit"
  /\ UNCHANGED <<head, running, startBlock, batch, lastBlock, credits, lost, stops,
                 rewinds, inclusions>>

\* update_token_information_on_deposit.
Credit(d) ==
  /\ pc = "credit" /\ First(d)
  /\ credits' = [credits EXCEPT ![d] = @ + 1]
  /\ NextLog(d)
  /\ UNCHANGED <<head, running, startBlock, lastBlock, orderVars, lost, stops,
                 rewinds, inclusions>>

\* The log is not decoded, there is no connection, no price or fee, the order id
\* is no i32, or one of the UPDATEs fails or matches no row: it is logged and
\* the next log's turn.
GiveUpLog(d) ==
  /\ pc # "idle" /\ First(d)
  /\ lost' = lost \cup {d}
  /\ NextLog(d)
  /\ UNCHANGED <<head, running, startBlock, lastBlock, orderVars, credits, stops,
                 rewinds, inclusions>>

-----------------------------------------------------------------------------
(* The task ends with its subscription or its process, and a new process   *)
(* starts it again.                                                        *)

Stops ==
  /\ running /\ stops < MaxStops
  /\ running' = FALSE /\ stops' = stops + 1
  /\ batch' = {} /\ pc' = "idle"
  /\ UNCHANGED <<head, startBlock, lastBlock, orderVars, credits, lost, rewinds, inclusions>>

\* query_finalised_block_number answers 0 when its query fails.
Restarts ==
  /\ ~running
  /\ running' = TRUE
  /\ startBlock' \in {lastBlock, 0}
  /\ UNCHANGED <<head, batch, pc, lastBlock, orderVars, credits, lost, stops,
                 rewinds, inclusions>>

-----------------------------------------------------------------------------
(* turbo-da-core                                                           *)

CreateCreditRequest(o) ==
  /\ status[o] = "absent"
  /\ status' = [status EXCEPT ![o] = "PENDING"]
  /\ UNCHANGED <<head, taskVars, lastBlock, txHash, credits, lost, stops, rewinds, inclusions>>

\* update_inclusion_details, at any time, with any hash no other row has.
AddInclusionDetails(o, tx) ==
  /\ inclusions < MaxInclusions /\ inclusions' = inclusions + 1
  /\ status[o] # "absent"
  /\ \A p \in Orders \ {o} : txHash[p] # tx
  /\ txHash' = [txHash EXCEPT ![o] = tx]
  /\ status' = [status EXCEPT ![o] = "INCLUDED"]
  /\ UNCHANGED <<head, taskVars, lastBlock, credits, lost, stops, rewinds>>

HandleLog(d) == SaveBlock(d) \/ Claim(d) \/ Credit(d) \/ GiveUpLog(d)

Next ==
  \/ \E n \in Headers : FetchLogs(n) \/ FetchFails(n)
  \/ \E d \in Deposits : HandleLog(d)
  \/ Stops \/ Restarts
  \/ \E o \in Orders : CreateCreditRequest(o) \/ \E tx \in Txs : AddInclusionDetails(o, tx)

Spec == Init /\ [][Next]_vars

\* Headers go on coming and their queries do not fail for ever, and a log is
\* handled or given up.  Nothing is assumed of restarts: the code has none.
Fairness ==
  /\ SF_vars(\E n \in head .. MaxHead : FetchLogs(n))
  /\ WF_vars(\E d \in Deposits : HandleLog(d))

FairSpec == Spec /\ Fairness

-----------------------------------------------------------------------------
(* Properties                                                              *)

\* The types of the task, the orders and the saved block; a query is being
\* handled exactly while logs of it are left, and only while the task runs.
TypeOK ==
  /\ head \in Nat /\ FirstHead <= head
  /\ running \in BOOLEAN /\ startBlock \in Int /\ lastBlock \in Nat
  /\ batch \subseteq Deposits
  /\ pc \in {"idle", "save", "claim", "credit"}
  /\ pc = "idle" <=> batch = {}
  /\ running \/ batch = {}
  /\ status \in [Orders -> {"absent", "PENDING", "INCLUDED", "Processed"}]
  /\ txHash \in [Orders -> Txs \cup {NoTx}]
  /\ credits \in [Deposits -> Nat] /\ lost \subseteq Deposits
  /\ stops \in Nat /\ rewinds \in Nat /\ inclusions \in Nat

\* A deposit that was neither credited nor logged as failed can still be found:
\* by the task, in the logs it is working on or in the blocks it has yet to ask
\* for, and by the next one from the block that was saved, however headers,
\* failing queries, reorganisations and restarts are mixed.
Unhandled(d) == credits[d] = 0 /\ d \notin lost
NothingSlips ==
  \A d \in Deposits : Unhandled(d) =>
    /\ lastBlock <= BlockOf[d]
    /\ running => d \in batch \/ startBlock <= BlockOf[d]

\* A deposit is credited once, and again at most once for each time the monitor
\* stopped and each time a node let it ask backwards: the saved block is asked
\* for again, and the order's row keeps nothing from being credited twice.
CreditsBounded == \A d \in Deposits : credits[d] <= 1 + stops + rewinds

\* Only deposits as deep as the threshold are credited.
OnlyFinalCredited == \A d \in Deposits : credits[d] > 0 => BlockOf[d] + Threshold <= head

\* As long as somebody starts the monitor again whenever it has stopped, a
\* deposit that has become final is credited, or its failure is in the log.
EventuallyHandled ==
  []<>running =>
    \A d \in Deposits : BlockOf[d] + Threshold <= head ~> ~Unhandled(d)

\* "The request status will be updated once the transaction is confirmed on the
\* blockchain" (turbo-da-core/README.md).  Not true of an order that was there
\* in time: a failed price lookup or connection is logged, and start_block and
\* the saved block have moved past the deposit.
ConfirmedIsProcessed ==
  \A d \in Deposits :
    BlockOf[d] + Threshold > head /\ status[OrderOf[d]] # "absent"
      ~> status[OrderOf[d]] = "Processed"
=============================================================================
