--------------------------- MODULE CreditPurchase ---------------------------
(***************************************************************************)
(* Buying credits in the dashboard: the handler of the Buy Now button, the *)
(* wallets and chains that answer it, the chains of timers that take a     *)
(* transaction through its statuses, the dialog and the toast that show    *)
(* it, and the polling that waits for the balance to rise.  The list of    *)
(* transactions, the one shown, the open dialog and the balance belong to  *)
(* providers at the root of the page; the button, with its loading flag    *)
(* and its refs, is unmounted and mounted again whenever the session is    *)
(* refreshed or the tab changes, while its handlers and timers go on.      *)
(*                                                                         *)
(* Time passes in Tick; a timer that is due fires before time goes on.     *)
(***************************************************************************)
EXTENDS Integers

CONSTANTS
  MaxBuys,         \* bound: clicks of Buy Now
  Kind,            \* the flow each of them starts
  MaxMounts,       \* bound: instances of the button
  InblockDelay, FinalityDelay, CompletedDelay, CleanupDelay, ToastDelay,
  FirstPoll, PollEvery, SafetyStop, MaxPolls

Buys   == 1 .. MaxBuys
Mounts == 1 .. MaxMounts
None   == 0
Off    == -1

ASSUME BoundsAssumption ==
  /\ MaxBuys \in Nat /\ MaxMounts \in Nat \ {0}
  /\ Kind \in [Buys -> {"native", "erc20", "avail"}]
\* The delays are in the order of those in the code: 1 s, 2 s, 2 s, 4 s and 2 s.
ASSUME DelaysAssumption ==
  /\ {InblockDelay, FinalityDelay, CompletedDelay, CleanupDelay, ToastDelay,
      FirstPoll, PollEvery, SafetyStop, MaxPolls} \subseteq Nat \ {0}
  /\ InblockDelay < FinalityDelay /\ ToastDelay < CleanupDelay
  /\ FirstPoll < PollEvery /\ PollEvery < SafetyStop

Statuses   == {"broadcast", "inblock", "finality", "completed"}
TimerKinds == {"inblock", "finality", "completed", "cleanup", "toast", "first", "interval", "stop"}
Timers     == TimerKinds \X Buys
Nothing    == [tx |-> None, status |-> "absent"]

VARIABLES
  mount, mounted, loading,  \* the newest BuyButton, whether it is there, its flag
  pc, inst, base,           \* per click: handler, instance, balance at the click
  chain,                    \* what wallet and chain did with the payment
  posted,                   \* the backend took the inclusion details
  list, show, open, toast,  \* the status list, the shown one, the dialog, the toast
  left,                     \* time left of every timer
  initial, latest, interval,\* the refs of each instance
  polls, asked, checks,     \* per polling: pollCount, requests, post-answer checks
  awaiting, balance,        \* isAwaitingCreditUpdate and creditBalance
  credit, credited          \* the backend's balance and the payments in it

handler  == <<pc, inst, base>>
world    == <<chain, credit, credited>>
display  == <<list, show, open, toast>>
refs     == <<initial, latest, interval>>
polling  == <<polls, asked, checks, awaiting>>
instance == <<mount, mounted, loading>>
vars == <<instance, handler, world, posted, display, left, refs, polling, balance>>

Init ==
  /\ mount = 1 /\ mounted = TRUE /\ loading = FALSE
  /\ pc = [p \in Buys |-> "none"]
  /\ inst = [p \in Buys |-> None] /\ base = [p \in Buys |-> 0]
  /\ chain = [p \in Buys |-> "none"] /\ posted = {}
  /\ list = [p \in Buys |-> "absent"]
  /\ show = Nothing /\ open = FALSE /\ toast = Nothing
  /\ left = [t \in Timers |-> Off]
  /\ initial = [m \in Mounts |-> Off] /\ latest = [m \in Mounts |-> 1]
  /\ interval = [m \in Mounts |-> None]
  /\ polls = [p \in Buys |-> 0] /\ asked = [p \in Buys |-> FALSE]
  /\ checks = [p \in Buys |-> FALSE] /\ awaiting = FALSE
  /\ balance = 1 /\ credit = 1 /\ credited = {}

-----------------------------------------------------------------------------
(* The button                                                              *)

\* A session refresh or another tab takes the button away, and brings a new
\* instance with fresh state and refs.  Bound: not before the first click, when a
\* new instance differs in nothing.
Unmount ==
  /\ mounted /\ mount < MaxMounts /\ \E p \in Buys : pc[p] # "none"
  /\ mounted' = FALSE /\ loading' = FALSE
  /\ UNCHANGED <<mount, handler, world, posted, display, left, refs, polling, balance>>

Mount ==
  /\ ~mounted
  /\ mounted' = TRUE /\ mount' = mount + 1
  /\ latest' = [latest EXCEPT ![mount + 1] = balance]
  /\ UNCHANGED <<loading, handler, world, posted, display, left, initial, interval, polling,
                 balance>>

\* isDisabled: nothing but the flag of this instance holds back another click.
CanClick == mounted /\ ~loading

ClickAnyTime(p) ==
  /\ mounted
  /\ pc[p] = "none"
  /\ pc' = [pc EXCEPT ![p] = "order"]
  /\ inst' = [inst EXCEPT ![p] = mount]
  /\ base' = [base EXCEPT ![p] = balance]
  /\ loading' = TRUE
  /\ UNCHANGED <<mount, mounted, world, posted, display, left, refs, polling, balance>>

Click(p) == CanClick /\ ClickAnyTime(p)

Goto(p, next) ==
  /\ pc' = [pc EXCEPT ![p] = next]
  /\ UNCHANGED <<instance, inst, base>>

\* setLoading(false) reaches the instance the handler belongs to.
Return(p) ==
  /\ pc' = [pc EXCEPT ![p] = "done"]
  /\ loading' = IF inst[p] = mount THEN FALSE ELSE loading
  /\ UNCHANGED <<mount, mounted, inst, base>>

idle == <<world, posted, display, left, refs, polling, balance>>

\* On the right chain and with an order, the Avail flow asks the wallet to sign at
\* once, ERC20 deposits are approved first.
CreateOrder(p) ==
  /\ pc[p] = "order"
  /\ Goto(p, IF Kind[p] = "erc20" THEN "approve" ELSE "wallet")
  /\ chain' = IF Kind[p] = "avail" THEN [chain EXCEPT ![p] = "asked"] ELSE chain
  /\ UNCHANGED <<credit, credited, posted, display, left, refs, polling, balance>>

\* Mutant: an answer without data returns and leaves the flag set.
OrderFailsStuck(p) ==
  /\ pc[p] = "order"
  /\ pc' = [pc EXCEPT ![p] = "done"]
  /\ UNCHANGED <<instance, inst, base, idle>>

\* switchChainAsync fails, or postOrder throws or answers without data.
OrderFails(p) == pc[p] = "order" /\ Return(p) /\ UNCHANGED idle

Approve(p) == pc[p] = "approve" /\ Goto(p, "wallet") /\ UNCHANGED idle

\* The user declines, or there is no wallet to ask.
WalletRejects(p) ==
  /\ pc[p] \in {"approve", "wallet"} /\ chain[p] \in {"none", "asked"}
  /\ chain' = [chain EXCEPT ![p] = "rejected"]
  /\ Return(p)
  /\ UNCHANGED <<credit, credited, posted, display, left, refs, polling, balance>>

-----------------------------------------------------------------------------
(* Statuses of a transaction                                               *)

\* setTransactionStatusList maps the entry of this id, if it is still there.
ListStatus(p, s) ==
  /\ list' = IF list[p] = "absent" THEN list ELSE [list EXCEPT ![p] = s]
  /\ toast' = IF toast.tx = p /\ list[p] # "absent" THEN [toast EXCEPT !.status = s] ELSE toast
  /\ open' = open

Shows(p, s) == show' = [tx |-> p, status |-> s]

\* Mutant: the status is written into whatever is on show, or into nothing.
ShowsUnchecked(p, s) == show' = [show EXCEPT !.status = s]

ShowsIfShown(p, s) == show' = IF show.tx = p THEN [show EXCEPT !.status = s] ELSE show

\* The Avail callbacks show their transaction whatever is shown, the timers of
\* the EVM flows only if it is the one on show.
Progress(p, s) ==
  /\ ListStatus(p, s)
  /\ IF Kind[p] = "avail" THEN Shows(p, s) ELSE ShowsIfShown(p, s)

Appear(p) ==
  /\ list' = [list EXCEPT ![p] = "broadcast"]
  /\ Shows(p, "broadcast")
  /\ open' = TRUE /\ toast' = toast

-----------------------------------------------------------------------------
(* EVM flows                                                               *)

\* writeContract returns a hash: the handler ends, the rest is timers and the
\* finality service, which is not awaited.
Deposit(p) ==
  /\ pc[p] = "wallet" /\ Kind[p] # "avail"
  /\ chain' = [chain EXCEPT ![p] = "sent"]
  /\ Appear(p)
  /\ left' = [left EXCEPT ![<<"inblock", p>>] = InblockDelay]
  /\ Return(p)
  /\ UNCHANGED <<credit, credited, posted, refs, polling, balance>>

\* The transaction is included, and may revert there.
Include(p) ==
  /\ chain[p] = "sent"
  /\ \E r \in {"mined", "reverted"} : chain' = [chain EXCEPT ![p] = r]
  /\ UNCHANGED <<instance, handler, credit, credited, posted, display, left, refs, polling,
                 balance>>

Included(p) == Kind[p] # "avail" /\ chain[p] \in {"mined", "reverted"} /\ p \notin posted

\* Mutant: onSuccess without its setTimeout of two seconds.
PostInclusionAtOnce(p) ==
  /\ Included(p)
  /\ posted' = posted \cup {p}
  /\ left' = [left EXCEPT ![<<"finality", p>>] = 0]
  /\ UNCHANGED <<instance, handler, world, display, refs, polling, balance>>

\* Mutant: onSuccess is called for every result.
PostInclusionIgnoresResult(p) ==
  /\ Included(p)
  /\ \E taken \in {posted, posted \cup {p}} : posted' = taken
  /\ left' = [left EXCEPT ![<<"finality", p>>] = FinalityDelay]
  /\ UNCHANGED <<instance, handler, world, display, refs, polling, balance>>

\* handleTransactionFinality posts the details whatever the receipt says, and
\* calls onSuccess when the backend has taken them.
PostInclusion(p) ==
  /\ Included(p)
  /\ posted' = posted \cup {p}
  /\ left' = [left EXCEPT ![<<"finality", p>>] = FinalityDelay]
  /\ UNCHANGED <<instance, handler, world, display, refs, polling, balance>>

-----------------------------------------------------------------------------
(* Avail flow: the handler waits for the promise of batchTransferAndRemark *)

\* The promise gives up after a minute without a broadcast; the wallet does not.
WalletTimeout(p) ==
  /\ pc[p] = "wallet" /\ Kind[p] = "avail" /\ list[p] = "absent"
  /\ Return(p)
  /\ UNCHANGED idle

\* The promise settles the first time it is told to.
Settle(p) ==
  \/ pc[p] = "wallet" /\ Return(p)
  \/ pc[p] = "done" /\ UNCHANGED <<instance, handler>>

\* A status the node may not report.  It may also report it twice, for which the
\* callback makes a second entry of the same id; this is left out: both entries
\* and the one on show are mapped by their id from then on, and go together.
Broadcast(p) ==
  /\ chain[p] = "asked"
  /\ chain' = [chain EXCEPT ![p] = "broadcast"]
  /\ Appear(p)
  /\ UNCHANGED <<instance, handler, credit, credited, posted, left, refs, polling, balance>>

\* currentTransaction is set by the broadcast alone.
InBlock(p) ==
  /\ chain[p] \in {"asked", "broadcast"}
  /\ chain' = [chain EXCEPT ![p] = "inblock"]
  /\ IF list[p] = "absent" THEN UNCHANGED display ELSE Progress(p, "inblock")
  /\ UNCHANGED <<instance, handler, credit, credited, posted, left, refs, polling, balance>>

\* A finalized batch that failed is an error of the promise, after the callback.
Finalize(p) ==
  /\ chain[p] = "inblock"
  /\ \E r \in {"mined", "reverted"} : chain' = [chain EXCEPT ![p] = r]
  /\ IF list[p] = "absent"
     THEN UNCHANGED <<display, left>>
     ELSE Progress(p, "finality") /\ left' = [left EXCEPT ![<<"completed", p>>] = CompletedDelay]
  /\ Settle(p)
  /\ UNCHANGED <<credit, credited, posted, refs, polling, balance>>

\* isError: dropped, invalid, usurped or no finality.
Drop(p) ==
  /\ chain[p] \in {"asked", "broadcast", "inblock"}
  /\ chain' = [chain EXCEPT ![p] = "dropped"]
  /\ Settle(p)
  /\ UNCHANGED <<credit, credited, posted, display, left, refs, polling, balance>>

\* The funds monitor finds the payment.
Credit(p) ==
  /\ chain[p] = "mined" /\ p \notin credited
  /\ credited' = credited \cup {p} /\ credit' = credit + 1
  /\ UNCHANGED <<instance, handler, chain, posted, display, left, refs, polling, balance>>

-----------------------------------------------------------------------------
(* Timers                                                                  *)

Due(k, p) == left[<<k, p>>] = 0

FireInblock(p) ==
  /\ Due("inblock", p)
  /\ ListStatus(p, "inblock") /\ ShowsIfShown(p, "inblock")
  /\ left' = [left EXCEPT ![<<"inblock", p>>] = Off]
  /\ UNCHANGED <<instance, handler, world, posted, refs, polling, balance>>

FireFinality(p) ==
  /\ Due("finality", p)
  /\ ListStatus(p, "finality") /\ ShowsIfShown(p, "finality")
  /\ left' = [left EXCEPT ![<<"finality", p>>] = Off, ![<<"completed", p>>] = CompletedDelay]
  /\ UNCHANGED <<instance, handler, world, posted, refs, polling, balance>>

\* clearInterval of the interval an instance remembers.
WithoutInterval(m, timers) ==
  IF interval[m] = None THEN timers ELSE [timers EXCEPT ![<<"interval", interval[m]>>] = Off]

\* Mutant: the interval of the polling before is not cleared.
StartPollingOverOld(p, timers) ==
  LET m == inst[p] IN
  /\ awaiting' = TRUE
  /\ initial' = [initial EXCEPT ![m] = base[p]]
  /\ interval' = [interval EXCEPT ![m] = p]
  /\ polls' = [polls EXCEPT ![p] = 0]
  /\ left' = [timers EXCEPT ![<<"interval", p>>] = PollEvery, ![<<"first", p>>] = FirstPoll,
                            ![<<"stop", p>>] = SafetyStop]

\* startCreditBalancePolling with the balance of the click.  The safety stop of
\* an earlier polling stays armed.
StartPolling(p, timers) ==
  LET m == inst[p] IN
  /\ awaiting' = TRUE
  /\ initial' = [initial EXCEPT ![m] = base[p]]
  /\ interval' = [interval EXCEPT ![m] = p]
  /\ polls' = [polls EXCEPT ![p] = 0]
  /\ left' = [WithoutInterval(m, timers) EXCEPT ![<<"interval", p>>] = PollEvery,
                                                ![<<"first", p>>] = FirstPoll,
                                                ![<<"stop", p>>] = SafetyStop]

FireCompleted(p) ==
  /\ Due("completed", p)
  /\ Progress(p, "completed")
  /\ StartPolling(p, [left EXCEPT ![<<"completed", p>>] = Off,
                                  ![<<"cleanup", p>>] = CleanupDelay,
                                  ![<<"toast", p>>] = IF toast.tx = p THEN ToastDelay ELSE Off])
  /\ UNCHANGED <<instance, handler, world, posted, latest, asked, checks, balance>>

\* Mutant: the shown transaction is left on show.
FireCleanupKeepsShown(p) ==
  /\ Due("cleanup", p)
  /\ list' = [list EXCEPT ![p] = "absent"]
  /\ open' = FALSE
  /\ left' = [left EXCEPT ![<<"cleanup", p>>] = Off]
  /\ UNCHANGED <<show, toast, instance, handler, world, posted, refs, polling, balance>>

\* The cleanup hides whatever is on show, of this transaction or not.
FireCleanup(p) ==
  /\ Due("cleanup", p)
  /\ list' = [list EXCEPT ![p] = "absent"]
  /\ show' = Nothing /\ open' = FALSE /\ toast' = toast
  /\ left' = [left EXCEPT ![<<"cleanup", p>>] = Off]
  /\ UNCHANGED <<instance, handler, world, posted, refs, polling, balance>>

FireToast(p) ==
  /\ Due("toast", p)
  /\ toast' = Nothing
  /\ left' = [left EXCEPT ![<<"toast", p>>] = Off]
  /\ UNCHANGED <<list, show, open, instance, handler, world, posted, refs, polling, balance>>

\* checkBalanceUpdate, by the first check or by the interval.
FirePoll(p) ==
  /\ \E k \in {"first", "interval"} :
       /\ Due(k, p)
       /\ left' = [left EXCEPT ![<<k, p>>] = IF k = "first" THEN Off ELSE PollEvery]
  /\ polls' = [polls EXCEPT ![p] = @ + 1]
  /\ asked' = [asked EXCEPT ![p] = TRUE]
  /\ UNCHANGED <<instance, handler, world, posted, display, refs, checks, awaiting, balance>>

\* What ends a polling: the interval and the initial balance go, the spinner too.
StopPolling(m, timers) ==
  /\ left' = WithoutInterval(m, timers)
  /\ interval' = [interval EXCEPT ![m] = None]
  /\ initial' = [initial EXCEPT ![m] = Off]
  /\ awaiting' = FALSE

FireStop(p) ==
  /\ Due("stop", p)
  /\ StopPolling(inst[p], [left EXCEPT ![<<"stop", p>>] = Off])
  /\ UNCHANGED <<instance, handler, world, posted, display, latest, polls, asked, checks,
                 balance>>

\* Any time that passes takes every timer one unit on.
Tick ==
  /\ \A t \in Timers : left[t] # 0
  /\ \E t \in Timers : left[t] # Off
  /\ left' = [t \in Timers |-> IF left[t] = Off THEN Off ELSE left[t] - 1]
  /\ UNCHANGED <<instance, handler, world, posted, display, refs, polling, balance>>

-----------------------------------------------------------------------------
(* The balance                                                             *)

Raised(m, b) == initial[m] # Off /\ b > initial[m]

\* The effect of the mounted instance on a changed balance.
ObserveBalance(b) ==
  IF mounted /\ b # balance
  THEN /\ latest' = [latest EXCEPT ![mount] = b]
       /\ IF Raised(mount, b)
          THEN StopPolling(mount, left)
          ELSE UNCHANGED <<left, interval, initial, awaiting>>
  ELSE UNCHANGED <<left, refs, awaiting>>

\* refetchUser: the balance of the backend, or 0 after a failure, which the
\* expired token in the closure of an old handler makes certain.
Answers == {0, credit}

AnswerPoll(p) ==
  /\ asked[p]
  /\ asked' = [asked EXCEPT ![p] = FALSE]
  /\ checks' = [checks EXCEPT ![p] = TRUE]
  /\ \E b \in Answers : balance' = b /\ ObserveBalance(b)
  /\ UNCHANGED <<instance, handler, world, posted, display, polls>>

\* 150 ms later, by the refs of the instance of that polling.
CheckBalance(p) ==
  LET m == inst[p] IN
  /\ checks[p]
  /\ checks' = [checks EXCEPT ![p] = FALSE]
  /\ IF Raised(m, latest[m]) \/ polls[p] >= MaxPolls
     THEN StopPolling(m, left)
     ELSE UNCHANGED <<left, interval, initial, awaiting>>
  /\ UNCHANGED <<instance, handler, world, posted, display, latest, polls, asked, balance>>

-----------------------------------------------------------------------------
(* Dialog and toast                                                        *)

NoToast == [t \in Timers |-> IF t[1] = "toast" THEN Off ELSE left[t]]

\* The dialog is a part of the page that holds the button.
DialogShown == mounted /\ open /\ show # Nothing

\* minimizeTransaction: the toast takes over, unless the transaction is done.
Minimize ==
  /\ DialogShown
  /\ open' = FALSE
  /\ IF show.status = "completed"
     THEN show' = Nothing /\ UNCHANGED <<toast, left>>
     ELSE toast' = show /\ left' = NoToast /\ UNCHANGED show
  /\ UNCHANGED <<list, instance, handler, world, posted, refs, polling, balance>>

Expand ==
  /\ toast # Nothing
  /\ open' = TRUE /\ show' = toast /\ toast' = Nothing
  /\ left' = NoToast
  /\ UNCHANGED <<list, instance, handler, world, posted, refs, polling, balance>>

\* The close button of any other toast dismisses all of them.
DismissToasts ==
  /\ toast # Nothing
  /\ toast' = Nothing /\ left' = NoToast
  /\ UNCHANGED <<list, show, open, instance, handler, world, posted, refs, polling, balance>>

-----------------------------------------------------------------------------

Fire(p) ==
  \/ FireInblock(p) \/ FireFinality(p) \/ FireCompleted(p) \/ FireCleanup(p)
  \/ FireToast(p) \/ FirePoll(p) \/ FireStop(p)

Buy(p) ==
  \/ Click(p)
  \/ CreateOrder(p) \/ OrderFails(p)
  \/ Approve(p) \/ WalletRejects(p) \/ Deposit(p) \/ Include(p) \/ PostInclusion(p)
  \/ WalletTimeout(p) \/ Broadcast(p) \/ InBlock(p) \/ Finalize(p) \/ Drop(p)
  \/ Credit(p)

Next ==
  \/ \E p \in Buys : Buy(p) \/ Fire(p) \/ AnswerPoll(p) \/ CheckBalance(p)
  \/ Tick \/ Unmount \/ Mount \/ Minimize \/ Expand \/ DismissToasts

Spec == Init /\ [][Next]_vars

-----------------------------------------------------------------------------
(* Properties                                                              *)

Shown == [tx : Buys, status : Statuses] \cup {Nothing}

\* The types of the variables.
TypeOK ==
  /\ mount \in Mounts /\ mounted \in BOOLEAN /\ loading \in BOOLEAN
  /\ pc \in [Buys -> {"none", "order", "approve", "wallet", "done"}]
  /\ inst \in [Buys -> Mounts \cup {None}]
  /\ base \in [Buys -> Nat]
  /\ chain \in [Buys -> {"none", "asked", "rejected", "sent", "broadcast", "inblock", "dropped",
                         "mined", "reverted"}]
  /\ posted \subseteq Buys
  /\ list \in [Buys -> Statuses \cup {"absent"}]
  /\ show \in Shown /\ open \in BOOLEAN /\ toast \in Shown
  /\ left \in [Timers -> Nat \cup {Off}]
  /\ initial \in [Mounts -> Nat \cup {Off}] /\ latest \in [Mounts -> Nat]
  /\ interval \in [Mounts -> Buys \cup {None}]
  /\ polls \in [Buys -> Nat] /\ asked \in [Buys -> BOOLEAN] /\ checks \in [Buys -> BOOLEAN]
  /\ awaiting \in BOOLEAN /\ balance \in Nat /\ credit \in Nat /\ credited \subseteq Buys

InFlight(p) == pc[p] \notin {"none", "done"}

\* A mounted button says "Waiting for confirmation" exactly while a handler of
\* its own is running, so that one instance never runs two and no error path
\* leaves it disabled.
ButtonWaits ==
  /\ mounted => (loading <=> \E p \in Buys : InFlight(p) /\ inst[p] = mount)
  /\ \A p, q \in Buys : InFlight(p) /\ InFlight(q) /\ inst[p] = inst[q] => p = q

\* The dialog and the toast hold copies of an entry of the list: whichever
\* callbacks and timers of whichever purchases have run, a copy on show is of an
\* entry that is there, in the status it has there.
ShownIsListed ==
  /\ show # Nothing => list[show.tx] = show.status
  /\ toast # Nothing => list[toast.tx] = toast.status

\* A purchase is shown as completed only after its chain has settled it and, for
\* EVM, the backend has taken its inclusion details.
CompletedWasReported ==
  \A p \in Buys : list[p] = "completed" =>
    /\ chain[p] \in {"mined", "reverted"}
    /\ Kind[p] # "avail" => p \in posted

Running(k, p) == left[<<k, p>>] # Off

\* Of the pollings of one instance at most one has an interval, the one the
\* instance can clear, and no interval and no spinner is left without a safety
\* stop that ends it, also after the button has gone.
PollingIsBounded ==
  /\ \A p \in Buys : Running("interval", p) =>
       /\ interval[inst[p]] = p
       /\ \E q \in Buys : inst[q] = inst[p] /\ Running("stop", q)
  /\ awaiting => \E p \in Buys : Running("stop", p)

Rank(s) == CASE s = "absent" -> 0 [] s = "broadcast" -> 1 [] s = "inblock" -> 2
             [] s = "finality" -> 3 [] s = "completed" -> 4

\* No late timer or callback takes a listed transaction back to an earlier
\* status, and only a completed one leaves the list.
StatusOnlyAdvances ==
  [][\A p \in Buys : \/ Rank(list'[p]) >= Rank(list[p])
                     \/ list[p] = "completed" /\ list'[p] = "absent"]_vars
=============================================================================
