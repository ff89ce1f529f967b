------------------------ MODULE CreditPurchaseProofs ------------------------
(***************************************************************************)
(* Purchases in the dashboard, for any number of purchases of any kinds,   *)
(* any number of instances of the button, and any delays in the order of   *)
(* those in the code.                                                      *)
(***************************************************************************)
EXTENDS CreditPurchase, TLAPS

\* A purchase that was not begun has left nothing behind.
Unbegun ==
  \A p \in Buys : pc[p] = "none" =>
    /\ inst[p] = None /\ chain[p] = "none" /\ list[p] = "absent"
    /\ ~asked[p] /\ ~checks[p]
    /\ \A k \in TimerKinds : ~Running(k, p)

\* The button that went away was not the last one, and left no flag to the next; a
\* purchase belongs to an instance there has been.
Instances ==
  /\ ~mounted => mount < MaxMounts /\ ~loading
  /\ \A p \in Buys : pc[p] # "none" => inst[p] \in 1 .. mount

\* What an instance remembers as its interval is a polling of its own.
OwnInterval ==
  \A m \in Mounts : interval[m] # None => inst[interval[m]] = m

Settled(p) == chain[p] \in {"mined", "reverted"}
Evm(p)     == Kind[p] # "avail"

\* Where the payment stands and what the list says of it.
Listed(p) ==
  /\ p \in posted => Evm(p) /\ Settled(p)
  /\ list[p] \in {"finality", "completed"} => Settled(p) /\ (Evm(p) => p \in posted)
  /\ Evm(p) =>
       /\ pc[p] # "done" => chain[p] = "none"
       /\ chain[p] \in {"none", "rejected", "sent", "mined", "reverted"}
       /\ IF chain[p] \in {"sent", "mined", "reverted"}
          THEN p \notin posted => list[p] \in {"broadcast", "inblock"}
          ELSE list[p] = "absent"
  /\ ~Evm(p) =>
       /\ pc[p] = "order" => chain[p] = "none"
       /\ chain[p] \in {"none", "asked", "rejected"} => list[p] = "absent"
       /\ chain[p] = "broadcast" => list[p] = "broadcast"
       /\ chain[p] = "inblock" => list[p] \in {"absent", "inblock"}

Left(k, p) == left[<<k, p>>]

\* A timer that will change a status finds the one before it; of two timers of a
\* purchase the earlier status comes first; and what is completed will be removed.
InOrder(p) ==
  /\ Running("inblock", p) =>
       Evm(p) /\ list[p] = "broadcast" /\ Left("inblock", p) <= InblockDelay
  /\ Running("finality", p) =>
       /\ p \in posted /\ list[p] \in {"broadcast", "inblock"}
       /\ Running("inblock", p) => Left("inblock", p) < Left("finality", p)
  /\ Running("completed", p) => list[p] = "finality"
  /\ Running("cleanup", p) <=> list[p] = "completed"

Flow(p) == Listed(p) /\ InOrder(p)

\* The toast of a completed purchase is gone before its entry is.
ToastGoesFirst ==
  \A p \in Buys : toast.tx = p /\ list[p] = "completed" =>
    Running("toast", p) /\ Left("toast", p) < Left("cleanup", p)

PurchaseInv ==
  /\ TypeOK /\ Unbegun /\ Instances /\ ButtonWaits
  /\ OwnInterval /\ PollingIsBounded
  /\ \A p \in Buys : Flow(p)
  /\ ShownIsListed /\ ToastGoesFirst

-----------------------------------------------------------------------------
(* Types                                                                   *)

\* Every delay of the page is a natural number.
LEMMA DelaysAreNat ==
  /\ InblockDelay \in Nat /\ FinalityDelay \in Nat /\ CompletedDelay \in Nat
  /\ CleanupDelay \in Nat /\ ToastDelay \in Nat
  /\ FirstPoll \in Nat /\ PollEvery \in Nat /\ SafetyStop \in Nat
  BY DelaysAssumption

\* A counter of each purchase stays one when raised.
LEMMA OneMore ==
  ASSUME NEW f \in [Buys -> Nat], NEW p \in Buys
  PROVE  [f EXCEPT ![p] = f[p] + 1] \in [Buys -> Nat]
  OBVIOUS

TimersTyped(f) == f \in [Timers -> Nat \cup {Off}]

\* Setting or clearing a timer leaves every timer typed.
LEMMA TimerSet ==
  ASSUME NEW f, TimersTyped(f), NEW t, NEW n \in Nat \cup {Off}
  PROVE  TimersTyped([f EXCEPT ![t] = n])
  BY DEF TimersTyped

\* So does clearing the interval of an instance.
LEMMA WithoutIntervalTyped ==
  ASSUME NEW f, TimersTyped(f), NEW m
  PROVE  TimersTyped(WithoutInterval(m, f))
  BY TimerSet DEF WithoutInterval, Off

DisplayTyped ==
  /\ list \in [Buys -> Statuses \cup {"absent"}]
  /\ show \in Shown /\ open \in BOOLEAN /\ toast \in Shown

\* A status written to the list leaves list and toast typed.
LEMMA ListStatusTyped ==
  ASSUME DisplayTyped, NEW p \in Buys, NEW s \in Statuses, ListStatus(p, s)
  PROVE  list' \in [Buys -> Statuses \cup {"absent"}] /\ toast' \in Shown /\ open' \in BOOLEAN
<1>1. list' \in [Buys -> Statuses \cup {"absent"}] /\ open' \in BOOLEAN
  BY DEF DisplayTyped, ListStatus
<1>2. toast' \in Shown
  <2>1. CASE toast.tx = p /\ list[p] # "absent"
    <3>1. toast # Nothing
      BY <2>1 DEF Nothing, None, Buys
    <3> QED
      BY <2>1, <3>1 DEF DisplayTyped, ListStatus, Shown
  <2>2. CASE ~(toast.tx = p /\ list[p] # "absent")
    BY <2>2 DEF DisplayTyped, ListStatus
  <2> QED
    BY <2>1, <2>2
<1> QED
  BY <1>1, <1>2

\* So does one written to the dialog.
LEMMA ShowsTyped ==
  ASSUME DisplayTyped, NEW p \in Buys, NEW s \in Statuses, Shows(p, s) \/ ShowsIfShown(p, s)
  PROVE  show' \in Shown
<1>1. CASE Shows(p, s)
  BY <1>1 DEF Shows, Shown
<1>2. CASE ShowsIfShown(p, s)
  <2>1. CASE show.tx = p
    <3>1. show # Nothing
      BY <2>1 DEF Nothing, None, Buys
    <3> QED
      BY <1>2, <2>1, <3>1 DEF DisplayTyped, ShowsIfShown, Shown
  <2>2. CASE show.tx # p
    BY <1>2, <2>2 DEF DisplayTyped, ShowsIfShown
  <2> QED
    BY <2>1, <2>2
<1> QED
  BY <1>1, <1>2

\* Hence whatever reports a status of a purchase keeps the display typed.
LEMMA StatusTyped ==
  ASSUME DisplayTyped, NEW p \in Buys, NEW s \in Statuses,
         \/ Progress(p, s)
         \/ ListStatus(p, s) /\ ShowsIfShown(p, s)
  PROVE  DisplayTyped'
  BY ListStatusTyped, ShowsTyped DEF Progress, DisplayTyped

PollingTyped ==
  /\ TimersTyped(left)
  /\ initial \in [Mounts -> Nat \cup {Off}] /\ latest \in [Mounts -> Nat]
  /\ interval \in [Mounts -> Buys \cup {None}] /\ awaiting \in BOOLEAN

\* Stopping to poll keeps the variables of the polling typed.
LEMMA StopTyped ==
  ASSUME PollingTyped, NEW m, NEW f, TimersTyped(f), StopPolling(m, f)
  PROVE  /\ TimersTyped(left)'
         /\ initial' \in [Mounts -> Nat \cup {Off}]
         /\ interval' \in [Mounts -> Buys \cup {None}] /\ awaiting' \in BOOLEAN
<1>1. TimersTyped(left)'
  BY WithoutIntervalTyped DEF StopPolling, TimersTyped
<1> QED
  BY <1>1 DEF StopPolling, PollingTyped

\* So does a balance the page observes.
LEMMA ObserveTyped ==
  ASSUME PollingTyped, NEW b \in Nat, ObserveBalance(b)
  PROVE  PollingTyped'
<1>1. CASE mounted /\ b # balance
  <2>1. latest' \in [Mounts -> Nat]
    BY <1>1 DEF ObserveBalance, PollingTyped
  <2>2. CASE Raised(mount, b)
    BY <1>1, <2>1, <2>2, StopTyped DEF ObserveBalance, PollingTyped
  <2>3. CASE ~Raised(mount, b)
    BY <1>1, <2>1, <2>3 DEF ObserveBalance, PollingTyped, TimersTyped
  <2> QED
    BY <2>2, <2>3
<1>2. CASE ~(mounted /\ b # balance)
  BY <1>2 DEF ObserveBalance, PollingTyped, TimersTyped, refs
<1> QED
  BY <1>1, <1>2

\* Every step keeps the types.
LEMMA TypeStep == TypeOK /\ Instances /\ [Next]_vars => TypeOK'
<1> SUFFICES ASSUME TypeOK, Instances, [Next]_vars
             PROVE  TypeOK'
  OBVIOUS
<1> USE BoundsAssumption, DelaysAreNat
<1> USE DEF TypeOK, vars, instance, handler, world, display, refs, polling, Buys, Mounts,
            Timers, TimerKinds, Statuses, Shown, Nothing, None, Off
<1>1. CASE Unmount
  BY <1>1 DEF Unmount
<1>2. CASE Mount
  <2>1. mount + 1 \in Mounts
    BY <1>2 DEF Mount, Instances
  <2> QED
    BY <1>2, <2>1 DEF Mount
<1>3. CASE Tick
  <2>1. left' \in [Timers -> Nat \cup {Off}]
    <3>1. \A t \in Timers : left[t] \in Nat \cup {Off} /\ left[t] # 0
      BY <1>3 DEF Tick
    <3>2. \A t \in Timers : (IF left[t] = Off THEN Off ELSE left[t] - 1) \in Nat \cup {Off}
      BY <3>1
    <3> QED
      BY <1>3, <3>2 DEF Tick
  <2> QED
    BY <1>3, <2>1 DEF Tick
<1>4. CASE Minimize
  <2>1. NoToast \in [Timers -> Nat \cup {Off}]
    BY DEF NoToast
  <2>2. left' \in [Timers -> Nat \cup {Off}]
    BY <1>4, <2>1 DEF Minimize
  <2>3. show' \in Shown /\ toast' \in Shown
    <3>1. show' \in {show, Nothing} /\ toast' \in {toast, show}
      BY <1>4 DEF Minimize
    <3> QED
      BY <3>1
  <2> QED
    BY <1>4, <2>2, <2>3 DEF Minimize
<1>5. CASE Expand
  BY <1>5 DEF Expand, NoToast
<1>6. CASE DismissToasts
  BY <1>6 DEF DismissToasts, NoToast
<1>7. ASSUME NEW p \in Buys, Click(p) PROVE TypeOK'
  BY <1>7 DEF Click, CanClick, ClickAnyTime
<1>8. ASSUME NEW p \in Buys, CreateOrder(p) PROVE TypeOK'
  BY <1>8 DEF CreateOrder, Goto
<1>9. ASSUME NEW p \in Buys, OrderFails(p) PROVE TypeOK'
  BY <1>9 DEF OrderFails, Return, idle
<1>10. ASSUME NEW p \in Buys, Approve(p) PROVE TypeOK'
  BY <1>10 DEF Approve, Goto, idle
<1>11. ASSUME NEW p \in Buys, WalletRejects(p) PROVE TypeOK'
  BY <1>11 DEF WalletRejects, Return
<1>12. ASSUME NEW p \in Buys, Deposit(p) PROVE TypeOK'
  BY <1>12 DEF Deposit, Appear, Shows, Return
<1>13. ASSUME NEW p \in Buys, Include(p) PROVE TypeOK'
  <2>1. chain' \in [Buys -> {"none", "asked", "rejected", "sent", "broadcast", "inblock", "dropped",
                               "mined", "reverted"}]
    BY <1>13 DEF Include
  <2> QED
    BY <1>13, <2>1 DEF Include
<1>14. ASSUME NEW p \in Buys, PostInclusion(p) PROVE TypeOK'
  BY <1>14 DEF PostInclusion, Included
<1>15. ASSUME NEW p \in Buys, WalletTimeout(p) PROVE TypeOK'
  BY <1>15 DEF WalletTimeout, Return, idle
<1>16. ASSUME NEW p \in Buys, Broadcast(p) PROVE TypeOK'
  BY <1>16 DEF Broadcast, Appear, Shows
<1>17. ASSUME NEW p \in Buys, InBlock(p) PROVE TypeOK'
  <2>1. chain' \in [Buys -> {"none", "asked", "rejected", "sent", "broadcast", "inblock", "dropped",
                               "mined", "reverted"}]
    BY <1>17 DEF InBlock
  <2>2. DisplayTyped'
    BY <1>17, StatusTyped DEF InBlock, DisplayTyped
  <2> QED
    BY <1>17, <2>1, <2>2 DEF InBlock, DisplayTyped
<1>18. ASSUME NEW p \in Buys, Finalize(p) PROVE TypeOK'
  <2>1. chain' \in [Buys -> {"none", "asked", "rejected", "sent", "broadcast", "inblock", "dropped",
                               "mined", "reverted"}]
    BY <1>18 DEF Finalize
  <2>2. DisplayTyped'
    BY <1>18, StatusTyped DEF Finalize, DisplayTyped
  <2>3. left' \in [Timers -> Nat \cup {Off}]
    BY <1>18 DEF Finalize
  <2>4. /\ pc' \in [Buys -> {"none", "order", "approve", "wallet", "done"}]
        /\ loading' \in BOOLEAN /\ UNCHANGED <<mount, mounted, inst, base>>
    BY <1>18 DEF Finalize, Settle, Return
  <2> QED
    BY <1>18, <2>1, <2>2, <2>3, <2>4 DEF Finalize, DisplayTyped
<1>19. ASSUME NEW p \in Buys, Drop(p) PROVE TypeOK'
  BY <1>19 DEF Drop, Settle, Return
<1>20. ASSUME NEW p \in Buys, Credit(p) PROVE TypeOK'
  <2>1. credit' \in Nat /\ credited' \subseteq Buys
    BY <1>20 DEF Credit
  <2> QED
    BY <1>20, <2>1 DEF Credit
<1>21. ASSUME NEW p \in Buys, FireInblock(p) PROVE TypeOK'
  BY <1>21 DEF FireInblock, Due, ListStatus, ShowsIfShown
<1>22. ASSUME NEW p \in Buys, FireFinality(p) PROVE TypeOK'
  BY <1>22 DEF FireFinality, Due, ListStatus, ShowsIfShown
<1>23. ASSUME NEW p \in Buys, FireCompleted(p) PROVE TypeOK'
  <2>1. DisplayTyped'
    BY <1>23, StatusTyped DEF FireCompleted, DisplayTyped
  <2> DEFINE timers == [left EXCEPT ![<<"completed", p>>] = Off,
                                    ![<<"cleanup", p>>] = CleanupDelay,
                                    ![<<"toast", p>>] = IF toast.tx = p THEN ToastDelay ELSE Off]
  <2>2. TimersTyped(timers)
    BY DEF TimersTyped
  <2> HIDE DEF timers
  <2>3. TimersTyped(WithoutInterval(inst[p], timers))
    BY <2>2, WithoutIntervalTyped
  <2>4. StartPolling(p, timers)
    BY <1>23 DEF FireCompleted, timers
  <2>5. left' \in [Timers -> Nat \cup {Off}]
    BY <2>3, <2>4 DEF StartPolling, TimersTyped
  <2>6. /\ awaiting' \in BOOLEAN /\ initial' \in [Mounts -> Nat \cup {Off}]
        /\ interval' \in [Mounts -> Buys \cup {None}] /\ polls' \in [Buys -> Nat]
    BY <2>4 DEF StartPolling
  <2> QED
    BY <1>23, <2>1, <2>5, <2>6 DEF FireCompleted, DisplayTyped
<1>24. ASSUME NEW p \in Buys, FireCleanup(p) PROVE TypeOK'
  BY <1>24 DEF FireCleanup, Due
<1>25. ASSUME NEW p \in Buys, FireToast(p) PROVE TypeOK'
  BY <1>25 DEF FireToast, Due
<1>26. ASSUME NEW p \in Buys, FirePoll(p) PROVE TypeOK'
  <2>1. left' \in [Timers -> Nat \cup {Off}]
    <3>1. PICK k \in {"first", "interval"} :
            left' = [left EXCEPT ![<<k, p>>] = IF k = "first" THEN Off ELSE PollEvery]
      BY <1>26 DEF FirePoll
    <3>2. TimersTyped(left) /\ (IF k = "first" THEN Off ELSE PollEvery) \in Nat \cup {Off}
      BY DEF TimersTyped
    <3> QED
      BY <3>1, <3>2, TimerSet DEF TimersTyped
  <2>2. polls' \in [Buys -> Nat] /\ asked' \in [Buys -> BOOLEAN]
    <3>1. polls' = [polls EXCEPT ![p] = polls[p] + 1] /\ asked' = [asked EXCEPT ![p] = TRUE]
      BY <1>26 DEF FirePoll
    <3> QED
      BY <3>1, OneMore
  <2> QED
    BY <1>26, <2>1, <2>2 DEF FirePoll
<1>27. ASSUME NEW p \in Buys, FireStop(p) PROVE TypeOK'
  BY <1>27 DEF FireStop, Due, StopPolling, WithoutInterval
<1>28. ASSUME NEW p \in Buys, AnswerPoll(p) PROVE TypeOK'
  <2>1. PollingTyped
    BY DEF PollingTyped, TimersTyped
  <2>2. PICK b \in Nat : balance' = b /\ ObserveBalance(b)
    BY <1>28 DEF AnswerPoll, Answers
  <2>3. PollingTyped'
    BY <2>1, <2>2, ObserveTyped
  <2> QED
    BY <1>28, <2>2, <2>3 DEF AnswerPoll, PollingTyped, TimersTyped
<1>29. ASSUME NEW p \in Buys, CheckBalance(p) PROVE TypeOK'
  <2>1. PollingTyped /\ TimersTyped(left)
    BY DEF PollingTyped, TimersTyped
  <2>2. /\ TimersTyped(left)' /\ awaiting' \in BOOLEAN
        /\ initial' \in [Mounts -> Nat \cup {Off}]
        /\ interval' \in [Mounts -> Buys \cup {None}]
    <3>1. CASE StopPolling(inst[p], left)
      BY <2>1, <3>1, StopTyped
    <3>2. CASE UNCHANGED <<left, interval, initial, awaiting>>
      BY <2>1, <3>2 DEF TimersTyped
    <3> QED
      BY <1>29, <3>1, <3>2 DEF CheckBalance
  <2> QED
    BY <1>29, <2>2 DEF CheckBalance, TimersTyped
<1>30. CASE UNCHANGED vars
  BY <1>30
<1> QED
  BY <1>1, <1>2, <1>3, <1>4, <1>5, <1>6, <1>7, <1>8, <1>9, <1>10, <1>11, <1>12,
     <1>13, <1>14, <1>15, <1>16, <1>17, <1>18, <1>19, <1>20, <1>21, <1>22, <1>23, <1>24, <1>25,
     <1>26, <1>27, <1>28, <1>29, <1>30 DEF Next, Buy, Fire

-----------------------------------------------------------------------------
(* The button                                                              *)

\* What a step does to the button and to the handlers.
LEMMA HandlerSteps ==
  ASSUME [Next]_vars
  PROVE  \/ Unmount \/ Mount \/ \E p \in Buys : Click(p)
         \/ \E p \in Buys : InFlight(p) /\ (Goto(p, "approve") \/ Goto(p, "wallet") \/ Return(p))
         \/ UNCHANGED <<instance, handler>>
<1> DEFINE Kept == UNCHANGED <<instance, handler>>
           Moved(p) == InFlight(p) /\ (Goto(p, "approve") \/ Goto(p, "wallet") \/ Return(p))
<1>1. ASSUME NEW p \in Buys, CreateOrder(p) \/ Approve(p) PROVE Moved(p)
  BY <1>1 DEF CreateOrder, Approve, InFlight
<1>2. ASSUME NEW p \in Buys, OrderFails(p) \/ WalletRejects(p) \/ Deposit(p) \/ WalletTimeout(p)
      PROVE  Moved(p)
  BY <1>2 DEF OrderFails, WalletRejects, Deposit, WalletTimeout, InFlight
<1>3. ASSUME NEW p \in Buys, Finalize(p) \/ Drop(p) PROVE Moved(p) \/ Kept
  BY <1>3 DEF Finalize, Drop, Settle, InFlight
<1>4. ASSUME NEW p \in Buys, Include(p) \/ PostInclusion(p) \/ Broadcast(p) \/ InBlock(p)
                            \/ Credit(p)
      PROVE  Kept
  BY <1>4 DEF Include, PostInclusion, Broadcast, InBlock, Credit
<1>5. ASSUME NEW p \in Buys, Fire(p) PROVE Kept
  BY <1>5 DEF Fire, FireInblock, FireFinality, FireCompleted, FireCleanup, FireToast, FirePoll,
     FireStop
<1>6. ASSUME NEW p \in Buys, AnswerPoll(p) \/ CheckBalance(p) PROVE Kept
  BY <1>6 DEF AnswerPoll, CheckBalance
<1>7. CASE Tick \/ Minimize \/ Expand \/ DismissToasts
  BY <1>7 DEF Tick, Minimize, Expand, DismissToasts
<1>8. CASE UNCHANGED vars
  BY <1>8 DEF vars
<1> QED
  BY <1>1, <1>2, <1>3, <1>4, <1>5, <1>6, <1>7, <1>8 DEF Next, Buy

\* Every step keeps the button waiting for the handler of its own instance.
LEMMA ButtonStep ==
  TypeOK /\ Instances /\ ButtonWaits /\ [Next]_vars => Instances' /\ ButtonWaits'
<1> SUFFICES ASSUME TypeOK, Instances, ButtonWaits, [Next]_vars
             PROVE  Instances' /\ ButtonWaits'
  OBVIOUS
<1>0. /\ mount \in Nat \ {0} /\ mount <= MaxMounts
      /\ mounted \in BOOLEAN /\ loading \in BOOLEAN
      /\ pc \in [Buys -> {"none", "order", "approve", "wallet", "done"}]
      /\ inst \in [Buys -> Mounts \cup {None}]
  BY BoundsAssumption DEF TypeOK, Mounts
<1>1. CASE Unmount
  BY <1>0, <1>1 DEF Unmount, Instances, ButtonWaits, InFlight, handler
<1>2. CASE Mount
  <2>1. mount' = mount + 1 /\ mounted' = TRUE /\ loading' = FALSE /\ pc' = pc /\ inst' = inst
    BY <1>2 DEF Mount, Instances, handler
  <2>2. \A p \in Buys : pc[p] # "none" => inst[p] \in 1 .. mount' /\ inst[p] # mount'
    BY <1>0, <2>1 DEF Instances
  <2> QED
    BY <2>1, <2>2 DEF Instances, ButtonWaits, InFlight
<1>3. ASSUME NEW p \in Buys, Click(p) PROVE Instances' /\ ButtonWaits'
  <2>1. /\ mounted /\ ~loading /\ pc[p] = "none" /\ loading' = TRUE
        /\ UNCHANGED <<mount, mounted>>
        /\ pc' = [pc EXCEPT ![p] = "order"] /\ inst' = [inst EXCEPT ![p] = mount]
    BY <1>3 DEF Click, CanClick, ClickAnyTime
  <2>2. pc'[p] = "order" /\ inst'[p] = mount
    BY <1>0, <2>1
  <2>3. \A q \in Buys : q # p => pc'[q] = pc[q] /\ inst'[q] = inst[q]
    BY <1>0, <2>1
  <2>4. \A q \in Buys : InFlight(q) => inst[q] # mount
    BY <1>0, <2>1 DEF ButtonWaits
  <2>5. Instances'
    BY <1>0, <2>1, <2>2, <2>3 DEF Instances
  <2>6. \A q \in Buys : q # p => (InFlight(q)' <=> InFlight(q))
    BY <2>3 DEF InFlight
  <2>7. InFlight(p)'
    BY <2>2 DEF InFlight
  <2> QED
    BY <2>1, <2>2, <2>3, <2>4, <2>5, <2>6, <2>7 DEF ButtonWaits
<1>4. ASSUME NEW p \in Buys, InFlight(p), Goto(p, "approve") \/ Goto(p, "wallet")
      PROVE  Instances' /\ ButtonWaits'
  <2>1. UNCHANGED <<instance, inst>> /\ \A q \in Buys : pc'[q] # "none" <=> pc[q] # "none"
    BY <1>0, <1>4 DEF Goto, InFlight
  <2>2. \A q \in Buys : InFlight(q)' <=> InFlight(q)
    BY <1>0, <1>4 DEF Goto, InFlight
  <2> QED
    BY <2>1, <2>2 DEF Instances, ButtonWaits, instance
<1>5. ASSUME NEW p \in Buys, InFlight(p), Return(p) PROVE Instances' /\ ButtonWaits'
  <2>1. /\ UNCHANGED <<mount, mounted, inst>>
        /\ loading' = IF inst[p] = mount THEN FALSE ELSE loading
        /\ pc' = [pc EXCEPT ![p] = "done"]
    BY <1>5 DEF Return
  <2>2. \A q \in Buys : InFlight(q)' <=> InFlight(q) /\ q # p
    BY <1>0, <2>1 DEF InFlight
  <2>3. \A q \in Buys : pc'[q] # "none" => pc[q] # "none"
    BY <1>0, <1>5, <2>1 DEF InFlight
  <2>4. Instances'
    BY <1>0, <2>1, <2>3 DEF Instances
  <2> QED
    BY <1>0, <1>5, <2>1, <2>2, <2>4 DEF ButtonWaits
<1>6. CASE UNCHANGED <<instance, handler>>
  BY <1>6 DEF Instances, ButtonWaits, InFlight, instance, handler
<1> QED
  BY <1>1, <1>2, <1>3, <1>4, <1>5, <1>6, HandlerSteps

-----------------------------------------------------------------------------
(* The polling                                                             *)

\* Every purchase has a timer of each kind.
LEMMA TimerIn ==
  ASSUME NEW k \in TimerKinds, NEW p \in Buys
  PROVE  <<k, p>> \in Timers
  BY DEF Timers

\* Clearing the interval of an instance turns off that timer and no other.
LEMMA IntervalCleared ==
  ASSUME TypeOK, NEW m \in Mounts, NEW f, TimersTyped(f)
  PROVE  \A k \in TimerKinds, p \in Buys :
           WithoutInterval(m, f)[<<k, p>>]
             = IF k = "interval" /\ interval[m] = p THEN Off ELSE f[<<k, p>>]
<1> SUFFICES ASSUME NEW k \in TimerKinds, NEW p \in Buys
             PROVE  WithoutInterval(m, f)[<<k, p>>]
                      = IF k = "interval" /\ interval[m] = p THEN Off ELSE f[<<k, p>>]
  OBVIOUS
<1>1. <<k, p>> \in DOMAIN f
  BY TimerIn DEF TimersTyped
<1>2. p # None
  BY DEF Buys, None
<1>3. CASE interval[m] = None
  BY <1>2, <1>3 DEF WithoutInterval
<1>4. CASE interval[m] # None
  BY <1>1, <1>4 DEF WithoutInterval
<1> QED
  BY <1>3, <1>4

\* What the end of a polling leaves.
LEMMA StopEffect ==
  ASSUME TypeOK, NEW m \in Mounts, NEW f, TimersTyped(f), StopPolling(m, f),
         NEW k \in TimerKinds, NEW p \in Buys
  PROVE  Left(k, p)' = IF k = "interval" /\ interval[m] = p THEN Off ELSE f[<<k, p>>]
  BY IntervalCleared DEF StopPolling, Left

\* A purchase that has begun belongs to an instance of the page.
LEMMA BegunHasInstance ==
  ASSUME TypeOK, Instances, NEW p \in Buys, pc[p] # "none"
  PROVE  inst[p] \in Mounts
<1>1. inst[p] \in 1 .. mount /\ mount \in Mounts
  BY DEF Instances, TypeOK
<1> QED
  BY <1>1, BoundsAssumption DEF Mounts

\* A polling ends at its safety stop, or when an answer or a check says so; which
\* changes no other timer than the stop that fires and the interval.
Ended(m, f) == m \in Mounts /\ TimersTyped(f) /\ StopPolling(m, f)

\* What the three handlers that may end a polling do to its timers.
LEMMA EndSteps ==
  ASSUME TypeOK, Unbegun, Instances, NEW p \in Buys, FireStop(p) \/ AnswerPoll(p) \/ CheckBalance(p)
  PROVE  \/ Running("stop", p) /\ Ended(inst[p], [left EXCEPT ![<<"stop", p>>] = Off])
         \/ \E m \in Mounts : Ended(m, left)
         \/ UNCHANGED <<left, interval, awaiting>>
<1>1. TimersTyped(left)
  BY DEF TypeOK, TimersTyped
<1>2. CASE FireStop(p)
  <2>1. Running("stop", p)
    BY <1>2 DEF FireStop, Due, Running, Off
  <2>2. inst[p] \in Mounts
    BY <2>1, BegunHasInstance DEF Unbegun, TimerKinds
  <2>3. TimersTyped([left EXCEPT ![<<"stop", p>>] = Off])
    BY <1>1, TimerSet DEF Off
  <2> QED
    BY <1>2, <2>1, <2>2, <2>3 DEF FireStop, Ended
<1>3. CASE AnswerPoll(p)
  <2>1. PICK b : ObserveBalance(b)
    BY <1>3 DEF AnswerPoll
  <2>2. mount \in Mounts
    BY DEF TypeOK
  <2> QED
    BY <1>1, <2>1, <2>2 DEF ObserveBalance, Ended, refs
<1>4. CASE CheckBalance(p)
  <2>1. inst[p] \in Mounts
    BY <1>4, BegunHasInstance DEF CheckBalance, Unbegun
  <2> QED
    BY <1>1, <1>4, <2>1 DEF CheckBalance, Ended
<1> QED
  BY <1>2, <1>3, <1>4

\* What the start of a polling leaves.
LEMMA StartEffect ==
  ASSUME TypeOK, NEW p \in Buys, inst[p] \in Mounts, NEW f, TimersTyped(f), StartPolling(p, f)
  PROVE  /\ \A k \in TimerKinds, q \in Buys :
              IF k \in {"interval", "first", "stop"} /\ q = p
              THEN Left(k, q)' # Off
              ELSE Left(k, q)' = IF k = "interval" /\ interval[inst[p]] = q THEN Off
                                                                          ELSE f[<<k, q>>]
         /\ interval' = [interval EXCEPT ![inst[p]] = p]
<1> DEFINE g == WithoutInterval(inst[p], f)
<1>1. TimersTyped(g)
  BY WithoutIntervalTyped
<1>2. left' = [g EXCEPT ![<<"interval", p>>] = PollEvery, ![<<"first", p>>] = FirstPoll,
                        ![<<"stop", p>>] = SafetyStop]
  BY DEF StartPolling
<1>3. \A k \in TimerKinds, q \in Buys :
        g[<<k, q>>] = IF k = "interval" /\ interval[inst[p]] = q THEN Off ELSE f[<<k, q>>]
  <2> TAKE k \in TimerKinds, q \in Buys
  <2> QED
    BY IntervalCleared
<1> HIDE DEF g
<1>4. \A k \in TimerKinds, q \in Buys :
        Left(k, q)' = IF q = p /\ k = "interval" THEN PollEvery
                      ELSE IF q = p /\ k = "first" THEN FirstPoll
                      ELSE IF q = p /\ k = "stop" THEN SafetyStop
                      ELSE g[<<k, q>>]
  BY <1>1, <1>2, TimerIn DEF TimersTyped, Left
<1> QED
  BY <1>3, <1>4, DelaysAreNat DEF StartPolling, Off

\* The timers of a polling that other steps leave alone, but for an interval that
\* fires and starts again.
PollingKept ==
  /\ UNCHANGED <<interval, awaiting>>
  /\ \A q \in Buys, k \in {"interval", "stop"} : Running(k, q)' <=> Running(k, q)

\* All but four handlers leave the polling timers as they are.
LEMMA PollingSteps ==
  ASSUME TypeOK, [Next]_vars
  PROVE  \/ PollingKept
         \/ \E p \in Buys : FireCompleted(p) \/ FireStop(p) \/ AnswerPoll(p) \/ CheckBalance(p)
<1> USE TimerIn DEF TimerKinds
<1>0. TimersTyped(left)
  BY DEF TypeOK, TimersTyped
<1>1. ASSUME UNCHANGED <<left, interval, awaiting>> PROVE PollingKept
  BY <1>1 DEF PollingKept, Running
<1>2. ASSUME NEW p \in Buys, NEW k \in {"inblock", "finality", "completed", "cleanup", "toast"},
             NEW n, left' = [left EXCEPT ![<<k, p>>] = n], UNCHANGED <<interval, awaiting>>
      PROVE  PollingKept
  BY <1>0, <1>2 DEF PollingKept, Running, TimersTyped
<1>3. ASSUME left' = NoToast, UNCHANGED <<interval, awaiting>> PROVE PollingKept
  BY <1>0, <1>3 DEF PollingKept, Running, NoToast, TimersTyped
<1>4. CASE Tick
  BY <1>0, <1>4 DEF Tick, PollingKept, Running, polling, refs,
     TimersTyped, Off
<1>5. CASE Unmount \/ Mount
  BY <1>1, <1>5 DEF Unmount, Mount, polling, refs
<1>6. CASE Minimize \/ Expand \/ DismissToasts
  BY <1>1, <1>3, <1>6 DEF Minimize, Expand, DismissToasts, polling, refs
<1>7. CASE UNCHANGED vars
  BY <1>1, <1>7 DEF vars, polling, refs
<1>8. ASSUME NEW p \in Buys, Click(p) \/ CreateOrder(p) \/ OrderFails(p) \/ Approve(p)
                            \/ WalletRejects(p) \/ Include(p) \/ WalletTimeout(p) \/ Broadcast(p)
                            \/ InBlock(p) \/ Drop(p) \/ Credit(p)
      PROVE  PollingKept
  BY <1>1, <1>8 DEF Click, ClickAnyTime, CreateOrder, OrderFails, Approve, WalletRejects, Include,
     WalletTimeout, Broadcast, InBlock, Drop, Credit, idle, polling, refs
<1>9. ASSUME NEW p \in Buys, Deposit(p) \/ PostInclusion(p) \/ Finalize(p) PROVE PollingKept
  BY <1>1, <1>2, <1>9 DEF Deposit, PostInclusion, Finalize, polling, refs
<1>10. ASSUME NEW p \in Buys, FireInblock(p) \/ FireCleanup(p) \/ FireToast(p)
       PROVE  PollingKept
  BY <1>2, <1>10 DEF FireInblock, FireCleanup, FireToast, polling, refs
<1>11. ASSUME NEW p \in Buys, FireFinality(p) PROVE PollingKept
  BY <1>0, <1>11 DEF FireFinality, PollingKept, Running, polling, refs, TimersTyped
<1>12. ASSUME NEW p \in Buys, FirePoll(p) PROVE PollingKept
  BY <1>0, <1>12, DelaysAreNat DEF FirePoll, Due, PollingKept, Running, polling, refs,
     TimersTyped, Off
<1> QED
  BY <1>4, <1>5, <1>6, <1>7, <1>8, <1>9, <1>10, <1>11, <1>12 DEF Next, Buy, Fire

\* The instance of a purchase that was begun stays its instance.
LEMMA InstanceKept ==
  ASSUME TypeOK, [Next]_vars, NEW q \in Buys, pc[q] # "none"
  PROVE  inst'[q] = inst[q]
<1>1. ASSUME NEW p \in Buys, Click(p) PROVE inst'[q] = inst[q]
  BY <1>1 DEF Click, ClickAnyTime, TypeOK
<1> QED
  BY <1>1, HandlerSteps DEF Unmount, Mount, Goto, Return, handler

\* An interval stays its own purchase's and is stopped in the end, step by step.
LEMMA PollingStep ==
  TypeOK /\ Unbegun /\ Instances /\ OwnInterval /\ PollingIsBounded /\ [Next]_vars
    => OwnInterval' /\ PollingIsBounded'
<1> SUFFICES ASSUME TypeOK, Unbegun, Instances, OwnInterval, PollingIsBounded, [Next]_vars
             PROVE  OwnInterval' /\ PollingIsBounded'
  OBVIOUS
<1>1. \A q \in Buys, k \in {"interval", "stop"} :
        Running(k, q) => pc[q] # "none" /\ inst'[q] = inst[q]
  BY InstanceKept DEF Unbegun, TimerKinds
<1>2. interval \in [Mounts -> Buys \cup {None}] /\ None \notin Buys /\ None \notin Mounts
  BY DEF TypeOK, Buys, Mounts, None
<1>3. \A m \in Mounts : interval[m] # None => inst'[interval[m]] = m
  BY <1>2, InstanceKept DEF OwnInterval, Unbegun
<1>4. CASE PollingKept
  <2>1. OwnInterval'
    BY <1>3, <1>4 DEF OwnInterval, PollingKept
  <2> QED
    BY <1>1, <1>4, <2>1 DEF PollingIsBounded, PollingKept
<1>5. ASSUME NEW p \in Buys, FireCompleted(p) PROVE OwnInterval' /\ PollingIsBounded'
  <2> DEFINE m == inst[p]
             f == [left EXCEPT ![<<"completed", p>>] = Off,
                               ![<<"cleanup", p>>] = CleanupDelay,
                               ![<<"toast", p>>] = IF toast.tx = p THEN ToastDelay ELSE Off]
  <2>1. inst[p] \in Mounts
    <3>1. Running("completed", p)
      BY <1>5 DEF FireCompleted, Due, Running, Off
    <3> QED
      BY <3>1, BegunHasInstance DEF Unbegun, TimerKinds
  <2>2. TimersTyped(f)
    BY DelaysAreNat DEF TimersTyped, TypeOK, Off
  <2>3. \A k \in {"interval", "stop"}, q \in Buys : f[<<k, q>>] = left[<<k, q>>]
    BY TimerIn DEF TypeOK, TimerKinds
  <2>4. StartPolling(p, f) /\ inst' = inst
    BY <1>5 DEF FireCompleted, handler
  <2> HIDE DEF f
  <2>5. /\ interval' = [interval EXCEPT ![inst[p]] = p]
        /\ Running("interval", p)' /\ Running("stop", p)'
        /\ \A q \in Buys : q # p => (Running("stop", q)' <=> Running("stop", q))
        /\ \A q \in Buys : q # p =>
             (Running("interval", q)' <=> Running("interval", q) /\ interval[inst[p]] # q)
    BY <2>1, <2>2, <2>3, <2>4, StartEffect DEF Running, Left, TimerKinds
  <2>6. OwnInterval'
    BY <1>2, <1>3, <2>1, <2>4, <2>5 DEF OwnInterval
  <2>7. ASSUME NEW q \in Buys, Running("interval", q)'
        PROVE  /\ interval'[inst'[q]] = q
               /\ \E r \in Buys : inst'[r] = inst'[q] /\ Running("stop", r)'
    <3>1. CASE q = p
      BY <1>2, <2>1, <2>4, <2>5, <3>1
    <3>2. CASE q # p
      <4>1. Running("interval", q) /\ interval[inst[p]] # q
        BY <2>5, <2>7, <3>2
      <4>2. interval[inst[q]] = q /\ inst[q] # inst[p]
        BY <4>1 DEF PollingIsBounded
      <4>3. PICK r \in Buys : inst[r] = inst[q] /\ Running("stop", r)
        BY <4>1 DEF PollingIsBounded
      <4>4. r # p
        BY <4>2, <4>3
      <4> QED
        BY <1>2, <2>4, <2>5, <4>2, <4>3, <4>4
    <3> QED
      BY <3>1, <3>2
  <2> QED
    BY <2>5, <2>6, <2>7 DEF PollingIsBounded
<1>6. ASSUME NEW p \in Buys, FireStop(p) \/ AnswerPoll(p) \/ CheckBalance(p)
      PROVE  OwnInterval' /\ PollingIsBounded'
  <2>0. inst' = inst
    BY <1>6 DEF FireStop, AnswerPoll, CheckBalance, handler
  <2>1. CASE UNCHANGED <<left, interval, awaiting>>
    BY <2>0, <2>1 DEF OwnInterval, PollingIsBounded, Running
  <2>2. ASSUME NEW m \in Mounts, NEW f, Ended(m, f),
               \A q \in Buys : f[<<"interval", q>>] = left[<<"interval", q>>],
               \A q \in Buys : inst[q] # m => f[<<"stop", q>>] = left[<<"stop", q>>]
        PROVE  OwnInterval' /\ PollingIsBounded'
    <3>1. /\ interval' = [interval EXCEPT ![m] = None] /\ awaiting' = FALSE
          /\ \A q \in Buys : inst[q] # m => (Running("stop", q)' <=> Running("stop", q))
          /\ \A q \in Buys :
               Running("interval", q)' <=> Running("interval", q) /\ interval[m] # q
      <4>1. interval' = [interval EXCEPT ![m] = None] /\ awaiting' = FALSE
        BY <2>2 DEF Ended, StopPolling
      <4>2. ASSUME NEW q \in Buys
            PROVE  /\ Left("stop", q)' = f[<<"stop", q>>]
                   /\ Left("interval", q)' = IF interval[m] = q THEN Off ELSE f[<<"interval", q>>]
        BY <2>2, StopEffect DEF Ended, TimerKinds
      <4> QED
        BY <2>2, <4>1, <4>2 DEF Running, Left
    <3>2. OwnInterval'
      BY <1>2, <2>0, <3>1 DEF OwnInterval
    <3>3. ASSUME NEW q \in Buys, Running("interval", q)'
          PROVE  /\ interval'[inst'[q]] = q
                 /\ \E r \in Buys : inst'[r] = inst'[q] /\ Running("stop", r)'
      <4>1. Running("interval", q) /\ interval[m] # q
        BY <3>1, <3>3
      <4>2. interval[inst[q]] = q /\ inst[q] # m
        BY <4>1 DEF PollingIsBounded
      <4>3. PICK r \in Buys : inst[r] = inst[q] /\ Running("stop", r)
        BY <4>1 DEF PollingIsBounded
      <4> QED
        BY <1>2, <2>0, <3>1, <4>2, <4>3
    <3> QED
      BY <3>1, <3>2, <3>3 DEF PollingIsBounded
  <2>3. CASE Running("stop", p) /\ Ended(inst[p], [left EXCEPT ![<<"stop", p>>] = Off])
    <3> DEFINE f == [left EXCEPT ![<<"stop", p>>] = Off]
    <3>1. \A q \in Buys : /\ f[<<"interval", q>>] = left[<<"interval", q>>]
                          /\ inst[q] # inst[p] => f[<<"stop", q>>] = left[<<"stop", q>>]
      BY TimerIn DEF TypeOK, TimerKinds
    <3>2. inst[p] \in Mounts /\ Ended(inst[p], f)
      BY <2>3 DEF Ended
    <3> HIDE DEF f
    <3> QED
      BY <2>2, <3>1, <3>2
  <2>4. ASSUME NEW m \in Mounts, Ended(m, left) PROVE OwnInterval' /\ PollingIsBounded'
    BY <2>2, <2>4
  <2> QED
    BY <1>6, <2>1, <2>3, <2>4, EndSteps
<1> QED
  BY <1>4, <1>5, <1>6, PollingSteps

-----------------------------------------------------------------------------
(* Statuses                                                                *)

StatusTimers == {"inblock", "finality", "completed", "cleanup"}

\* Nothing that the status of a purchase depends on changes.
Same(q) ==
  /\ chain'[q] = chain[q] /\ list'[q] = list[q] /\ (q \in posted' <=> q \in posted)
  /\ \A k \in StatusTimers : Left(k, q)' = Left(k, q)

\* Its handler may go on meanwhile.
GoesOn(q) ==
  \/ pc'[q] \in {pc[q], "done"}
  \/ pc[q] # "done" /\ pc'[q] # "order"
  \/ chain[q] = "none"

\* The handler and the transaction of a purchase only go forward.
LEMMA HandlersGoOn ==
  ASSUME TypeOK, Unbegun, [Next]_vars, NEW q \in Buys
  PROVE  GoesOn(q)
<1>0. pc \in [Buys -> {"none", "order", "approve", "wallet", "done"}]
  BY DEF TypeOK
<1>1. ASSUME NEW p \in Buys, Click(p) PROVE GoesOn(q)
  BY <1>0, <1>1 DEF Click, ClickAnyTime, GoesOn, Unbegun
<1>2. ASSUME NEW p \in Buys, InFlight(p), Goto(p, "approve") \/ Goto(p, "wallet") \/ Return(p)
      PROVE  GoesOn(q)
  BY <1>0, <1>2 DEF Goto, Return, InFlight, GoesOn
<1> QED
  BY <1>1, <1>2, HandlerSteps DEF Unmount, Mount, handler, GoesOn

\* A step that leaves the list and the timers of a purchase keeps its flow.
LEMMA FlowKept ==
  ASSUME NEW q \in Buys, Flow(q), Same(q), GoesOn(q)
  PROVE  Flow(q)'
<1>1. Listed(q)'
  BY DEF Flow, Listed, Same, GoesOn, Evm, Settled
<1>2. InOrder(q)'
  BY DEF Flow, InOrder, Same, Running, Left, Evm, StatusTimers
<1> QED
  BY <1>1, <1>2 DEF Flow

\* The polling and the toast leave the timers of the statuses alone.
LEMMA SameTimers ==
  ASSUME TypeOK, NEW q \in Buys, NEW k \in StatusTimers
  PROVE  /\ \A m \in Mounts : \A f : Ended(m, f) => Left(k, q)' = f[<<k, q>>]
         /\ left' = NoToast => Left(k, q)' = Left(k, q)
         /\ \A p \in Buys, j \in TimerKinds \ StatusTimers : \A n :
              left' = [left EXCEPT ![<<j, p>>] = n] => Left(k, q)' = Left(k, q)
<1>0. <<k, q>> \in Timers /\ k \in TimerKinds /\ k \notin {"interval", "toast"}
  BY TimerIn DEF StatusTimers, TimerKinds
<1>1. ASSUME NEW m \in Mounts, NEW f, Ended(m, f) PROVE Left(k, q)' = f[<<k, q>>]
  BY <1>0, <1>1, StopEffect DEF Ended
<1>2. ASSUME left' = NoToast PROVE Left(k, q)' = Left(k, q)
  BY <1>0, <1>2 DEF NoToast, Left
<1>3. ASSUME NEW p \in Buys, NEW j \in TimerKinds \ StatusTimers, NEW n,
             left' = [left EXCEPT ![<<j, p>>] = n]
      PROVE  Left(k, q)' = Left(k, q)
  BY <1>0, <1>3 DEF Left, TypeOK
<1> QED
  BY <1>1, <1>2, <1>3

\* The steps that change no status, for any purchase.
Quiet(p) ==
  \/ Click(p) \/ OrderFails(p) \/ Approve(p) \/ WalletTimeout(p) \/ Credit(p)
  \/ FireToast(p) \/ FirePoll(p) \/ FireStop(p) \/ AnswerPoll(p) \/ CheckBalance(p)

\* The quiet steps leave the list and the timers of every purchase.
LEMMA QuietSteps ==
  ASSUME TypeOK, Unbegun, Instances, NEW q \in Buys,
         \/ \E p \in Buys : Quiet(p)
         \/ Unmount \/ Mount \/ Minimize \/ Expand \/ DismissToasts \/ UNCHANGED vars
  PROVE  Same(q)
<1> DEFINE Others == chain'[q] = chain[q] /\ list'[q] = list[q] /\ (q \in posted' <=> q \in posted)
<1>1. ASSUME UNCHANGED left, Others PROVE Same(q)
  BY <1>1 DEF Same, Left
<1>2. ASSUME left' = NoToast, Others PROVE Same(q)
  BY <1>2, SameTimers DEF Same
<1>3. CASE Unmount \/ Mount \/ UNCHANGED vars
  BY <1>1, <1>3 DEF Unmount, Mount, vars, world, display
<1>4. CASE Minimize \/ Expand \/ DismissToasts
  BY <1>1, <1>2, <1>4 DEF Minimize, Expand, DismissToasts, world
<1>5. ASSUME NEW p \in Buys, Click(p) \/ OrderFails(p) \/ Approve(p) \/ WalletTimeout(p)
                            \/ Credit(p)
      PROVE  Same(q)
  BY <1>1, <1>5 DEF Click, ClickAnyTime, OrderFails, Approve, WalletTimeout, Credit, idle, world,
     display
<1>6. ASSUME NEW p \in Buys, NEW j \in TimerKinds \ StatusTimers, NEW n,
             left' = [left EXCEPT ![<<j, p>>] = n], Others
      PROVE  Same(q)
  BY <1>6, SameTimers DEF Same
<1>7. ASSUME NEW p \in Buys, FireToast(p) PROVE Same(q)
  BY <1>6, <1>7 DEF FireToast, world, TimerKinds, StatusTimers
<1>8. ASSUME NEW p \in Buys, FirePoll(p) PROVE Same(q)
  BY <1>6, <1>8 DEF FirePoll, world, display, TimerKinds, StatusTimers
<1>9. ASSUME NEW p \in Buys, FireStop(p) \/ AnswerPoll(p) \/ CheckBalance(p) PROVE Same(q)
  <2>1. Others
    BY <1>9 DEF FireStop, AnswerPoll, CheckBalance, world, display
  <2>2. CASE UNCHANGED left
    BY <1>1, <2>1, <2>2
  <2>3. ASSUME NEW m \in Mounts, Ended(m, left) PROVE Same(q)
    BY <2>1, <2>3, SameTimers DEF Same, Left
  <2>4. CASE Running("stop", p) /\ Ended(inst[p], [left EXCEPT ![<<"stop", p>>] = Off])
    <3> DEFINE f == [left EXCEPT ![<<"stop", p>>] = Off]
    <3>1. \A k \in StatusTimers : f[<<k, q>>] = Left(k, q)
      BY TimerIn DEF TypeOK, StatusTimers, TimerKinds, Left
    <3>2. inst[p] \in Mounts /\ Ended(inst[p], f)
      BY <2>4 DEF Ended
    <3> HIDE DEF f
    <3> QED
      BY <2>1, <3>1, <3>2, SameTimers DEF Same
  <2> QED
    BY <1>9, <2>2, <2>3, <2>4, EndSteps
<1> QED
  BY <1>3, <1>4, <1>5, <1>7, <1>8, <1>9 DEF Quiet

\* The steps that take one purchase on.
Advance(p) ==
  \/ CreateOrder(p) \/ WalletRejects(p) \/ Deposit(p) \/ Include(p) \/ PostInclusion(p)
  \/ Broadcast(p) \/ InBlock(p) \/ Finalize(p) \/ Drop(p)
  \/ FireInblock(p) \/ FireFinality(p) \/ FireCompleted(p) \/ FireCleanup(p)

\* Every step is quiet, advances one purchase, or lets time pass.
LEMMA Kinds ==
  ASSUME [Next]_vars
  PROVE  \/ \E p \in Buys : Quiet(p) \/ Advance(p)
         \/ Unmount \/ Mount \/ Minimize \/ Expand \/ DismissToasts \/ UNCHANGED vars
         \/ Tick
  BY DEF Next, Buy, Fire, Quiet, Advance

\* The timers of a purchase that its completion sets.
Completing(p) ==
  [left EXCEPT ![<<"completed", p>>] = Off,
               ![<<"cleanup", p>>] = CleanupDelay,
               ![<<"toast", p>>] = IF toast.tx = p THEN ToastDelay ELSE Off]

\* Which timers of which purchase a completion changes.
LEMMA CompletedTimers ==
  ASSUME TypeOK, Unbegun, Instances, NEW p \in Buys, FireCompleted(p),
         NEW k \in StatusTimers \cup {"toast"}, NEW q \in Buys
  PROVE  Left(k, q)' = Completing(p)[<<k, q>>]
<1>1. inst[p] \in Mounts
  <2>1. Running("completed", p)
    BY DEF FireCompleted, Due, Running, Off
  <2> QED
    BY <2>1, BegunHasInstance DEF Unbegun, TimerKinds
<1>2. TimersTyped(Completing(p))
  BY DelaysAreNat DEF Completing, TimersTyped, TypeOK, Off
<1>3. StartPolling(p, Completing(p))
  BY DEF FireCompleted, Completing
<1>4. k \in TimerKinds /\ k \notin {"interval", "first", "stop"}
  BY DEF StatusTimers, TimerKinds
<1> QED
  BY <1>1, <1>2, <1>3, <1>4, StartEffect

\* A step that advances one purchase leaves the list and the timers of the others.
LEMMA Elsewhere ==
  ASSUME TypeOK, Unbegun, Instances, NEW p \in Buys, Advance(p), NEW q \in Buys, q # p
  PROVE  Same(q)
<1>0. /\ \A k \in StatusTimers : k \in TimerKinds /\ <<k, q>> \in Timers
      /\ left \in [Timers -> Nat \cup {Off}] /\ list \in [Buys -> Statuses \cup {"absent"}]
      /\ chain \in [Buys -> {"none", "asked", "rejected", "sent", "broadcast", "inblock", "dropped",
                             "mined", "reverted"}]
  BY TimerIn DEF StatusTimers, TimerKinds, TypeOK
<1>1. ASSUME NEW s, ListStatus(p, s) PROVE list'[q] = list[q]
  BY <1>0, <1>1 DEF ListStatus
<1>2. CASE CreateOrder(p) \/ WalletRejects(p) \/ Include(p) \/ Drop(p)
  BY <1>0, <1>2 DEF CreateOrder, WalletRejects, Include, Drop, Same, Left, display
<1>3. CASE Deposit(p) \/ Broadcast(p)
  BY <1>0, <1>3 DEF Deposit, Broadcast, Appear, Same, Left
<1>4. CASE PostInclusion(p)
  BY <1>0, <1>4 DEF PostInclusion, Same, Left, world, display
<1>5. CASE InBlock(p)
  BY <1>0, <1>1, <1>5 DEF InBlock, Progress, Same, Left, display
<1>6. CASE Finalize(p)
  BY <1>0, <1>1, <1>6 DEF Finalize, Progress, Same, Left, display
<1>7. CASE FireInblock(p) \/ FireFinality(p)
  BY <1>0, <1>1, <1>7 DEF FireInblock, FireFinality, Same, Left, world
<1>8. CASE FireCompleted(p)
  <2>1. \A k \in StatusTimers : Completing(p)[<<k, q>>] = left[<<k, q>>]
    BY <1>0 DEF Completing
  <2> QED
    BY <1>1, <1>8, <2>1, CompletedTimers DEF FireCompleted, Progress, Same, Left, world
<1>9. CASE FireCleanup(p)
  BY <1>0, <1>9 DEF FireCleanup, Same, Left, world
<1> QED
  BY <1>2, <1>3, <1>4, <1>5, <1>6, <1>7, <1>8, <1>9 DEF Advance

Forward(p) ==
  \/ Rank(list'[p]) >= Rank(list[p])
  \/ list[p] = "completed" /\ list'[p] = "absent"

\* The order of the statuses.
LEMMA RankValues ==
  /\ Rank("absent") = 0 /\ Rank("broadcast") = 1 /\ Rank("inblock") = 2
  /\ Rank("finality") = 3 /\ Rank("completed") = 4
  BY DEF Rank

\* A purchase that advances stays in order and its status does not go back.
LEMMA AdvanceStep ==
  ASSUME TypeOK, Unbegun, Instances, NEW p \in Buys, Flow(p), Advance(p)
  PROVE  Flow(p)' /\ Forward(p)
<1>0. /\ <<"inblock", p>> \in Timers /\ <<"finality", p>> \in Timers
      /\ <<"completed", p>> \in Timers /\ <<"cleanup", p>> \in Timers
      /\ left \in [Timers -> Nat \cup {Off}] /\ list \in [Buys -> Statuses \cup {"absent"}]
      /\ chain \in [Buys -> {"none", "asked", "rejected", "sent", "broadcast", "inblock", "dropped",
                             "mined", "reverted"}]
      /\ pc \in [Buys -> {"none", "order", "approve", "wallet", "done"}]
      /\ posted \subseteq Buys
      /\ Left("inblock", p) \in Nat \cup {Off} /\ Left("finality", p) \in Nat \cup {Off}
      /\ list[p] \in {"broadcast", "inblock", "finality", "completed", "absent"}
      /\ InblockDelay \in Nat /\ FinalityDelay \in Nat /\ CompletedDelay \in Nat
      /\ CleanupDelay \in Nat /\ InblockDelay < FinalityDelay
  BY TimerIn, DelaysAreNat, DelaysAssumption DEF TypeOK, TimerKinds, Left, Statuses
<1>1. CASE CreateOrder(p)
  <2>1. /\ pc[p] = "order" /\ pc'[p] \in {"approve", "wallet"} /\ list'[p] = list[p]
        /\ (p \in posted' <=> p \in posted)
        /\ chain'[p] = IF Kind[p] = "avail" THEN "asked" ELSE chain[p]
        /\ Left("inblock", p)' = Left("inblock", p) /\ Left("finality", p)' = Left("finality", p)
        /\ Left("completed", p)' = Left("completed", p) /\ Left("cleanup", p)' = Left("cleanup", p)
    BY <1>0, <1>1 DEF CreateOrder, Goto, Left, display
  <2> QED
    BY <1>0, <2>1, RankValues DEF Flow, Listed, InOrder, Running, Evm, Settled, Left,
       Forward, Off
<1>2. CASE WalletRejects(p)
  <2>1. /\ chain[p] \in {"none", "asked"} /\ chain'[p] = "rejected" /\ pc'[p] = "done"
        /\ list'[p] = list[p]
        /\ (p \in posted' <=> p \in posted)
        /\ Left("inblock", p)' = Left("inblock", p) /\ Left("finality", p)' = Left("finality", p)
        /\ Left("completed", p)' = Left("completed", p) /\ Left("cleanup", p)' = Left("cleanup", p)
    BY <1>0, <1>2 DEF WalletRejects, Return, Left, display
  <2> QED
    BY <1>0, <2>1, RankValues DEF Flow, Listed, InOrder, Running, Evm, Settled, Left,
       Forward, Off
<1>3. CASE Deposit(p)
  <2>1. /\ pc[p] = "wallet" /\ Kind[p] # "avail" /\ pc'[p] = "done"
        /\ chain'[p] = "sent" /\ list'[p] = "broadcast"
        /\ (p \in posted' <=> p \in posted)
        /\ Left("inblock", p)' = InblockDelay /\ Left("finality", p)' = Left("finality", p)
        /\ Left("completed", p)' = Left("completed", p) /\ Left("cleanup", p)' = Left("cleanup", p)
    BY <1>0, <1>3 DEF Deposit, Appear, Return, Left
  <2> QED
    BY <1>0, <2>1, RankValues DEF Flow, Listed, InOrder, Running, Evm, Settled, Left,
       Forward, Off
<1>4. CASE Include(p)
  <2>1. /\ chain[p] = "sent" /\ chain'[p] \in {"mined", "reverted"} /\ pc'[p] = pc[p]
        /\ list'[p] = list[p]
        /\ (p \in posted' <=> p \in posted)
        /\ Left("inblock", p)' = Left("inblock", p) /\ Left("finality", p)' = Left("finality", p)
        /\ Left("completed", p)' = Left("completed", p) /\ Left("cleanup", p)' = Left("cleanup", p)
    BY <1>0, <1>4 DEF Include, Left, display, handler
  <2> QED
    BY <1>0, <2>1, RankValues DEF Flow, Listed, InOrder, Running, Evm, Settled, Left,
       Forward, Off
<1>5. CASE PostInclusion(p)
  <2>1. /\ Kind[p] # "avail" /\ chain[p] \in {"mined", "reverted"} /\ p \notin posted
        /\ chain'[p] = chain[p] /\ pc'[p] = pc[p] /\ list'[p] = list[p] /\ p \in posted'
        /\ Left("inblock", p)' = Left("inblock", p) /\ Left("finality", p)' = FinalityDelay
        /\ Left("completed", p)' = Left("completed", p) /\ Left("cleanup", p)' = Left("cleanup", p)
    BY <1>0, <1>5 DEF PostInclusion, Included, Left, display, handler, world
  <2> QED
    BY <1>0, <2>1, RankValues DEF Flow, Listed, InOrder, Running, Evm, Settled, Left,
       Forward, Off
<1>6. CASE Broadcast(p)
  <2>1. /\ chain[p] = "asked" /\ chain'[p] = "broadcast" /\ pc'[p] = pc[p]
        /\ list'[p] = "broadcast"
        /\ (p \in posted' <=> p \in posted)
        /\ Left("inblock", p)' = Left("inblock", p) /\ Left("finality", p)' = Left("finality", p)
        /\ Left("completed", p)' = Left("completed", p) /\ Left("cleanup", p)' = Left("cleanup", p)
    BY <1>0, <1>6 DEF Broadcast, Appear, Left, handler
  <2> QED
    BY <1>0, <2>1, RankValues DEF Flow, Listed, InOrder, Running, Evm, Settled, Left,
       Forward, Off
<1>7. CASE InBlock(p)
  <2>1. /\ chain[p] \in {"asked", "broadcast"} /\ chain'[p] = "inblock" /\ pc'[p] = pc[p]
        /\ list'[p] = IF list[p] = "absent" THEN "absent" ELSE "inblock"
        /\ (p \in posted' <=> p \in posted)
        /\ Left("inblock", p)' = Left("inblock", p) /\ Left("finality", p)' = Left("finality", p)
        /\ Left("completed", p)' = Left("completed", p) /\ Left("cleanup", p)' = Left("cleanup", p)
    BY <1>0, <1>7 DEF InBlock, Progress, ListStatus, Left, display, handler
  <2> QED
    BY <1>0, <2>1, RankValues DEF Flow, Listed, InOrder, Running, Evm, Settled, Left,
       Forward, Off
<1>8. CASE Finalize(p)
  <2>1. /\ chain[p] = "inblock" /\ chain'[p] \in {"mined", "reverted"} /\ pc'[p] \in {pc[p], "done"}
        /\ list'[p] = IF list[p] = "absent" THEN "absent" ELSE "finality"
        /\ (p \in posted' <=> p \in posted)
        /\ Left("inblock", p)' = Left("inblock", p) /\ Left("finality", p)' = Left("finality", p)
        /\ Left("completed", p)' = IF list[p] = "absent" THEN Left("completed", p)
                                                           ELSE CompletedDelay
        /\ Left("cleanup", p)' = Left("cleanup", p)
    BY <1>0, <1>8 DEF Finalize, Settle, Return, Progress, ListStatus, Left, display, handler
  <2> QED
    BY <1>0, <2>1, RankValues DEF Flow, Listed, InOrder, Running, Evm, Settled, Left,
       Forward, Off
<1>9. CASE Drop(p)
  <2>1. /\ chain[p] \in {"asked", "broadcast", "inblock"} /\ chain'[p] = "dropped"
        /\ pc'[p] \in {pc[p], "done"} /\ list'[p] = list[p]
        /\ (p \in posted' <=> p \in posted)
        /\ Left("inblock", p)' = Left("inblock", p) /\ Left("finality", p)' = Left("finality", p)
        /\ Left("completed", p)' = Left("completed", p) /\ Left("cleanup", p)' = Left("cleanup", p)
    BY <1>0, <1>9 DEF Drop, Settle, Return, Left, display, handler
  <2> QED
    BY <1>0, <2>1, RankValues DEF Flow, Listed, InOrder, Running, Evm, Settled, Left,
       Forward, Off
<1>10. CASE FireInblock(p)
  <2>1. /\ Left("inblock", p) = 0 /\ chain'[p] = chain[p] /\ pc'[p] = pc[p]
        /\ list'[p] = IF list[p] = "absent" THEN "absent" ELSE "inblock"
        /\ (p \in posted' <=> p \in posted)
        /\ Left("inblock", p)' = Off /\ Left("finality", p)' = Left("finality", p)
        /\ Left("completed", p)' = Left("completed", p) /\ Left("cleanup", p)' = Left("cleanup", p)
    BY <1>0, <1>10 DEF FireInblock, Due, ListStatus, Left, handler, world
  <2> QED
    BY <1>0, <2>1, RankValues DEF Flow, Listed, InOrder, Running, Evm, Settled, Left,
       Forward, Off
<1>11. CASE FireFinality(p)
  <2>1. /\ Left("finality", p) = 0 /\ chain'[p] = chain[p] /\ pc'[p] = pc[p]
        /\ list'[p] = IF list[p] = "absent" THEN "absent" ELSE "finality"
        /\ (p \in posted' <=> p \in posted)
        /\ Left("inblock", p)' = Left("inblock", p) /\ Left("finality", p)' = Off
        /\ Left("completed", p)' = CompletedDelay /\ Left("cleanup", p)' = Left("cleanup", p)
    BY <1>0, <1>11 DEF FireFinality, Due, ListStatus, Left, handler, world
  <2> QED
    BY <1>0, <2>1, RankValues DEF Flow, Listed, InOrder, Running, Evm, Settled, Left,
       Forward, Off
<1>12. CASE FireCompleted(p)
  <2>1. /\ Left("completed", p) = 0 /\ chain'[p] = chain[p] /\ pc'[p] = pc[p]
        /\ list'[p] = IF list[p] = "absent" THEN "absent" ELSE "completed"
        /\ (p \in posted' <=> p \in posted)
    BY <1>0, <1>12 DEF FireCompleted, Due, Progress, ListStatus, Left, handler, world
  <2>2. \A k \in StatusTimers : Left(k, p)' = Completing(p)[<<k, p>>]
    BY <1>12, CompletedTimers
  <2>3. /\ Left("inblock", p)' = Left("inblock", p) /\ Left("finality", p)' = Left("finality", p)
        /\ Left("completed", p)' = Off /\ Left("cleanup", p)' = CleanupDelay
    BY <1>0, <2>2 DEF Completing, StatusTimers, Left
  <2> QED
    BY <1>0, <2>1, <2>3, RankValues DEF Flow, Listed, InOrder, Running, Evm, Settled, Left,
       Forward, Off
<1>13. CASE FireCleanup(p)
  <2>1. /\ Left("cleanup", p) = 0 /\ chain'[p] = chain[p] /\ pc'[p] = pc[p]
        /\ list'[p] = "absent"
        /\ (p \in posted' <=> p \in posted)
        /\ Left("inblock", p)' = Left("inblock", p) /\ Left("finality", p)' = Left("finality", p)
        /\ Left("completed", p)' = Left("completed", p) /\ Left("cleanup", p)' = Off
    BY <1>0, <1>13 DEF FireCleanup, Due, Left, handler, world
  <2> QED
    BY <1>0, <2>1, RankValues DEF Flow, Listed, InOrder, Running, Evm, Settled, Left,
       Forward, Off
<1> QED
  BY <1>1, <1>2, <1>3, <1>4, <1>5, <1>6, <1>7, <1>8, <1>9, <1>10, <1>11, <1>12, <1>13 DEF Advance

\* Time takes every running timer on, by the same.
LEMMA TickEffect ==
  ASSUME TypeOK, Tick, NEW k \in TimerKinds, NEW p \in Buys
  PROVE  /\ Left(k, p) \in Nat \cup {Off} /\ Left(k, p) # 0
         /\ Left(k, p)' = IF Left(k, p) = Off THEN Off ELSE Left(k, p) - 1
  BY TimerIn DEF Tick, TypeOK, Left

\* Time that passes keeps the timers of a purchase in order.
LEMMA TickFlow ==
  ASSUME TypeOK, Tick, NEW q \in Buys, Flow(q)
  PROVE  Flow(q)'
<1>1. /\ UNCHANGED <<pc, chain, list, posted>>
  BY DEF Tick, handler, world, display
<1>2. Listed(q)'
  BY <1>1 DEF Flow, Listed, Evm, Settled
<1>3. \A k \in StatusTimers : k \in TimerKinds
  BY DEF StatusTimers, TimerKinds
<1>4. \A k \in StatusTimers :
        /\ Left(k, q) \in Nat \cup {Off} /\ Left(k, q) # 0
        /\ Left(k, q)' = IF Left(k, q) = Off THEN Off ELSE Left(k, q) - 1
  <2> TAKE k \in StatusTimers
  <2> QED
    BY <1>3, TickEffect
<1>5. InOrder(q)'
  BY <1>1, <1>4, DelaysAreNat DEF Flow, InOrder, Running, Left, Evm, StatusTimers, Off
<1> QED
  BY <1>2, <1>5 DEF Flow

\* Every step keeps the flow of every purchase.
LEMMA FlowStep ==
  ASSUME TypeOK, Unbegun, Instances, [Next]_vars, NEW q \in Buys, Flow(q)
  PROVE  Flow(q)' /\ Forward(q)
<1>1. ASSUME Same(q) PROVE Flow(q)' /\ Forward(q)
  <2>1. Flow(q)'
    BY <1>1, HandlersGoOn, FlowKept
  <2>2. list[q] \in {"absent", "broadcast", "inblock", "finality", "completed"}
    BY DEF TypeOK, Statuses
  <2> QED
    BY <1>1, <2>1, <2>2, RankValues DEF Same, Forward
<1>2. ASSUME NEW p \in Buys, Advance(p) PROVE Flow(q)' /\ Forward(q)
  BY <1>1, <1>2, AdvanceStep, Elsewhere
<1>3. CASE Tick
  <2>1. list' = list /\ list[q] \in {"absent", "broadcast", "inblock", "finality", "completed"}
    BY <1>3 DEF Tick, display, TypeOK, Statuses
  <2> QED
    BY <1>3, <2>1, TickFlow, RankValues DEF Forward
<1> QED
  BY <1>1, <1>2, <1>3, Kinds, QuietSteps

\* What a purchase that is not begun is left with.
Fresh(q) ==
  /\ inst[q] = None /\ chain[q] = "none" /\ list[q] = "absent"
  /\ ~asked[q] /\ ~checks[q]
  /\ \A k \in TimerKinds : ~Running(k, q)

\* A step leaves a purchase that is not begun as it was, unless it begins it.
LEMMA FreshKept ==
  ASSUME TypeOK, Unbegun, Instances, [Next]_vars, NEW q \in Buys, pc[q] = "none", pc'[q] = "none"
  PROVE  Fresh(q)'
<1>0. /\ left \in [Timers -> Nat \cup {Off}]
      /\ Fresh(q) /\ \A k \in TimerKinds : left[<<k, q>>] = Off /\ ~Due(k, q)
      /\ \A k \in TimerKinds : <<k, q>> \in Timers
      /\ list[q] = "absent" /\ q # None
  BY TimerIn DEF Unbegun, Fresh, Running, Due, Off, Buys, None, TypeOK
<1>1. inst'[q] = None
  <2>1. ASSUME NEW p \in Buys, Click(p) PROVE inst'[q] = None
    BY <1>0, <2>1 DEF Click, ClickAnyTime, TypeOK, Fresh
  <2> QED
    BY <1>0, <2>1, HandlerSteps DEF Unmount, Mount, Goto, Return, handler, Fresh
<1>2. ~Advance(q) /\ ~Fire(q) /\ ~AnswerPoll(q) /\ ~CheckBalance(q)
  <2>1. ~CreateOrder(q) /\ ~WalletRejects(q) /\ ~Deposit(q)
    BY DEF CreateOrder, WalletRejects, Deposit
  <2>2. /\ ~Include(q) /\ ~PostInclusion(q) /\ ~Broadcast(q) /\ ~InBlock(q) /\ ~Finalize(q)
        /\ ~Drop(q)
    BY <1>0 DEF Fresh, Include, PostInclusion, Included, Broadcast, InBlock, Finalize, Drop
  <2>3. ~Fire(q)
    BY <1>0 DEF Fire, FireInblock, FireFinality, FireCompleted, FireCleanup, FireToast, FirePoll,
       FireStop, TimerKinds
  <2>4. ~AnswerPoll(q) /\ ~CheckBalance(q)
    BY <1>0 DEF Fresh, AnswerPoll, CheckBalance
  <2> QED
    BY <2>1, <2>2, <2>3, <2>4 DEF Advance, Fire
<1>3. chain'[q] = "none" /\ list'[q] = "absent"
  <2>1. CASE Same(q)
    BY <1>0, <2>1 DEF Same, Fresh
  <2>2. CASE Tick
    BY <1>0, <2>2 DEF Tick, world, display, Fresh
  <2> QED
    BY <1>2, <2>1, <2>2, Kinds, QuietSteps, Elsewhere
<1>4. ASSUME NEW p \in Buys, p # q, Fire(p) 
      PROVE  ~asked'[q] /\ ~checks'[q] /\ \A k \in TimerKinds : ~Running(k, q)'
  <2>1. ~asked'[q] /\ ~checks'[q]
    BY <1>0, <1>4 DEF Fire, FireInblock, FireFinality, FireCompleted, FireCleanup, FireToast,
       FirePoll, FireStop, polling, Fresh, TypeOK
  <2>2. CASE FireInblock(p) \/ FireCleanup(p) \/ FireToast(p) \/ FirePoll(p)
    <3>1. PICK k, n : left' = [left EXCEPT ![<<k, p>>] = n]
      BY <2>2 DEF FireInblock, FireCleanup, FireToast, FirePoll
    <3> QED
      BY <1>0, <1>4, <2>1, <3>1 DEF Running
  <2>3. CASE FireFinality(p)
    BY <1>0, <1>4, <2>1, <2>3 DEF FireFinality, Running
  <2>4. CASE FireCompleted(p)
    <3>1. TimersTyped(Completing(p))
      BY DelaysAreNat DEF Completing, TimersTyped, TypeOK, Off
    <3>2. inst[p] \in Mounts
      <4>1. Running("completed", p)
        BY <2>4 DEF FireCompleted, Due, Running, Off
      <4> QED
        BY <4>1, BegunHasInstance DEF Unbegun, TimerKinds
    <3>3. StartPolling(p, Completing(p))
      BY <2>4 DEF FireCompleted, Completing
    <3>4. \A k \in TimerKinds : Completing(p)[<<k, q>>] = Off
      BY <1>0, <1>4 DEF Completing, TypeOK
    <3>5. ASSUME NEW k \in TimerKinds PROVE Left(k, q)' = Off
      <4>1. Left(k, q)' = IF k = "interval" /\ interval[inst[p]] = q THEN Off
                                                                     ELSE Completing(p)[<<k, q>>]
        BY <1>4, <3>1, <3>2, <3>3, StartEffect
      <4> QED
        BY <3>4, <4>1
    <3> QED
      BY <2>1, <3>5 DEF Running, Left
  <2>5. CASE FireStop(p)
    <3> DEFINE f == [left EXCEPT ![<<"stop", p>>] = Off]
    <3>1. TimersTyped(f)
      BY TimerSet DEF TimersTyped, TypeOK, Off
    <3>2. inst[p] \in Mounts
      <4>1. Running("stop", p)
        BY <2>5 DEF FireStop, Due, Running, Off
      <4> QED
        BY <4>1, BegunHasInstance DEF Unbegun, TimerKinds
    <3>3. StopPolling(inst[p], f)
      BY <2>5 DEF FireStop
    <3>4. \A k \in TimerKinds : f[<<k, q>>] = Off
      BY <1>0, <1>4 DEF TypeOK
    <3> HIDE DEF f
    <3>5. ASSUME NEW k \in TimerKinds PROVE Left(k, q)' = Off
      <4>1. Left(k, q)' = IF k = "interval" /\ interval[inst[p]] = q THEN Off ELSE f[<<k, q>>]
        BY <3>1, <3>2, <3>3, StopEffect
      <4> QED
        BY <3>4, <4>1
    <3> QED
      BY <2>1, <3>5 DEF Running, Left
  <2> QED
    BY <1>4, <2>1, <2>2, <2>3, <2>4, <2>5 DEF Fire
<1>5. ASSUME NEW p \in Buys, p # q, AnswerPoll(p) \/ CheckBalance(p)
      PROVE  ~asked'[q] /\ ~checks'[q] /\ \A k \in TimerKinds : ~Running(k, q)'
  <2>1. ~asked'[q] /\ ~checks'[q]
    BY <1>0, <1>5 DEF AnswerPoll, CheckBalance, Fresh, TypeOK
  <2>2. (\E m \in Mounts : Ended(m, left)) \/ UNCHANGED left
    <3>1. TimersTyped(left) /\ mount \in Mounts
      BY DEF TypeOK, TimersTyped
    <3>2. CASE AnswerPoll(p)
      BY <3>1, <3>2 DEF AnswerPoll, ObserveBalance, Ended
    <3>3. CASE CheckBalance(p)
      <4>1. inst[p] \in Mounts
        BY <3>3, BegunHasInstance DEF CheckBalance, Unbegun
      <4> QED
        BY <3>1, <3>3, <4>1 DEF CheckBalance, Ended
    <3> QED
      BY <1>5, <3>2, <3>3
  <2>3. \A k \in TimerKinds : ~Running(k, q)'
    <3>1. ASSUME NEW m \in Mounts, Ended(m, left), NEW k \in TimerKinds PROVE ~Running(k, q)'
      <4>1. Left(k, q)' = IF k = "interval" /\ interval[m] = q THEN Off ELSE left[<<k, q>>]
        BY <3>1, StopEffect DEF Ended
      <4> QED
        BY <1>0, <4>1 DEF Running, Left
    <3>2. ASSUME UNCHANGED left, NEW k \in TimerKinds PROVE ~Running(k, q)'
      BY <1>0, <3>2 DEF Running
    <3> QED
      BY <2>2, <3>1, <3>2
  <2> QED
    BY <2>1, <2>3
<1>6. ASSUME NEW p \in Buys, Buy(p)
      PROVE  ~asked'[q] /\ ~checks'[q] /\ \A k \in TimerKinds : ~Running(k, q)'
  <2>1. ~asked'[q] /\ ~checks'[q]
    BY <1>0, <1>6 DEF Buy, Click, ClickAnyTime, CreateOrder, OrderFails, Approve, WalletRejects,
       Deposit, Include, PostInclusion, WalletTimeout, Broadcast, InBlock, Finalize, Drop, Credit,
       idle, polling, Fresh
  <2>2. CASE UNCHANGED left
    BY <1>0, <2>1, <2>2 DEF Fresh, Running
  <2>3. CASE Deposit(p) \/ PostInclusion(p) \/ Finalize(p)
    <3>1. p # q
      BY <1>2, <2>3 DEF Advance
    <3>2. CASE Deposit(p) \/ PostInclusion(p)
      BY <1>0, <2>1, <3>1, <3>2 DEF Deposit, PostInclusion, Running
    <3>3. CASE Finalize(p)
      BY <1>0, <2>1, <2>2, <3>1, <3>3 DEF Finalize, Running
    <3> QED
      BY <2>3, <3>2, <3>3
  <2> QED
    BY <1>6, <2>2, <2>3 DEF Buy, Click, ClickAnyTime, CreateOrder, OrderFails, Approve,
       WalletRejects, Include, WalletTimeout, Broadcast, InBlock, Drop, Credit, idle
<1>7. ASSUME Tick \/ Unmount \/ Mount \/ Minimize \/ Expand \/ DismissToasts \/ UNCHANGED vars
      PROVE  ~asked'[q] /\ ~checks'[q] /\ \A k \in TimerKinds : ~Running(k, q)'
  <2>1. ~asked'[q] /\ ~checks'[q]
    BY <1>0, <1>7 DEF Tick, Unmount, Mount, Minimize, Expand, DismissToasts, vars, polling, Fresh
  <2>2. CASE UNCHANGED left \/ left' = NoToast
    BY <1>0, <2>1, <2>2 DEF NoToast, Running
  <2>3. CASE Tick
    <3>1. left' = [t \in Timers |-> IF left[t] = Off THEN Off ELSE left[t] - 1]
      BY <2>3 DEF Tick
    <3>2. ASSUME NEW k \in TimerKinds PROVE left'[<<k, q>>] = Off
      BY <1>0, <3>1
    <3> QED
      BY <2>1, <3>2 DEF Running
  <2>4. CASE Minimize \/ Expand \/ DismissToasts
    BY <2>2, <2>4 DEF Minimize, Expand, DismissToasts
  <2>5. CASE Unmount \/ Mount \/ UNCHANGED vars
    BY <2>2, <2>5 DEF Unmount, Mount, vars
  <2> QED
    BY <1>7, <2>3, <2>4, <2>5
<1>8. ~asked'[q] /\ ~checks'[q] /\ \A k \in TimerKinds : ~Running(k, q)'
  BY <1>2, <1>4, <1>5, <1>6, <1>7 DEF Next
<1> QED
  BY <1>1, <1>3, <1>8 DEF Fresh, Running

\* A purchase that has not begun has no timer running, step by step.
LEMMA UnbegunStep == TypeOK /\ Unbegun /\ Instances /\ [Next]_vars => Unbegun'
<1> SUFFICES ASSUME TypeOK, Unbegun, Instances, [Next]_vars, NEW q \in Buys, pc'[q] = "none"
             PROVE  Fresh(q)'
  BY DEF Unbegun, Fresh, Running
<1>1. pc[q] = "none"
  <2>1. ASSUME NEW p \in Buys, Click(p) PROVE pc[q] = "none"
    BY <2>1 DEF Click, ClickAnyTime, TypeOK
  <2>2. ASSUME NEW p \in Buys, Goto(p, "approve") \/ Goto(p, "wallet") \/ Return(p)
        PROVE  pc[q] = "none"
    BY <2>2 DEF Goto, Return, TypeOK
  <2> QED
    BY <2>1, <2>2, HandlerSteps DEF Unmount, Mount, handler
<1> QED
  BY <1>1, FreshKept

-----------------------------------------------------------------------------
(* The dialog and the toast                                                *)

Display == ShownIsListed /\ ToastGoesFirst

\* The two timers that hide a completed purchase.
HidingTimers == {"toast", "cleanup"}

SameHiding(q) == \A k \in HidingTimers : Left(k, q)' = Left(k, q)

\* A step that leaves what is shown keeps the display.
LEMMA DisplayKept ==
  ASSUME Display, UNCHANGED <<list, show, toast>>, \A q \in Buys : SameHiding(q)
  PROVE  Display'
<1>1. ShownIsListed'
  BY DEF Display, ShownIsListed
<1>2. ASSUME NEW q \in Buys, toast'.tx = q, list'[q] = "completed"
      PROVE  Running("toast", q)' /\ Left("toast", q)' < Left("cleanup", q)'
  <2>1. Running("toast", q) /\ Left("toast", q) < Left("cleanup", q)
    BY <1>2 DEF Display, ToastGoesFirst
  <2> QED
    BY <2>1 DEF SameHiding, HidingTimers, Running, Left
<1> QED
  BY <1>1, <1>2 DEF Display, ToastGoesFirst, Left

\* What is on show is an entry of the list.
LEMMA OnShow ==
  ASSUME TypeOK, ShownIsListed
  PROVE  /\ show # Nothing => show.tx \in Buys /\ list[show.tx] = show.status
                              /\ show.status \in Statuses
         /\ toast # Nothing => toast.tx \in Buys /\ list[toast.tx] = toast.status
                               /\ toast.status \in Statuses
         /\ \A q \in Buys : (show.tx = q => show # Nothing) /\ (toast.tx = q => toast # Nothing)
         /\ \A x \in Shown : x # Nothing => x = [tx |-> x.tx, status |-> x.status]
  BY DEF TypeOK, ShownIsListed, Shown, Nothing, None, Buys

\* A status of a listed purchase reaches the copies on show.
LEMMA CopiesFollow ==
  ASSUME TypeOK, ShownIsListed, NEW p \in Buys, NEW s \in Statuses, list[p] # "absent",
         ListStatus(p, s), Shows(p, s) \/ ShowsIfShown(p, s)
  PROVE  /\ ShownIsListed' /\ list' = [list EXCEPT ![p] = s]
         /\ \A q \in Buys : toast'.tx = q <=> toast.tx = q
<1>1. list' = [list EXCEPT ![p] = s] /\ list \in [Buys -> Statuses \cup {"absent"}]
  BY DEF ListStatus, TypeOK
<1>2. toast' = IF toast.tx = p THEN [toast EXCEPT !.status = s] ELSE toast
  BY DEF ListStatus
<1>3. show' # Nothing => list'[show'.tx] = show'.status
  <2>1. CASE Shows(p, s)
    BY <1>1, <2>1 DEF Shows
  <2>2. CASE ShowsIfShown(p, s) /\ show.tx = p
    <3>1. show = [tx |-> show.tx, status |-> show.status]
      BY <2>2, OnShow DEF TypeOK
    <3>2. show' = [tx |-> p, status |-> s]
      BY <2>2, <3>1 DEF ShowsIfShown
    <3> QED
      BY <1>1, <3>2
  <2>3. CASE ShowsIfShown(p, s) /\ show.tx # p
    BY <1>1, <2>3, OnShow DEF ShowsIfShown
  <2> QED
    BY <2>1, <2>2, <2>3
<1>4. /\ toast' # Nothing => list'[toast'.tx] = toast'.status
      /\ toast'.tx = toast.tx
  <2>1. CASE toast.tx = p
    <3>1. toast = [tx |-> toast.tx, status |-> toast.status]
      BY <2>1, OnShow DEF TypeOK
    <3>2. toast' = [tx |-> p, status |-> s]
      BY <1>2, <2>1, <3>1
    <3> QED
      BY <1>1, <2>1, <3>2
  <2>2. CASE toast.tx # p
    BY <1>1, <1>2, <2>2, OnShow
  <2> QED
    BY <2>1, <2>2
<1> QED
  BY <1>1, <1>3, <1>4 DEF ShownIsListed

\* A status before the last one leaves the completed purchases as they were.
LEMMA CopiesFollowUncompleted ==
  ASSUME TypeOK, Display, NEW p \in Buys, NEW s \in Statuses \ {"completed"}, list[p] # "absent",
         ListStatus(p, s), Shows(p, s) \/ ShowsIfShown(p, s),
         \A q \in Buys : SameHiding(q)
  PROVE  Display'
<1>1. /\ ShownIsListed' /\ list' = [list EXCEPT ![p] = s]
      /\ \A q \in Buys : toast'.tx = q <=> toast.tx = q
  BY CopiesFollow DEF Display
<1>2. ASSUME NEW q \in Buys, toast'.tx = q, list'[q] = "completed"
      PROVE  Running("toast", q)' /\ Left("toast", q)' < Left("cleanup", q)'
  <2>1. toast.tx = q /\ list[q] = "completed"
    BY <1>1, <1>2 DEF TypeOK
  <2>2. Running("toast", q) /\ Left("toast", q) < Left("cleanup", q)
    BY <2>1 DEF Display, ToastGoesFirst
  <2> QED
    BY <2>2 DEF SameHiding, HidingTimers, Running, Left
<1> QED
  BY <1>1, <1>2 DEF Display, ToastGoesFirst, Left

\* The steps that touch neither what is on show nor the timers that hide it.
LEMMA HidingKept ==
  ASSUME TypeOK, Unbegun, Instances, NEW p \in Buys, NEW q \in Buys,
         \/ Click(p) \/ CreateOrder(p) \/ OrderFails(p) \/ Approve(p) \/ WalletRejects(p)
         \/ Deposit(p) \/ Include(p) \/ PostInclusion(p) \/ WalletTimeout(p) \/ Broadcast(p)
         \/ InBlock(p) \/ Finalize(p) \/ Drop(p) \/ Credit(p)
         \/ FireInblock(p) \/ FireFinality(p) \/ FirePoll(p)
         \/ FireStop(p) \/ AnswerPoll(p) \/ CheckBalance(p)
  PROVE  SameHiding(q)
<1>0. /\ left \in [Timers -> Nat \cup {Off}]
      /\ \A k \in HidingTimers : /\ <<k, q>> \in Timers /\ k \in TimerKinds
                                 /\ k \notin {"inblock", "finality", "completed", "first",
                                              "interval", "stop"}
  BY TimerIn DEF TypeOK, HidingTimers, TimerKinds
<1>1. CASE \/ Click(p) \/ CreateOrder(p) \/ OrderFails(p) \/ Approve(p) \/ WalletRejects(p)
           \/ Include(p) \/ WalletTimeout(p) \/ Broadcast(p) \/ InBlock(p) \/ Drop(p) \/ Credit(p)
  BY <1>1 DEF Click, ClickAnyTime, CreateOrder, OrderFails, Approve, WalletRejects, Include,
     WalletTimeout, Broadcast, InBlock, Drop, Credit, idle, SameHiding, Left
<1>2. CASE Deposit(p) \/ PostInclusion(p) \/ FireInblock(p) \/ FireFinality(p)
  BY <1>0, <1>2 DEF Deposit, PostInclusion, FireInblock, FireFinality, SameHiding, Left
<1>3. CASE Finalize(p)
  BY <1>0, <1>3 DEF Finalize, SameHiding, Left
<1>4. CASE FirePoll(p)
  BY <1>0, <1>4 DEF FirePoll, SameHiding, Left
<1>5. CASE FireStop(p) \/ AnswerPoll(p) \/ CheckBalance(p)
  <2>1. ASSUME NEW m, NEW f, Ended(m, f), \A k \in HidingTimers : f[<<k, q>>] = left[<<k, q>>]
        PROVE  SameHiding(q)
    <3>1. ASSUME NEW k \in HidingTimers PROVE Left(k, q)' = Left(k, q)
      BY <1>0, <2>1, <3>1, StopEffect DEF Ended, Left
    <3> QED
      BY <3>1 DEF SameHiding
  <2> DEFINE f == [left EXCEPT ![<<"stop", p>>] = Off]
  <2>2. \A k \in HidingTimers : f[<<k, q>>] = left[<<k, q>>]
    BY <1>0
  <2>3. (\E m : Ended(m, f)) \/ (\E m : Ended(m, left)) \/ UNCHANGED left
    BY <1>5, EndSteps
  <2> HIDE DEF f
  <2> QED
    BY <2>1, <2>2, <2>3 DEF SameHiding, Left
<1> QED
  BY <1>1, <1>2, <1>3, <1>4, <1>5

\* Every step keeps the display.
LEMMA DisplayStep ==
  ASSUME TypeOK, Unbegun, Instances, \A p \in Buys : Flow(p), Display, [Next]_vars
  PROVE  Display'
<1> USE DEF Display
<1>0. /\ list \in [Buys -> Statuses \cup {"absent"}]
      /\ \A p \in Buys : list[p] \in {"absent", "broadcast", "inblock", "finality", "completed"}
  BY DEF TypeOK, Statuses
<1>1. ASSUME NEW p \in Buys, \/ Click(p) \/ CreateOrder(p) \/ OrderFails(p) \/ Approve(p)
                             \/ WalletRejects(p) \/ Include(p) \/ PostInclusion(p)
                             \/ WalletTimeout(p) \/ Drop(p) \/ Credit(p) \/ FirePoll(p)
                             \/ FireStop(p) \/ AnswerPoll(p) \/ CheckBalance(p)
      PROVE  Display'
  <2>1. UNCHANGED <<list, show, toast>>
    BY <1>1 DEF Click, ClickAnyTime, CreateOrder, OrderFails, Approve, WalletRejects, Include,
       PostInclusion, WalletTimeout, Drop, Credit, FirePoll, FireStop, AnswerPoll, CheckBalance,
       idle, display
  <2> QED
    BY <1>1, <2>1, HidingKept, DisplayKept
<1>2. ASSUME NEW p \in Buys, Deposit(p) \/ Broadcast(p) PROVE Display'
  <2>1. list[p] = "absent"
    <3>1. Deposit(p) => chain[p] = "none" /\ Evm(p)
      BY DEF Deposit, Flow, Listed, Evm
    <3>2. Broadcast(p) => chain[p] = "asked"
      BY DEF Broadcast
    <3> QED
      BY <1>2, <3>1, <3>2 DEF Flow, Listed
  <2>2. Appear(p)
    BY <1>2 DEF Deposit, Broadcast
  <2>3. toast.tx # p
    BY <2>1, OnShow DEF Statuses
  <2>4. /\ list' = [list EXCEPT ![p] = "broadcast"] /\ toast' = toast
        /\ show' = [tx |-> p, status |-> "broadcast"]
    BY <2>2 DEF Appear, Shows
  <2>5. ShownIsListed'
    BY <1>0, <2>3, <2>4, OnShow DEF ShownIsListed
  <2>6. ASSUME NEW q \in Buys, toast'.tx = q, list'[q] = "completed"
        PROVE  Running("toast", q)' /\ Left("toast", q)' < Left("cleanup", q)'
    <3>1. Running("toast", q) /\ Left("toast", q) < Left("cleanup", q)
      BY <1>0, <2>3, <2>4, <2>6 DEF ToastGoesFirst
    <3> QED
      BY <1>2, <3>1, HidingKept DEF SameHiding, HidingTimers, Running, Left
  <2> QED
    BY <2>5, <2>6 DEF ToastGoesFirst, Left
<1>3. ASSUME NEW p \in Buys, InBlock(p) \/ Finalize(p) PROVE Display'
  <2>1. CASE list[p] = "absent"
    <3>1. UNCHANGED <<list, show, toast>>
      BY <1>3, <2>1 DEF InBlock, Finalize, display
    <3> QED
      BY <1>3, <3>1, HidingKept, DisplayKept
  <2>2. CASE list[p] # "absent"
    <3>1. \E s \in {"inblock", "finality"} :
            ListStatus(p, s) /\ (Shows(p, s) \/ ShowsIfShown(p, s))
      BY <1>3, <2>2 DEF InBlock, Finalize, Progress
    <3>2. \A q \in Buys : SameHiding(q)
      BY <1>3, HidingKept
    <3> QED
      BY <2>2, <3>1, <3>2, CopiesFollowUncompleted DEF Statuses
  <2> QED
    BY <2>1, <2>2
<1>4. ASSUME NEW p \in Buys, FireInblock(p) \/ FireFinality(p) PROVE Display'
  <2>1. Running("inblock", p) \/ Running("finality", p)
    BY <1>4 DEF FireInblock, FireFinality, Due, Running, Off
  <2>2. list[p] # "absent"
    BY <2>1 DEF Flow, InOrder
  <2>3. \E s \in {"inblock", "finality"} : ListStatus(p, s) /\ ShowsIfShown(p, s)
    BY <1>4 DEF FireInblock, FireFinality
  <2> QED
    BY <1>4, <2>2, <2>3, HidingKept, CopiesFollowUncompleted DEF Statuses
<1>5. ASSUME NEW p \in Buys, FireCompleted(p) PROVE Display'
  <2>1. list[p] = "finality"
    <3>1. Running("completed", p)
      BY <1>5 DEF FireCompleted, Due, Running, Off
    <3> QED
      BY <3>1 DEF Flow, InOrder
  <2>2. /\ ShownIsListed' /\ list' = [list EXCEPT ![p] = "completed"]
        /\ \A q \in Buys : toast'.tx = q <=> toast.tx = q
    <3>1. list[p] # "absent" /\ "completed" \in Statuses
      BY <2>1 DEF Statuses
    <3>2. PICK s \in Statuses : s = "completed" /\ ListStatus(p, s)
                                           /\ (Shows(p, s) \/ ShowsIfShown(p, s))
      BY <1>5, <3>1 DEF FireCompleted, Progress
    <3> QED
      BY <3>1, <3>2, CopiesFollow
  <2>3. ASSUME NEW q \in Buys, NEW k \in HidingTimers
        PROVE  Left(k, q)' = Completing(p)[<<k, q>>]
    BY <1>5, CompletedTimers DEF HidingTimers, StatusTimers
  <2>4. ASSUME NEW q \in Buys, toast'.tx = q, list'[q] = "completed"
        PROVE  Running("toast", q)' /\ Left("toast", q)' < Left("cleanup", q)'
    <3>1. toast.tx = q
      BY <2>2, <2>4
    <3>2. <<"toast", q>> \in Timers /\ <<"cleanup", q>> \in Timers /\ DOMAIN left = Timers
      BY TimerIn DEF TypeOK, TimerKinds
    <3>3. /\ Left("toast", q)' = Completing(p)[<<"toast", q>>]
          /\ Left("cleanup", q)' = Completing(p)[<<"cleanup", q>>]
      BY <2>3 DEF HidingTimers
    <3>4. CASE q = p
      BY <3>1, <3>2, <3>3, <3>4, DelaysAreNat, DelaysAssumption DEF Completing, Running, Left, Off
    <3>5. CASE q # p
      <4>1. Running("toast", q) /\ Left("toast", q) < Left("cleanup", q)
        BY <1>0, <2>2, <2>4, <3>1, <3>5 DEF ToastGoesFirst
      <4> QED
        BY <3>2, <3>3, <3>5, <4>1 DEF Completing, Running, Left
    <3> QED
      BY <3>4, <3>5
  <2> QED
    BY <2>2, <2>4 DEF ToastGoesFirst, Left
<1>6. ASSUME NEW p \in Buys, FireCleanup(p) PROVE Display'
  <2>1. left[<<"cleanup", p>>] = 0 /\ list[p] = "completed"
    <3>1. left[<<"cleanup", p>>] = 0 /\ Running("cleanup", p)
      BY <1>6 DEF FireCleanup, Due, Running, Off
    <3> QED
      BY <3>1 DEF Flow, InOrder
  <2>2. toast.tx # p
    <3>1. left[<<"toast", p>>] \in Nat \cup {Off}
      BY TimerIn DEF TypeOK, TimerKinds
    <3> QED
      BY <2>1, <3>1 DEF ToastGoesFirst, Running, Left, Off
  <2>3. /\ list' = [list EXCEPT ![p] = "absent"] /\ show' = Nothing /\ toast' = toast
        /\ left' = [left EXCEPT ![<<"cleanup", p>>] = Off]
    BY <1>6 DEF FireCleanup
  <2>4. ShownIsListed'
    BY <1>0, <2>2, <2>3, OnShow DEF ShownIsListed
  <2>5. ASSUME NEW q \in Buys, toast'.tx = q, list'[q] = "completed"
        PROVE  Running("toast", q)' /\ Left("toast", q)' < Left("cleanup", q)'
    <3>1. q # p /\ Running("toast", q) /\ Left("toast", q) < Left("cleanup", q)
      BY <1>0, <2>2, <2>3, <2>5 DEF ToastGoesFirst
    <3>2. <<"toast", q>> \in Timers /\ <<"cleanup", q>> \in Timers /\ DOMAIN left = Timers
      BY TimerIn DEF TypeOK, TimerKinds
    <3> QED
      BY <2>3, <3>1, <3>2 DEF Running, Left
  <2> QED
    BY <2>4, <2>5 DEF ToastGoesFirst, Left
<1>7. ASSUME NEW p \in Buys, FireToast(p) PROVE Display'
  BY <1>7 DEF FireToast, ShownIsListed, ToastGoesFirst, Nothing, None, Buys
<1>8. CASE Expand \/ DismissToasts
  BY <1>8 DEF Expand, DismissToasts, ShownIsListed, ToastGoesFirst, Nothing, None, Buys
<1>9. CASE Minimize
  <2>1. CASE show.status = "completed"
    <3>1. /\ UNCHANGED <<list, toast, left>> /\ show' = Nothing
      BY <1>9, <2>1 DEF Minimize
    <3> QED
      BY <3>1 DEF ShownIsListed, ToastGoesFirst, Running, Left
  <2>2. CASE show.status # "completed"
    <3>1. /\ UNCHANGED <<list, show>> /\ toast' = show /\ show # Nothing
      BY <1>9, <2>2 DEF Minimize, DialogShown
    <3>2. list'[toast'.tx] # "completed"
      BY <2>2, <3>1 DEF ShownIsListed
    <3> QED
      BY <3>1, <3>2 DEF ShownIsListed, ToastGoesFirst
  <2> QED
    BY <2>1, <2>2
<1>10. CASE Tick
  <2>1. UNCHANGED <<list, show, toast>>
    BY <1>10 DEF Tick, display
  <2>2. ASSUME NEW q \in Buys, toast'.tx = q, list'[q] = "completed"
        PROVE  Running("toast", q)' /\ Left("toast", q)' < Left("cleanup", q)'
    <3>1. Running("toast", q) /\ Left("toast", q) < Left("cleanup", q)
      BY <2>1, <2>2 DEF ToastGoesFirst
    <3>2. \A k \in HidingTimers : k \in TimerKinds
      BY DEF HidingTimers, TimerKinds
    <3>3. ASSUME NEW k \in HidingTimers
          PROVE  /\ Left(k, q) \in Nat \cup {Off} /\ Left(k, q) # 0
                 /\ Left(k, q)' = IF Left(k, q) = Off THEN Off ELSE Left(k, q) - 1
      BY <1>10, <3>2, TickEffect
    <3> QED
      BY <3>1, <3>3 DEF HidingTimers, Running, Left, Off
  <2> QED
    BY <2>1, <2>2 DEF ShownIsListed, ToastGoesFirst, Left
<1>11. CASE Unmount \/ Mount \/ UNCHANGED vars
  BY <1>11, DisplayKept DEF Unmount, Mount, vars, display, SameHiding, Left
<1> QED
  BY <1>1, <1>2, <1>3, <1>4, <1>5, <1>6, <1>7, <1>8, <1>9, <1>10, <1>11 DEF Next, Buy, Fire

-----------------------------------------------------------------------------
(* The invariant                                                           *)

\* The page as first rendered satisfies the invariant.
LEMMA PurchaseInit == Init => PurchaseInv
<1> SUFFICES ASSUME Init PROVE PurchaseInv
  OBVIOUS
<1>1. TypeOK
  <2>1. mount \in Mounts
    BY BoundsAssumption DEF Init, Mounts
  <2>2. /\ mounted \in BOOLEAN /\ loading \in BOOLEAN
        /\ inst \in [Buys -> Mounts \cup {None}] /\ base \in [Buys -> Nat]
    BY BoundsAssumption DEF Init, Mounts
  <2>3. /\ pc \in [Buys -> {"none", "order", "approve", "wallet", "done"}]
        /\ chain \in [Buys -> {"none", "asked", "rejected", "sent", "broadcast", "inblock",
                               "dropped", "mined", "reverted"}]
    BY DEF Init
  <2>4. /\ list \in [Buys -> Statuses \cup {"absent"}]
        /\ show \in Shown /\ open \in BOOLEAN /\ toast \in Shown
        /\ posted \subseteq Buys /\ credited \subseteq Buys
    BY DEF Init, Shown
  <2>5. /\ left \in [Timers -> Nat \cup {Off}] /\ initial \in [Mounts -> Nat \cup {Off}]
        /\ latest \in [Mounts -> Nat] /\ interval \in [Mounts -> Buys \cup {None}]
    BY DEF Init
  <2>6. /\ polls \in [Buys -> Nat] /\ asked \in [Buys -> BOOLEAN] /\ checks \in [Buys -> BOOLEAN]
        /\ awaiting \in BOOLEAN /\ balance \in Nat /\ credit \in Nat
    BY DEF Init
  <2> QED
    BY <2>1, <2>2, <2>3, <2>4, <2>5, <2>6 DEF TypeOK
<1>2. \A k \in TimerKinds, p \in Buys : ~Running(k, p)
  BY TimerIn DEF Init, Running
<1>3. Unbegun
  BY <1>2 DEF Init, Unbegun
<1>4. Instances /\ ButtonWaits /\ OwnInterval
  BY DEF Init, Instances, ButtonWaits, InFlight, OwnInterval
<1>5. PollingIsBounded
  BY <1>2 DEF Init, PollingIsBounded, TimerKinds
<1>6. \A p \in Buys : Flow(p)
  BY <1>2 DEF Init, Flow, Listed, InOrder, Evm, Settled, TimerKinds
<1>7. ShownIsListed /\ ToastGoesFirst
  BY DEF Init, ShownIsListed, ToastGoesFirst, Nothing, None, Buys
<1> QED
  BY <1>1, <1>3, <1>4, <1>5, <1>6, <1>7 DEF PurchaseInv

\* Every step keeps the invariant.
LEMMA PurchaseStep ==
  ASSUME PurchaseInv, [Next]_vars
  PROVE  PurchaseInv' /\ \A p \in Buys : Forward(p)
<1>1. TypeOK' /\ Unbegun' /\ Instances' /\ ButtonWaits'
  BY TypeStep, UnbegunStep, ButtonStep DEF PurchaseInv
<1>2. OwnInterval' /\ PollingIsBounded'
  BY PollingStep DEF PurchaseInv
<1>3. ASSUME NEW q \in Buys PROVE Flow(q)' /\ Forward(q)
  BY FlowStep DEF PurchaseInv
<1>4. ShownIsListed' /\ ToastGoesFirst'
  BY DisplayStep DEF PurchaseInv, Display
<1> QED
  BY <1>1, <1>2, <1>3, <1>4 DEF PurchaseInv

\* The invariant of the purchase page holds in every reachable state.
LEMMA PurchaseInvariant == Spec => []PurchaseInv
<1>1. PurchaseInv /\ [Next]_vars => PurchaseInv'
  BY PurchaseStep
<1> QED
  BY <1>1, PurchaseInit, PTL DEF Spec

\* The state of the page stays well-formed: statuses are those of the list, timers
\* never run below zero, and instances and purchases are among those there are.
THEOREM PurchaseTypes == Spec => []TypeOK
<1>1. PurchaseInv => TypeOK
  BY DEF PurchaseInv
<1> QED
  BY <1>1, PurchaseInvariant, PTL

\* A mounted Buy Now button waits exactly while a handler of its own instance runs,
\* and one instance never runs two, through every error path and every remount.
THEOREM ButtonAlwaysWaits == Spec => []ButtonWaits
<1>1. PurchaseInv => ButtonWaits
  BY DEF PurchaseInv
<1> QED
  BY <1>1, PurchaseInvariant, PTL

\* startCreditBalancePolling never leaves an interval its instance cannot clear, nor
\* an interval or a spinner without an armed safety stop.
THEOREM PollingStaysBounded == Spec => []PollingIsBounded
<1>1. PurchaseInv => PollingIsBounded
  BY DEF PurchaseInv
<1> QED
  BY <1>1, PurchaseInvariant, PTL

\* The timers show a purchase as completed only after its chain has settled it and,
\* for the EVM flows, the backend has its inclusion details.
THEOREM CompletedIsReported == Spec => []CompletedWasReported
<1>1. PurchaseInv => CompletedWasReported
  BY DEF PurchaseInv, CompletedWasReported, Flow, Listed, Settled, Evm
<1> QED
  BY <1>1, PurchaseInvariant, PTL

\* The copies of a transaction in the dialog and in the toast are of an entry that
\* is listed, in its listed status, whatever callbacks and timers have run.
THEOREM ShownStaysListed == Spec => []ShownIsListed
<1>1. PurchaseInv => ShownIsListed
  BY DEF PurchaseInv
<1> QED
  BY <1>1, PurchaseInvariant, PTL

\* No callback or timer takes a listed transaction back to an earlier status, and
\* only a completed one leaves the list.
THEOREM StatusesAdvance == Spec => StatusOnlyAdvances
<1>1. PurchaseInv /\ [Next]_vars =>
        [\A p \in Buys : \/ Rank(list'[p]) >= Rank(list[p])
                         \/ list[p] = "completed" /\ list'[p] = "absent"]_vars
  BY PurchaseStep DEF Forward
<1> QED
  BY <1>1, PurchaseInvariant, PTL DEF Spec, StatusOnlyAdvances
=============================================================================
