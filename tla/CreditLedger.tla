---------------------------- MODULE CreditLedger ----------------------------
(***************************************************************************)
(* The credits of one user: users.credit_balance, credit_used and          *)
(* allocated_credit_balance, and credit_balance and credit_used of the     *)
(* user's apps.  Allocating, reclaiming, deleting an app and billing a     *)
(* submission are a read and a check followed by separate UPDATEs without  *)
(* a transaction, from any number of HTTP requests and attempts at once.   *)
(* A request may stop between two of them: a statement fails, the process  *)
(* dies, or the client disconnects and the handler's future is dropped.    *)
(* The columns are NUMERIC(39, 0), the amounts are not whole, and every    *)
(* column rounds on its own.  Amounts are counted in halves of a credit:   *)
(* an amount that moves from one column to another is rounded alike in     *)
(* both unless it ends in exactly a half.                                  *)
(***************************************************************************)
EXTENDS CreditBilling, FiniteSets, FiniteSetsExt

CONSTANTS
  Apps,         \* app ids
  Reqs,         \* requests that may be under way at the same time
  Amounts,      \* the amounts a client may ask for, in half credits
  Costs,        \* the credit costs of submissions
  Largest,      \* an upper bound of both
  Grants,       \* the amounts credited by administrators and deposits
  MaxGrants,    \* bound: how often credits are granted
  MaxRequests   \* bound: how many requests are made

ASSUME RequestsAssumption == IsFiniteSet(Reqs) /\ Reqs # {}
ASSUME AmountsAssumption ==
  /\ Largest \in Nat
  /\ Amounts \subseteq Int /\ \A n \in Amounts : n <= Largest
  /\ Costs \subseteq 0 .. Largest
  /\ Grants \subseteq Nat
ASSUME LimitsAssumption == MaxGrants \in Nat /\ MaxRequests \in Nat

VARIABLES
  userBal, allocated, userUsed,   \* the row of users
  live,                           \* apps that have a row
  created,                        \* apps that ever had one
  appBal, appUsed,                \* their columns
  pc,                             \* where a request is
  job,                            \* and what it has read or was asked for
  \* history, read by no guard
  funded, refunded, buried, drift, oddUser, oddApp, grants, requests

userVars == <<userBal, allocated, userUsed>>
appVars  == <<live, created, appBal, appUsed>>
reqVars  == <<pc, job>>
odd      == <<oddUser, oddApp>>
history  == <<funded, refunded, buried, drift, odd, grants, requests>>
vars == <<userVars, appVars, reqVars, history>>

\* What a NUMERIC(39, 0) column keeps: whole credits, ties away from zero.
Stored(x) == IF x % 2 = 0 THEN x ELSE IF x > 0 THEN x + 1 ELSE x - 1

\* The UPDATEs of the user's row (of an app's row) by an amount that is not whole.
CountUser(n) == oddUser' = oddUser + (n % 2) /\ UNCHANGED oddApp
CountApp(n)  == oddApp' = oddApp + (n % 2) /\ UNCHANGED oddUser

Labels == {"idle", "allocApp", "allocUser", "reclaimApp", "reclaimUser",
           "refund", "delete", "debitApp", "debitUser"}

\* booked: what the request has added to its app's row and not yet to the user's.
NoJob == [app |-> "none", amount |-> 0, fallback |-> 0, booked |-> 0]

Goto(r, label) == pc' = [pc EXCEPT ![r] = label]

Done(r) == Goto(r, "idle") /\ job' = [job EXCEPT ![r] = NoJob]

\* A request passes its checks and goes on to its first UPDATE.
Begin(r, label, a, n, f) ==
  /\ pc[r] = "idle"
  /\ requests < MaxRequests /\ requests' = requests + 1
  /\ Goto(r, label)
  /\ job' = [job EXCEPT ![r] = [app |-> a, amount |-> n, fallback |-> f, booked |-> 0]]
  /\ UNCHANGED <<userVars, appVars, funded, refunded, buried, drift, odd, grants>>

Init ==
  /\ userBal = 0 /\ allocated = 0 /\ userUsed = 0
  /\ live = {} /\ created = {}
  /\ appBal = [a \in Apps |-> 0] /\ appUsed = [a \in Apps |-> 0]
  /\ pc = [r \in Reqs |-> "idle"]
  /\ job = [r \in Reqs |-> NoJob]
  /\ funded = 0 /\ refunded = 0 /\ buried = 0
  /\ drift = [r \in Reqs |-> 0] /\ oddUser = 0 /\ oddApp = 0
  /\ grants = 0 /\ requests = 0

-----------------------------------------------------------------------------
(* Single statements                                                       *)

\* fund_user of an administrator, and the funds monitor for a deposit.
FundUser(n) ==
  /\ grants < MaxGrants /\ grants' = grants + 1
  /\ userBal' = Stored(userBal + n)
  /\ funded' = funded + n /\ CountUser(n)
  /\ UNCHANGED <<allocated, userUsed, appVars, reqVars, refunded, buried, drift, requests>>

\* generate_app_account: a new id, nothing on it.
GenerateAppAccount(a) ==
  /\ a \notin created
  /\ created' = created \cup {a} /\ live' = live \cup {a}
  /\ UNCHANGED <<userVars, appBal, appUsed, reqVars, history>>

-----------------------------------------------------------------------------
(* allocate_credit_balance                                                 *)

\* Mutant: negative amounts are let through.
AllocateNegative(r, a, n) ==
  /\ n > 0 => userBal >= n
  /\ Begin(r, "allocApp", a, n, 0)

\* Mutant: the balance is not looked at.
AllocateUnfunded(r, a, n) ==
  /\ n >= 0
  /\ Begin(r, "allocApp", a, n, 0)

\* The user's row is read and compared; the app's is not.
Allocate(r, a, n) ==
  /\ n >= 0
  /\ n > 0 => userBal >= n
  /\ Begin(r, "allocApp", a, n, 0)

\* The UPDATE matches no row, and is no error, when the app is not there.
AllocateApp(r) ==
  /\ pc[r] = "allocApp"
  /\ LET a == job[r].app
         n == IF a \in live THEN job[r].amount ELSE 0
     IN  /\ appBal' = [appBal EXCEPT ![a] = Stored(@ + n)]
         /\ job' = [job EXCEPT ![r].booked = n]
         /\ CountApp(n)
  /\ Goto(r, "allocUser")
  /\ UNCHANGED <<userVars, live, created, appUsed, funded, refunded, buried, drift, grants, requests>>

AllocateUser(r) ==
  /\ pc[r] = "allocUser"
  /\ allocated' = Stored(allocated + job[r].amount)
  /\ userBal' = Stored(userBal - job[r].amount)
  /\ CountUser(job[r].amount)
  /\ drift' = [drift EXCEPT ![r] = @ + job[r].booked - job[r].amount]
  /\ Done(r)
  /\ UNCHANGED <<userUsed, appVars, funded, refunded, buried, grants, requests>>

-----------------------------------------------------------------------------
(* reclaim_credits                                                         *)

Reclaim(r, a, n) ==
  /\ n >= 0
  /\ a \in live /\ appBal[a] >= n
  /\ Begin(r, "reclaimApp", a, n, 0)

ReclaimApp(r) ==
  /\ pc[r] = "reclaimApp"
  /\ LET a == job[r].app
         n == IF a \in live THEN job[r].amount ELSE 0
     IN  /\ appBal' = [appBal EXCEPT ![a] = Stored(@ - n)]
         /\ job' = [job EXCEPT ![r].booked = -n]
         /\ CountApp(n)
  /\ Goto(r, "reclaimUser")
  /\ UNCHANGED <<userVars, live, created, appUsed, funded, refunded, buried, drift, grants, requests>>

\* Mutant: the allocation is not taken back.
ReclaimUserStaysAllocated(r) ==
  /\ pc[r] = "reclaimUser"
  /\ userBal' = Stored(userBal + job[r].amount)
  /\ CountUser(job[r].amount)
  /\ drift' = [drift EXCEPT ![r] = @ + job[r].booked + job[r].amount]
  /\ Done(r)
  /\ UNCHANGED <<allocated, userUsed, appVars, funded, refunded, buried, grants, requests>>

ReclaimUser(r) ==
  /\ pc[r] = "reclaimUser"
  /\ allocated' = Stored(allocated - job[r].amount)
  /\ userBal' = Stored(userBal + job[r].amount)
  /\ CountUser(job[r].amount)
  /\ drift' = [drift EXCEPT ![r] = @ + job[r].booked + job[r].amount]
  /\ Done(r)
  /\ UNCHANGED <<userUsed, appVars, funded, refunded, buried, grants, requests>>

-----------------------------------------------------------------------------
(* delete_account_by_id                                                    *)

\* What is returned to the user is credit_used, not credit_balance.
DeleteAccount(r, a) ==
  /\ a \in live
  /\ Begin(r, IF appUsed[a] > 0 THEN "refund" ELSE "delete", a, appUsed[a], 0)

\* allocate_global_credit_balance.
Refund(r) ==
  /\ pc[r] = "refund"
  /\ userBal' = Stored(userBal + job[r].amount)
  /\ CountUser(job[r].amount)
  /\ refunded' = refunded + job[r].amount
  /\ Goto(r, "delete")
  /\ UNCHANGED <<allocated, userUsed, appVars, job, funded, buried, drift, grants, requests>>

\* The row goes and its columns with it; another request may have been faster.
DeleteApp(r) ==
  /\ pc[r] = "delete"
  /\ LET a == job[r].app
     IN  /\ live' = live \ {a}
         /\ buried' = buried + appBal[a] + appUsed[a]
         /\ appBal' = [appBal EXCEPT ![a] = 0]
         /\ appUsed' = [appUsed EXCEPT ![a] = 0]
  /\ Done(r)
  /\ UNCHANGED <<userVars, created, funded, refunded, drift, odd, grants, requests>>

-----------------------------------------------------------------------------
(* A submission is checked against the balances and billed                 *)

\* get_account_by_id and validate_balance; the split is fixed by what was read.
Bill(r, a, c, sel) ==
  /\ a \in live
  /\ BalanceCovers(sel, c, appBal[a], userBal)
  /\ LET bill == BillSplit(sel, c, appBal[a])
     IN  Begin(r, "debitApp", a, bill.credit, bill.fallback)

\* Mutant: the balance goes down, and nothing says what for.
DebitAppUncounted(r) ==
  /\ pc[r] = "debitApp"
  /\ LET a == job[r].app
         n == IF a \in live THEN job[r].amount ELSE 0
     IN  /\ appBal' = [appBal EXCEPT ![a] = Stored(@ - n)]
         /\ CountApp(n)
  /\ IF job[r].fallback > 0 THEN Goto(r, "debitUser") /\ UNCHANGED job ELSE Done(r)
  /\ UNCHANGED <<userVars, live, created, appUsed, funded, refunded, buried, drift, grants, requests>>

DebitApp(r) ==
  /\ pc[r] = "debitApp"
  /\ LET a == job[r].app
         n == IF a \in live THEN job[r].amount ELSE 0
     IN  /\ appBal' = [appBal EXCEPT ![a] = Stored(@ - n)]
         /\ appUsed' = [appUsed EXCEPT ![a] = Stored(@ + n)]
         /\ CountApp(n)
  /\ IF job[r].fallback > 0 THEN Goto(r, "debitUser") /\ UNCHANGED job ELSE Done(r)
  /\ UNCHANGED <<userVars, live, created, funded, refunded, buried, drift, grants, requests>>

DebitUser(r) ==
  /\ pc[r] = "debitUser"
  /\ userBal' = Stored(userBal - job[r].fallback)
  /\ userUsed' = Stored(userUsed + job[r].fallback)
  /\ CountUser(job[r].fallback)
  /\ Done(r)
  /\ UNCHANGED <<allocated, appVars, funded, refunded, buried, drift, grants, requests>>

-----------------------------------------------------------------------------
\* The request stops before its next statement takes effect.
Abandon(r) ==
  /\ pc[r] # "idle"
  /\ drift' = [drift EXCEPT ![r] = @ + job[r].booked]
  /\ Done(r)
  /\ UNCHANGED <<userVars, appVars, funded, refunded, buried, odd, grants, requests>>

Ask(r, a) ==
  \/ \E n \in Amounts : Allocate(r, a, n) \/ Reclaim(r, a, n)
  \/ \E c \in Costs, sel \in Selections : Bill(r, a, c, sel)
  \/ DeleteAccount(r, a)

Step(r) ==
  \/ AllocateApp(r) \/ AllocateUser(r)
  \/ ReclaimApp(r) \/ ReclaimUser(r)
  \/ Refund(r) \/ DeleteApp(r)
  \/ DebitApp(r) \/ DebitUser(r)
  \/ Abandon(r)

Next ==
  \/ \E n \in Grants : FundUser(n)
  \/ \E a \in Apps : GenerateAppAccount(a)
  \/ \E r \in Reqs, a \in Apps : Ask(r, a)
  \/ \E r \in Reqs : Step(r)

Spec == Init /\ [][Next]_vars

-----------------------------------------------------------------------------
(* Properties                                                              *)

Jobs == [app : Apps \cup {"none"}, amount : Nat, fallback : Nat, booked : Int]

\* A whole number of credits.
Whole(x) == x \in Int /\ x % 2 = 0

\* The columns hold whole credits, what an app has used is never negative, and a
\* request moves natural amounts of an app that exists or existed.
TypeOK ==
  /\ Whole(userBal) /\ Whole(allocated) /\ Whole(userUsed)
  /\ live \subseteq created /\ created \subseteq Apps
  /\ appBal \in [Apps -> Int] /\ \A a \in Apps : Whole(appBal[a])
  /\ appUsed \in [Apps -> Nat] /\ \A a \in Apps : Whole(appUsed[a])
  /\ pc \in [Reqs -> Labels]
  /\ job \in [Reqs -> Jobs]
  /\ \A r \in Reqs : pc[r] # "idle" => job[r].app \in Apps
  /\ funded \in Nat /\ refunded \in Nat /\ Whole(buried)
  /\ drift \in [Reqs -> Int]
  /\ oddUser \in Nat /\ oddApp \in Nat
  /\ grants \in Nat /\ requests \in Nat

Within(x, bound) == -bound <= x /\ x <= bound

\* The user's row accounts for every credit that was ever granted: it is
\* spendable, spent as fallback, or allocated, whichever requests overlap and
\* wherever they stop.  The only other source is the refund of a deletion.
\* Whole amounts are accounted for exactly; an UPDATE by an amount that ends in
\* a half may make or lose one credit, because both columns round.
UserLedger ==
  Within(userBal + userUsed + allocated - funded - refunded, 2 * oddUser)

\* The apps' rows hold what the user's row says is allocated, up to what
\* requests are moving, what interrupted ones left on one side only, what went
\* to an app that was not there, what deleted apps took with them, and one
\* credit for every UPDATE of an app's row by an amount that is not whole (half
\* a credit for one of the user's row, whose allocation alone counts here).
Held   == [a \in Apps |-> appBal[a] + appUsed[a]]
Moving == [r \in Reqs |-> job[r].booked + drift[r]]
AppLedger ==
  Within(SumFunctionOnSet(Held, live) + buried - allocated - SumFunctionOnSet(Moving, Reqs),
         2 * oddApp + oddUser)

\* The checks are made on values that may be stale when the UPDATE runs.  That
\* can overdraw a balance by what the other requests under way take, no more.
Overdraft == (Cardinality(Reqs) - 1) * Stored(Largest)
OverdraftBounded ==
  /\ userBal >= -Overdraft
  /\ \A a \in Apps : appBal[a] >= -Overdraft

\* "check if there are allocated credits to this account. If so unlock on the
\* main account" (apps.rs).  Not true: the decision and the amount are taken
\* from credit_used, and the unspent credits go with the row.
DeleteUnlocksAllocation ==
  [][\A r \in Reqs, a \in live :
       /\ pc[r] = "idle" /\ pc'[r] \in {"refund", "delete"}
       /\ job'[r].app = a /\ appBal[a] > 0
       => pc'[r] = "refund" /\ job'[r].amount = appBal[a]]_vars
=============================================================================
