-------------------------- MODULE CreditLedgerProofs --------------------------
(***************************************************************************)
(* For any number of apps and of overlapping requests: the types of        *)
(* CreditLedger, that the user's row and the rows of the apps account for  *)
(* every credit, and how far requests that checked a balance at the same   *)
(* time can overdraw it.                                                   *)
(***************************************************************************)
EXTENDS CreditLedger, SumTheorems

\* A column keeps a whole number of credits.
LEMMA StoredWhole ==
  ASSUME NEW x \in Int
  PROVE  Whole(Stored(x)) /\ (x >= 0 => Stored(x) >= 0)
  BY DEF Whole, Stored

\* Rounding changes what is added to or taken from a whole column by half a
\* credit at most, and only if the amount is not whole.
LEMMA StoredMoves ==
  ASSUME NEW x \in Int, Whole(x), NEW n \in Nat
  PROVE  /\ n % 2 \in {0, 1}
         /\ Within(Stored(x + n) - (x + n), n % 2)
         /\ Within(Stored(x - n) - (x - n), n % 2)
  BY DEF Whole, Stored, Within

\* An amount moved from one whole column to another leaves their sum alone, up
\* to half a credit each if the amount is not whole.
LEMMA MoveKeepsSum ==
  ASSUME NEW x \in Int, Whole(x), NEW y \in Int, Whole(y), NEW n \in Nat
  PROVE  /\ n % 2 \in Nat
         /\ Stored(x + n) \in Int /\ Stored(y - n) \in Int
         /\ Within(Stored(x + n) - (x + n), n % 2)
         /\ Within(Stored(x + n) + Stored(y - n) - x - y, 2 * (n % 2))
<1>1. n % 2 \in {0, 1} /\ Stored(x + n) \in Int /\ Stored(y - n) \in Int
  BY StoredMoves, StoredWhole DEF Whole
<1>2. /\ Within(Stored(x + n) - (x + n), n % 2)
      /\ Within(Stored(y - n) - (y - n), n % 2)
  BY StoredMoves
<1> DEFINE k == n % 2
           p == Stored(x + n)
           q == Stored(y - n)
<1>3. k \in Nat /\ p \in Int /\ q \in Int
  BY <1>1
<1>4. Within(p - (x + n), k) /\ Within(q - (y - n), k)
  BY <1>2
<1> HIDE DEF k, p, q
<1>5. Within(p - (x + n), k) /\ Within(p + q - x - y, 2 * k)
  BY <1>3, <1>4 DEF Within
<1> QED
  BY <1>3, <1>5 DEF k, p, q

\* The parts of a bill are never negative, whatever balance they were split on.
LEMMA BillPartsNat ==
  ASSUME NEW sel \in Selections, NEW cost \in Nat, NEW app \in Int
  PROVE  /\ BillSplit(sel, cost, app).credit \in Nat
         /\ BillSplit(sel, cost, app).fallback \in Nat
  BY DEF BillSplit, Selections

\* A request that begins holds natural amounts for an existing kind of step.
LEMMA BeginTypes ==
  ASSUME TypeOK, NEW r \in Reqs, NEW label \in Labels, NEW a \in Apps,
         NEW n \in Nat, NEW f \in Nat, Begin(r, label, a, n, f)
  PROVE  TypeOK'
  BY DEF TypeOK, Begin, Goto, Jobs, userVars, appVars, odd

\* A request that ends holds nothing.
LEMMA DoneTypes ==
  ASSUME TypeOK, NEW r \in Reqs, Done(r)
  PROVE  /\ pc' \in [Reqs -> Labels] /\ job' \in [Reqs -> Jobs]
         /\ \A q \in Reqs : pc'[q] # "idle" => job'[q].app \in Apps
<1>1. "idle" \in Labels /\ NoJob \in Jobs
  BY DEF Labels, NoJob, Jobs
<1> QED
  BY <1>1 DEF TypeOK, Done, Goto

\* Whatever a request asks for, it begins well typed.
LEMMA AskTypes ==
  ASSUME TypeOK, NEW r \in Reqs, NEW a \in Apps, Ask(r, a)
  PROVE  TypeOK'
<1>1. {"allocApp", "reclaimApp", "refund", "delete", "debitApp"} \subseteq Labels
  BY DEF Labels
<1>2. ASSUME NEW n \in Amounts, Allocate(r, a, n) \/ Reclaim(r, a, n) PROVE TypeOK'
  <2>1. n \in Nat
    BY <1>2, AmountsAssumption DEF Allocate, Reclaim
  <2> QED
    BY <1>1, <1>2, <2>1, BeginTypes DEF Allocate, Reclaim
<1>3. ASSUME NEW c \in Costs, NEW sel \in Selections, Bill(r, a, c, sel) PROVE TypeOK'
  <2>1. appBal[a] \in Int /\ c \in Nat
    BY AmountsAssumption DEF TypeOK
  <2> QED
    BY <1>1, <1>3, <2>1, BillPartsNat, BeginTypes DEF Bill
<1>4. ASSUME DeleteAccount(r, a) PROVE TypeOK'
  <2>1. appUsed[a] \in Nat
    BY DEF TypeOK
  <2>2. PICK label \in {"refund", "delete"} : Begin(r, label, a, appUsed[a], 0)
    BY <1>4 DEF DeleteAccount
  <2> QED
    BY <1>1, <2>1, <2>2, BeginTypes
<1> QED
  BY <1>2, <1>3, <1>4 DEF Ask

\* Every statement of a request keeps the types, rounding included.
LEMMA StepTypes ==
  ASSUME TypeOK, NEW r \in Reqs, Step(r)
  PROVE  TypeOK'
<1>1. /\ job[r].amount \in Nat /\ job[r].fallback \in Nat /\ job[r].booked \in Int
      /\ pc[r] # "idle" => job[r].app \in Apps
  BY DEF TypeOK, Jobs
<1>2. {"idle", "allocUser", "reclaimUser", "delete", "debitUser"} \subseteq Labels
  BY DEF Labels
<1>3. CASE AllocateApp(r) \/ ReclaimApp(r)
  <2>1. PICK n \in Int, label \in Labels :
          /\ appBal' = [appBal EXCEPT ![job[r].app] = Stored(@ + n)]
          /\ job' = [job EXCEPT ![r].booked = n]
          /\ Goto(r, label) /\ pc[r] # "idle"
    <3>1. CASE AllocateApp(r)
      <4> DEFINE n == IF job[r].app \in live THEN job[r].amount ELSE 0
      <4>1. n \in Int
        BY <1>1
      <4>2. /\ appBal' = [appBal EXCEPT ![job[r].app] = Stored(@ + n)]
            /\ job' = [job EXCEPT ![r].booked = n]
            /\ Goto(r, "allocUser") /\ pc[r] # "idle"
        BY <3>1 DEF AllocateApp
      <4> HIDE DEF n
      <4> QED
        BY <1>2, <4>1, <4>2
    <3>2. CASE ReclaimApp(r)
      <4> DEFINE n == IF job[r].app \in live THEN job[r].amount ELSE 0
      <4>1. n \in Int /\ -n \in Int
        BY <1>1
      <4>2. appBal' = [appBal EXCEPT ![job[r].app] = Stored(@ + (-n))]
        <5>1. appBal[job[r].app] - n = appBal[job[r].app] + (-n)
          BY <1>1, <3>2, <4>1 DEF ReclaimApp, TypeOK
        <5> QED
          BY <3>2, <5>1 DEF ReclaimApp
      <4> QED
        BY <1>2, <3>2, <4>1, <4>2 DEF ReclaimApp
    <3> QED
      BY <1>3, <3>1, <3>2
  <2>2. appBal' \in [Apps -> Int] /\ \A a \in Apps : Whole(appBal'[a])
    <3>1. job[r].app \in Apps /\ appBal[job[r].app] + n \in Int
      BY <2>1, <1>1 DEF TypeOK
    <3> QED
      BY <2>1, <3>1, StoredWhole DEF TypeOK, Whole
  <2>5. oddApp' \in Nat /\ oddUser' \in Nat
    <3>1. PICK m \in Nat : CountApp(m)
      BY <1>1, <1>3 DEF AllocateApp, ReclaimApp
    <3> QED
      BY <3>1 DEF CountApp, TypeOK
  <2>3. job' \in [Reqs -> Jobs] /\ \A q \in Reqs : job'[q].app = job[q].app
    BY <2>1, <1>1 DEF TypeOK, Jobs
  <2>4. pc' \in [Reqs -> Labels] /\ \A q \in Reqs : pc'[q] # "idle" => pc[q] # "idle"
    BY <2>1 DEF TypeOK, Goto
  <2> QED
    BY <1>3, <2>2, <2>3, <2>4, <2>5 DEF AllocateApp, ReclaimApp, TypeOK, userVars
<1>4. CASE AllocateUser(r) \/ ReclaimUser(r) \/ Abandon(r)
  <2>1. Done(r) /\ UNCHANGED <<appVars, userUsed, funded, refunded, buried, grants, requests>>
    BY <1>4 DEF AllocateUser, ReclaimUser, Abandon, userVars
  <2>2. /\ Whole(allocated') /\ Whole(userBal')
        /\ oddUser' \in Nat /\ oddApp' \in Nat
    <3>1. /\ allocated + job[r].amount \in Int /\ allocated - job[r].amount \in Int
          /\ userBal + job[r].amount \in Int /\ userBal - job[r].amount \in Int
      BY <1>1 DEF TypeOK, Whole
    <3>2. job[r].amount % 2 \in Nat
      BY <1>1
    <3>3. CASE AllocateUser(r) \/ ReclaimUser(r)
      BY <3>1, <3>2, <3>3, StoredWhole DEF AllocateUser, ReclaimUser, CountUser, TypeOK
    <3>4. CASE Abandon(r)
      BY <3>4 DEF Abandon, userVars, odd, TypeOK
    <3> QED
      BY <1>4, <3>3, <3>4
  <2>3. drift' \in [Reqs -> Int]
    BY <1>1, <1>4 DEF AllocateUser, ReclaimUser, Abandon, TypeOK
  <2> QED
    BY <2>1, <2>2, <2>3, DoneTypes DEF TypeOK, appVars
<1>5. CASE Refund(r)
  <2>1. Whole(userBal') /\ oddUser' \in Nat /\ oddApp' \in Nat
    <3>1. userBal + job[r].amount \in Int /\ job[r].amount % 2 \in Nat
      BY <1>1 DEF TypeOK, Whole
    <3> QED
      BY <1>5, <3>1, StoredWhole DEF Refund, CountUser, TypeOK
  <2> QED
    BY <1>1, <1>2, <1>5, <2>1 DEF Refund, Goto, TypeOK, appVars
<1>6. CASE DeleteApp(r)
  <2>1. job[r].app \in Apps
    BY <1>1, <1>6 DEF DeleteApp
  <2>2. Whole(buried')
    BY <1>6, <2>1 DEF DeleteApp, TypeOK, Whole
  <2>3. /\ appBal' \in [Apps -> Int] /\ \A a \in Apps : Whole(appBal'[a])
        /\ appUsed' \in [Apps -> Nat] /\ \A a \in Apps : Whole(appUsed'[a])
    BY <1>6, <2>1 DEF DeleteApp, TypeOK, Whole
  <2> QED
    BY <1>6, <2>2, <2>3, DoneTypes DEF DeleteApp, TypeOK, userVars, odd
<1>7. CASE DebitApp(r)
  <2> DEFINE a == job[r].app
             n == IF a \in live THEN job[r].amount ELSE 0
  <2>4. a \in Apps /\ n \in Nat /\ n % 2 \in Nat
    BY <1>1, <1>7 DEF DebitApp
  <2>5. /\ appBal' = [appBal EXCEPT ![a] = Stored(@ - n)]
        /\ appUsed' = [appUsed EXCEPT ![a] = Stored(@ + n)]
        /\ CountApp(n)
    BY <1>7 DEF DebitApp
  <2> HIDE DEF a, n
  <2>1. /\ appBal' \in [Apps -> Int] /\ \A b \in Apps : Whole(appBal'[b])
        /\ appUsed' \in [Apps -> Nat] /\ \A b \in Apps : Whole(appUsed'[b])
        /\ oddUser' \in Nat /\ oddApp' \in Nat
    <3>1. appBal[a] - n \in Int /\ appUsed[a] + n \in Int /\ appUsed[a] + n >= 0
      BY <2>4 DEF TypeOK
    <3>2. /\ Whole(Stored(appBal[a] - n))
          /\ Whole(Stored(appUsed[a] + n)) /\ Stored(appUsed[a] + n) >= 0
      BY <3>1, StoredWhole
    <3> QED
      BY <2>4, <2>5, <3>2 DEF CountApp, TypeOK, Whole
  <2>2. /\ pc' \in [Reqs -> Labels] /\ job' \in [Reqs -> Jobs]
        /\ \A q \in Reqs : pc'[q] # "idle" => job'[q].app \in Apps
    BY <1>1, <1>2, <1>7, DoneTypes DEF DebitApp, Goto, TypeOK
  <2> QED
    BY <1>7, <2>1, <2>2 DEF DebitApp, TypeOK, userVars
<1>8. CASE DebitUser(r)
  <2>1. Whole(userBal') /\ Whole(userUsed') /\ oddUser' \in Nat /\ oddApp' \in Nat
    <3>1. /\ userBal - job[r].fallback \in Int /\ userUsed + job[r].fallback \in Int
          /\ job[r].fallback % 2 \in Nat
      BY <1>1 DEF TypeOK, Whole
    <3> QED
      BY <1>8, <3>1, StoredWhole DEF DebitUser, CountUser, TypeOK
  <2> QED
    BY <1>8, <2>1, DoneTypes DEF DebitUser, TypeOK, appVars
<1> QED
  BY <1>3, <1>4, <1>5, <1>6, <1>7, <1>8 DEF Step

\* Every reachable state has the types of the two tables and of the requests;
\* in particular no request ever moves a negative amount.
THEOREM LedgerTypes == Spec => []TypeOK
<1>1. Init => TypeOK
  BY DEF Init, TypeOK, Labels, Jobs, NoJob, Whole
<1>2. TypeOK /\ [Next]_vars => TypeOK'
  <2> SUFFICES ASSUME TypeOK, [Next]_vars PROVE TypeOK'
    OBVIOUS
  <2>1. ASSUME NEW n \in Grants, FundUser(n) PROVE TypeOK'
    <3>1. userBal + n \in Int /\ n \in Nat /\ n % 2 \in Nat
      BY AmountsAssumption DEF TypeOK, Whole
    <3> QED
      BY <2>1, <3>1, StoredWhole DEF FundUser, CountUser, TypeOK, appVars, reqVars
  <2>2. ASSUME NEW a \in Apps, GenerateAppAccount(a) PROVE TypeOK'
    BY <2>2 DEF GenerateAppAccount, TypeOK, userVars, reqVars, history, odd
  <2>3. CASE UNCHANGED vars
    BY <2>3 DEF vars, userVars, appVars, reqVars, history, odd, TypeOK
  <2> QED
    BY <2>1, <2>2, <2>3, AskTypes, StepTypes DEF Next
<1> QED
  BY <1>1, <1>2, PTL DEF Spec

\* Whatever requests overlap, stop or delete, the user's row neither loses nor
\* gains credits, except half a credit for each column an UPDATE by a fraction
\* rounds: every UPDATE moves one amount between two columns, and only grants and
\* refunds come from outside.
THEOREM UserRowAccounts == Spec => []UserLedger
<1>1. Init => UserLedger
  BY DEF Init, UserLedger, Within
<1>2. TypeOK /\ UserLedger /\ [Next]_vars => UserLedger'
  <2> SUFFICES ASSUME TypeOK, UserLedger, [Next]_vars PROVE UserLedger'
    OBVIOUS
  <2>0. /\ userBal \in Int /\ Whole(userBal) /\ allocated \in Int /\ Whole(allocated)
        /\ userUsed \in Int /\ Whole(userUsed)
        /\ funded \in Nat /\ refunded \in Nat /\ oddUser \in Nat
    BY DEF TypeOK, Whole
  <2>1. ASSUME NEW n \in Grants, FundUser(n) PROVE UserLedger'
    <3>0. n \in Nat
      BY AmountsAssumption
    <3>1. /\ oddUser' = oddUser + (n % 2)
          /\ userBal' = Stored(userBal + n) /\ funded' = funded + n
          /\ UNCHANGED <<allocated, userUsed, refunded>>
      BY <2>1 DEF FundUser, CountUser
    <3> DEFINE k == n % 2
    <3>2. k \in Nat /\ userBal' \in Int /\ Within(userBal' - (userBal + n), k)
      BY <2>0, <3>0, <3>1, MoveKeepsSum
    <3> HIDE DEF k
    <3>3. oddUser' = oddUser + k
      BY <3>1 DEF k
    <3> QED
      BY <2>0, <3>0, <3>1, <3>2, <3>3 DEF UserLedger, Within
  <2>2. ASSUME NEW a \in Apps, GenerateAppAccount(a) PROVE UserLedger'
    BY <2>2 DEF GenerateAppAccount, userVars, history, odd, UserLedger
  <2>3. ASSUME NEW r \in Reqs, NEW a \in Apps, Ask(r, a) PROVE UserLedger'
    BY <2>3 DEF Ask, Allocate, Reclaim, Bill, DeleteAccount, Begin, userVars, odd, UserLedger
  <2>4. ASSUME NEW r \in Reqs, Step(r) PROVE UserLedger'
    <3>1. job[r].amount \in Nat /\ job[r].fallback \in Nat
      BY DEF TypeOK, Jobs
    <3>2. CASE AllocateUser(r)
      <4>1. /\ oddUser' = oddUser + (job[r].amount % 2)
            /\ allocated' = Stored(allocated + job[r].amount) /\ userBal' = Stored(userBal - job[r].amount)
            /\ UNCHANGED <<userUsed, funded, refunded>>
        BY <3>2 DEF AllocateUser, CountUser
      <4> DEFINE k == job[r].amount % 2
      <4>2. k \in Nat /\ allocated' \in Int /\ userBal' \in Int /\ Within(allocated' + userBal' - allocated - userBal, 2 * k)
        BY <2>0, <3>1, <4>1, MoveKeepsSum
      <4> HIDE DEF k
      <4>3. oddUser' = oddUser + k
        BY <4>1 DEF k
      <4> QED
        BY <2>0, <4>1, <4>2, <4>3 DEF UserLedger, Within
    <3>3. CASE ReclaimUser(r)
      <4>1. /\ oddUser' = oddUser + (job[r].amount % 2)
            /\ userBal' = Stored(userBal + job[r].amount) /\ allocated' = Stored(allocated - job[r].amount)
            /\ UNCHANGED <<userUsed, funded, refunded>>
        BY <3>3 DEF ReclaimUser, CountUser
      <4> DEFINE k == job[r].amount % 2
      <4>2. k \in Nat /\ userBal' \in Int /\ allocated' \in Int /\ Within(userBal' + allocated' - userBal - allocated, 2 * k)
        BY <2>0, <3>1, <4>1, MoveKeepsSum
      <4> HIDE DEF k
      <4>3. oddUser' = oddUser + k
        BY <4>1 DEF k
      <4> QED
        BY <2>0, <4>1, <4>2, <4>3 DEF UserLedger, Within
    <3>4. CASE Refund(r)
      <4>1. /\ oddUser' = oddUser + (job[r].amount % 2)
            /\ userBal' = Stored(userBal + job[r].amount) /\ refunded' = refunded + job[r].amount
            /\ UNCHANGED <<allocated, userUsed, funded>>
        BY <3>4 DEF Refund, CountUser
      <4> DEFINE k == job[r].amount % 2
      <4>2. k \in Nat /\ userBal' \in Int /\ Within(userBal' - (userBal + job[r].amount), k)
        BY <2>0, <3>1, <4>1, MoveKeepsSum
      <4> HIDE DEF k
      <4>3. oddUser' = oddUser + k
        BY <4>1 DEF k
      <4> QED
        BY <2>0, <3>1, <4>1, <4>2, <4>3 DEF UserLedger, Within
    <3>5. CASE DebitUser(r)
      <4>1. /\ oddUser' = oddUser + (job[r].fallback % 2)
            /\ userUsed' = Stored(userUsed + job[r].fallback) /\ userBal' = Stored(userBal - job[r].fallback)
            /\ UNCHANGED <<allocated, funded, refunded>>
        BY <3>5 DEF DebitUser, CountUser
      <4> DEFINE k == job[r].fallback % 2
      <4>2. k \in Nat /\ userUsed' \in Int /\ userBal' \in Int /\ Within(userUsed' + userBal' - userUsed - userBal, 2 * k)
        BY <2>0, <3>1, <4>1, MoveKeepsSum
      <4> HIDE DEF k
      <4>3. oddUser' = oddUser + k
        BY <4>1 DEF k
      <4> QED
        BY <2>0, <4>1, <4>2, <4>3 DEF UserLedger, Within
    <3>6. CASE AllocateApp(r) \/ ReclaimApp(r) \/ DebitApp(r)
      BY <3>6 DEF AllocateApp, ReclaimApp, DebitApp, CountApp, userVars, UserLedger
    <3>7. CASE DeleteApp(r) \/ Abandon(r)
      BY <3>7 DEF DeleteApp, Abandon, userVars, odd, UserLedger
    <3> QED
      BY <2>4, <3>2, <3>3, <3>4, <3>5, <3>6, <3>7 DEF Step
  <2>5. CASE UNCHANGED vars
    BY <2>5 DEF vars, userVars, history, odd, UserLedger
  <2> QED
    BY <2>1, <2>2, <2>3, <2>4, <2>5 DEF Next
<1> QED
  BY <1>1, <1>2, LedgerTypes, PTL DEF Spec
-----------------------------------------------------------------------------
(* The rows of the apps                                                    *)

\* An app without a row holds nothing, and only a request between its two
\* UPDATEs has booked something on one side.
RowsGone == \A a \in Apps \ live : appBal[a] = 0 /\ appUsed[a] = 0
BookedBetween ==
  \A r \in Reqs : pc[r] \notin {"allocUser", "reclaimUser"} => job[r].booked = 0

AppsInv == TypeOK /\ IsFiniteSet(live) /\ RowsGone /\ BookedBetween /\ AppLedger

HeldSum   == SumFunctionOnSet(Held, live)
MovingSum == SumFunctionOnSet(Moving, Reqs)

\* The two sums of AppLedger are over integers, and are integers.
LEMMA LedgerSumsInt ==
  ASSUME TypeOK, IsFiniteSet(live)
  PROVE  /\ \A a \in Apps : Held[a] \in Int
         /\ \A r \in Reqs : Moving[r] \in Int
         /\ HeldSum \in Int /\ MovingSum \in Int
<1>1. \A a \in Apps : Held[a] \in Int
  BY DEF TypeOK, Held
<1>2. \A r \in Reqs : Moving[r] \in Int
  BY DEF TypeOK, Moving, Jobs
<1>3. live \subseteq Apps
  BY DEF TypeOK
<1> QED
  BY <1>1, <1>2, <1>3, SumInt, RequestsAssumption DEF HeldSum, MovingSum

\* Writing one app's columns changes the sum by what it changes that row.
LEMMA HeldChanges ==
  ASSUME TypeOK, TypeOK', IsFiniteSet(live), live' = live, NEW a \in Apps,
         \A b \in Apps : b # a => appBal'[b] = appBal[b] /\ appUsed'[b] = appUsed[b],
         a \notin live => appBal'[a] + appUsed'[a] = appBal[a] + appUsed[a]
  PROVE  HeldSum' = HeldSum + (appBal'[a] + appUsed'[a]) - (appBal[a] + appUsed[a])
<1>1. /\ \A b \in Apps : Held[b] \in Int /\ Held'[b] \in Int
      /\ HeldSum \in Int
  BY LedgerSumsInt DEF TypeOK, Held
<1>2. /\ \A b \in Apps : b # a => Held'[b] = Held[b]
      /\ Held[a] = appBal[a] + appUsed[a] /\ Held'[a] = appBal'[a] + appUsed'[a]
  BY DEF Held
<1>3. live \subseteq Apps
  BY DEF TypeOK
<1> DEFINE f == Held
           g == Held'
<1>4. HeldSum = SumFunctionOnSet(f, live) /\ HeldSum' = SumFunctionOnSet(g, live)
  BY DEF HeldSum
<1>5. /\ \A b \in live : f[b] \in Int /\ g[b] \in Int
      /\ \A b \in live : b # a => g[b] = f[b]
  BY <1>1, <1>2, <1>3
<1> HIDE DEF f, g
<1>6. CASE a \in live
  <2>1. SumFunctionOnSet(g, live) = SumFunctionOnSet(f, live) + g[a] - f[a]
    BY <1>6, <1>5, SumChange
  <2> QED
    BY <1>1, <1>2, <1>4, <2>1 DEF f, g
<1>7. CASE a \notin live
  <2>1. SumFunctionOnSet(g, live) = SumFunctionOnSet(f, live)
    BY <1>7, <1>5, SumSame
  <2> QED
    BY <1>1, <1>2, <1>4, <1>7, <2>1 DEF f, g
<1> QED
  BY <1>6, <1>7

\* A step of one request changes the sum by what it changes of its own.
LEMMA MovingChanges ==
  ASSUME TypeOK, TypeOK', NEW r \in Reqs,
         \A q \in Reqs : q # r => job'[q] = job[q] /\ drift'[q] = drift[q]
  PROVE  MovingSum' = MovingSum + (job'[r].booked + drift'[r]) - (job[r].booked + drift[r])
<1>1. \A q \in Reqs : Moving[q] \in Int /\ Moving'[q] \in Int
  BY DEF TypeOK, Moving, Jobs
<1>2. /\ \A q \in Reqs : q # r => Moving'[q] = Moving[q]
      /\ Moving[r] = job[r].booked + drift[r] /\ Moving'[r] = job'[r].booked + drift'[r]
  BY DEF Moving
<1> DEFINE f == Moving
           g == Moving'
<1>3. MovingSum = SumFunctionOnSet(f, Reqs) /\ MovingSum' = SumFunctionOnSet(g, Reqs)
  BY DEF MovingSum
<1>4. /\ \A q \in Reqs : f[q] \in Int /\ g[q] \in Int
      /\ \A q \in Reqs : q # r => g[q] = f[q]
  BY <1>1, <1>2
<1> HIDE DEF f, g
<1>5. IsFiniteSet(Reqs)
  BY RequestsAssumption
<1>6. SumFunctionOnSet(g, Reqs) = SumFunctionOnSet(f, Reqs) + g[r] - f[r]
  BY ONLY <1>4, <1>5, r \in Reqs, SumChange
<1> QED
  BY <1>2, <1>3, <1>6 DEF f, g
\* A step that moves both sides of the ledger alike, up to the rounding it counts.
LEMMA LedgerMoves ==
  ASSUME AppsInv, TypeOK', HeldSum' \in Int, MovingSum' \in Int,
         Within((HeldSum' - HeldSum) + (buried' - buried) - (allocated' - allocated)
                  - (MovingSum' - MovingSum),
                2 * (oddApp' - oddApp) + (oddUser' - oddUser))
  PROVE  AppLedger'
<1>1. /\ HeldSum \in Int /\ MovingSum \in Int /\ buried \in Int /\ allocated \in Int
      /\ oddApp \in Nat /\ oddUser \in Nat
  BY LedgerSumsInt DEF AppsInv, TypeOK, Whole
<1>2. /\ buried' \in Int /\ allocated' \in Int /\ oddApp' \in Nat /\ oddUser' \in Nat
  BY DEF TypeOK, Whole
<1>3. Within(HeldSum + buried - allocated - MovingSum, 2 * oddApp + oddUser)
  BY DEF AppsInv, AppLedger, HeldSum, MovingSum
<1> DEFINE g == HeldSum + buried - allocated - MovingSum
           h == HeldSum' + buried' - allocated' - MovingSum'
           s == 2 * oddApp + oddUser
           u == 2 * oddApp' + oddUser'
<1>4. g \in Int /\ h \in Int /\ s \in Int /\ u \in Int
  BY <1>1, <1>2
<1>5. Within(h - g, u - s)
  <2>1. /\ (HeldSum' - HeldSum) + (buried' - buried) - (allocated' - allocated)
             - (MovingSum' - MovingSum) = h - g
        /\ 2 * (oddApp' - oddApp) + (oddUser' - oddUser) = u - s
    BY <1>1, <1>2
  <2> HIDE DEF g, h, s, u
  <2> QED
    BY <2>1
<1> HIDE DEF g, h, s, u
<1>6. Within(g, s)
  BY <1>3 DEF g, s
<1>7. Within(h, u)
  BY <1>4, <1>5, <1>6 DEF Within
<1> QED
  BY <1>7 DEF AppLedger, HeldSum, MovingSum, h, u

\* What rounding a whole column leaves of an amount added to or taken from it.
LEMMA StoredSteps ==
  ASSUME NEW x \in Int, Whole(x), NEW n \in Nat
  PROVE  /\ n % 2 \in Nat
         /\ Within(Stored(x + n) - x - n, n % 2)
         /\ Within(Stored(x - n) - x + n, n % 2)
         /\ Stored(x + n) \in Int /\ Stored(x - n) \in Int
         /\ n = 0 => Stored(x + n) = x /\ Stored(x - n) = x
<1>1. n % 2 \in {0, 1} /\ Stored(x + n) \in Int /\ Stored(x - n) \in Int
  BY StoredMoves, StoredWhole DEF Whole
<1>2. /\ Within(Stored(x + n) - (x + n), n % 2)
      /\ Within(Stored(x - n) - (x - n), n % 2)
  BY StoredMoves
<1> DEFINE p == Stored(x + n)
           q == Stored(x - n)
<1>3. /\ p - (x + n) = p - x - n
      /\ q - (x - n) = q - x + n
  <2> HIDE DEF p, q
  <2> QED
    BY <1>1 DEF p, q
<1>4. ASSUME n = 0 PROVE Stored(x + n) = x /\ Stored(x - n) = x
  BY <1>4 DEF Whole, Stored
<1> QED
  BY <1>1, <1>2, <1>3, <1>4

\* A request that begins or ends leaves the apps' rows alone.
LEMMA RowsUntouched ==
  ASSUME UNCHANGED <<appBal, appUsed, live>>
  PROVE  HeldSum' = HeldSum /\ (RowsGone => RowsGone')
BY DEF HeldSum, Held, RowsGone

\* The first UPDATE of an allocation or of a reclamation books on the request
\* what it moves in the app's row, half a credit apart if it is not whole.
LEMMA AppUpdateKeepsApps ==
  ASSUME AppsInv, TypeOK', NEW r \in Reqs, AllocateApp(r) \/ ReclaimApp(r)
  PROVE  RowsGone' /\ BookedBetween' /\ AppLedger'
<1> DEFINE a == job[r].app
           n == IF a \in live THEN job[r].amount ELSE 0
<1>1. a \in Apps /\ n \in Nat /\ job[r].booked = 0 /\ job[r] \in Jobs
  BY DEF AppsInv, TypeOK, Jobs, BookedBetween, AllocateApp, ReclaimApp
<1>2. appBal[a] \in Int /\ Whole(appBal[a]) /\ appUsed[a] \in Int
  BY <1>1 DEF AppsInv, TypeOK
<1>3. PICK d \in Int : /\ appBal'[a] \in Int
                       /\ a \notin live => appBal'[a] = appBal[a]
                       /\ job'[r].booked = d
                       /\ Within(appBal'[a] - appBal[a] - d, n % 2)
                       /\ \A b \in Apps : b # a => appBal'[b] = appBal[b]
                       /\ \A q \in Reqs : q # r => job'[q] = job[q]
  <2>1. CASE AllocateApp(r)
    <3>1. /\ appBal' = [appBal EXCEPT ![a] = Stored(@ + n)]
          /\ job' = [job EXCEPT ![r].booked = n]
      BY <2>1 DEF AllocateApp
    <3>2. a \notin live => n = 0
      OBVIOUS
    <3> HIDE DEF a, n
    <3>3. appBal'[a] = Stored(appBal[a] + n) /\ job'[r].booked = n
      BY <1>1, <3>1 DEF AppsInv, TypeOK, Jobs
    <3> QED
      BY <1>1, <1>2, <3>1, <3>2, <3>3, StoredSteps DEF AppsInv, TypeOK
  <2>2. CASE ReclaimApp(r)
    <3>1. /\ appBal' = [appBal EXCEPT ![a] = Stored(@ - n)]
          /\ job' = [job EXCEPT ![r].booked = -n]
      BY <2>2 DEF ReclaimApp
    <3>2. a \notin live => n = 0
      OBVIOUS
    <3> HIDE DEF a, n
    <3>3. appBal'[a] = Stored(appBal[a] - n) /\ job'[r].booked = -n
      BY <1>1, <3>1 DEF AppsInv, TypeOK, Jobs
    <3>4. appBal'[a] \in Int /\ appBal'[a] - appBal[a] - (-n) = appBal'[a] - appBal[a] + n
      BY <1>1, <1>2, <3>3, StoredSteps
    <3>5. Within(appBal'[a] - appBal[a] - (-n), n % 2)
      BY <1>1, <1>2, <3>3, <3>4, StoredSteps
    <3>6. -n \in Int
      BY <1>1
    <3> QED
      BY <1>1, <1>2, <3>1, <3>2, <3>3, <3>4, <3>5, <3>6, StoredSteps DEF AppsInv, TypeOK
  <2> QED
    BY <2>1, <2>2
<1>4. /\ oddApp' = oddApp + (n % 2)
      /\ UNCHANGED <<oddUser, appUsed, live, buried, allocated, drift>>
  BY DEF AllocateApp, ReclaimApp, CountApp, userVars
<1>5. RowsGone'
  BY <1>1, <1>3, <1>4 DEF AppsInv, RowsGone
<1>6. BookedBetween'
  <2>1. pc' \in [Reqs -> Labels] /\ pc'[r] \in {"allocUser", "reclaimUser"}
        /\ \A q \in Reqs : q # r => pc'[q] = pc[q]
    BY DEF AllocateApp, ReclaimApp, Goto, AppsInv, TypeOK
  <2> QED
    BY <1>3, <2>1 DEF AppsInv, BookedBetween
<1>7. n % 2 \in Nat
  BY <1>1
<1> HIDE DEF a, n
<1>8. HeldSum' = HeldSum + (appBal'[a] - appBal[a])
  <2>1. HeldSum' = HeldSum + (appBal'[a] + appUsed'[a]) - (appBal[a] + appUsed[a])
    BY <1>1, <1>3, <1>4, HeldChanges DEF AppsInv
  <2>2. HeldSum \in Int
    BY LedgerSumsInt DEF AppsInv
  <2> QED
    BY <1>2, <1>3, <1>4, <2>1, <2>2
<1>9. MovingSum' = MovingSum + d
  <2>1. MovingSum' = MovingSum + (job'[r].booked + drift'[r]) - (job[r].booked + drift[r])
    BY <1>3, <1>4, MovingChanges DEF AppsInv
  <2>2. MovingSum \in Int /\ drift[r] \in Int
    BY LedgerSumsInt DEF AppsInv, TypeOK
  <2> QED
    BY <1>1, <1>3, <1>4, <2>1, <2>2
<1>10. AppLedger'
  <2> DEFINE e == appBal'[a] - appBal[a]
             k == n % 2
  <2>1. e \in Int /\ k \in Nat /\ Within(e - d, k)
    BY <1>2, <1>3, <1>7
  <2>2. /\ buried \in Int /\ allocated \in Int /\ oddUser \in Nat /\ oddApp \in Nat
        /\ HeldSum \in Int /\ MovingSum \in Int
    BY LedgerSumsInt DEF AppsInv, TypeOK, Whole
  <2>3. HeldSum' = HeldSum + e /\ oddApp' = oddApp + k
    BY <1>4, <1>8
  <2> HIDE DEF e, k
  <2>4. Within((HeldSum' - HeldSum) + (buried' - buried) - (allocated' - allocated)
                 - (MovingSum' - MovingSum),
               2 * (oddApp' - oddApp) + (oddUser' - oddUser))
    BY <1>4, <1>9, <2>1, <2>2, <2>3 DEF Within
  <2>5. HeldSum' \in Int /\ MovingSum' \in Int
    BY <1>9, <2>1, <2>2, <2>3
  <2> QED
    BY <2>4, <2>5, LedgerMoves
<1> QED
  BY <1>5, <1>6, <1>10

\* The second UPDATE settles it against the allocation of the user's row.
LEMMA UserUpdateKeepsApps ==
  ASSUME AppsInv, TypeOK', NEW r \in Reqs, AllocateUser(r) \/ ReclaimUser(r)
  PROVE  RowsGone' /\ BookedBetween' /\ AppLedger'
<1> DEFINE n == job[r].amount
<1>1. n \in Nat /\ job[r].booked \in Int /\ drift[r] \in Int /\ job[r] \in Jobs
  BY DEF AppsInv, TypeOK, Jobs
<1>2. allocated \in Int /\ Whole(allocated)
  BY DEF AppsInv, TypeOK, Whole
<1>3. /\ Done(r) /\ oddUser' = oddUser + (n % 2)
      /\ UNCHANGED <<oddApp, appBal, appUsed, live, buried>>
  BY DEF AllocateUser, ReclaimUser, CountUser, appVars
<1>4. PICK d \in Int : /\ drift'[r] = drift[r] + job[r].booked - d
                       /\ allocated' \in Int /\ Within(allocated' - allocated - d, n % 2)
                       /\ \A q \in Reqs : q # r => drift'[q] = drift[q]
  <2>1. CASE AllocateUser(r)
    <3>1. /\ allocated' = Stored(allocated + n)
          /\ drift' = [drift EXCEPT ![r] = @ + job[r].booked - n]
      BY <2>1 DEF AllocateUser
    <3> HIDE DEF n
    <3> QED
      BY <1>1, <1>2, <3>1, StoredSteps DEF AppsInv, TypeOK
  <2>2. CASE ReclaimUser(r)
    <3>1. /\ allocated' = Stored(allocated - n)
          /\ drift' = [drift EXCEPT ![r] = @ + job[r].booked + n]
      BY <2>2 DEF ReclaimUser
    <3> HIDE DEF n
    <3>2. drift'[r] = drift[r] + job[r].booked + n
      BY <3>1 DEF AppsInv, TypeOK
    <3>3. allocated' \in Int
      BY <1>1, <1>2, <3>1, StoredSteps
    <3>4. /\ drift'[r] = drift[r] + job[r].booked - (-n) /\ -n \in Int
          /\ allocated' - allocated - (-n) = allocated' - allocated + n
      BY <1>1, <1>2, <3>2, <3>3
    <3>5. Within(allocated' - allocated - (-n), n % 2)
      BY <1>1, <1>2, <3>1, <3>4, StoredSteps
    <3> QED
      BY <3>1, <3>3, <3>4, <3>5 DEF AppsInv, TypeOK
  <2> QED
    BY <2>1, <2>2
<1>5. n % 2 \in Nat
  BY <1>1
<1>6. /\ job'[r] = NoJob /\ \A q \in Reqs : q # r => job'[q] = job[q] /\ pc'[q] = pc[q]
      /\ pc'[r] = "idle"
  BY <1>3 DEF Done, Goto, AppsInv, TypeOK
<1>7. BookedBetween'
  BY <1>6 DEF AppsInv, BookedBetween, NoJob
<1>8. HeldSum' = HeldSum /\ RowsGone'
  BY <1>3, RowsUntouched DEF AppsInv
<1> HIDE DEF n
<1>9. MovingSum' = MovingSum + (-d)
  <2>1. MovingSum' = MovingSum + (job'[r].booked + drift'[r]) - (job[r].booked + drift[r])
    BY <1>4, <1>6, MovingChanges DEF AppsInv
  <2>2. MovingSum \in Int /\ job'[r].booked = 0
    BY <1>6, LedgerSumsInt DEF AppsInv, NoJob
  <2> QED
    BY <1>1, <1>4, <2>1, <2>2
<1>10. AppLedger'
  <2> DEFINE e == allocated' - allocated
             k == n % 2
  <2>1. e \in Int /\ k \in Nat /\ Within(e - d, k)
    BY <1>2, <1>4, <1>5
  <2>2. /\ buried \in Int /\ oddUser \in Nat /\ oddApp \in Nat
        /\ HeldSum \in Int /\ MovingSum \in Int
    BY LedgerSumsInt DEF AppsInv, TypeOK, Whole
  <2>3. allocated' - allocated = e /\ oddUser' = oddUser + k
    BY <1>2, <1>3, <1>4
  <2> HIDE DEF e, k
  <2>4. Within((HeldSum' - HeldSum) + (buried' - buried) - (allocated' - allocated)
                 - (MovingSum' - MovingSum),
               2 * (oddApp' - oddApp) + (oddUser' - oddUser))
    BY <1>3, <1>8, <1>9, <2>1, <2>2, <2>3 DEF Within
  <2>5. HeldSum' \in Int /\ MovingSum' \in Int
    BY <1>8, <1>9, <2>2
  <2> QED
    BY <2>4, <2>5, LedgerMoves
<1> QED
  BY <1>7, <1>8, <1>10
\* A bill moves an amount between two columns of the app's row.
LEMMA DebitAppKeepsApps ==
  ASSUME AppsInv, TypeOK', NEW r \in Reqs, DebitApp(r)
  PROVE  RowsGone' /\ BookedBetween' /\ AppLedger'
<1> DEFINE a == job[r].app
           n == IF a \in live THEN job[r].amount ELSE 0
<1>1. a \in Apps /\ n \in Nat /\ (a \notin live => n = 0)
  BY DEF AppsInv, TypeOK, Jobs, DebitApp
<1>2. /\ appBal' = [appBal EXCEPT ![a] = Stored(@ - n)]
      /\ appUsed' = [appUsed EXCEPT ![a] = Stored(@ + n)]
      /\ oddApp' = oddApp + (n % 2)
      /\ UNCHANGED <<oddUser, live, buried, allocated, drift>>
  BY DEF DebitApp, CountApp, userVars
<1>3. /\ \A q \in Reqs : job'[q].booked = job[q].booked
      /\ BookedBetween'
  <2>1. job[r].booked = 0
    BY DEF AppsInv, BookedBetween, DebitApp
  <2>2. CASE job' = job /\ Goto(r, "debitUser")
    BY <2>1, <2>2 DEF Goto, AppsInv, TypeOK, BookedBetween
  <2>3. CASE Done(r)
    BY <2>1, <2>3 DEF Done, Goto, AppsInv, TypeOK, BookedBetween, NoJob
  <2> QED
    BY <2>2, <2>3 DEF DebitApp
<1>4. MovingSum' = MovingSum
  BY <1>2, <1>3 DEF MovingSum, Moving
<1> HIDE DEF a, n
<1>5. /\ appBal[a] \in Int /\ Whole(appBal[a]) /\ appUsed[a] \in Int /\ Whole(appUsed[a])
      /\ appBal'[a] = Stored(appBal[a] - n) /\ appUsed'[a] = Stored(appUsed[a] + n)
      /\ \A b \in Apps : b # a => appBal'[b] = appBal[b] /\ appUsed'[b] = appUsed[b]
  BY <1>1, <1>2 DEF AppsInv, TypeOK
<1>6. RowsGone'
  BY <1>1, <1>2, <1>5, StoredSteps DEF AppsInv, RowsGone
<1> DEFINE e == appUsed'[a] + appBal'[a] - appUsed[a] - appBal[a]
           k == n % 2
<1>7. e \in Int /\ k \in Nat /\ Within(e, 2 * k)
  BY <1>1, <1>5, MoveKeepsSum
<1>8. HeldSum' = HeldSum + e
  <2>1. /\ appBal'[a] \in Int /\ appUsed'[a] \in Int
        /\ a \notin live => appBal'[a] = appBal[a] /\ appUsed'[a] = appUsed[a]
    BY <1>1, <1>5, StoredSteps
  <2>2. HeldSum' = HeldSum + (appBal'[a] + appUsed'[a]) - (appBal[a] + appUsed[a])
    BY <1>1, <1>2, <1>5, <2>1, HeldChanges DEF AppsInv
  <2>3. HeldSum \in Int
    BY LedgerSumsInt DEF AppsInv
  <2> QED
    BY <1>5, <2>1, <2>2, <2>3
<1>9. AppLedger'
  <2>1. /\ buried \in Int /\ allocated \in Int /\ oddUser \in Nat /\ oddApp \in Nat
        /\ HeldSum \in Int /\ MovingSum \in Int
    BY LedgerSumsInt DEF AppsInv, TypeOK, Whole
  <2>2. oddApp' = oddApp + k
    BY <1>2
  <2> HIDE DEF e, k
  <2>3. Within((HeldSum' - HeldSum) + (buried' - buried) - (allocated' - allocated)
                 - (MovingSum' - MovingSum),
               2 * (oddApp' - oddApp) + (oddUser' - oddUser))
    BY <1>2, <1>4, <1>7, <1>8, <2>1, <2>2 DEF Within
  <2>4. HeldSum' \in Int /\ MovingSum' \in Int
    BY <1>4, <1>7, <1>8, <2>1
  <2> QED
    BY <2>3, <2>4, LedgerMoves
<1> QED
  BY <1>3, <1>6, <1>9

\* A deleted app takes what its row held out of the live ones.
LEMMA DeleteAppKeepsApps ==
  ASSUME AppsInv, TypeOK', NEW r \in Reqs, DeleteApp(r)
  PROVE  RowsGone' /\ BookedBetween' /\ AppLedger' /\ IsFiniteSet(live')
<1> DEFINE a == job[r].app
           e == appBal[a] + appUsed[a]
<1>1. a \in Apps /\ appBal[a] \in Int /\ appUsed[a] \in Int /\ job[r].booked = 0
  BY DEF AppsInv, TypeOK, DeleteApp, BookedBetween
<1>2. /\ live' = live \ {a} /\ buried' = buried + e
      /\ Done(r) /\ UNCHANGED <<oddApp, oddUser, allocated, drift>>
      /\ appBal' = [appBal EXCEPT ![a] = 0] /\ appUsed' = [appUsed EXCEPT ![a] = 0]
  <2>1. buried \in Int
    BY DEF AppsInv, TypeOK, Whole
  <2>2. buried + appBal[a] + appUsed[a] = buried + e
    BY ONLY <1>1, <2>1
  <2> QED
    BY <2>2 DEF DeleteApp, odd, userVars
<1>3. \A q \in Reqs : job'[q].booked = job[q].booked
  BY <1>1, <1>2 DEF Done, AppsInv, TypeOK, NoJob
<1>4. MovingSum' = MovingSum
  BY <1>2, <1>3 DEF MovingSum, Moving
<1>5. BookedBetween'
  BY <1>2, <1>3 DEF Done, Goto, AppsInv, TypeOK, BookedBetween, NoJob
<1> HIDE DEF a
<1>6. RowsGone'
  BY <1>1, <1>2 DEF AppsInv, TypeOK, RowsGone
<1>7. IsFiniteSet(live')
  BY <1>2, FS_RemoveElement DEF AppsInv
<1>8. HeldSum' = HeldSum - e
  <2> DEFINE f == Held
             g == Held'
  <2>1. \A b \in Apps : f[b] \in Int /\ f[a] = e
    BY <1>1 DEF AppsInv, TypeOK, Held
  <2>2. \A b \in Apps : b # a => g[b] = f[b]
    BY <1>2 DEF AppsInv, TypeOK, Held
  <2>3. live \subseteq Apps /\ IsFiniteSet(live)
    BY DEF AppsInv, TypeOK
  <2>4. HeldSum = SumFunctionOnSet(f, live) /\ HeldSum' = SumFunctionOnSet(g, live \ {a})
    BY <1>2 DEF HeldSum
  <2> HIDE DEF e, f, g
  <2>5. SumFunctionOnSet(g, live \ {a}) = SumFunctionOnSet(f, live \ {a})
    <3>1. \A b \in live \ {a} : f[b] \in Int /\ g[b] = f[b]
      BY <2>1, <2>2, <2>3
    <3>2. IsFiniteSet(live \ {a})
      BY <2>3, FS_RemoveElement
    <3> QED
      BY ONLY <3>1, <3>2, SumSame
  <2>6. CASE a \in live
    <3>1. \A b \in live : f[b] \in Int
      BY <2>1, <2>3
    <3>2. /\ SumFunctionOnSet(f, live) = f[a] + SumFunctionOnSet(f, live \ {a})
          /\ SumFunctionOnSet(f, live \ {a}) \in Int
      BY ONLY <2>3, <2>6, <3>1, SumRemove
    <3> QED
      BY <1>1, <2>1, <2>4, <2>5, <3>2
  <2>7. CASE a \notin live
    <3>1. live \ {a} = live
      BY <2>7
    <3>2. e = 0
      BY <1>1, <2>7 DEF e, AppsInv, RowsGone
    <3>3. HeldSum \in Int
      BY LedgerSumsInt DEF AppsInv
    <3> QED
      BY <2>4, <2>5, <3>1, <3>2, <3>3
  <2> QED
    BY <2>6, <2>7
<1>9. AppLedger'
  <2>1. /\ buried \in Int /\ allocated \in Int /\ oddUser \in Nat /\ oddApp \in Nat
        /\ HeldSum \in Int /\ MovingSum \in Int /\ e \in Int
    BY <1>1, LedgerSumsInt DEF AppsInv, TypeOK, Whole
  <2> HIDE DEF e
  <2>3. Within((HeldSum' - HeldSum) + (buried' - buried) - (allocated' - allocated)
                 - (MovingSum' - MovingSum),
               2 * (oddApp' - oddApp) + (oddUser' - oddUser))
    BY <1>2, <1>4, <1>8, <2>1 DEF Within
  <2>4. HeldSum' \in Int /\ MovingSum' \in Int
    BY <1>4, <1>8, <2>1
  <2> QED
    BY <2>3, <2>4, LedgerMoves
<1> QED
  BY <1>5, <1>6, <1>7, <1>9

\* Steps that touch neither the apps' rows nor the allocation.
LEMMA OthersKeepApps ==
  ASSUME AppsInv, TypeOK', HeldSum' = HeldSum, MovingSum' = MovingSum,
         UNCHANGED <<buried, allocated, oddApp>>, NEW m \in Nat, oddUser' = oddUser + m
  PROVE  AppLedger'
<1>1. /\ buried \in Int /\ allocated \in Int /\ oddUser \in Nat /\ oddApp \in Nat
      /\ oddUser' \in Nat /\ HeldSum \in Int /\ MovingSum \in Int
  BY LedgerSumsInt DEF AppsInv, TypeOK, Whole
<1>2. Within((HeldSum' - HeldSum) + (buried' - buried) - (allocated' - allocated)
               - (MovingSum' - MovingSum),
             2 * (oddApp' - oddApp) + (oddUser' - oddUser))
  <2>1. /\ HeldSum' - HeldSum = 0 /\ MovingSum' - MovingSum = 0
        /\ buried' - buried = 0 /\ allocated' - allocated = 0 /\ oddApp' - oddApp = 0
    BY <1>1
  <2>2. oddUser' - oddUser = m
    BY <1>1
  <2> QED
    BY ONLY <2>1, <2>2, m \in Nat DEF Within
<1> QED
  BY <1>1, <1>2, LedgerMoves

\* A request that begins changes no row, and has moved nothing yet.
LEMMA AskKeepsApps ==
  ASSUME AppsInv, TypeOK', NEW r \in Reqs, NEW a \in Apps, Ask(r, a)
  PROVE  AppsInv'
<1>1. PICK label \in {"allocApp", "reclaimApp", "refund", "delete", "debitApp"},
           n \in Int, f \in Int : Begin(r, label, a, n, f)
  <2>1. ASSUME NEW n \in Amounts, Allocate(r, a, n) \/ Reclaim(r, a, n)
        PROVE  \E label \in {"allocApp", "reclaimApp"} : Begin(r, label, a, n, 0)
    BY <2>1 DEF Allocate, Reclaim
  <2>2. ASSUME NEW c \in Costs, NEW sel \in Selections, Bill(r, a, c, sel)
        PROVE  /\ BillSplit(sel, c, appBal[a]).credit \in Int
               /\ BillSplit(sel, c, appBal[a]).fallback \in Int
               /\ Begin(r, "debitApp", a, BillSplit(sel, c, appBal[a]).credit,
                        BillSplit(sel, c, appBal[a]).fallback)
    <3>1. appBal[a] \in Int /\ c \in Nat
      BY AmountsAssumption DEF AppsInv, TypeOK
    <3> QED
      BY <2>2, <3>1, BillPartsNat DEF Bill
  <2>3. ASSUME DeleteAccount(r, a)
        PROVE  \E label \in {"refund", "delete"} : Begin(r, label, a, appUsed[a], 0)
    BY <2>3 DEF DeleteAccount
  <2>4. Amounts \subseteq Int /\ appUsed[a] \in Int
    BY AmountsAssumption DEF AppsInv, TypeOK
  <2>5. CASE \E n \in Amounts : Allocate(r, a, n) \/ Reclaim(r, a, n)
    BY <2>1, <2>4, <2>5
  <2>6. CASE \E c \in Costs, sel \in Selections : Bill(r, a, c, sel)
    BY <2>2, <2>6
  <2>7. CASE DeleteAccount(r, a)
    BY <2>3, <2>4, <2>7
  <2> QED
    BY <2>5, <2>6, <2>7 DEF Ask
<1>2. /\ UNCHANGED <<appBal, appUsed, live, buried, allocated, oddApp, oddUser, drift>>
      /\ pc[r] = "idle" /\ Goto(r, label)
      /\ job' = [job EXCEPT ![r] = [app |-> a, amount |-> n, fallback |-> f, booked |-> 0]]
  BY <1>1 DEF Begin, userVars, appVars, odd
<1>3. \A q \in Reqs : job'[q].booked = job[q].booked
  BY <1>2 DEF AppsInv, TypeOK, BookedBetween
<1>4. HeldSum' = HeldSum /\ MovingSum' = MovingSum /\ RowsGone'
  BY <1>2, <1>3, RowsUntouched DEF MovingSum, Moving, AppsInv
<1>5. BookedBetween'
  BY <1>2, <1>3 DEF AppsInv, TypeOK, BookedBetween, Goto
<1>6. AppLedger'
  <2>1. oddUser' = oddUser + 0
    BY <1>2 DEF AppsInv, TypeOK
  <2> QED
    BY <1>2, <1>4, <2>1, OthersKeepApps
<1> QED
  BY <1>2, <1>4, <1>5, <1>6 DEF AppsInv

\* Every statement of a request keeps the account of the app rows.
LEMMA StepKeepsApps ==
  ASSUME AppsInv, TypeOK', NEW r \in Reqs, Step(r)
  PROVE  AppsInv'
<1>1. CASE AllocateApp(r) \/ ReclaimApp(r)
  <2>1. live' = live
    BY <1>1 DEF AllocateApp, ReclaimApp
  <2> QED
    BY <1>1, <2>1, AppUpdateKeepsApps DEF AppsInv
<1>2. CASE AllocateUser(r) \/ ReclaimUser(r)
  <2>1. live' = live
    BY <1>2 DEF AllocateUser, ReclaimUser, appVars
  <2> QED
    BY <1>2, <2>1, UserUpdateKeepsApps DEF AppsInv
<1>3. CASE DebitApp(r)
  <2>1. live' = live
    BY <1>3 DEF DebitApp
  <2> QED
    BY <1>3, <2>1, DebitAppKeepsApps DEF AppsInv
<1>4. CASE DeleteApp(r)
  BY <1>4, DeleteAppKeepsApps DEF AppsInv
<1>5. CASE Refund(r) \/ DebitUser(r) \/ Abandon(r)
  <2>1. UNCHANGED <<appBal, appUsed, live, buried, allocated, oddApp>>
    BY <1>5 DEF Refund, DebitUser, Abandon, CountUser, appVars, userVars, odd
  <2>2. PICK m \in Nat : oddUser' = oddUser + m
    <3>1. oddUser \in Nat /\ job[r].amount \in Nat /\ job[r].fallback \in Nat
      BY DEF AppsInv, TypeOK, Jobs
    <3>2. job[r].amount % 2 \in Nat /\ job[r].fallback % 2 \in Nat /\ oddUser = oddUser + 0
      BY <3>1
    <3>3. \/ oddUser' = oddUser + (job[r].amount % 2)
          \/ oddUser' = oddUser + (job[r].fallback % 2)
          \/ oddUser' = oddUser + 0
      BY <1>5, <3>2 DEF Refund, DebitUser, Abandon, CountUser, odd
    <3> QED
      BY <3>2, <3>3
  <2>3. /\ BookedBetween'
        /\ \A q \in Reqs : job'[q].booked + drift'[q] = job[q].booked + drift[q]
    <3>1. \A q \in Reqs : job[q] \in Jobs /\ drift[q] \in Int
      BY DEF AppsInv, TypeOK
    <3>2. CASE Refund(r)
      BY <3>2 DEF Refund, Goto, AppsInv, TypeOK, BookedBetween
    <3>3. CASE DebitUser(r)
      BY <3>3 DEF DebitUser, Done, Goto, AppsInv, TypeOK, BookedBetween, NoJob
    <3>4. CASE Abandon(r)
      BY <3>1, <3>4 DEF Abandon, Done, Goto, AppsInv, TypeOK, BookedBetween, NoJob, Jobs
    <3> QED
      BY <1>5, <3>2, <3>3, <3>4
  <2>4. HeldSum' = HeldSum /\ MovingSum' = MovingSum /\ RowsGone'
    BY <2>1, <2>3, RowsUntouched DEF MovingSum, Moving, AppsInv
  <2>5. AppLedger'
    BY <2>1, <2>2, <2>4, OthersKeepApps
  <2> QED
    BY <2>1, <2>3, <2>4, <2>5 DEF AppsInv
<1> QED
  BY <1>1, <1>2, <1>3, <1>4, <1>5 DEF Step

\* What the user's row says is allocated is what the apps' rows hold, whatever
\* requests overlap, stop half way or delete apps, up to what is on its way or
\* was cut short and what rounding makes of fractions.
THEOREM AppRowsAccount == Spec => []AppLedger
<1>1. Init => AppsInv
  <2> SUFFICES ASSUME Init PROVE AppsInv
    OBVIOUS
  <2>1. TypeOK
    BY DEF Init, TypeOK, Labels, Jobs, NoJob, Whole
  <2>2. IsFiniteSet(live) /\ HeldSum = 0
    BY FS_EmptySet, SumEmpty DEF Init, HeldSum
  <2>3. MovingSum = 0
    <3> DEFINE f == Moving
    <3>1. \A r \in Reqs : f[r] = 0
      BY DEF Init, Moving, NoJob
    <3>2. IsFiniteSet(Reqs)
      BY RequestsAssumption
    <3>3. MovingSum = SumFunctionOnSet(f, Reqs)
      BY DEF MovingSum
    <3> HIDE DEF f
    <3> QED
      BY ONLY <3>1, <3>2, <3>3, SumZero
  <2>4. AppLedger
    <3>1. Within(HeldSum + buried - allocated - MovingSum, 2 * oddApp + oddUser)
      BY <2>2, <2>3 DEF Init, Within
    <3> QED
      BY <3>1 DEF AppLedger, HeldSum, MovingSum
  <2> QED
    BY <2>1, <2>2, <2>4 DEF Init, AppsInv, RowsGone, BookedBetween, NoJob
<1>2. AppsInv /\ TypeOK' /\ [Next]_vars => AppsInv'
  <2> SUFFICES ASSUME AppsInv, TypeOK', [Next]_vars PROVE AppsInv'
    OBVIOUS
  <2>1. ASSUME NEW n \in Grants, FundUser(n) PROVE AppsInv'
    <3>1. UNCHANGED <<appBal, appUsed, live, buried, allocated, oddApp, pc, job, drift>>
      BY <2>1 DEF FundUser, CountUser, appVars, reqVars
    <3>2. n % 2 \in Nat /\ oddUser' = oddUser + (n % 2)
      BY <2>1, AmountsAssumption DEF FundUser, CountUser
    <3>3. HeldSum' = HeldSum /\ MovingSum' = MovingSum /\ RowsGone' /\ BookedBetween'
      BY <3>1, RowsUntouched DEF MovingSum, Moving, AppsInv, BookedBetween
    <3> QED
      BY <3>1, <3>2, <3>3, OthersKeepApps DEF AppsInv
  <2>2. ASSUME NEW a \in Apps, GenerateAppAccount(a) PROVE AppsInv'
    <3>1. /\ live' = live \cup {a} /\ a \notin live
          /\ UNCHANGED <<appBal, appUsed, buried, allocated, oddApp, oddUser, pc, job, drift>>
      BY <2>2 DEF GenerateAppAccount, userVars, reqVars, history, odd, AppsInv, TypeOK
    <3>2. IsFiniteSet(live')
      BY <3>1, FS_AddElement DEF AppsInv
    <3>3. Held' = Held /\ MovingSum' = MovingSum /\ RowsGone' /\ BookedBetween'
      BY <3>1 DEF Held, MovingSum, Moving, AppsInv, RowsGone, BookedBetween
    <3>4. HeldSum' = HeldSum
      <4> DEFINE f == Held
      <4>1. /\ \A b \in live \cup {a} : f[b] \in Int
            /\ f[a] = 0 /\ IsFiniteSet(live)
            /\ HeldSum = SumFunctionOnSet(f, live) /\ HeldSum \in Int
            /\ HeldSum' = SumFunctionOnSet(f, live \cup {a})
        BY <3>1, <3>3, LedgerSumsInt DEF AppsInv, TypeOK, RowsGone, Held, HeldSum
      <4>2. a \notin live
        BY <3>1
      <4> HIDE DEF f
      <4>3. SumFunctionOnSet(f, live \cup {a}) = SumFunctionOnSet(f, live) + f[a]
        BY ONLY <4>1, <4>2, SumAdd
      <4> QED
        BY <4>1, <4>3
    <3>5. oddUser' = oddUser + 0
      BY <3>1 DEF AppsInv, TypeOK
    <3>6. AppLedger'
      BY <3>1, <3>3, <3>4, <3>5, OthersKeepApps
    <3> QED
      BY <3>2, <3>3, <3>6 DEF AppsInv
  <2>3. CASE UNCHANGED vars
    BY <2>3 DEF vars, userVars, appVars, reqVars, history, odd, AppsInv, RowsGone,
                BookedBetween, AppLedger, Held, Moving
  <2> QED
    BY <2>1, <2>2, <2>3, AskKeepsApps, StepKeepsApps DEF Next
<1>3. AppsInv => AppLedger
  BY DEF AppsInv
<1> QED
  BY <1>1, <1>2, <1>3, LedgerTypes, PTL DEF Spec
-----------------------------------------------------------------------------
(* How far a balance can be overdrawn                                      *)

\* What a request under way will still take from the user's balance, and from
\* an app's.
UserTaking == [r \in Reqs |->
  IF pc[r] \in {"allocApp", "allocUser"} THEN job[r].amount
  ELSE IF pc[r] \in {"debitApp", "debitUser"} THEN job[r].fallback ELSE 0]
AppTaking(a) == [r \in Reqs |->
  IF pc[r] \in {"reclaimApp", "debitApp"} /\ job[r].app = a THEN job[r].amount ELSE 0]

Most       == Stored(Largest)
Takers(t)  == {r \in Reqs : t[r] > 0}
Spare(t)   == Cardinality(Reqs) - Cardinality(Takers(t))

\* Each of the requests that are still to take something can overdraw the balance
\* by one amount, except one: either one of them has already taken, or failed, or
\* the balance still covers one of those under way, less what the others took
\* since it looked.
Covered(balance, t) ==
  \/ balance >= -((Spare(t) - 1) * Most)
  \/ \E r \in Takers(t) : balance >= Stored(t[r]) - Spare(t) * Most

Takings == [Reqs -> 0 .. Largest]

\* Rounding up to whole credits is monotone, and a whole column from which a
\* smaller amount is taken loses no more than the rounded amount.
LEMMA StoredMonotone ==
  ASSUME NEW m \in Nat, NEW n \in Nat, m <= n, NEW x \in Int, Whole(x)
  PROVE  /\ Stored(m) \in Nat /\ Stored(m) <= Stored(n)
         /\ Stored(x - m) >= x - Stored(n)
         /\ Stored(x + m) >= x
         /\ m <= x => Stored(m) <= x
<1>1. Stored(m) \in Nat /\ Stored(m) <= Stored(n)
  BY DEF Stored
<1>2. Stored(x - m) >= x - Stored(m)
  BY DEF Stored, Whole
<1>3. Stored(x - m) \in Int /\ Stored(n) \in Nat /\ x \in Int
  BY DEF Stored
<1>4. Stored(x - m) >= x - Stored(n)
  <2> DEFINE p == Stored(x - m)
             q == Stored(m)
             s == Stored(n)
  <2>1. p >= x - q /\ q <= s /\ p \in Int /\ q \in Int /\ s \in Int
    BY <1>1, <1>2, <1>3
  <2> HIDE DEF p, q, s
  <2>2. p >= x - s
    BY <2>1
  <2> QED
    BY <2>2 DEF p, s
<1>5. Stored(x + m) >= x
  BY DEF Stored, Whole
<1>6. m <= x => Stored(m) <= x
  BY DEF Stored, Whole
<1> QED
  BY <1>1, <1>4, <1>5, <1>6

\* The products of the bound, one step apart.
LEMMA Multiples ==
  ASSUME NEW x \in Int, NEW l \in Nat
  PROVE  /\ x * l \in Int /\ (x - 1) * l \in Int
         /\ (x - 1) * l = x * l - l
         /\ (x + 1) * l = x * l + l
         /\ x >= 0 => x * l >= 0
         /\ x >= 1 => x * l >= l
BY SMT

\* The most a request can take from a row is a natural number.
LEMMA MostNat ==
  /\ Largest \in Nat /\ Most \in Nat
  /\ \A n \in 0 .. Largest : Stored(n) \in Nat /\ Stored(n) <= Most
<1>1. Largest \in Nat
  BY AmountsAssumption
<1>2. Whole(0)
  BY DEF Whole
<1> QED
  BY <1>1, <1>2, StoredMonotone DEF Most

\* The numbers of requests that may take something.
LEMMA SpareTypes ==
  ASSUME NEW t \in Takings
  PROVE  /\ IsFiniteSet(Takers(t)) /\ Takers(t) \subseteq Reqs
         /\ Spare(t) \in 0 .. Cardinality(Reqs) /\ Cardinality(Reqs) \in Nat
         /\ Cardinality(Takers(t)) \in Nat
         /\ \A r \in Reqs : t[r] = 0 => Spare(t) >= 1
<1>1. IsFiniteSet(Reqs) /\ Takers(t) \subseteq Reqs
  BY RequestsAssumption DEF Takers
<1>2. /\ IsFiniteSet(Takers(t)) /\ Cardinality(Takers(t)) \in Nat
      /\ Cardinality(Reqs) \in Nat /\ Cardinality(Takers(t)) <= Cardinality(Reqs)
      /\ Cardinality(Takers(t)) = Cardinality(Reqs) => Takers(t) = Reqs
  BY <1>1, FS_Subset, FS_CardinalityType
<1>3. \A r \in Reqs : t[r] = 0 => r \notin Takers(t)
  BY DEF Takers
<1> QED
  BY <1>1, <1>2, <1>3 DEF Spare

\* Covered balances keep to the bound.
LEMMA CoveredBounds ==
  ASSUME NEW balance \in Int, NEW t \in Takings, Covered(balance, t)
  PROVE  balance >= -Overdraft
<1> DEFINE n == Cardinality(Reqs)
           s == Spare(t)
<1>1. n \in Nat /\ s \in 0 .. n /\ Most \in Nat
  BY SpareTypes, MostNat
<1>2. Overdraft = (n - 1) * Most
  BY DEF Overdraft, Most
<1>3. n - s \in Nat /\ n - 1 - s \in Int
  BY <1>1
<1>4. CASE balance >= -((s - 1) * Most)
  <2>1. (n - 1) * Most = (s - 1) * Most + (n - s) * Most
    BY <1>1
  <2>2. (n - s) * Most >= 0 /\ (n - s) * Most \in Int /\ (s - 1) * Most \in Int
    BY <1>1, <1>3, Multiples
  <2> HIDE DEF n, s
  <2> QED
    BY <1>2, <1>4, <2>1, <2>2
<1>5. ASSUME NEW r \in Takers(t), balance >= Stored(t[r]) - s * Most
      PROVE  balance >= -Overdraft
  <2>1. Stored(t[r]) \in Nat
    BY MostNat DEF Takers, Takings
  <2>2. s <= n - 1
    <3>1. IsFiniteSet(Takers(t)) /\ Cardinality(Takers(t)) # 0
      BY SpareTypes, FS_EmptySet
    <3> QED
      BY <3>1, SpareTypes DEF Spare
  <2>3. (n - 1) * Most = s * Most + (n - 1 - s) * Most
    BY <1>1
  <2>4. (n - 1 - s) * Most >= 0 /\ (n - 1 - s) * Most \in Int /\ s * Most \in Int
    BY <1>1, <1>3, <2>2, Multiples
  <2> HIDE DEF n, s
  <2> QED
    BY <1>2, <1>5, <2>1, <2>3, <2>4
<1> QED
  BY <1>4, <1>5 DEF Covered

\* More on the balance covers what it covered before.
LEMMA CoveredMore ==
  ASSUME NEW balance \in Int, NEW more \in Int, NEW t \in Takings,
         Covered(balance, t), balance <= more
  PROVE  Covered(more, t)
<1> DEFINE s == Spare(t)
<1>1. s \in Int /\ (s - 1) * Most \in Int /\ s * Most \in Int
  BY SpareTypes, MostNat, Multiples
<1>2. \A r \in Takers(t) : Stored(t[r]) \in Nat
  BY MostNat DEF Takers, Takings
<1> HIDE DEF s
<1>3. CASE balance >= -((s - 1) * Most)
  BY <1>1, <1>3 DEF Covered, s
<1>4. ASSUME NEW r \in Takers(t), balance >= Stored(t[r]) - s * Most
      PROVE  Covered(more, t)
  <2>1. more >= Stored(t[r]) - s * Most
    BY <1>1, <1>2, <1>4
  <2> QED
    BY <2>1 DEF Covered, s
<1> QED
  BY <1>3, <1>4 DEF Covered, s

\* An empty row is covered if one request wants nothing from it.
LEMMA CoveredEmpty ==
  ASSUME NEW t \in Takings, NEW r \in Reqs, t[r] = 0
  PROVE  Covered(0, t)
<1> DEFINE s == Spare(t)
<1>1. s - 1 \in Nat
  BY SpareTypes
<1>2. (s - 1) * Most >= 0 /\ (s - 1) * Most \in Int
  BY <1>1, MostNat, Multiples
<1> QED
  BY <1>2 DEF Covered
\* A request that has looked at the balance and begins to take from it.
LEMMA CoveredBegins ==
  ASSUME NEW balance \in Int, Whole(balance), NEW t \in Takings, NEW u \in Takings,
         NEW r \in Reqs, \A q \in Reqs : q # r => u[q] = t[q],
         t[r] = 0, u[r] > 0 => u[r] <= balance, Covered(balance, t)
  PROVE  Covered(balance, u)
<1>1. CASE u[r] = 0
  <2>1. u = t
    BY <1>1 DEF Takings
  <2> QED
    BY <2>1
<1>2. CASE u[r] > 0
  <2> DEFINE s == Spare(u)
  <2>1. r \in Takers(u) /\ u[r] \in Nat
    BY <1>2 DEF Takers, Takings
  <2>2. s \in Nat
    BY SpareTypes
  <2>3. s * Most >= 0 /\ s * Most \in Int
    BY <2>2, MostNat, Multiples
  <2>4. Stored(u[r]) <= balance /\ Stored(u[r]) \in Nat
    BY <1>2, <2>1, StoredMonotone
  <2> HIDE DEF s
  <2>5. balance >= Stored(u[r]) - s * Most
    BY <2>3, <2>4
  <2> QED
    BY <2>1, <2>5 DEF Covered, s
<1>3. u[r] \in Nat
  BY DEF Takings
<1> QED
  BY <1>1, <1>2, <1>3

\* A request that takes its amount, or gives up, leaves the balance covered for
\* the others.
LEMMA CoveredEnds ==
  ASSUME NEW balance \in Int, NEW less \in Int, NEW t \in Takings, NEW u \in Takings,
         NEW r \in Reqs, \A q \in Reqs : q # r => u[q] = t[q],
         u[r] = 0, less >= balance - Stored(t[r]), Covered(balance, t)
  PROVE  Covered(less, u)
<1>1. t[r] \in 0 .. Largest
  BY DEF Takings
<1>2. CASE t[r] = 0
  <2>1. u = t
    BY <1>2 DEF Takings
  <2>2. Stored(t[r]) = 0
    BY <1>2 DEF Stored
  <2> QED
    BY <2>1, <2>2, CoveredMore
<1>3. CASE t[r] > 0
  <2> DEFINE s == Spare(t)
  <2>1. Takers(u) = Takers(t) \ {r} /\ r \in Takers(t)
    BY <1>3 DEF Takers
  <2>2. s \in Nat /\ Spare(u) = s + 1
    <3>1. /\ IsFiniteSet(Takers(t)) /\ Cardinality(Takers(t)) \in Nat
          /\ Cardinality(Reqs) \in Nat /\ s \in Nat
      BY SpareTypes
    <3>2. Cardinality(Takers(u)) = Cardinality(Takers(t)) - 1
      BY <2>1, <3>1, FS_RemoveElement
    <3> QED
      BY <3>1, <3>2 DEF Spare
  <2>3. Most \in Nat /\ Stored(t[r]) \in Nat /\ Stored(t[r]) <= Most
    BY <1>1, MostNat
  <2>4. /\ s * Most \in Int /\ (s - 1) * Most \in Int
        /\ (s - 1) * Most = s * Most - Most
        /\ (s + 1) * Most = s * Most + Most
    <3> HIDE DEF s
    <3> QED
      BY ONLY <2>2, <2>3, Multiples
  <2>5. s + 1 - 1 = s
    BY <2>2
  <2> HIDE DEF s
  <2>6. CASE balance >= -((s - 1) * Most)
    <3>1. less >= -(s * Most)
      BY <2>3, <2>4, <2>6
    <3> QED
      BY <2>2, <2>5, <3>1 DEF Covered
  <2>7. ASSUME NEW q \in Takers(t), balance >= Stored(t[q]) - s * Most
        PROVE  Covered(less, u)
    <3>1. Stored(t[q]) \in Nat
      BY MostNat DEF Takers, Takings
    <3>2. CASE q = r
      <4>1. less >= -(s * Most)
        BY <2>3, <2>4, <2>7, <3>2
      <4> QED
        BY <2>2, <2>5, <4>1 DEF Covered
    <3>3. CASE q # r
      <4>1. q \in Takers(u) /\ u[q] = t[q]
        BY <2>1, <3>3 DEF Takers
      <4>2. less >= Stored(t[q]) - (s + 1) * Most
        BY <2>3, <2>4, <2>7, <3>1
      <4> QED
        BY <2>2, <4>1, <4>2 DEF Covered
    <3> QED
      BY <3>2, <3>3
  <2> QED
    BY <2>6, <2>7 DEF Covered, s
<1> QED
  BY <1>1, <1>2, <1>3

\* Either it still wants what it wanted, and the balance has not gone down, or it
\* wants nothing any more, and the balance has gone down by no more than that.
LEMMA CoveredStep ==
  ASSUME NEW balance \in Int, NEW after \in Int, NEW t \in Takings, NEW u \in Takings,
         NEW r \in Reqs, \A q \in Reqs : q # r => u[q] = t[q],
         \/ u[r] = t[r] /\ after >= balance
         \/ u[r] = 0 /\ after >= balance - Stored(t[r]),
         Covered(balance, t)
  PROVE  Covered(after, u)
<1>1. CASE u[r] = t[r] /\ after >= balance
  <2>1. u = t
    BY <1>1 DEF Takings
  <2> QED
    BY <1>1, <2>1, CoveredMore
<1>2. CASE u[r] = 0 /\ after >= balance - Stored(t[r])
  BY <1>2, CoveredEnds
<1> QED
  BY <1>1, <1>2

\* What a bill takes is covered by the balances it was split on.
LEMMA BillIsCovered ==
  ASSUME NEW sel \in Selections, NEW cost \in 0 .. Largest, NEW app \in Int,
         NEW user \in Int, BalanceCovers(sel, cost, app, user)
  PROVE  LET bill == BillSplit(sel, cost, app)
         IN  /\ bill.credit \in 0 .. Largest /\ bill.fallback \in 0 .. Largest
             /\ bill.credit > 0 => bill.credit <= app
             /\ bill.fallback > 0 => bill.fallback <= user
<1>1. Largest \in Nat
  BY AmountsAssumption
<1>2. CASE sel = "assigned"
  BY <1>1, <1>2 DEF BalanceCovers, BillSplit
<1>3. CASE sel = "fallback"
  BY <1>1, <1>3 DEF BalanceCovers, BillSplit
<1>4. CASE sel = "both" /\ app >= 0
  BY <1>1, <1>4 DEF BalanceCovers, BillSplit
<1>5. CASE sel = "both" /\ app < 0
  BY <1>1, <1>5 DEF BalanceCovers, BillSplit
<1> QED
  BY <1>2, <1>3, <1>4, <1>5 DEF Selections, BalanceCovers

-----------------------------------------------------------------------------

\* Only the refund of a deletion moves more than a client may ask for or a
\* submission may cost.
JobsSmall ==
  \A r \in Reqs : pc[r] \notin {"refund", "delete"} =>
    job[r].amount <= Largest /\ job[r].fallback <= Largest

OverdraftInv ==
  /\ TypeOK /\ JobsSmall
  /\ Covered(userBal, UserTaking)
  /\ \A a \in Apps : Covered(appBal[a], AppTaking(a))

\* The functions above range over the amounts a request may move.
LEMMA TakingTypes ==
  ASSUME TypeOK, JobsSmall
  PROVE  UserTaking \in Takings /\ \A a \in Apps : AppTaking(a) \in Takings
<1>1. ASSUME NEW r \in Reqs, pc[r] \notin {"refund", "delete"}
      PROVE  job[r].amount \in 0 .. Largest /\ job[r].fallback \in 0 .. Largest
  BY <1>1, AmountsAssumption DEF TypeOK, Jobs, JobsSmall
<1>2. 0 \in 0 .. Largest
  BY AmountsAssumption
<1> QED
  BY <1>1, <1>2 DEF Takings, UserTaking, AppTaking

\* The induction, in terms of what each balance and each taking becomes.
LEMMA StepCovers ==
  ASSUME OverdraftInv, TypeOK', JobsSmall', NEW r \in Reqs,
         \A q \in Reqs : q # r => pc'[q] = pc[q] /\ job'[q] = job[q],
         \/ UserTaking'[r] = UserTaking[r] /\ userBal' >= userBal
         \/ UserTaking'[r] = 0 /\ userBal' >= userBal - Stored(UserTaking[r]),
         \A a \in Apps :
           \/ AppTaking(a)'[r] = AppTaking(a)[r] /\ appBal'[a] >= appBal[a]
           \/ AppTaking(a)'[r] = 0 /\ appBal'[a] >= appBal[a] - Stored(AppTaking(a)[r])
           \/ AppTaking(a)'[r] = 0 /\ appBal'[a] = 0
  PROVE  OverdraftInv'
<1>1. Covered(userBal', UserTaking')
  <2> DEFINE t == UserTaking
             u == UserTaking'
             x == userBal
             y == userBal'
  <2>1. t \in Takings /\ x \in Int /\ y \in Int
    <3>1. x \in Int /\ y \in Int
      BY DEF OverdraftInv, TypeOK, Whole
    <3> QED
      BY <3>1, TakingTypes DEF OverdraftInv
  <2>2. \A q \in Reqs : q # r => u[q] = t[q]
    BY DEF UserTaking
  <2>3. (u[r] = t[r] /\ y >= x) \/ (u[r] = 0 /\ y >= x - Stored(t[r]))
    OBVIOUS
  <2>4. Covered(x, t)
    BY DEF OverdraftInv
  <2>5. u = [q \in Reqs |-> u[q]]
    BY DEF UserTaking
  <2> HIDE DEF t, u, x, y
  <2>6. u \in Takings
    BY ONLY <2>1, <2>2, <2>3, <2>5, AmountsAssumption DEF Takings
  <2>7. Covered(y, u)
    BY ONLY <2>1, <2>2, <2>3, <2>4, <2>6, r \in Reqs, CoveredStep
  <2> QED
    BY <2>7 DEF y, u
<1>2. ASSUME NEW a \in Apps PROVE Covered(appBal'[a], AppTaking(a)')
  <2> DEFINE t == AppTaking(a)
             u == AppTaking(a)'
             x == appBal[a]
             y == appBal'[a]
  <2>1. t \in Takings /\ x \in Int /\ y \in Int
    <3>1. x \in Int /\ y \in Int
      BY DEF OverdraftInv, TypeOK
    <3> QED
      BY <3>1, TakingTypes DEF OverdraftInv
  <2>2. \A q \in Reqs : q # r => u[q] = t[q]
    BY DEF AppTaking
  <2>3. \/ (u[r] = t[r] /\ y >= x) \/ (u[r] = 0 /\ y >= x - Stored(t[r]))
        \/ u[r] = 0 /\ y = 0
    OBVIOUS
  <2>4. Covered(x, t)
    BY DEF OverdraftInv
  <2>5. u = [q \in Reqs |-> u[q]]
    BY DEF AppTaking
  <2> HIDE DEF t, u, x, y
  <2>6. u \in Takings
    BY ONLY <2>1, <2>2, <2>3, <2>5, AmountsAssumption DEF Takings
  <2>7. Covered(y, u)
    <3>1. CASE u[r] = 0 /\ y = 0
      BY ONLY <2>6, <3>1, r \in Reqs, CoveredEmpty
    <3>2. CASE (u[r] = t[r] /\ y >= x) \/ (u[r] = 0 /\ y >= x - Stored(t[r]))
      BY ONLY <2>1, <2>2, <2>4, <2>6, <3>2, r \in Reqs, CoveredStep
    <3> QED
      BY <2>3, <3>1, <3>2
  <2> QED
    BY <2>7 DEF y, u
<1> QED
  BY <1>1, <1>2 DEF OverdraftInv
\* A request begins after comparing what it will take with the balance it read.
LEMMA BeginCovers ==
  ASSUME OverdraftInv, NEW r \in Reqs, NEW a \in Apps, NEW n \in Nat, NEW f \in Nat,
         NEW label \in {"allocApp", "reclaimApp", "refund", "delete", "debitApp"},
         Begin(r, label, a, n, f), TypeOK',
         label \notin {"refund", "delete"} => n <= Largest /\ f <= Largest,
         label = "allocApp" /\ n > 0 => n <= userBal,
         label \in {"reclaimApp", "debitApp"} /\ n > 0 => n <= appBal[a],
         label = "debitApp" /\ f > 0 => f <= userBal
  PROVE  OverdraftInv'
<1>1. /\ pc[r] = "idle" /\ UNCHANGED <<userBal, appBal>>
      /\ pc' = [pc EXCEPT ![r] = label]
      /\ job' = [job EXCEPT ![r] = [app |-> a, amount |-> n, fallback |-> f, booked |-> 0]]
  BY DEF Begin, Goto, userVars, appVars
<1>2. pc'[r] = label /\ job'[r] = [app |-> a, amount |-> n, fallback |-> f, booked |-> 0]
  BY <1>1 DEF OverdraftInv, TypeOK
<1>3. \A q \in Reqs : q # r => pc'[q] = pc[q] /\ job'[q] = job[q]
  BY <1>1 DEF OverdraftInv, TypeOK
<1>4. JobsSmall'
  BY <1>2, <1>3 DEF OverdraftInv, JobsSmall
<1>5. Covered(userBal', UserTaking')
  <2> DEFINE t == UserTaking
             u == UserTaking'
             x == userBal
  <2>1. t \in Takings /\ x \in Int /\ Whole(x) /\ Covered(x, t)
    BY TakingTypes DEF OverdraftInv, TypeOK, Whole
  <2>2. \A q \in Reqs : q # r => u[q] = t[q]
    BY <1>3 DEF UserTaking
  <2>3. t[r] = 0 /\ u[r] \in 0 .. Largest /\ (u[r] > 0 => u[r] <= x)
    <3>1. t[r] = 0
      BY <1>1 DEF UserTaking
    <3>2. u[r] = IF label = "allocApp" THEN n ELSE IF label = "debitApp" THEN f ELSE 0
      BY <1>2 DEF UserTaking
    <3> HIDE DEF t, u, x
    <3>3. u[r] \in 0 .. Largest
      BY <3>2, AmountsAssumption
    <3>4. u[r] > 0 => u[r] <= x
      BY <3>2 DEF x
    <3> QED
      BY <3>1, <3>3, <3>4
  <2>4. u = [q \in Reqs |-> u[q]]
    BY DEF UserTaking
  <2>5. x = userBal'
    BY <1>1
  <2> HIDE DEF t, u, x
  <2>6. u \in Takings
    BY ONLY <2>1, <2>2, <2>3, <2>4 DEF Takings
  <2>7. Covered(x, u)
    BY ONLY <2>1, <2>2, <2>3, <2>6, r \in Reqs, CoveredBegins
  <2> QED
    BY <2>5, <2>7 DEF u
<1>6. ASSUME NEW b \in Apps PROVE Covered(appBal'[b], AppTaking(b)')
  <2> DEFINE t == AppTaking(b)
             u == AppTaking(b)'
             x == appBal[b]
  <2>1. t \in Takings /\ x \in Int /\ Whole(x) /\ Covered(x, t)
    BY TakingTypes DEF OverdraftInv, TypeOK, Whole
  <2>2. \A q \in Reqs : q # r => u[q] = t[q]
    BY <1>3 DEF AppTaking
  <2>3. t[r] = 0 /\ u[r] \in 0 .. Largest /\ (u[r] > 0 => u[r] <= x)
    <3>1. t[r] = 0
      BY <1>1 DEF AppTaking
    <3>2. u[r] = IF label \in {"reclaimApp", "debitApp"} /\ a = b THEN n ELSE 0
      BY <1>2 DEF AppTaking
    <3> HIDE DEF t, u, x
    <3>3. u[r] \in 0 .. Largest
      BY <3>2, AmountsAssumption
    <3>4. u[r] > 0 => u[r] <= x
      BY <3>2 DEF x
    <3> QED
      BY <3>1, <3>3, <3>4
  <2>4. u = [q \in Reqs |-> u[q]]
    BY DEF AppTaking
  <2>5. x = appBal'[b]
    BY <1>1
  <2> HIDE DEF t, u, x
  <2>6. u \in Takings
    BY ONLY <2>1, <2>2, <2>3, <2>4 DEF Takings
  <2>7. Covered(x, u)
    BY ONLY <2>1, <2>2, <2>3, <2>6, r \in Reqs, CoveredBegins
  <2> QED
    BY <2>5, <2>7 DEF u
<1> QED
  BY <1>4, <1>5, <1>6 DEF OverdraftInv

\* The checks of the four operations, each on the balance it then takes from.
LEMMA AskCovers ==
  ASSUME OverdraftInv, TypeOK', NEW r \in Reqs, NEW a \in Apps, Ask(r, a)
  PROVE  OverdraftInv'
<1>0. Largest \in Nat /\ userBal \in Int /\ appBal[a] \in Int
  BY AmountsAssumption DEF OverdraftInv, TypeOK, Whole
<1>1. ASSUME NEW n \in Amounts, Allocate(r, a, n) PROVE OverdraftInv'
  <2>1. n \in Nat /\ n <= Largest
    BY <1>1, AmountsAssumption DEF Allocate
  <2>2. n > 0 => n <= userBal
    BY <1>0, <1>1, <2>1 DEF Allocate
  <2>3. PICK label \in {"allocApp"} : Begin(r, label, a, n, 0)
    BY <1>1 DEF Allocate
  <2> QED
    BY <1>0, <2>1, <2>2, <2>3, BeginCovers
<1>2. ASSUME NEW n \in Amounts, Reclaim(r, a, n) PROVE OverdraftInv'
  <2>1. n \in Nat /\ n <= Largest
    BY <1>2, AmountsAssumption DEF Reclaim
  <2>2. n <= appBal[a]
    BY <1>0, <1>2, <2>1 DEF Reclaim
  <2>3. PICK label \in {"reclaimApp"} : Begin(r, label, a, n, 0)
    BY <1>2 DEF Reclaim
  <2> QED
    BY <1>0, <2>1, <2>2, <2>3, BeginCovers
<1>3. ASSUME NEW c \in Costs, NEW sel \in Selections, Bill(r, a, c, sel)
      PROVE  OverdraftInv'
  <2>1. PICK n, f : n = BillSplit(sel, c, appBal[a]).credit
                    /\ f = BillSplit(sel, c, appBal[a]).fallback
    OBVIOUS
  <2>2. /\ n \in 0 .. Largest /\ f \in 0 .. Largest
        /\ n > 0 => n <= appBal[a]
        /\ f > 0 => f <= userBal
    <3>1. c \in 0 .. Largest /\ BalanceCovers(sel, c, appBal[a], userBal)
      BY <1>3, AmountsAssumption DEF Bill
    <3> QED
      BY <1>0, <2>1, <3>1, BillIsCovered
  <2>3. PICK label \in {"debitApp"} : Begin(r, label, a, n, f)
    BY <1>3, <2>1 DEF Bill
  <2> QED
    BY <1>0, <2>2, <2>3, BeginCovers
<1>4. ASSUME DeleteAccount(r, a) PROVE OverdraftInv'
  <2>1. appUsed[a] \in Nat
    BY DEF OverdraftInv, TypeOK
  <2>2. PICK label \in {"refund", "delete"} : Begin(r, label, a, appUsed[a], 0)
    BY <1>4 DEF DeleteAccount
  <2> QED
    BY <2>1, <2>2, BeginCovers
<1> QED
  BY <1>1, <1>2, <1>3, <1>4 DEF Ask

\* An amount taken from a whole column by rounding.
LEMMA TakenIsCovered ==
  ASSUME NEW x \in Int, Whole(x), NEW n \in Nat, NEW m \in Nat, m = 0 \/ m = n
  PROVE  /\ Stored(x - m) \in Int /\ Stored(x + m) \in Int
         /\ Stored(x - m) >= x - Stored(n) /\ Stored(x + m) >= x
<1>1. m <= n /\ x - m \in Int /\ x + m \in Int
  OBVIOUS
<1>2. Stored(x - m) \in Int /\ Stored(x + m) \in Int
  BY <1>1, StoredWhole DEF Whole
<1> QED
  BY ONLY <1>1, <1>2, x \in Int, Whole(x), m \in Nat, n \in Nat, StoredMonotone

\* Each statement of a request, by what it does to the balances and to what the
\* request still wants.
LEMMA StepKeepsCovered ==
  ASSUME OverdraftInv, TypeOK', NEW r \in Reqs, Step(r)
  PROVE  OverdraftInv'
<1> DEFINE a == job[r].app
           n == IF a \in live THEN job[r].amount ELSE 0
<1>1. /\ job[r] \in Jobs /\ job[r].amount \in Nat /\ job[r].fallback \in Nat
      /\ n \in Nat /\ (n = 0 \/ n = job[r].amount)
      /\ pc[r] # "idle" => a \in Apps
      /\ pc[r] \notin {"refund", "delete"} => job[r].amount <= Largest /\ job[r].fallback <= Largest
  BY DEF OverdraftInv, TypeOK, Jobs, JobsSmall
<1>2. /\ userBal \in Int /\ Whole(userBal)
      /\ \A b \in Apps : appBal[b] \in Int /\ Whole(appBal[b])
      /\ appBal \in [Apps -> Int] /\ pc \in [Reqs -> Labels] /\ job \in [Reqs -> Jobs]
  BY DEF OverdraftInv, TypeOK, Whole
<1>3. \A q \in Reqs : q # r => pc'[q] = pc[q] /\ job'[q] = job[q]
  BY <1>2 DEF Step, AllocateApp, AllocateUser, ReclaimApp, ReclaimUser, Refund, DeleteApp,
              DebitApp, DebitUser, Abandon, Done, Goto
<1>4. NoJob.amount = 0 /\ NoJob.fallback = 0 /\ Stored(0) = 0 /\ Largest \in Nat
  BY AmountsAssumption DEF NoJob, Stored
<1>5. CASE AllocateApp(r)
  <2>1. /\ pc[r] = "allocApp" /\ pc'[r] = "allocUser"
        /\ job'[r].amount = job[r].amount /\ job'[r].fallback = job[r].fallback
        /\ appBal' = [appBal EXCEPT ![a] = Stored(@ + n)] /\ userBal' = userBal
    BY <1>1, <1>2, <1>5 DEF AllocateApp, Goto, userVars, Jobs
  <2> HIDE DEF a, n
  <2>2. JobsSmall'
    BY <1>1, <1>3, <2>1 DEF OverdraftInv, JobsSmall
  <2>3. UserTaking'[r] = UserTaking[r] /\ userBal' >= userBal
    BY <1>2, <2>1 DEF UserTaking
  <2>4. ASSUME NEW b \in Apps
        PROVE  AppTaking(b)'[r] = AppTaking(b)[r] /\ appBal'[b] >= appBal[b]
    BY <1>1, <1>2, <2>1, TakenIsCovered DEF AppTaking
  <2> QED
    BY <1>3, <2>2, <2>3, <2>4, StepCovers
<1>6. CASE AllocateUser(r)
  <2>1. /\ pc[r] = "allocUser" /\ pc'[r] = "idle" /\ job'[r] = NoJob
        /\ userBal' = Stored(userBal - job[r].amount) /\ appBal' = appBal
    BY <1>2, <1>6 DEF AllocateUser, Done, Goto, appVars
  <2>2. JobsSmall'
    BY <1>3, <1>4, <2>1 DEF OverdraftInv, JobsSmall
  <2>3. UserTaking'[r] = 0 /\ userBal' >= userBal - Stored(UserTaking[r])
    BY <1>1, <1>2, <2>1, TakenIsCovered DEF UserTaking
  <2>4. ASSUME NEW b \in Apps
        PROVE  AppTaking(b)'[r] = AppTaking(b)[r] /\ appBal'[b] >= appBal[b]
    BY <1>2, <2>1 DEF AppTaking
  <2> QED
    BY <1>3, <2>2, <2>3, <2>4, StepCovers
<1>7. CASE ReclaimApp(r)
  <2>1. /\ pc[r] = "reclaimApp" /\ pc'[r] = "reclaimUser"
        /\ job'[r].amount = job[r].amount /\ job'[r].fallback = job[r].fallback
        /\ appBal' = [appBal EXCEPT ![a] = Stored(@ - n)] /\ userBal' = userBal
    BY <1>1, <1>2, <1>7 DEF ReclaimApp, Goto, userVars, Jobs
  <2>2. JobsSmall'
    BY <1>1, <1>3, <2>1 DEF OverdraftInv, JobsSmall
  <2>3. UserTaking'[r] = UserTaking[r] /\ userBal' >= userBal
    BY <1>2, <2>1 DEF UserTaking
  <2>4. ASSUME NEW b \in Apps
        PROVE  AppTaking(b)'[r] = 0 /\ appBal'[b] >= appBal[b] - Stored(AppTaking(b)[r])
    <3>1. AppTaking(b)'[r] = 0 /\ AppTaking(b)[r] = IF a = b THEN job[r].amount ELSE 0
      BY <2>1 DEF AppTaking
    <3> HIDE DEF a, n
    <3> QED
      BY <1>1, <1>2, <1>4, <2>1, <3>1, TakenIsCovered
  <2> QED
    BY <1>3, <2>2, <2>3, <2>4, StepCovers
<1>8. CASE ReclaimUser(r)
  <2>1. /\ pc[r] = "reclaimUser" /\ pc'[r] = "idle" /\ job'[r] = NoJob
        /\ userBal' = Stored(userBal + job[r].amount) /\ appBal' = appBal
    BY <1>2, <1>8 DEF ReclaimUser, Done, Goto, appVars
  <2>2. JobsSmall'
    BY <1>3, <1>4, <2>1 DEF OverdraftInv, JobsSmall
  <2>3. UserTaking'[r] = UserTaking[r] /\ userBal' >= userBal
    BY <1>1, <1>2, <2>1, TakenIsCovered DEF UserTaking
  <2>4. ASSUME NEW b \in Apps
        PROVE  AppTaking(b)'[r] = AppTaking(b)[r] /\ appBal'[b] >= appBal[b]
    BY <1>2, <2>1 DEF AppTaking
  <2> QED
    BY <1>3, <2>2, <2>3, <2>4, StepCovers
<1>9. CASE Refund(r)
  <2>1. /\ pc[r] = "refund" /\ pc'[r] = "delete" /\ job' = job
        /\ userBal' = Stored(userBal + job[r].amount) /\ appBal' = appBal
    BY <1>2, <1>9 DEF Refund, Goto, appVars
  <2>2. JobsSmall'
    BY <1>3, <2>1 DEF OverdraftInv, JobsSmall
  <2>3. UserTaking'[r] = UserTaking[r] /\ userBal' >= userBal
    BY <1>1, <1>2, <2>1, TakenIsCovered DEF UserTaking
  <2>4. ASSUME NEW b \in Apps
        PROVE  AppTaking(b)'[r] = AppTaking(b)[r] /\ appBal'[b] >= appBal[b]
    BY <1>2, <2>1 DEF AppTaking
  <2> QED
    BY <1>3, <2>2, <2>3, <2>4, StepCovers
<1>10. CASE DeleteApp(r)
  <2>1. /\ pc[r] = "delete" /\ pc'[r] = "idle" /\ job'[r] = NoJob
        /\ userBal' = userBal /\ appBal' = [appBal EXCEPT ![a] = 0]
    BY <1>2, <1>10 DEF DeleteApp, Done, Goto, userVars
  <2>2. JobsSmall'
    BY <1>3, <1>4, <2>1 DEF OverdraftInv, JobsSmall
  <2>3. UserTaking'[r] = UserTaking[r] /\ userBal' >= userBal
    BY <1>2, <2>1 DEF UserTaking
  <2>4. ASSUME NEW b \in Apps
        PROVE  \/ AppTaking(b)'[r] = AppTaking(b)[r] /\ appBal'[b] >= appBal[b]
               \/ AppTaking(b)'[r] = 0 /\ appBal'[b] = 0
    BY <1>2, <2>1 DEF AppTaking
  <2> QED
    BY <1>3, <2>2, <2>3, <2>4, StepCovers
<1>11. CASE DebitApp(r)
  <2>1. /\ pc[r] = "debitApp"
        /\ \/ pc'[r] = "debitUser" /\ job'[r] = job[r]
           \/ pc'[r] = "idle" /\ job'[r] = NoJob /\ job[r].fallback = 0
        /\ appBal' = [appBal EXCEPT ![a] = Stored(@ - n)] /\ userBal' = userBal
    BY <1>1, <1>2, <1>11 DEF DebitApp, Goto, Done, userVars
  <2>2. JobsSmall'
    BY <1>1, <1>3, <1>4, <2>1 DEF OverdraftInv, JobsSmall
  <2>3. UserTaking'[r] = UserTaking[r] /\ userBal' >= userBal
    BY <1>2, <2>1 DEF UserTaking
  <2>4. ASSUME NEW b \in Apps
        PROVE  AppTaking(b)'[r] = 0 /\ appBal'[b] >= appBal[b] - Stored(AppTaking(b)[r])
    <3>1. AppTaking(b)'[r] = 0 /\ AppTaking(b)[r] = IF a = b THEN job[r].amount ELSE 0
      BY <2>1 DEF AppTaking
    <3> HIDE DEF a, n
    <3> QED
      BY <1>1, <1>2, <1>4, <2>1, <3>1, TakenIsCovered
  <2> QED
    BY <1>3, <2>2, <2>3, <2>4, StepCovers
<1>12. CASE DebitUser(r)
  <2>1. /\ pc[r] = "debitUser" /\ pc'[r] = "idle" /\ job'[r] = NoJob
        /\ userBal' = Stored(userBal - job[r].fallback) /\ appBal' = appBal
    BY <1>2, <1>12 DEF DebitUser, Done, Goto, appVars
  <2>2. JobsSmall'
    BY <1>3, <1>4, <2>1 DEF OverdraftInv, JobsSmall
  <2>3. UserTaking'[r] = 0 /\ userBal' >= userBal - Stored(UserTaking[r])
    BY <1>1, <1>2, <2>1, TakenIsCovered DEF UserTaking
  <2>4. ASSUME NEW b \in Apps
        PROVE  AppTaking(b)'[r] = AppTaking(b)[r] /\ appBal'[b] >= appBal[b]
    BY <1>2, <2>1 DEF AppTaking
  <2> QED
    BY <1>3, <2>2, <2>3, <2>4, StepCovers
<1>13. CASE Abandon(r)
  <2>1. pc'[r] = "idle" /\ job'[r] = NoJob /\ userBal' = userBal /\ appBal' = appBal
    BY <1>2, <1>13 DEF Abandon, Done, Goto, userVars, appVars
  <2>2. JobsSmall'
    BY <1>3, <1>4, <2>1 DEF OverdraftInv, JobsSmall
  <2>3. UserTaking[r] \in Nat /\ \A b \in Apps : AppTaking(b)[r] \in Nat
    BY TakingTypes, AmountsAssumption DEF OverdraftInv, Takings
  <2>4. UserTaking'[r] = 0 /\ \A b \in Apps : AppTaking(b)'[r] = 0
    BY <2>1 DEF UserTaking, AppTaking
  <2>5. /\ userBal' >= userBal - Stored(UserTaking[r])
        /\ \A b \in Apps : appBal'[b] >= appBal[b] - Stored(AppTaking(b)[r])
    <3>1. \A k \in Nat : Stored(k) \in Nat
      BY DEF Stored
    <3> QED
      BY <1>2, <2>1, <2>3, <3>1
  <2> QED
    BY <1>3, <2>2, <2>4, <2>5, StepCovers
<1> QED
  BY <1>5, <1>6, <1>7, <1>8, <1>9, <1>10, <1>11, <1>12, <1>13 DEF Step

\* The checks read balances that may be stale when the UPDATE runs.  With N
\* requests under way a balance never falls below minus N - 1 times the largest
\* amount, in whole credits.
THEOREM StaleChecksOverdrawLittle == Spec => []OverdraftBounded
<1>1. Init => OverdraftInv
  <2> SUFFICES ASSUME Init PROVE OverdraftInv
    OBVIOUS
  <2>1. TypeOK
    BY DEF Init, TypeOK, Labels, Jobs, NoJob, Whole
  <2>2. JobsSmall
    BY AmountsAssumption DEF Init, JobsSmall, NoJob
  <2>3. PICK r \in Reqs : TRUE
    BY RequestsAssumption
  <2>4. UserTaking[r] = 0 /\ \A a \in Apps : AppTaking(a)[r] = 0
    BY DEF Init, UserTaking, AppTaking
  <2>5. Covered(userBal, UserTaking) /\ \A a \in Apps : Covered(appBal[a], AppTaking(a))
    BY <2>1, <2>2, <2>4, TakingTypes, CoveredEmpty DEF Init
  <2> QED
    BY <2>1, <2>2, <2>5 DEF OverdraftInv
<1>2. OverdraftInv /\ TypeOK' /\ [Next]_vars => OverdraftInv'
  <2> SUFFICES ASSUME OverdraftInv, TypeOK', [Next]_vars PROVE OverdraftInv'
    OBVIOUS
  <2>1. ASSUME NEW n \in Grants, FundUser(n) PROVE OverdraftInv'
    <3>1. n \in Nat /\ userBal \in Int /\ Whole(userBal)
      BY AmountsAssumption DEF OverdraftInv, TypeOK, Whole
    <3>2. UNCHANGED <<pc, job, appBal>> /\ userBal' = Stored(userBal + n)
      BY <2>1 DEF FundUser, reqVars, appVars
    <3>3. JobsSmall' /\ UserTaking' = UserTaking
          /\ \A a \in Apps : Covered(appBal'[a], AppTaking(a)')
      BY <3>2 DEF OverdraftInv, JobsSmall, UserTaking, AppTaking
    <3>4. Covered(userBal', UserTaking)
      <4> DEFINE x == userBal'
      <4>1. x \in Int /\ userBal <= x
        BY <3>1, <3>2, TakenIsCovered
      <4>2. UserTaking \in Takings /\ Covered(userBal, UserTaking)
        BY TakingTypes DEF OverdraftInv
      <4> HIDE DEF x
      <4>3. Covered(x, UserTaking)
        BY <3>1, <4>1, <4>2, CoveredMore
      <4> QED
        BY <4>3 DEF x
    <3> QED
      BY <3>3, <3>4 DEF OverdraftInv
  <2>2. ASSUME UNCHANGED <<pc, job, appBal, userBal>> PROVE OverdraftInv'
    BY <2>2 DEF OverdraftInv, JobsSmall, UserTaking, AppTaking
  <2>3. ASSUME NEW a \in Apps, GenerateAppAccount(a) PROVE OverdraftInv'
    BY <2>2, <2>3 DEF GenerateAppAccount, reqVars, userVars
  <2>4. CASE UNCHANGED vars
    BY <2>2, <2>4 DEF vars, userVars, appVars, reqVars
  <2> QED
    BY <2>1, <2>3, <2>4, AskCovers, StepKeepsCovered DEF Next
<1>3. OverdraftInv => OverdraftBounded
  <2> SUFFICES ASSUME OverdraftInv PROVE OverdraftBounded
    OBVIOUS
  <2>1. UserTaking \in Takings /\ userBal \in Int /\ Covered(userBal, UserTaking)
    BY TakingTypes DEF OverdraftInv, TypeOK, Whole
  <2>2. \A a \in Apps : /\ AppTaking(a) \in Takings /\ appBal[a] \in Int
                        /\ Covered(appBal[a], AppTaking(a))
    BY TakingTypes DEF OverdraftInv, TypeOK
  <2> QED
    BY <2>1, <2>2, CoveredBounds DEF OverdraftBounded
<1> QED
  BY <1>1, <1>2, <1>3, LedgerTypes, PTL DEF Spec
=============================================================================
