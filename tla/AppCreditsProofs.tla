-------------------------- MODULE AppCreditsProofs --------------------------
(***************************************************************************)
(* The apps of a user in the dashboard, for any apps, amounts and number   *)
(* of handlers: what the page shows in the end, what becomes of assigned   *)
(* credits and what an app may be switched to.                             *)
(***************************************************************************)
EXTENDS AppCredits, TLAPS

-----------------------------------------------------------------------------
(* Types                                                                   *)

Lists == UNION {[S -> Row] : S \in SUBSET Apps}
Pages == [balance : Nat, apps : Lists, keys : SUBSET Keys]
Values(v) == CASE v = "balance" -> Nat [] v = "apps" -> Lists [] v = "keys" -> SUBSET Keys
Queue(v) == Seq([value : Values(v), own : BOOLEAN, late : BOOLEAN])

AreAnswers(queues) ==
  queues = [v \in Views |-> queues[v]] /\ \A v \in Views : queues[v] \in Queue(v)

Labels == {"none", "done", "allocate", "reclaim", "select", "appId", "create", "delete", "generateKey",
           "deleteKey"}
AnyJob == [op : {"none"} \cup DOMAIN Requests, app : {"none"} \cup Apps, amount : Nat,
           sel : Options, key : Keys \cup {NoKey}]

PageTypes   == server \in Pages /\ view \in Pages /\ user \in BOOLEAN
DialogTypes == (open = NoDialog \/ open \in [kind : Kinds, app : Apps]) /\ dlg \in Dialogs
JobTypes ==
  /\ job \in [Jobs -> AnyJob] /\ pc \in [Jobs -> Labels]
  /\ \A j \in Jobs : Running(j) => job[j] \in Closures /\ pc[j] \in Requests[job[j].op]
  /\ \A j \in Jobs : Running(j) /\ job[j].op = "generateKey" => job[j].key \in Keys
  /\ \A j \in Jobs : pc[j] = "reclaim" /\ job[j].op = "switch" =>
       job[j].sel = Main /\ job[j].amount > 0
ReadTypes ==
  /\ asked \in [Views -> Nat]
  /\ AreAnswers(answers)
  /\ card \in {"idle", "asked", "answered"}
HistoryTypes == excused \subseteq Views /\ loose \subseteq Apps /\ assigned \subseteq Apps
Types == PageTypes /\ DialogTypes /\ JobTypes /\ ReadTypes /\ HistoryTypes

\* A list of apps is a function to rows.
LEMMA ListIs ==
  /\ \A x : x \in Lists <=> IsList(x)
  /\ \A x \in Lists : /\ DOMAIN x \subseteq Apps
                      /\ \A a \in DOMAIN x : x[a] \in Row
                      /\ x = [a \in DOMAIN x |-> x[a]]
  /\ \A S \in SUBSET Apps : [S -> Row] \subseteq Lists
  BY DEF Lists, IsList

\* The three views have three kinds of values.
LEMMA ValuesAre ==
  /\ Views = {"balance", "apps", "keys"}
  /\ Values("balance") = Nat /\ Values("apps") = Lists /\ Values("keys") = SUBSET Keys
  /\ \A p \in Pages : \A v \in Views : p[v] \in Values(v)
  BY DEF Views, Values, Pages

\* Types is the type invariant with the sets spelled out.
LEMMA TypesGiveTypeOK == Types => TypeOK
<1> SUFFICES ASSUME Types PROVE TypeOK
  OBVIOUS
<1>1. \A v \in Views : \A x \in Values(v) : IsValue(v, x)
  BY ListIs, ValuesAre DEF IsValue
<1>2. IsPage(server) /\ IsPage(view)
  BY <1>1, ValuesAre DEF Types, PageTypes, IsPage, Pages
<1>3. \A v \in Views : \A i \in DOMAIN answers[v] : IsValue(v, answers[v][i].value)
  <2> TAKE v \in Views
  <2> DEFINE A == [value : Values(v), own : BOOLEAN, late : BOOLEAN]
  <2>1. answers[v] \in Seq(A)
    BY DEF Types, ReadTypes, AreAnswers, Queue
  <2>2. \A i \in DOMAIN answers[v] : answers[v][i] \in A
    <3> HIDE DEF A
    <3> QED
      BY <2>1
  <2> QED
    BY <1>1, <2>2
<1> QED
  BY <1>2, <1>3 DEF Types, PageTypes, DialogTypes, JobTypes, ReadTypes, HistoryTypes, TypeOK

\* Which handler a request belongs to.
LEMMA RequestOf ==
  ASSUME JobTypes, NEW j \in Jobs
  PROVE  /\ Running(j) => job[j] \in Closures
         /\ pc[j] \in Labels
         /\ pc[j] = "allocate" => job[j].op = "assign"
         /\ pc[j] = "reclaim" => job[j].op \in {"unassign", "switch"}
         /\ pc[j] = "select" => job[j].op \in {"assign", "switch", "edit"}
         /\ pc[j] = "appId" => job[j].op = "edit"
         /\ pc[j] = "create" => job[j].op = "create"
         /\ pc[j] = "delete" => job[j].op = "delete"
         /\ pc[j] = "generateKey" => job[j].op = "generateKey" /\ job[j].key \in Keys
         /\ pc[j] = "deleteKey" => job[j].op = "deleteKey"
         /\ Running(j) /\ job[j].op = "assign" => pc[j] \in {"allocate", "select"}
         /\ Running(j) /\ job[j].op = "edit" => pc[j] \in {"select", "appId"}
         /\ Running(j) /\ job[j].op = "unassign" => pc[j] = "reclaim"
         /\ Running(j) /\ job[j].op = "switch" => pc[j] \in {"reclaim", "select"}
         /\ Running(j) /\ job[j].op = "create" => pc[j] = "create"
  BY DEF JobTypes, Running, Closures, Requests, Labels

-----------------------------------------------------------------------------
(* Handlers                                                                *)

\* What a click knows of its app, besides being the start of a handler.
Clicked(j, c, request, holder) ==
  /\ Start(j, c, request, holder)
  /\ c \in Closures /\ request \in Requests[c.op] /\ request \in Labels \ {"none", "done"}
  /\ c.op # "create" => c.app \in Listed
  /\ c.op = "create" => c.app \notin Live /\ \A i \in Jobs : job[i].app # c.app
  /\ c.op = "assign" => UsesAssigned(c.sel)
  /\ c.op = "generateKey" => c.key \in Keys
  /\ c.op = "assign" => request = "allocate"
  /\ c.op = "switch" => /\ open.app = c.app /\ c.sel = dlg.pending /\ c.sel # NoOption
                        /\ c.amount = view.apps[c.app].alloc
                        /\ request = "reclaim" => c.sel = Main /\ c.amount > 0
                        /\ request = "select" /\ c.sel = Main => c.amount = 0
  /\ c.op = "edit" => open.app = c.app /\ c.sel = dlg.sel /\ c.amount = 0
                      /\ request = "select"

\* Every click starts one handler with the closure of the render.
LEMMA ClickStarts ==
  ASSUME Types, NEW j \in Jobs, NEW a \in Apps, Click(j, a)
  PROVE  \E c \in Closures, request \in Labels, holder \in BOOLEAN :
           Clicked(j, c, request, holder)
<1> USE DEF Closures, Labels, Options, Main, Assigned, Fallback
<1>a. view \in Pages /\ dlg \in Dialogs
  BY DEF Types, PageTypes, DialogTypes
<1>b. a \in Listed => view.apps[a] \in Row
  BY <1>a, ListIs DEF Pages, Listed
<1>c. \A kind : Showing(kind, a) => a \in Listed /\ open.app = a
  BY DEF Showing, OnScreen
<1>0. /\ view \in Pages /\ dlg \in Dialogs
      /\ a \in Listed => view.apps[a] \in Row
      /\ \A kind : Showing(kind, a) => a \in Listed /\ open.app = a
      /\ NoKey \in Keys \cup {NoKey}
  BY <1>a, <1>b, <1>c
<1>1. ASSUME NEW n \in Amounts, Assign(j, a, n)
      PROVE  Clicked(j, Closure("assign", a, n, dlg.option), "allocate", TRUE)
  BY <1>0, <1>1, AppsAssumption DEF Assign, Idle, Clicked, Closure, Requests, Dialogs
<1>2. ASSUME NEW n \in Amounts, Unassign(j, a, n)
      PROVE  Clicked(j, Closure("unassign", a, n, Main), "reclaim", TRUE)
  BY <1>0, <1>2, AppsAssumption DEF Unassign, Idle, Clicked, Closure, Requests, Dialogs
<1>3. ASSUME ConfirmSwitch(j, a)
      PROVE  \E request \in {"reclaim", "select"} :
               Clicked(j, Closure("switch", a, view.apps[a].alloc, dlg.pending), request, TRUE)
  <2> DEFINE n == view.apps[a].alloc
             request == IF dlg.pending = Main /\ n > 0 THEN "reclaim" ELSE "select"
             c == Closure("switch", a, n, dlg.pending)
  <2>1. /\ a \in Listed /\ open.app = a /\ n \in Nat /\ dlg.pending \in Options
        /\ dlg.pending # NoOption /\ Start(j, c, request, TRUE)
    BY <1>0, <1>3 DEF ConfirmSwitch, Idle, Dialogs, Row
  <2>2. c \in Closures /\ c.op = "switch" /\ c.app = a /\ c.sel = dlg.pending /\ c.amount = n
    BY <1>0, <2>1 DEF Closure, Requests
  <2>3. /\ request \in {"reclaim", "select"}
        /\ request = "reclaim" => dlg.pending = Main /\ n > 0
        /\ request = "select" /\ dlg.pending = Main => n = 0
    BY <2>1
  <2>5. request \in Requests["switch"] /\ request \in Labels \ {"none", "done"}
    BY <2>3 DEF Requests
  <2>6. n = view.apps[a].alloc
    OBVIOUS
  <2> HIDE DEF c, n, request, Closures, Labels, Options
  <2>4. Clicked(j, c, request, TRUE)
    BY <2>1, <2>2, <2>3, <2>5, <2>6 DEF Clicked
  <2> QED
    BY <2>3, <2>4 DEF c, n
<1>4. ASSUME Edit(j, a) PROVE Clicked(j, Closure("edit", a, 0, dlg.sel), "select", TRUE)
  BY <1>0, <1>4 DEF Edit, Idle, Clicked, Closure, Requests, Dialogs
<1>5. ASSUME Create(j, a) PROVE Clicked(j, Closure("create", a, 0, Main), "create", FALSE)
  BY <1>5 DEF Create, Clicked, Closure, Requests
<1>6. ASSUME Delete(j, a) PROVE Clicked(j, Closure("delete", a, 0, Main), "delete", TRUE)
  BY <1>0, <1>6 DEF Delete, Idle, Clicked, Closure, Requests
<1>7. ASSUME GenerateKey(j, a)
      PROVE  Clicked(j, [Closure("generateKey", a, 0, Main) EXCEPT !.key = [app |-> a, id |-> j]],
                     "generateKey", FALSE)
  BY <1>7 DEF GenerateKey, OnScreen, Clicked, Closure, Requests, Keys
<1>8. ASSUME DeleteKey(j, a)
      PROVE  Clicked(j, [Closure("deleteKey", a, 0, Main) EXCEPT !.key = dlg.key],
                     "deleteKey", TRUE)
  BY <1>0, <1>8 DEF DeleteKey, Idle, Clicked, Closure, Requests, Dialogs
<1> HIDE DEF Closures, Labels
<1>9. \A c, request, holder : Clicked(j, c, request, holder) => c \in Closures /\ request \in Labels
  BY DEF Clicked
<1> QED
  BY <1>1, <1>2, <1>3, <1>4, <1>5, <1>6, <1>7, <1>8, <1>9 DEF Click

\* How a request ends for its handler.
Ends(j) ==
  \/ \E views \in SUBSET Views : Close(j, views) \/ Stay(j, views)
  \/ \E changed \in SUBSET Views : BreakHalfway(j, changed) \/ BreakOff(j, changed)
  \/ /\ job[j].op \in {"assign", "switch"}
     /\ \E views \in SUBSET Views : Continue(j, "select", views)
  \/ job[j].op = "edit" /\ Continue(j, "appId", {})

\* Every request is one of a running handler, and ends in one of these ways.
LEMMA RequestEnds ==
  ASSUME Types, NEW j \in Jobs, Request(j)
  PROVE  Running(j) /\ Ends(j) /\ excused' \in SUBSET Views
<1>0. JobTypes /\ excused \subseteq Views
  BY DEF Types, HistoryTypes
<1>a. Unread(j) \subseteq Views
  BY DEF Unread, Views
<1>b. \A changed \in SUBSET Views :
        BreakHalfway(j, changed) \/ BreakOff(j, changed) => Ends(j) /\ excused' \subseteq Views
  BY <1>0, <1>a DEF BreakHalfway, BreakOff, Break, Ends
<1>c. \A views \in SUBSET Views :
        Close(j, views) \/ Stay(j, views) => Ends(j)
  BY DEF Ends
<1>d. /\ \A v : v \in Views => {v} \in SUBSET Views
      /\ {} \in SUBSET Views /\ {"balance", "apps"} \in SUBSET Views /\ Views \in SUBSET Views
      /\ {"balance", "keys"} \in SUBSET Views
      /\ "balance" \in Views /\ "apps" \in Views /\ "keys" \in Views
  BY DEF Views
<1>1. CASE Allocate(j)
  <2>1. pc[j] = "allocate" /\ job[j].op = "assign"
    BY <1>0, <1>1, RequestOf DEF Allocate
  <2>2. CASE Continue(j, "select", {})
    BY <1>0, <1>d, <2>1, <2>2 DEF Continue, Ends, Running
  <2> QED
    BY <1>1, <1>b, <1>d, <2>1, <2>2 DEF Allocate, Running
<1>2. CASE Reclaim(j)
  <2>1. pc[j] = "reclaim"
    BY <1>2 DEF Reclaim
  <2>2. CASE Reclaimed(j)
    BY <1>0, <1>c, <1>d, <2>1, <2>2 DEF Reclaimed, Continue, Ends, Running
  <2> QED
    BY <1>2, <1>b, <1>d, <2>1, <2>2 DEF Reclaim, Running
<1>3. CASE Select(j)
  <2>1. pc[j] = "select"
    BY <1>3 DEF Select
  <2>2. CASE Selected(j)
    BY <1>0, <1>c, <1>d, <2>1, <2>2 DEF Selected, Continue, Ends, Running
  <2> QED
    BY <1>3, <1>b, <1>d, <2>1, <2>2 DEF Select, Running
<1>4. CASE StoreAppId(j)
  BY <1>0, <1>4, <1>c, <1>d DEF StoreAppId, Running
<1>5. CASE CreateApp(j)
  BY <1>0, <1>5, <1>b, <1>c, <1>d DEF CreateApp, Running
<1>6. CASE DeleteApp(j)
  BY <1>0, <1>6, <1>b, <1>c, <1>d DEF DeleteApp, Running
<1>7. CASE CreateKey(j)
  BY <1>0, <1>7, <1>b, <1>c, <1>d DEF CreateKey, Running
<1>8. CASE RemoveKey(j)
  BY <1>0, <1>8, <1>b, <1>c, <1>d DEF RemoveKey, Running
<1>9. CASE Refused(j)
  BY <1>0, <1>9, <1>b, <1>d DEF Refused
<1> QED
  BY <1>1, <1>2, <1>3, <1>4, <1>5, <1>6, <1>7, <1>8, <1>9 DEF Request

\* However a request ends, everything but the server is as it should be.
LEMMA EndsKeepTypes ==
  ASSUME Types, NEW j \in Jobs, Running(j), Ends(j)
  PROVE  /\ DialogTypes' /\ JobTypes' /\ ReadTypes' /\ loose' \subseteq Apps
         /\ UNCHANGED <<view, user>>
<1> USE DEF Types, DialogTypes, HistoryTypes
<1>1. job[j] \in Closures /\ job[j] \in AnyJob /\ job[j].app \in Apps /\ job[j].sel \in Options
  BY RequestOf DEF Closures, JobTypes
<1>2. Closed \in Dialogs /\ Released(j) \in Dialogs
  BY DEF Closed, Released, Dialogs, Options, Main, None, NoOption
<1>3. [NoJob EXCEPT !.app = job[j].app] \in AnyJob
  BY <1>1 DEF NoJob, AnyJob, Options, Main
<1>4. ASSUME NEW views \in SUBSET Views, Ask(views) PROVE asked' \in [Views -> Nat]
  BY <1>4 DEF Ask, ReadTypes
<1>5. Finish(j) => JobTypes'
  BY <1>3 DEF Finish, JobTypes, Running, Labels
<1>6. ASSUME NEW views \in SUBSET Views, Close(j, views)
      PROVE  DialogTypes' /\ ReadTypes' /\ UNCHANGED <<view, user>>
  BY <1>2, <1>4, <1>6 DEF Close, ReadTypes, page
<1>7. ASSUME NEW views \in SUBSET Views, Stay(j, views)
      PROVE  DialogTypes' /\ ReadTypes' /\ UNCHANGED <<view, user>>
  <2>1. dlg' \in Dialogs
    BY <1>1, <1>2, <1>7 DEF Stay, Dialogs
  <2> QED
    BY <1>4, <1>7, <2>1 DEF Stay, ReadTypes, page
<1>8. ASSUME NEW changed, Break(j, changed)
      PROVE  Finish(j) /\ DialogTypes' /\ ReadTypes' /\ UNCHANGED <<view, user>>
  BY <1>1, <1>2, <1>8 DEF Break, ReadTypes, page, reading
<1>9. ASSUME NEW views \in SUBSET Views, NEW request \in {"select", "appId"},
             Continue(j, request, views), request \in Requests[job[j].op]
      PROVE  JobTypes' /\ DialogTypes' /\ ReadTypes' /\ UNCHANGED <<view, user, loose>>
  <2>1. JobTypes'
    BY <1>1, <1>9 DEF Continue, JobTypes, Running, Labels
  <2> QED
    BY <1>4, <1>9, <2>1 DEF Continue, ReadTypes, page, dialogs
<1>10. \A views : Close(j, views) \/ Stay(j, views) => Finish(j) /\ UNCHANGED loose
  BY DEF Close, Stay
<1>11. CASE \E views \in SUBSET Views : Close(j, views) \/ Stay(j, views)
  BY <1>5, <1>6, <1>7, <1>10, <1>11
<1>12. CASE \E changed \in SUBSET Views : BreakHalfway(j, changed) \/ BreakOff(j, changed)
  BY <1>1, <1>5, <1>8, <1>12 DEF BreakHalfway, BreakOff
<1>13. CASE /\ job[j].op \in {"assign", "switch"}
            /\ \E views \in SUBSET Views : Continue(j, "select", views)
  BY <1>9, <1>13 DEF Requests
<1>14. CASE job[j].op = "edit" /\ Continue(j, "appId", {})
  BY <1>9, <1>14 DEF Requests
<1> QED
  BY <1>11, <1>12, <1>13, <1>14 DEF Ends

-----------------------------------------------------------------------------
(* The server                                                              *)

\* SetRow changes one field of one row of the list, if the row is there.
LEMMA RowIsSet ==
  ASSUME server \in Pages, NEW a, NEW n
  PROVE  /\ n \in Nat => SetRow(a, "alloc", n) \in Lists
         /\ n \in Options => SetRow(a, "sel", n) \in Lists
         /\ DOMAIN SetRow(a, "alloc", n) = Live /\ DOMAIN SetRow(a, "sel", n) = Live
         /\ \A b \in Live : /\ SetRow(a, "alloc", n)[b].sel = server.apps[b].sel
                            /\ SetRow(a, "sel", n)[b].alloc = server.apps[b].alloc
                            /\ b # a => SetRow(a, "alloc", n)[b] = server.apps[b]
                            /\ b # a => SetRow(a, "sel", n)[b] = server.apps[b]
         /\ a \in Live => /\ SetRow(a, "alloc", n)[a].alloc = n
                          /\ SetRow(a, "sel", n)[a].sel = n
<1>1. server.apps \in Lists
  BY DEF Pages
<1>2. PICK S \in SUBSET Apps : server.apps \in [S -> Row]
  BY <1>1 DEF Lists
<1>3. Live = S /\ [S -> Row] \subseteq Lists
  BY <1>2, ListIs DEF Live
<1>4. /\ n \in Nat => SetRow(a, "alloc", n) \in [S -> Row]
      /\ n \in Options => SetRow(a, "sel", n) \in [S -> Row]
  BY <1>2, <1>3 DEF SetRow, Row
<1>5. DOMAIN SetRow(a, "alloc", n) = Live /\ DOMAIN SetRow(a, "sel", n) = Live
  BY <1>2, <1>3 DEF SetRow
<1>6. ASSUME NEW b \in Live
      PROVE  /\ SetRow(a, "alloc", n)[b].sel = server.apps[b].sel
             /\ SetRow(a, "sel", n)[b].alloc = server.apps[b].alloc
             /\ b # a => SetRow(a, "alloc", n)[b] = server.apps[b]
             /\ b # a => SetRow(a, "sel", n)[b] = server.apps[b]
             /\ b = a => SetRow(a, "alloc", n)[a].alloc = n /\ SetRow(a, "sel", n)[a].sel = n
  BY <1>2, <1>3 DEF SetRow, Row
<1> QED
  BY <1>3, <1>4, <1>5, <1>6

\* A request leaves a balance, a list and keys.
LEMMA RequestKeepsServer ==
  ASSUME Types, NEW j \in Jobs, Request(j)
  PROVE  server' \in Pages /\ assigned' \subseteq Apps
<1>1. /\ server \in Pages /\ JobTypes /\ assigned \subseteq Apps
      /\ server = [balance |-> server.balance, apps |-> server.apps, keys |-> server.keys]
      /\ server.balance \in Nat /\ server.apps \in Lists /\ server.keys \in SUBSET Keys
  BY DEF Types, PageTypes, HistoryTypes, Pages
<1>2. Running(j)
  BY RequestEnds
<1>3. job[j] \in Closures
  BY <1>1, <1>2, RequestOf
<1>4. /\ job[j].app \in Apps /\ job[j].amount \in Nat /\ job[j].sel \in Options
      /\ job[j].key \in Keys \cup {NoKey}
  BY <1>3 DEF Closures
<1>5. ASSUME NEW a \in Live
      PROVE  /\ server.apps[a] \in Row
             /\ server.apps[a].alloc \in Nat /\ server.apps[a].used \in Nat
  BY <1>1, ListIs DEF Row, Live
<1>6. \A n \in Nat, list \in Lists, keys \in SUBSET Keys :
        [balance |-> n, apps |-> list, keys |-> keys] \in Pages
  BY DEF Pages
<1>7. CASE Allocate(j)
  <2> DEFINE a == job[j].app
             n == server.apps[a].alloc + job[j].amount
             left == server.balance - job[j].amount
  <2>1. left \in Nat
    BY <1>1, <1>4, <1>7 DEF Allocate
  <2>2. SetRow(a, "alloc", n) \in Lists
    <3>1. CASE a \in Live
      <4>1. n \in Nat
        BY <1>4, <1>5, <3>1
      <4> QED
        BY <1>1, <4>1, RowIsSet
    <3>2. CASE a \notin Live
      BY <1>1, <3>2 DEF SetRow
    <3> QED
      BY <3>1, <3>2
  <2>3. server' = [balance |-> left, apps |-> SetRow(a, "alloc", n), keys |-> server.keys]
    BY <1>1, <1>7 DEF Allocate
  <2>4. assigned' = assigned \cup {a}
    BY <1>7 DEF Allocate
  <2> QED
    BY <1>1, <1>4, <1>6, <2>1, <2>2, <2>3, <2>4
<1>8. CASE Reclaim(j)
  <2> DEFINE a == job[j].app
             n == server.apps[a].alloc - job[j].amount
             more == server.balance + job[j].amount
  <2>1. n \in Nat /\ more \in Nat
    BY <1>1, <1>4, <1>5, <1>8 DEF Reclaim
  <2>2. SetRow(a, "alloc", n) \in Lists
    BY <1>1, <2>1, RowIsSet
  <2>3. server' = [balance |-> more, apps |-> SetRow(a, "alloc", n), keys |-> server.keys]
    BY <1>1, <1>8 DEF Reclaim
  <2>4. assigned' = assigned
    BY <1>8 DEF Reclaim
  <2> HIDE DEF a, n, more
  <2> QED
    BY <1>1, <1>6, <2>1, <2>2, <2>3, <2>4
<1>9. CASE Select(j)
  <2>1. SetRow(job[j].app, "sel", job[j].sel) \in Lists
    BY <1>1, <1>4, RowIsSet
  <2>2. server' = [balance |-> server.balance, apps |-> SetRow(job[j].app, "sel", job[j].sel),
                   keys |-> server.keys]
    BY <1>1, <1>9 DEF Select
  <2> QED
    BY <1>1, <1>6, <1>9, <2>1, <2>2 DEF Select
<1>10. CASE CreateApp(j)
  <2> DEFINE list == [a \in Live \cup {job[j].app} |->
                        IF a \in Live THEN server.apps[a]
                        ELSE [alloc |-> 0, used |-> 0, sel |-> Main]]
  <2>1. server' = [balance |-> server.balance, apps |-> list, keys |-> server.keys]
    BY <1>1, <1>10 DEF CreateApp
  <2>2. list \in [Live \cup {job[j].app} -> Row]
    BY <1>5 DEF Row, Options, Main
  <2>3. Live \cup {job[j].app} \in SUBSET Apps
    BY <1>1, <1>4, ListIs DEF Live
  <2>4. list \in Lists
    BY <2>2, <2>3, ListIs
  <2> QED
    BY <1>1, <1>6, <1>10, <2>1, <2>4 DEF CreateApp
<1>11. CASE DeleteApp(j)
  <2> DEFINE S == Live \ {job[j].app}
             list == [b \in S |-> server.apps[b]]
             keys == {k \in server.keys : k.app # job[j].app}
             more == server.balance + server.apps[job[j].app].used
  <2>1. server' = [balance |-> more, apps |-> list, keys |-> keys]
    BY <1>11 DEF DeleteApp
  <2>2. list \in [S -> Row] /\ S \in SUBSET Apps
    BY <1>1, <1>5, ListIs DEF Live
  <2>3. list \in Lists
    BY <2>2, ListIs
  <2>4. more \in Nat /\ keys \in SUBSET Keys
    BY <1>1, <1>5, <1>11 DEF DeleteApp
  <2> QED
    BY <1>1, <1>6, <1>11, <2>1, <2>3, <2>4 DEF DeleteApp
<1>12. CASE CreateKey(j)
  <2>1. job[j].key \in Keys
    BY <1>1, <1>12, RequestOf DEF CreateKey
  <2>2. server' = [balance |-> server.balance, apps |-> server.apps,
                   keys |-> server.keys \cup {job[j].key}]
    BY <1>1, <1>12 DEF CreateKey
  <2> QED
    BY <1>1, <1>6, <1>12, <2>1, <2>2 DEF CreateKey
<1>13. CASE RemoveKey(j)
  <2>1. server' = [balance |-> server.balance, apps |-> server.apps,
                   keys |-> server.keys \ {job[j].key}]
    BY <1>1, <1>13 DEF RemoveKey
  <2> QED
    BY <1>1, <1>6, <1>13, <2>1 DEF RemoveKey
<1>14. CASE Refused(j)
  BY <1>1, <1>14 DEF Refused
<1>15. CASE StoreAppId(j)
  BY <1>1, <1>15 DEF StoreAppId
<1> QED
  BY <1>7, <1>8, <1>9, <1>10, <1>11, <1>12, <1>13, <1>14, <1>15 DEF Request

-----------------------------------------------------------------------------
(* The page                                                                *)

\* What a dialog is mounted with is typed.
LEMMA DialogsAre ==
  /\ Closed \in Dialogs /\ NoDialog \notin [kind : Kinds, app : Apps]
  /\ \A list \in Lists, a \in Apps : a \in DOMAIN list => Fresh(list, a) \in Dialogs
  /\ \A d \in Dialogs, option \in Options :
       /\ [d EXCEPT !.pending = option] \in Dialogs /\ [d EXCEPT !.option = option] \in Dialogs
       /\ [d EXCEPT !.pending = NoOption] \in Dialogs /\ [d EXCEPT !.sel = option] \in Dialogs
  /\ \A d \in Dialogs, j \in Jobs : [d EXCEPT !.job = j] \in Dialogs
  /\ \A d \in Dialogs, k \in Keys : [d EXCEPT !.key = k] \in Dialogs
<1>1. Closed \in Dialogs
  BY DEF Closed, Dialogs, Options, Main, None
<1>2. NoDialog \notin [kind : Kinds, app : Apps]
  BY AppsAssumption DEF NoDialog
<1>3. ASSUME NEW list \in Lists, NEW a \in Apps, a \in DOMAIN list
      PROVE  Fresh(list, a) \in Dialogs
  <2>1. list[a] \in Row
    BY <1>3, ListIs
  <2> QED
    BY <1>1, <2>1 DEF Fresh, Dialogs, Row, Closed
<1>4. \A d \in Dialogs, option \in Options :
       /\ [d EXCEPT !.pending = option] \in Dialogs /\ [d EXCEPT !.option = option] \in Dialogs
       /\ [d EXCEPT !.pending = NoOption] \in Dialogs /\ [d EXCEPT !.sel = option] \in Dialogs
  BY DEF Dialogs
<1>5. /\ \A d \in Dialogs, j \in Jobs : [d EXCEPT !.job = j] \in Dialogs
      /\ \A d \in Dialogs, k \in Keys : [d EXCEPT !.key = k] \in Dialogs
  BY DEF Dialogs
<1> QED
  BY <1>1, <1>2, <1>3, <1>4, <1>5

\* The dialogs are opened, closed and played with.
LEMMA DialogKeepsTypes ==
  ASSUME Types, CloseDialog \/ \E a \in Apps : Dialog(a)
  PROVE  Types'
<1>0. /\ view.apps \in Lists /\ view.keys \subseteq Keys /\ dlg \in Dialogs
      /\ open = NoDialog \/ open \in [kind : Kinds, app : Apps]
  BY DEF Types, PageTypes, DialogTypes, Pages
<1>1. DialogTypes' /\ UNCHANGED <<server, page, job, pc, reading, excused, loose, assigned>>
  <2>1. CASE CloseDialog
    BY <2>1, DialogsAre DEF CloseDialog, DialogTypes
  <2>2. ASSUME NEW a \in Apps, NEW kind \in Kinds, OpenDialog(kind, a)
        PROVE  DialogTypes'
    <3>1. Fresh(view.apps, a) \in Dialogs
      BY <1>0, <2>2, DialogsAre DEF OpenDialog, OnScreen, Listed
    <3>2. dlg' \in Dialogs
      BY <1>0, <2>2, <3>1, DialogsAre DEF OpenDialog
    <3> QED
      BY <2>2, <3>2 DEF OpenDialog, DialogTypes
  <2>3. ASSUME NEW a \in Apps, NEW option \in Options, Choose(a, option) PROVE DialogTypes'
    BY <1>0, <2>3, DialogsAre DEF Choose, DialogTypes
  <2>4. ASSUME NEW a \in Apps, CancelSwitch(a) PROVE DialogTypes'
    BY <1>0, <2>4, DialogsAre DEF CancelSwitch, DialogTypes, Options, Main
  <2>6. ASSUME NEW a \in Apps, TypeInForm(a) PROVE DialogTypes'
    <3>1. view.apps[a] \in Row
      BY <1>0, <2>6, ListIs DEF TypeInForm, Showing, OnScreen, Listed
    <3>2. view.apps[a].sel \in Options
      BY <3>1 DEF Row
    <3> QED
      BY <1>0, <2>6, <3>2, DialogsAre DEF TypeInForm, DialogTypes
  <2>5. UNCHANGED <<server, page, job, pc, reading, excused, loose, assigned>>
    BY DEF Dialog, CloseDialog, OpenDialog, Choose, CancelSwitch, TypeInForm
  <2> QED
    BY <2>1, <2>2, <2>3, <2>4, <2>5, <2>6 DEF Dialog
<1> QED
  BY <1>1 DEF Types, PageTypes, JobTypes, ReadTypes, HistoryTypes, Running, page, reading

\* A click starts a handler.
LEMMA ClickKeepsTypes ==
  ASSUME Types, NEW j \in Jobs, NEW c \in Closures, NEW request \in Labels, NEW holder \in BOOLEAN,
         Clicked(j, c, request, holder)
  PROVE  Types'
<1>1. /\ job' = [job EXCEPT ![j] = c] /\ pc' = [pc EXCEPT ![j] = request]
      /\ dlg' = (IF holder THEN [dlg EXCEPT !.job = j] ELSE dlg)
      /\ loose' \subseteq loose \cup {c.app}
      /\ UNCHANGED <<open, server, page, reading, excused, assigned>>
  BY DEF Clicked, Start
<1>2. DialogTypes'
  BY <1>1, DialogsAre DEF Types, DialogTypes
<1>3. c \in AnyJob /\ c.app \in Apps
  BY DEF Closures, AnyJob
<1>4. JobTypes'
  BY <1>1, <1>3 DEF Types, JobTypes, Clicked, Running
<1> QED
  BY <1>1, <1>2, <1>3, <1>4 DEF Types, PageTypes, ReadTypes, HistoryTypes, page, reading

\* A submission spends one of the credits of its app.
LEMMA SpendKeepsTypes ==
  ASSUME Types, NEW a \in Apps, Spend(a)
  PROVE  Types'
<1>1. server \in Pages /\ a \in Live /\ server.apps[a].alloc > 0
  BY DEF Types, PageTypes, Spend
<1>2. PICK S \in SUBSET Apps : server.apps \in [S -> Row]
  BY <1>1 DEF Pages, Lists
<1>3. server' = [server EXCEPT !.apps[a].alloc = @ - 1, !.apps[a].used = @ + 1]
  BY DEF Spend
<1>4. a \in S /\ server.apps[a] \in Row
  BY <1>1, <1>2 DEF Live
<1>5. [server.apps[a] EXCEPT !.alloc = @ - 1, !.used = @ + 1] \in Row
  <2> DEFINE row == server.apps[a]
             left == row.alloc - 1
             spent == row.used + 1
  <2>1. row \in Row /\ left \in Nat /\ spent \in Nat
    BY <1>1, <1>4 DEF Row
  <2> HIDE DEF row, left, spent
  <2>2. [row EXCEPT !.alloc = left, !.used = spent] \in Row
    BY <2>1 DEF Row
  <2> QED
    BY <2>2 DEF row, left, spent
<1>6. server'.apps \in [S -> Row] /\ server'.balance \in Nat /\ server'.keys \subseteq Keys
  BY <1>1, <1>2, <1>3, <1>4, <1>5 DEF Pages, Row
<1>7. server' \in Pages
  BY <1>1, <1>3, <1>6, ListIs DEF Pages
<1> QED
  BY <1>7 DEF Spend, Types, PageTypes, DialogTypes, JobTypes, ReadTypes, HistoryTypes, Running,
              page, dialogs, reading, Views

-----------------------------------------------------------------------------
(* Reads                                                                   *)

\* What is done to the answers of a view leaves answers of that view.
LEMMA QueuesAre ==
  ASSUME NEW v \in Views, NEW queue \in Queue(v)
  PROVE  /\ Len(queue) \in Nat /\ DOMAIN queue = 1 .. Len(queue)
         /\ \A i \in 1 .. Len(queue) : /\ queue[i].value \in Values(v)
                                       /\ queue[i].own \in BOOLEAN /\ queue[i].late \in BOOLEAN
         /\ \A x \in Values(v), own \in BOOLEAN :
              Append(queue, [value |-> x, own |-> own, late |-> FALSE]) \in Queue(v)
         /\ \A i \in 1 .. Len(queue) : Without(queue, i) \in Queue(v)
         /\ Aborted(queue) \in Queue(v)
<1> DEFINE E == [value : Values(v), own : BOOLEAN, late : BOOLEAN]
<1>1. queue \in Seq(E)
  BY DEF Queue
<1>2. \A e \in E : [e EXCEPT !.late = TRUE] \in E
  OBVIOUS
<1>3. \A x \in Values(v), own \in BOOLEAN : [value |-> x, own |-> own, late |-> FALSE] \in E
  OBVIOUS
<1>4. \A e \in E : e.value \in Values(v) /\ e.own \in BOOLEAN /\ e.late \in BOOLEAN
  OBVIOUS
<1> HIDE DEF E
<1>5. /\ Len(queue) \in Nat /\ DOMAIN queue = 1 .. Len(queue)
      /\ \A i \in 1 .. Len(queue) : queue[i] \in E
  BY <1>1
<1>6. \A n \in Nat : \A f : f \in [1 .. n -> E] => f \in Seq(E)
  OBVIOUS
<1>7. ASSUME NEW i \in 1 .. Len(queue) PROVE Without(queue, i) \in Seq(E)
  <2>1. Len(queue) - 1 \in Nat
    BY <1>5
  <2>2. Without(queue, i) \in [1 .. Len(queue) - 1 -> E]
    BY <1>2, <1>5 DEF Without
  <2> QED
    BY <1>6, <2>1, <2>2
<1>8. Aborted(queue) \in Seq(E)
  <2> DEFINE own == {i \in 1 .. Len(queue) : queue[i].own}
             rest == [k \in 1 .. Len(queue) - 1 |->
                        IF \E i \in own : i <= k THEN queue[k + 1] ELSE queue[k]]
  <2>1. CASE own = {}
    BY <1>1, <2>1 DEF Aborted
  <2>2. CASE own # {}
    <3>1. Len(queue) - 1 \in Nat
      BY <1>5, <2>2
    <3>2. rest \in [1 .. Len(queue) - 1 -> E]
      BY <1>5
    <3>3. Aborted(queue) = rest
      BY <2>2 DEF Aborted
    <3> HIDE DEF rest
    <3> QED
      BY <1>6, <3>1, <3>2, <3>3
  <2> QED
    BY <2>1, <2>2
<1>9. \A e \in E : Append(queue, e) \in Seq(E)
  BY <1>1
<1>10. Queue(v) = Seq(E)
  BY DEF Queue, E
<1> QED
  BY <1>3, <1>4, <1>5, <1>7, <1>8, <1>9, <1>10

\* The queues of the three views, after one of them has changed.
LEMMA AnswersAre ==
  ASSUME NEW queues, AreAnswers(queues)
  PROVE  /\ \A v \in Views : \A queue \in Queue(v) : AreAnswers([queues EXCEPT ![v] = queue])
         /\ \A v \in Views : queues[v] \in Queue(v) /\ Aborted(queues[v]) \in Queue(v)
         /\ AreAnswers([queues EXCEPT !["apps"] = Aborted(@)])
<1>1. ASSUME NEW v \in Views, NEW queue \in Queue(v)
      PROVE  AreAnswers([queues EXCEPT ![v] = queue])
  BY DEF AreAnswers
<1>2. \A v \in Views : queues[v] \in Queue(v) /\ Aborted(queues[v]) \in Queue(v)
  BY QueuesAre DEF AreAnswers
<1>3. "apps" \in Views
  BY DEF Views
<1> QED
  BY <1>1, <1>2, <1>3

\* The page asks for its list again.
LEMMA ReloadKeepsTypes ==
  ASSUME Types, NEW before \in [Views -> Nat], NEW queued, AreAnswers(queued),
         Reload(before, queued)
  PROVE  ReadTypes' /\ dlg' \in Dialogs
<1>1. asked' \in [Views -> Nat]
  BY DEF Reload, Views
<1> QED
  BY <1>1, AnswersAre, DialogsAre DEF Reload, ReadTypes

\* The balance and the user's record are read together.
LEMMA UserKeepsTypes ==
  ASSUME Types, NEW before \in [Views -> Nat], NEW queued, AreAnswers(queued),
         NEW there \in BOOLEAN, UserBecomes(there, before, queued)
  PROVE  ReadTypes' /\ dlg' \in Dialogs /\ user' \in BOOLEAN
BY ReloadKeepsTypes DEF UserBecomes, Types, ReadTypes, DialogTypes

\* The items of a new list.
LEMMA RemountKeepsTypes ==
  ASSUME Types, NEW list \in Lists, NEW again \in BOOLEAN, Remount(list, again)
  PROVE  dlg' \in Dialogs
<1>1. open = NoDialog \/ open.app \notin DOMAIN list \/ Fresh(list, open.app) \in Dialogs
  BY DialogsAre DEF Types, DialogTypes
<1> QED
  BY <1>1, DialogsAre DEF Remount, Types, DialogTypes

\* Reads are asked, answered, taken and lost.
LEMMA ReadKeepsTypes ==
  ASSUME Types,
         \/ \E v \in Views : Read(v)
         \/ ServeCard \/ LoseBalance \/ LoseCard \/ SessionRefresh
  PROVE  Types'
<1> DEFINE Rest == UNCHANGED <<server, open, job, pc, loose, assigned>>
<1>0. /\ Rest /\ dlg' \in Dialogs => DialogTypes'
      /\ Rest => JobTypes'
      /\ Rest /\ excused' \subseteq Views => HistoryTypes'
  BY DEF Types, DialogTypes, JobTypes, HistoryTypes, Running
<1>1. /\ server \in Pages /\ view \in Pages /\ user \in BOOLEAN /\ excused \subseteq Views
      /\ asked \in [Views -> Nat] /\ AreAnswers(answers) /\ dlg \in Dialogs
      /\ card \in {"idle", "asked", "answered"}
  BY DEF Types, PageTypes, DialogTypes, ReadTypes, HistoryTypes
<1>2. ASSUME NEW v \in Views, NEW i \in 1 .. Len(answers[v])
      PROVE  /\ answers[v][i].value \in Values(v) /\ answers[v][i].own \in BOOLEAN
             /\ Without(answers[v], i) \in Queue(v)
             /\ AreAnswers([answers EXCEPT ![v] = Without(@, i)])
             /\ Judged(v, i) \subseteq Views
  BY <1>1, AnswersAre, QueuesAre DEF Judged
<1>3. ASSUME NEW v \in Views, NEW own \in BOOLEAN
      PROVE  AreAnswers([answers EXCEPT ![v] = Append(@, Answer(own, v))])
  BY <1>1, AnswersAre, QueuesAre, ValuesAre DEF Answer
<1>4. "balance" \in Views /\ "apps" \in Views /\ "keys" \in Views
  BY DEF Views
<1>5. ASSUME NEW v \in Views, asked[v] > 0
      PROVE  [asked EXCEPT ![v] = @ - 1] \in [Views -> Nat]
  BY <1>1, <1>5
<1>6. ASSUME NEW v \in Views, Serve(v) PROVE Types'
  BY <1>0, <1>1, <1>3, <1>5, <1>6
     DEF Serve, Types, PageTypes, ReadTypes, page, dialogs
<1>7. ASSUME NEW v \in Views, LoseList(v) PROVE Types'
  BY <1>0, <1>1, <1>5, <1>7
     DEF LoseList, Types, PageTypes, ReadTypes, page, dialogs
<1>8. ASSUME NEW i \in 1 .. Len(answers["balance"]), ApplyBalance(i) PROVE Types'
  <2> DEFINE x == answers["balance"][i].value
             queued == [answers EXCEPT !["balance"] = Without(@, i)]
  <2>1. x \in Nat /\ AreAnswers(queued) /\ excused' \subseteq Views
    BY <1>2, <1>4, <1>8, ValuesAre DEF ApplyBalance
  <2>2. view' \in Pages
    BY <1>1, <1>8, <2>1 DEF ApplyBalance, Pages
  <2>3. UserBecomes(TRUE, asked, queued) /\ Rest
    BY <1>8 DEF ApplyBalance
  <2> HIDE DEF queued
  <2>4. ReadTypes' /\ dlg' \in Dialogs /\ user' \in BOOLEAN
    BY <1>1, <2>1, <2>3, UserKeepsTypes
  <2> QED
    BY <1>0, <1>1, <2>1, <2>2, <2>3, <2>4 DEF Types, PageTypes
<1>9. ASSUME NEW i \in 1 .. Len(answers["keys"]), ApplyKeys(i) PROVE Types'
  <2>1. view' \in Pages
    BY <1>1, <1>2, <1>4, <1>9, ValuesAre DEF ApplyKeys, Pages
  <2>2. ReadTypes' /\ excused' \subseteq Views
    BY <1>1, <1>2, <1>4, <1>9 DEF ApplyKeys, ReadTypes
  <2> QED
    BY <1>0, <1>1, <1>9, <2>1, <2>2 DEF ApplyKeys, Types, PageTypes, dialogs
<1>10. ASSUME NEW i \in 1 .. Len(answers["apps"]), ApplyApps(i) PROVE Types'
  <2> DEFINE answer == answers["apps"][i]
  <2>1. answer.value \in Lists /\ answer.own \in BOOLEAN
    BY <1>2, <1>4, ValuesAre
  <2>2. view' \in Pages
    BY <1>1, <1>10, <2>1 DEF ApplyApps, Pages
  <2>3. ReadTypes' /\ excused' \subseteq Views
    BY <1>1, <1>2, <1>4, <1>10 DEF ApplyApps, ReadTypes
  <2>4. dlg' \in Dialogs
    BY <1>1, <1>10, <2>1, RemountKeepsTypes DEF ApplyApps
  <2> QED
    BY <1>0, <1>1, <1>10, <2>2, <2>3, <2>4 DEF ApplyApps, Types, PageTypes
<1>11. CASE ServeCard
  <2>1. ReadTypes'
    BY <1>1, <1>3, <1>4, <1>11 DEF ServeCard, ReadTypes
  <2> QED
    BY <1>0, <1>1, <1>11, <2>1 DEF ServeCard, Types, PageTypes, page, dialogs
<1>12. CASE LoseBalance
  <2> DEFINE before == [asked EXCEPT !["balance"] = @ - 1]
  <2>1. before \in [Views -> Nat]
    BY <1>4, <1>5, <1>12 DEF LoseBalance
  <2>2. view' \in Pages /\ excused' \subseteq Views
    BY <1>1, <1>4, <1>12 DEF LoseBalance, Pages
  <2>3. UserBecomes(FALSE, before, answers) /\ Rest
    BY <1>12 DEF LoseBalance
  <2> HIDE DEF before
  <2>4. ReadTypes' /\ dlg' \in Dialogs /\ user' \in BOOLEAN
    BY <1>1, <2>1, <2>3, UserKeepsTypes
  <2> QED
    BY <1>0, <1>1, <2>2, <2>3, <2>4 DEF Types, PageTypes
<1>13. CASE LoseCard
  <2>1. dlg' \in Dialogs
    BY <1>1, <1>13, RemountKeepsTypes DEF LoseCard, Pages
  <2>2. ReadTypes' /\ excused' \subseteq Views
    BY <1>1, <1>4, <1>13 DEF LoseCard, ReadTypes
  <2> QED
    BY <1>0, <1>1, <1>13, <2>1, <2>2 DEF LoseCard, Types, PageTypes, page
<1>14. CASE SessionRefresh
  <2>2. [asked EXCEPT !["balance"] = @ + 1] \in [Views -> Nat]
    BY <1>1, <1>4
  <2>1. ReadTypes' /\ dlg' \in Dialogs
    BY <1>1, <1>14, <2>2, ReloadKeepsTypes DEF SessionRefresh
  <2> QED
    BY <1>0, <1>1, <1>14, <2>1 DEF SessionRefresh, Types, PageTypes, page
<1> QED
  BY <1>6, <1>7, <1>8, <1>9, <1>10, <1>11, <1>12, <1>13, <1>14 DEF Read

\* The types at the start.
LEMMA TypesAtStart == Init => Types
<1> SUFFICES ASSUME Init PROVE Types
  OBVIOUS
<1> USE AppsAssumption DEF Init
<1>1. server \in Pages
  <2>1. server.apps \in [Funded -> Row]
    BY DEF Row, Options, Assigned
  <2> QED
    BY <2>1, ListIs DEF Pages
<1>2. DialogTypes /\ NoKey \in Keys \cup {NoKey}
  BY DialogsAre DEF DialogTypes
<1>3. JobTypes
  BY <1>2 DEF JobTypes, NoJob, AnyJob, Labels, Running, Options, Main
<1>4. ReadTypes
  <2>1. \A v \in Views : <<>> \in Queue(v)
    BY DEF Queue
  <2> QED
    BY <2>1 DEF ReadTypes, AreAnswers
<1> QED
  BY <1>1, <1>2, <1>3, <1>4 DEF Types, PageTypes, HistoryTypes

\* Every step keeps the types.
LEMMA TypesStep == Types /\ [Next]_vars => Types'
<1> SUFFICES ASSUME Types, [Next]_vars PROVE Types'
  OBVIOUS
<1>1. ASSUME NEW a \in Apps, NEW j \in Jobs, Click(j, a) PROVE Types'
  BY <1>1, ClickStarts, ClickKeepsTypes DEF Clicked
<1>2. ASSUME NEW j \in Jobs, Request(j) PROVE Types'
  BY <1>2, RequestEnds, EndsKeepTypes, RequestKeepsServer DEF Types, PageTypes, HistoryTypes
<1>3. CASE UNCHANGED vars
  BY <1>3 DEF vars, page, dialogs, reading, Types, PageTypes, DialogTypes, JobTypes, ReadTypes,
              HistoryTypes, Running
<1> QED
  BY <1>1, <1>2, <1>3, DialogKeepsTypes, SpendKeepsTypes, ReadKeepsTypes DEF Next

\* The invariant behind the type invariant.
LEMMA TypesHold == Spec => []Types
<1> QED
  BY TypesAtStart, TypesStep, PTL DEF Spec

\* Types: what the server holds, the page shows and reads are answered with; no handler
\* is at a request of another, and the statements of the dialogs never overdraw.
THEOREM AppTypes == Spec => []TypeOK
<1> QED
  BY TypesHold, TypesGiveTypeOK, PTL

-----------------------------------------------------------------------------
(* What requests do                                                        *)

\* The row of an app after a request.
RowAfter(j, b) ==
  \/ /\ b \in Live /\ server'.apps[b] = server.apps[b]
     /\ b = job[j].app => \/ Refused(j)
                        \/ pc[j] \in {"create", "generateKey", "deleteKey", "appId"}
  \/ /\ b = job[j].app
     /\ \/ /\ b \in Live /\ pc[j] = "allocate" /\ Allocate(j)
           /\ server'.apps[b].sel = server.apps[b].sel
        \/ /\ b \in Live /\ pc[j] = "reclaim" /\ Reclaim(j)
           /\ server'.apps[b].sel = server.apps[b].sel
           /\ server.apps[b].alloc >= job[j].amount
           /\ server'.apps[b].alloc = server.apps[b].alloc - job[j].amount
        \/ /\ b \in Live /\ pc[j] = "select"
           /\ server'.apps[b].alloc = server.apps[b].alloc /\ server'.apps[b].sel = job[j].sel
        \/ /\ b \notin Live /\ pc[j] = "create"
           /\ server'.apps[b].alloc = 0 /\ server'.apps[b].sel = Main

\* A request changes the row of its app only, and that as it says.
LEMMA RowsAfter ==
  ASSUME Types, NEW j \in Jobs, Request(j), NEW b \in Live'
  PROVE  RowAfter(j, b)
<1>1. server \in Pages /\ JobTypes
  BY DEF Types, PageTypes
<1>2. job[j] \in Closures
  BY <1>1, RequestOf, RequestEnds
<1>3. job[j].app \in Apps /\ job[j].amount \in Nat /\ job[j].sel \in Options
  BY <1>2 DEF Closures
<1>4. ASSUME NEW a \in Live PROVE server.apps[a].alloc \in Nat /\ server.apps[a].used \in Nat
  BY <1>1, ListIs DEF Row, Live, Pages
<1>5. CASE Allocate(j)
  <2> DEFINE a == job[j].app
             n == server.apps[a].alloc + job[j].amount
  <2>1. server'.apps = SetRow(a, "alloc", n)
    BY <1>1, <1>5 DEF Allocate, Pages
  <2>2. b \in Live /\ pc[j] = "allocate"
    BY <1>1, <1>5, <2>1, RowIsSet DEF Live, Allocate
  <2> HIDE DEF n
  <2>3. server'.apps[b].sel = server.apps[b].sel /\ (b # a => server'.apps[b] = server.apps[b])
    BY <1>1, <2>1, <2>2, RowIsSet
  <2> QED
    BY <1>5, <2>2, <2>3 DEF RowAfter
<1>6. CASE Reclaim(j)
  <2> DEFINE a == job[j].app
             n == server.apps[a].alloc - job[j].amount
  <2>1. /\ server'.apps = SetRow(a, "alloc", n)
        /\ a \in Live /\ server.apps[a].alloc >= job[j].amount /\ pc[j] = "reclaim"
    BY <1>1, <1>6 DEF Reclaim, Pages
  <2>2. b \in Live
    BY <1>1, <2>1, RowIsSet DEF Live
  <2>3. n = server.apps[a].alloc - job[j].amount
    OBVIOUS
  <2> HIDE DEF n
  <2>4. /\ server'.apps[b].sel = server.apps[b].sel /\ (b # a => server'.apps[b] = server.apps[b])
        /\ b = a => server'.apps[b].alloc = n
    BY <1>1, <2>1, <2>2, RowIsSet
  <2> QED
    BY <1>6, <2>1, <2>2, <2>3, <2>4 DEF RowAfter
<1>7. CASE Select(j)
  <2> DEFINE a == job[j].app
             n == job[j].sel
  <2>1. server'.apps = SetRow(a, "sel", n) /\ a \in Live /\ pc[j] = "select"
    BY <1>1, <1>7 DEF Select, Pages
  <2>2. b \in Live
    BY <1>1, <2>1, RowIsSet DEF Live
  <2>4. /\ server'.apps[b].alloc = server.apps[b].alloc
        /\ b # a => server'.apps[b] = server.apps[b]
        /\ b = a => server'.apps[b].sel = n
    BY <1>1, <2>1, <2>2, RowIsSet
  <2> QED
    BY <2>1, <2>2, <2>4 DEF RowAfter
<1>8. CASE CreateApp(j)
  <2> DEFINE list == [a \in Live \cup {job[j].app} |->
                        IF a \in Live THEN server.apps[a]
                        ELSE [alloc |-> 0, used |-> 0, sel |-> Main]]
  <2>1. server'.apps = list /\ pc[j] = "create"
    BY <1>1, <1>8 DEF CreateApp, Pages
  <2> QED
    BY <2>1 DEF RowAfter, Live
<1>9. CASE DeleteApp(j)
  <2>1. server'.apps = [a \in Live \ {job[j].app} |-> server.apps[a]]
    BY <1>9 DEF DeleteApp
  <2> QED
    BY <2>1 DEF RowAfter, Live
<1>10. CASE CreateKey(j) \/ RemoveKey(j) \/ Refused(j)
  <2>1. server'.apps = server.apps
    BY <1>1, <1>10 DEF CreateKey, RemoveKey, Refused, Pages
  <2> QED
    BY <1>10, <2>1 DEF RowAfter, Live, CreateKey, RemoveKey
<1>11. CASE StoreAppId(j)
  <2>1. server'.apps = server.apps /\ pc[j] = "appId"
    BY <1>11 DEF StoreAppId
  <2> QED
    BY <2>1 DEF RowAfter, Live
<1> QED
  BY <1>5, <1>6, <1>7, <1>8, <1>9, <1>10, <1>11 DEF Request

\* What a request leaves of its handler: it goes on to the next request or is at its
\* end, and an assignment that does not get to its selection leaves its app half-way.
LEMMA JobsAfter ==
  ASSUME Types, NEW j \in Jobs, Request(j)
  PROVE  /\ \A i \in Jobs \ {j} : job'[i] = job[i] /\ pc'[i] = pc[i]
         /\ \/ pc'[j] = "done"
            \/ /\ pc'[j] = "select" /\ job'[j] = job[j]
               /\ Allocate(j) \/ (Reclaim(j) /\ job[j].op = "switch")
            \/ pc'[j] = "appId" /\ job'[j] = job[j] /\ job[j].op = "edit" /\ pc[j] = "select"
         /\ Allocate(j) => pc'[j] = "select" \/ job[j].app \in loose'
         /\ Refused(j) => pc'[j] = "done"
         /\ (Refused(j) /\ pc[j] = "select" /\ job[j].op = "assign") => job[j].app \in loose'
         /\ loose \subseteq loose'
         /\ Allocate(j) \/ assigned' = assigned
         /\ assigned \subseteq assigned'
         /\ UNCHANGED <<view, user, answers, card, outside>>
<1>1. job \in [Jobs -> AnyJob] /\ pc \in [Jobs -> Labels] /\ JobTypes
  BY DEF Types, JobTypes
<1>2. Ends(j)
  BY RequestEnds
<1>3. \A i \in Jobs \ {j} : job'[i] = job[i] /\ pc'[i] = pc[i]
  BY <1>1, <1>2 DEF Ends, Close, Stay, BreakHalfway, BreakOff, Break, Continue, Finish
<1>4. \A views : Close(j, views) \/ Stay(j, views) => pc'[j] = "done" /\ UNCHANGED loose
  BY <1>1 DEF Close, Stay, Finish
<1>5. \A changed : /\ BreakOff(j, changed) => pc'[j] = "done" /\ UNCHANGED loose
                   /\ BreakHalfway(j, changed) =>
                        pc'[j] = "done" /\ loose' = loose \cup {job[j].app}
  BY <1>1 DEF BreakHalfway, BreakOff, Break, Finish
<1>6. \A request, views : Continue(j, request, views) =>
        pc'[j] = request /\ job'[j] = job[j] /\ UNCHANGED loose
  BY <1>1 DEF Continue
<1>7. UNCHANGED <<view, user, answers, card, outside>>
  BY <1>2 DEF Ends, Close, Stay, BreakHalfway, BreakOff, Break, Continue, page, reading
<1>8. (Allocate(j) \/ assigned' = assigned) /\ assigned \subseteq assigned'
  BY DEF Request, Allocate, Reclaim, Select, StoreAppId, CreateApp, DeleteApp, CreateKey,
         RemoveKey, Refused
<1> DEFINE Done == pc'[j] = "done"
           Selects == /\ pc'[j] = "select" /\ job'[j] = job[j]
                      /\ Allocate(j) \/ (Reclaim(j) /\ job[j].op = "switch")
           Stores == /\ pc'[j] = "appId" /\ job'[j] = job[j]
                     /\ job[j].op = "edit" /\ pc[j] = "select"
<1>9. Done \/ Selects \/ Stores
  <2>1. Allocate(j) => Done \/ Selects
    BY <1>5, <1>6 DEF Allocate
  <2>2. Reclaim(j) => Done \/ Selects
    BY <1>4, <1>5, <1>6 DEF Reclaim, Reclaimed
  <2>3. Select(j) => Done \/ Stores
    BY <1>4, <1>5, <1>6 DEF Select, Selected
  <2>4. StoreAppId(j) \/ CreateApp(j) \/ DeleteApp(j) \/ CreateKey(j) \/ RemoveKey(j) => Done
    BY <1>4, <1>5 DEF StoreAppId, CreateApp, DeleteApp, CreateKey, RemoveKey
  <2>5. Refused(j) => Done
    BY <1>5 DEF Refused
  <2> HIDE DEF Done, Selects, Stores
  <2> QED
    BY <2>1, <2>2, <2>3, <2>4, <2>5 DEF Request
<1>10. loose \subseteq loose'
  BY <1>2, <1>4, <1>5, <1>6 DEF Ends
<1>11. Allocate(j) => pc'[j] = "select" \/ job[j].app \in loose'
  BY <1>5, <1>6 DEF Allocate
<1>12. /\ Refused(j) => pc'[j] = "done"
       /\ (Refused(j) /\ pc[j] = "select" /\ job[j].op = "assign") => job[j].app \in loose'
  BY <1>5 DEF Refused
<1> QED
  BY <1>3, <1>7, <1>8, <1>9, <1>10, <1>11, <1>12

\* What a request leaves of the dialogs: no selection it did not have.
LEMMA DialogAfter ==
  ASSUME Types, NEW j \in Jobs, Request(j)
  PROVE  \/ open' = NoDialog
         \/ open' = open /\ dlg'.sel = dlg.sel /\ dlg'.pending \in {dlg.pending, NoOption}
<1>1. Ends(j) /\ dlg \in Dialogs
  BY RequestEnds DEF Types, DialogTypes
<1>2. Released(j) \in Dialogs /\ Released(j).sel = dlg.sel /\ Released(j).pending = dlg.pending
  BY <1>1 DEF Released, Dialogs, None
<1>3. ASSUME NEW views, Stay(j, views)
      PROVE  open' = open /\ dlg'.sel = dlg.sel /\ dlg'.pending \in {dlg.pending, NoOption}
  BY <1>2, <1>3 DEF Stay, Dialogs
<1>4. ASSUME NEW changed, Break(j, changed)
      PROVE  open' = open /\ dlg'.sel = dlg.sel /\ dlg'.pending = dlg.pending
  BY <1>2, <1>4 DEF Break
<1> QED
  BY <1>1, <1>3, <1>4 DEF Ends, BreakHalfway, BreakOff, Close, Continue, dialogs

-----------------------------------------------------------------------------
(* What reads do                                                           *)

\* The answers of a view after one more.
LEMMA QueueAppend ==
  ASSUME NEW v \in Views, NEW queue \in Queue(v), NEW e
  PROVE  /\ Len(Append(queue, e)) = Len(queue) + 1
         /\ \A k \in 1 .. Len(queue) : Append(queue, e)[k] = queue[k]
         /\ Append(queue, e)[Len(queue) + 1] = e
<1> DEFINE E == [value : Values(v), own : BOOLEAN, late : BOOLEAN]
<1>1. queue \in Seq(E)
  BY DEF Queue
<1> HIDE DEF E
<1>2. queue \in Seq(E \cup {e}) /\ e \in E \cup {e}
  BY <1>1
<1> QED
  BY <1>2

\* The answers of a view after one is taken: those before it are late.
LEMMA QueueWithout ==
  ASSUME NEW v \in Views, NEW queue \in Queue(v), NEW i \in 1 .. Len(queue)
  PROVE  /\ Len(Without(queue, i)) = Len(queue) - 1
         /\ \A k \in 1 .. Len(queue) - 1 :
              /\ k < i => /\ Without(queue, i)[k].value = queue[k].value
                          /\ Without(queue, i)[k].own = queue[k].own
                          /\ Without(queue, i)[k].late
              /\ k >= i => Without(queue, i)[k] = queue[k + 1]
<1> DEFINE E == [value : Values(v), own : BOOLEAN, late : BOOLEAN]
           rest == Without(queue, i)
<1>1. queue \in Seq(E)
  BY DEF Queue
<1>2. \A e \in E : /\ [e EXCEPT !.late = TRUE].value = e.value
                   /\ [e EXCEPT !.late = TRUE].own = e.own
                   /\ [e EXCEPT !.late = TRUE].late
  OBVIOUS
<1> HIDE DEF E
<1>3. Len(queue) \in Nat /\ \A k \in 1 .. Len(queue) : queue[k] \in E
  BY <1>1
<1>4. Len(queue) - 1 \in Nat
  BY <1>3
<1>5. \A n \in Nat : \A f : DOMAIN f = 1 .. n => Len(f) = n
  OBVIOUS
<1>6. DOMAIN rest = 1 .. Len(queue) - 1
  BY DEF Without
<1>7. \A k \in 1 .. Len(queue) - 1 :
        rest[k] = IF k < i THEN [queue[k] EXCEPT !.late = TRUE] ELSE queue[k + 1]
  BY DEF Without
<1>8. \A k \in 1 .. Len(queue) - 1 : queue[k] \in E /\ (k >= i <=> ~(k < i))
  BY <1>3
<1> HIDE DEF rest
<1>9. Len(rest) = Len(queue) - 1
  BY <1>4, <1>5, <1>6
<1>10. ASSUME NEW k \in 1 .. Len(queue) - 1
       PROVE  /\ k < i => /\ rest[k].value = queue[k].value /\ rest[k].own = queue[k].own
                          /\ rest[k].late
              /\ k >= i => rest[k] = queue[k + 1]
  BY <1>2, <1>7, <1>8
<1> QED
  BY <1>9, <1>10 DEF rest

\* The answers of a view after the page's own is aborted.
LEMMA QueueAborted ==
  ASSUME NEW v \in Views, NEW queue \in Queue(v)
  PROVE  /\ (\A i \in 1 .. Len(queue) : ~queue[i].own) => Aborted(queue) = queue
         /\ (\E i \in 1 .. Len(queue) : queue[i].own) =>
              /\ Len(Aborted(queue)) = Len(queue) - 1
              /\ \A k \in 1 .. Len(queue) - 1 :
                   Aborted(queue)[k] = IF \E i \in 1 .. Len(queue) : queue[i].own /\ i <= k
                                       THEN queue[k + 1] ELSE queue[k]
<1>1. Len(queue) \in Nat
  BY QueuesAre
<1>2. (\A i \in 1 .. Len(queue) : ~queue[i].own) => Aborted(queue) = queue
  BY DEF Aborted
<1>3. \A n \in Nat : \A f : DOMAIN f = 1 .. n => Len(f) = n
  OBVIOUS
<1>4. ASSUME \E i \in 1 .. Len(queue) : queue[i].own
      PROVE  /\ Len(Aborted(queue)) = Len(queue) - 1
             /\ \A k \in 1 .. Len(queue) - 1 :
                  Aborted(queue)[k] = IF \E i \in 1 .. Len(queue) : queue[i].own /\ i <= k
                                      THEN queue[k + 1] ELSE queue[k]
  <2> DEFINE own == {i \in 1 .. Len(queue) : queue[i].own}
             rest == [k \in 1 .. Len(queue) - 1 |->
                        IF \E i \in own : i <= k THEN queue[k + 1] ELSE queue[k]]
  <2>1. Aborted(queue) = rest /\ Len(queue) - 1 \in Nat
    BY <1>1, <1>4 DEF Aborted
  <2>2. DOMAIN rest = 1 .. Len(queue) - 1
    OBVIOUS
  <2>3. \A k : (\E i \in own : i <= k) <=> (\E i \in 1 .. Len(queue) : queue[i].own /\ i <= k)
    OBVIOUS
  <2>4. \A k \in 1 .. Len(queue) - 1 :
          rest[k] = IF \E i \in 1 .. Len(queue) : queue[i].own /\ i <= k
                    THEN queue[k + 1] ELSE queue[k]
    BY <2>3
  <2> HIDE DEF rest
  <2>5. Len(rest) = Len(queue) - 1
    BY <1>3, <2>1, <2>2
  <2> QED
    BY <2>1, <2>4, <2>5
<1> QED
  BY <1>2, <1>4

\* What is in the queue of a view is what was in it, or the value the server has.
LEMMA QueueValues ==
  ASSUME NEW v \in Views, NEW queue \in Queue(v)
  PROVE  /\ \A x : \A k \in 1 .. Len(Append(queue, x)) :
              Append(queue, x)[k] = x \/ \E m \in 1 .. Len(queue) : Append(queue, x)[k] = queue[m]
         /\ \A i \in 1 .. Len(queue) : \A k \in 1 .. Len(Without(queue, i)) :
              \E m \in 1 .. Len(queue) : Without(queue, i)[k].value = queue[m].value
         /\ \A k \in 1 .. Len(Aborted(queue)) :
              \E m \in 1 .. Len(queue) : Aborted(queue)[k].value = queue[m].value
<1>1. Len(queue) \in Nat
  BY QueuesAre
<1>2. ASSUME NEW x, NEW k \in 1 .. Len(Append(queue, x))
      PROVE  Append(queue, x)[k] = x \/ \E m \in 1 .. Len(queue) : Append(queue, x)[k] = queue[m]
  <2>1. k \in 1 .. Len(queue) \/ k = Len(queue) + 1
    BY <1>1, QueueAppend
  <2> QED
    BY <2>1, QueueAppend
<1>3. ASSUME NEW i \in 1 .. Len(queue), NEW k \in 1 .. Len(Without(queue, i))
      PROVE  \E m \in 1 .. Len(queue) : Without(queue, i)[k].value = queue[m].value
  <2>1. k \in 1 .. Len(queue) - 1 /\ k \in 1 .. Len(queue) /\ k + 1 \in 1 .. Len(queue)
    BY <1>1, QueueWithout
  <2>2. /\ k < i => Without(queue, i)[k].value = queue[k].value
        /\ k >= i => Without(queue, i)[k] = queue[k + 1]
    BY <2>1, QueueWithout
  <2>3. k < i \/ k >= i
    BY <1>1, <2>1
  <2> QED
    BY <2>1, <2>2, <2>3
<1>4. ASSUME NEW k \in 1 .. Len(Aborted(queue))
      PROVE  \E m \in 1 .. Len(queue) : Aborted(queue)[k].value = queue[m].value
  <2>1. CASE \A i \in 1 .. Len(queue) : ~queue[i].own
    BY <2>1, QueueAborted
  <2>2. CASE \E i \in 1 .. Len(queue) : queue[i].own
    <3>1. k \in 1 .. Len(queue) - 1 /\ k \in 1 .. Len(queue) /\ k + 1 \in 1 .. Len(queue)
      BY <1>1, <2>2, QueueAborted
    <3>2. Aborted(queue)[k] \in {queue[k], queue[k + 1]}
      BY <2>2, <3>1, QueueAborted
    <3> QED
      BY <3>1, <3>2
  <2> QED
    BY <2>1, <2>2
<1> QED
  BY <1>2, <1>3, <1>4

-----------------------------------------------------------------------------
(* What an app may be switched to                                          *)

\* A list in which no app pays from credits it was never given.
FundedList(list, given) == \A a \in DOMAIN list : UsesAssigned(list[a].sel) => a \in given

\* Neither the server, nor the page, nor an answer on its way, nor an open dialog, nor a
\* handler about to send a selection has an app on credits it was never given.
FundInv ==
  /\ FundedList(server.apps, assigned) /\ FundedList(view.apps, assigned)
  /\ \A i \in 1 .. Len(answers["apps"]) : FundedList(answers["apps"][i].value, assigned)
  /\ open # NoDialog =>
       \A sel \in {dlg.sel, dlg.pending} : UsesAssigned(sel) => open.app \in assigned
  /\ \A j \in Jobs : pc[j] = "select" /\ UsesAssigned(job[j].sel) => job[j].app \in assigned

\* What reads leave: the page shows a list it had or one that was answered, answers are
\* what the server has, and a dialog mounted anew shows the row of its app.
LEMMA ReadEffects ==
  ASSUME Types,
         \/ \E v \in Views : Read(v)
         \/ ServeCard \/ LoseBalance \/ LoseCard \/ SessionRefresh
  PROVE  /\ UNCHANGED <<server, open, job, pc, loose, assigned>>
         /\ \/ view'.apps = view.apps
            \/ \E i \in 1 .. Len(answers["apps"]) : view'.apps = answers["apps"][i].value
         /\ \A k \in 1 .. Len(answers'["apps"]) :
              \/ answers'["apps"][k].value = server.apps
              \/ \E i \in 1 .. Len(answers["apps"]) :
                   answers'["apps"][k].value = answers["apps"][i].value
         /\ \/ dlg' = dlg \/ dlg' = Closed
            \/ /\ open # NoDialog /\ open.app \in DOMAIN view'.apps
               /\ dlg' = Fresh(view'.apps, open.app)
<1> DEFINE Queued(k) ==
             \/ answers'["apps"][k].value = server.apps
             \/ \E i \in 1 .. Len(answers["apps"]) :
                  answers'["apps"][k].value = answers["apps"][i].value
           Shown == \/ view'.apps = view.apps
                    \/ \E i \in 1 .. Len(answers["apps"]) : view'.apps = answers["apps"][i].value
           Mounted == \/ dlg' = dlg \/ dlg' = Closed
                      \/ /\ open # NoDialog /\ open.app \in DOMAIN view'.apps
                         /\ dlg' = Fresh(view'.apps, open.app)
           Rest == UNCHANGED <<server, open, job, pc, loose, assigned>>
<1>1. /\ view \in Pages /\ AreAnswers(answers)
      /\ \A v \in Views : answers[v] \in Queue(v)
      /\ "balance" \in Views /\ "apps" \in Views /\ "keys" \in Views
  BY DEF Types, PageTypes, ReadTypes, AreAnswers, Views
<1>2. ASSUME answers'["apps"] = answers["apps"]
      PROVE  \A k \in 1 .. Len(answers'["apps"]) : Queued(k)
  BY <1>2
<1>3. ASSUME answers'["apps"] = Aborted(answers["apps"])
      PROVE  \A k \in 1 .. Len(answers'["apps"]) : Queued(k)
  BY <1>1, <1>3, QueueValues
<1>4. ASSUME NEW own, answers'["apps"] = Append(answers["apps"], Answer(own, "apps"))
      PROVE  \A k \in 1 .. Len(answers'["apps"]) : Queued(k)
  <2>1. Answer(own, "apps").value = server.apps
    BY DEF Answer
  <2> QED
    BY <1>1, <1>4, <2>1, QueueValues
<1>5. ASSUME NEW i \in 1 .. Len(answers["apps"]), answers'["apps"] = Without(answers["apps"], i)
      PROVE  \A k \in 1 .. Len(answers'["apps"]) : Queued(k)
  BY <1>1, <1>5, QueueValues
<1> DEFINE Effects == Rest /\ Shown /\ (\A k \in 1 .. Len(answers'["apps"]) : Queued(k)) /\ Mounted
<1>6. ASSUME NEW before, NEW queued, AreAnswers(queued), queued["apps"] = answers["apps"],
             Reload(before, queued)
      PROVE  Mounted /\ \A k \in 1 .. Len(answers'["apps"]) : Queued(k)
  <2>1. answers'["apps"] = Aborted(answers["apps"]) /\ dlg' = Closed
    BY <1>1, <1>6 DEF Reload, AreAnswers
  <2> QED
    BY <1>3, <2>1
<1>7. ASSUME NEW there, NEW before, NEW queued, AreAnswers(queued),
             queued["apps"] = answers["apps"], UserBecomes(there, before, queued)
      PROVE  Mounted /\ \A k \in 1 .. Len(answers'["apps"]) : Queued(k)
  <2>1. CASE there # user
    BY <1>6, <1>7, <2>1 DEF UserBecomes
  <2>2. CASE there = user
    BY <1>2, <1>7, <2>2 DEF UserBecomes
  <2> QED
    BY <2>1, <2>2
<1> HIDE DEF Queued
<1>8. ASSUME NEW v \in Views, Serve(v) PROVE Effects
  <2>1. CASE v = "apps"
    BY <1>1, <1>4, <1>8, <2>1 DEF Serve, AreAnswers, page, dialogs
  <2>2. CASE v # "apps"
    BY <1>1, <1>2, <1>8, <2>2 DEF Serve, AreAnswers, page, dialogs
  <2> QED
    BY <2>1, <2>2
<1>9. ASSUME NEW v \in Views, LoseList(v) PROVE Effects
  BY <1>2, <1>9 DEF LoseList, page, dialogs
<1>10. ASSUME NEW i \in 1 .. Len(answers["balance"]), ApplyBalance(i) PROVE Effects
  <2> DEFINE queued == [answers EXCEPT !["balance"] = Without(@, i)]
  <2>1. AreAnswers(queued) /\ queued["apps"] = answers["apps"]
    BY <1>1, AnswersAre, QueuesAre DEF AreAnswers
  <2>2. UserBecomes(TRUE, asked, queued)
    BY <1>10 DEF ApplyBalance
  <2>3. Shown /\ Rest
    BY <1>1, <1>10 DEF ApplyBalance, Pages
  <2> HIDE DEF queued
  <2>4. Mounted /\ \A k \in 1 .. Len(answers'["apps"]) : Queued(k)
    BY <1>7, <2>1, <2>2
  <2> QED
    BY <2>3, <2>4
<1>11. ASSUME NEW i \in 1 .. Len(answers["keys"]), ApplyKeys(i) PROVE Effects
  <2>1. answers'["apps"] = answers["apps"]
    BY <1>1, <1>11 DEF ApplyKeys, AreAnswers
  <2> QED
    BY <1>1, <1>2, <1>11, <2>1 DEF ApplyKeys, Pages, dialogs
<1>12. ASSUME NEW i \in 1 .. Len(answers["apps"]), ApplyApps(i) PROVE Effects
  <2>1. answers'["apps"] = Without(answers["apps"], i)
    BY <1>1, <1>12 DEF ApplyApps, AreAnswers
  <2>2. view'.apps = answers["apps"][i].value /\ Rest
    BY <1>1, <1>12 DEF ApplyApps, Pages
  <2>3. Mounted
    BY <1>12, <2>2 DEF ApplyApps, Remount
  <2> QED
    BY <1>5, <2>1, <2>2, <2>3
<1>13. ASSUME ServeCard PROVE Effects
  <2>1. answers'["apps"] = Append(answers["apps"], Answer(TRUE, "apps"))
    BY <1>1, <1>13 DEF ServeCard, AreAnswers
  <2> QED
    BY <1>4, <1>13, <2>1 DEF ServeCard, page, dialogs
<1>14. ASSUME LoseBalance PROVE Effects
  <2>1. UserBecomes(FALSE, [asked EXCEPT !["balance"] = @ - 1], answers)
    BY <1>14 DEF LoseBalance
  <2>2. Mounted /\ \A k \in 1 .. Len(answers'["apps"]) : Queued(k)
    BY <1>1, <1>7, <2>1
  <2> QED
    BY <1>1, <1>14, <2>2 DEF LoseBalance, Pages
<1>15. ASSUME LoseCard PROVE Effects
  BY <1>2, <1>15 DEF LoseCard, Remount, page, Listed
<1>16. ASSUME SessionRefresh PROVE Effects
  <2>1. Mounted /\ \A k \in 1 .. Len(answers'["apps"]) : Queued(k)
    BY <1>1, <1>6, <1>16 DEF SessionRefresh
  <2> QED
    BY <1>16, <2>1 DEF SessionRefresh, page
<1> HIDE DEF Rest, Shown, Mounted, Effects
<1>17. Effects
  BY <1>8, <1>9, <1>10, <1>11, <1>12, <1>13, <1>14, <1>15, <1>16 DEF Read
<1> QED
  BY <1>17 DEF Effects, Rest, Shown, Mounted, Queued

\* What a dialog is mounted with: the selection of its row, and nothing chosen.
LEMMA FreshIs ==
  ASSUME NEW list, NEW a
  PROVE  /\ Fresh(list, a).sel = list[a].sel /\ Fresh(list, a).pending = NoOption
         /\ \A k : /\ [Fresh(list, a) EXCEPT !.key = k].sel = list[a].sel
                   /\ [Fresh(list, a) EXCEPT !.key = k].pending = NoOption
         /\ Closed.sel = Main /\ Closed.pending = NoOption
         /\ ~UsesAssigned(Main) /\ ~UsesAssigned(NoOption)
  BY DEF Fresh, Closed, UsesAssigned, Main, NoOption, Assigned, Fallback

\* Dialogs show what the page has of their app, and send a switch only to where its
\* assigned credits allow.
LEMMA FundDialog ==
  ASSUME Types, FundInv, CloseDialog \/ \E a \in Apps : Dialog(a)
  PROVE  FundInv'
<1> DEFINE Goal == open' # NoDialog =>
                     \A sel \in {dlg'.sel, dlg'.pending} : UsesAssigned(sel) =>
                       open'.app \in assigned
<1>0. dlg \in Dialogs
  BY DEF Types, DialogTypes
<1>1. UNCHANGED <<server, page, job, pc, reading, assigned>>
  BY DEF Dialog, CloseDialog, OpenDialog, Choose, CancelSwitch, TypeInForm
<1>2. CloseDialog => Goal
  BY DEF CloseDialog
<1>3. ASSUME NEW a \in Apps, NEW kind \in Kinds, OpenDialog(kind, a) PROVE Goal
  <2>1. a \in DOMAIN view.apps /\ open'.app = a
    BY <1>3 DEF OpenDialog, OnScreen, Listed
  <2>2. dlg'.sel = view.apps[a].sel /\ dlg'.pending = NoOption
    <3>1. dlg' = Fresh(view.apps, a) \/ \E k : dlg' = [Fresh(view.apps, a) EXCEPT !.key = k]
      BY <1>3 DEF OpenDialog
    <3>2. CASE dlg' = Fresh(view.apps, a)
      BY <3>2, FreshIs
    <3>3. ASSUME NEW k, dlg' = [Fresh(view.apps, a) EXCEPT !.key = k]
          PROVE  dlg'.sel = view.apps[a].sel /\ dlg'.pending = NoOption
      BY <3>3 DEF Fresh, Closed
    <3> QED
      BY <3>1, <3>2, <3>3
  <2> QED
    BY <2>1, <2>2, FreshIs DEF FundInv, FundedList
<1>4. ASSUME NEW a \in Apps, NEW option \in Options, Choose(a, option) PROVE Goal
  <2>1. a \in DOMAIN view.apps /\ open.app = a /\ open # NoDialog /\ open' = open
    BY <1>4, AppsAssumption DEF Choose, Showing, OnScreen, Listed, NoDialog
  <2>2. /\ dlg'.sel = dlg.sel
        /\ dlg'.pending = dlg.pending \/ UsesAssigned(view.apps[a].sel)
    BY <1>0, <1>4 DEF Choose, Dialogs
  <2> QED
    BY <2>1, <2>2 DEF FundInv, FundedList
<1>5. ASSUME NEW a \in Apps, CancelSwitch(a) PROVE Goal
  <2>1. open' = open /\ dlg'.sel = dlg.sel /\ dlg'.pending = NoOption
    BY <1>0, <1>5 DEF CancelSwitch, Dialogs
  <2> QED
    BY <2>1, FreshIs DEF FundInv
<1>8. ASSUME NEW a \in Apps, TypeInForm(a) PROVE Goal
  <2>1. a \in DOMAIN view.apps /\ open.app = a /\ open # NoDialog /\ open' = open
    BY <1>8, AppsAssumption DEF TypeInForm, Showing, OnScreen, Listed, NoDialog
  <2>2. dlg'.sel = view.apps[a].sel /\ dlg'.pending = dlg.pending
    BY <1>0, <1>8 DEF TypeInForm, Dialogs
  <2> QED
    BY <2>1, <2>2 DEF FundInv, FundedList
<1>6. Goal
  BY <1>2, <1>3, <1>4, <1>5, <1>8 DEF Dialog
<1> HIDE DEF Goal
<1>7. Goal <=> (open # NoDialog =>
        \A sel \in {dlg.sel, dlg.pending} : UsesAssigned(sel) => open.app \in assigned)'
  BY <1>1 DEF Goal, UsesAssigned
<1> QED
  BY <1>1, <1>6, <1>7 DEF FundInv, page, reading, FundedList, UsesAssigned

\* A click that sends a selection has it of the page or of the dialog.
LEMMA FundClick ==
  ASSUME Types, FundInv, NEW j \in Jobs, NEW c \in Closures, NEW request \in Labels,
         NEW holder \in BOOLEAN, Clicked(j, c, request, holder)
  PROVE  FundInv'
<1>0. dlg \in Dialogs /\ job \in [Jobs -> AnyJob] /\ pc \in [Jobs -> Labels]
  BY DEF Types, DialogTypes, JobTypes
<1>1. /\ job' = [job EXCEPT ![j] = c] /\ pc' = [pc EXCEPT ![j] = request]
      /\ dlg' = (IF holder THEN [dlg EXCEPT !.job = j] ELSE dlg)
      /\ UNCHANGED <<open, server, page, reading, assigned>>
  BY DEF Clicked, Start
<1>2. dlg'.sel = dlg.sel /\ dlg'.pending = dlg.pending
  BY <1>0, <1>1 DEF Dialogs
<1>3. c.app \in Apps /\ c.op \in DOMAIN Requests
  BY DEF Closures
<1>4. open.app = c.app => open # NoDialog
  BY <1>3, AppsAssumption DEF NoDialog
<1>5. request = "select" => c.op \in {"switch", "edit"}
  BY <1>3 DEF Clicked, Requests
<1>6. request = "select" /\ UsesAssigned(c.sel) => c.app \in assigned
  BY <1>4, <1>5 DEF Clicked, FundInv, FundedList, Listed
<1>8. \A i \in Jobs : pc'[i] = "select" /\ UsesAssigned(job'[i].sel) => job'[i].app \in assigned
  BY <1>0, <1>1, <1>6 DEF FundInv
<1> QED
  BY <1>1, <1>2, <1>8 DEF FundInv, page, reading, FundedList, UsesAssigned

\* A request gives an app credits before it sends the app's selection.
LEMMA FundRequest ==
  ASSUME Types, FundInv, NEW j \in Jobs, Request(j)
  PROVE  FundInv'
<1>1. /\ assigned \subseteq assigned' /\ UNCHANGED <<view, answers>>
      /\ Allocate(j) \/ assigned' = assigned
  BY JobsAfter
<1>2. FundedList(server.apps, assigned)'
  <2> SUFFICES ASSUME NEW b \in Live', UsesAssigned(server'.apps[b].sel)
               PROVE  b \in assigned'
    BY DEF FundedList, Live, UsesAssigned
  <2>1. RowAfter(j, b)
    BY RowsAfter
  <2>2. CASE b \in Live /\ server'.apps[b].sel = server.apps[b].sel
    BY <1>1, <2>2 DEF FundInv, FundedList, Live
  <2>3. CASE b = job[j].app /\ pc[j] = "select" /\ server'.apps[b].sel = job[j].sel
    BY <1>1, <2>3 DEF FundInv
  <2> QED
    BY <2>1, <2>2, <2>3, FreshIs DEF RowAfter
<1>3. FundedList(view.apps, assigned)'
  BY <1>1 DEF FundInv, FundedList, UsesAssigned
<1>4. \A i \in 1 .. Len(answers'["apps"]) : FundedList(answers'["apps"][i].value, assigned')
  BY <1>1 DEF FundInv, FundedList
<1>5. open' # NoDialog =>
        \A sel \in {dlg'.sel, dlg'.pending} : UsesAssigned(sel) => open'.app \in assigned'
  BY <1>1, DialogAfter, FreshIs DEF FundInv
<1>6. ASSUME NEW i \in Jobs, pc'[i] = "select", UsesAssigned(job'[i].sel)
      PROVE  job'[i].app \in assigned'
  <2>1. CASE i # j
    BY <1>1, <1>6, <2>1, JobsAfter DEF FundInv
  <2>2. CASE i = j
    <3>1. job'[j] = job[j] /\ (Allocate(j) \/ (Reclaim(j) /\ job[j].op = "switch"))
      BY <1>6, <2>2, JobsAfter
    <3>2. Allocate(j) => job[j].app \in assigned'
      BY DEF Allocate
    <3>3. Reclaim(j) /\ job[j].op = "switch" => ~UsesAssigned(job[j].sel)
      BY FreshIs DEF Types, JobTypes, Reclaim
    <3> QED
      BY <1>6, <2>2, <3>1, <3>2, <3>3
  <2> QED
    BY <2>1, <2>2
<1> QED
  BY <1>2, <1>3, <1>4, <1>5, <1>6 DEF FundInv, FundedList, UsesAssigned

\* A submission leaves all selections as they are.
LEMMA FundSpend ==
  ASSUME Types, FundInv, NEW a \in Apps, Spend(a)
  PROVE  FundInv'
<1>1. server \in Pages
  BY DEF Types, PageTypes
<1>2. PICK S \in SUBSET Apps : server.apps \in [S -> Row]
  BY <1>1 DEF Pages, Lists
<1>3. DOMAIN server'.apps = S /\ \A b \in S : server'.apps[b].sel = server.apps[b].sel
  BY <1>1, <1>2 DEF Spend, Pages, Row
<1> QED
  BY <1>2, <1>3 DEF Spend, FundInv, FundedList, UsesAssigned, page, dialogs, reading

\* What is read, late or not, is what the server once had.
LEMMA FundRead ==
  ASSUME Types, FundInv,
         \/ \E v \in Views : Read(v)
         \/ ServeCard \/ LoseBalance \/ LoseCard \/ SessionRefresh
  PROVE  FundInv'
<1>1. UNCHANGED <<server, open, job, pc, assigned>>
  BY ReadEffects
<1>2. FundedList(view'.apps, assigned)
  BY ReadEffects DEF FundInv
<1>3. \A k \in 1 .. Len(answers'["apps"]) : FundedList(answers'["apps"][k].value, assigned)
  BY ReadEffects DEF FundInv
<1>4. open # NoDialog =>
        \A sel \in {dlg'.sel, dlg'.pending} : UsesAssigned(sel) => open.app \in assigned
  <2>1. \/ dlg' = dlg \/ dlg' = Closed
        \/ open # NoDialog /\ open.app \in DOMAIN view'.apps /\ dlg' = Fresh(view'.apps, open.app)
    BY ReadEffects
  <2> QED
    BY <1>2, <2>1, FreshIs DEF FundInv, FundedList
<1> QED
  BY <1>1, <1>2, <1>3, <1>4 DEF FundInv, FundedList, UsesAssigned

\* However the steps come, no app gets on credits it was never given.
LEMMA FundStep == Types /\ FundInv /\ [Next]_vars => FundInv'
<1> SUFFICES ASSUME Types, FundInv, [Next]_vars PROVE FundInv'
  OBVIOUS
<1>1. ASSUME NEW a \in Apps, NEW j \in Jobs, Click(j, a) PROVE FundInv'
  BY <1>1, ClickStarts, FundClick DEF Clicked
<1>2. CASE UNCHANGED vars
  BY <1>2 DEF vars, page, dialogs, reading, FundInv, FundedList, UsesAssigned
<1> QED
  BY <1>1, <1>2, FundDialog, FundRequest, FundSpend, FundRead DEF Next

\* However stale the page, its dialogs and the closures of its handlers are, edit_app_account
\* never switches an app to assigned credits that allocate_credit_balance gave it none of.
THEOREM OnlyFundedSelected == Spec => []FundedSelection
<1>1. Init => FundInv
  <2> SUFFICES ASSUME Init PROVE FundInv
    OBVIOUS
  <2>1. /\ DOMAIN server.apps = Funded /\ view = server /\ assigned = Funded
        /\ answers["apps"] = <<>> /\ open = NoDialog /\ pc = [j \in Jobs |-> "none"]
    BY DEF Init, Views
  <2> QED
    BY <2>1 DEF FundInv, FundedList
<1>2. FundInv => FundedSelection
  BY DEF FundInv, FundedList, FundedSelection, Live
<1> QED
  BY <1>1, <1>2, FundStep, TypesHold, PTL DEF Spec

-----------------------------------------------------------------------------
(* What becomes of assigned credits                                        *)

\* An app on the main balance has credits of its own only while the assignment that
\* brought them has its selection to send.
MainIsEmpty(a) ==
  a \in Live /\ server.apps[a].sel = Main /\ server.apps[a].alloc # 0 =>
    \E i \in Jobs : pc[i] = "select" /\ job[i].op = "assign" /\ job[i].app = a

\* A handler about to leave an app to the main balance meets no assignment, and will
\* have given back all the credits the app has.
LeaverKnows(a, j) ==
  LeavingFor(j) /\ job[j].app = a =>
    /\ ~Assigning(a)
    /\ a \in Live => server.apps[a].alloc <= IF pc[j] = "select" THEN 0 ELSE job[j].amount

\* Both hold of every app that was not left to a race or half-way, and an assignment
\* selects the credits it assigns.
DrainInv ==
  /\ \A a \in Apps \ loose : MainIsEmpty(a) /\ \A j \in Jobs : LeaverKnows(a, j)
  /\ \A j \in Jobs : Running(j) /\ job[j].op = "assign" => UsesAssigned(job[j].sel)

\* Steps that change neither the server nor handlers.
LEMMA DrainStays ==
  ASSUME DrainInv, UNCHANGED <<server, job, pc, loose>>
  PROVE  DrainInv'
  BY DEF DrainInv, MainIsEmpty, LeaverKnows, LeavingFor, ToMain, Assigning, Running, Live,
         UsesAssigned

\* A click adds a handler that meets no other at cross purposes, or counts its app as
\* left to a race.
LEMMA DrainClick ==
  ASSUME Types, DrainInv, NEW j \in Jobs, NEW c \in Closures, NEW request \in Labels,
         NEW holder \in BOOLEAN, Clicked(j, c, request, holder)
  PROVE  DrainInv'
<1>0. server \in Pages /\ job \in [Jobs -> AnyJob] /\ pc \in [Jobs -> Labels]
  BY DEF Types, PageTypes, JobTypes
<1>1. /\ job' = [job EXCEPT ![j] = c] /\ pc' = [pc EXCEPT ![j] = request] /\ pc[j] = "none"
      /\ loose' = (IF Careless(c) THEN loose \cup {c.app} ELSE loose)
      /\ UNCHANGED server /\ request \notin {"none", "done"}
  BY DEF Clicked, Start
<1>2. Live' = Live
  BY <1>1 DEF Live
<1>3. ASSUME NEW i \in Jobs, i # j
      PROVE  /\ job'[i] = job[i] /\ pc'[i] = pc[i] /\ (Running(i)' <=> Running(i))
             /\ LeavingFor(i)' <=> LeavingFor(i)
  <2>1. job'[i] = job[i] /\ pc'[i] = pc[i]
    BY <1>0, <1>1, <1>3
  <2> QED
    BY <1>1, <2>1 DEF Running, LeavingFor, ToMain
<1>4. job'[j] = c /\ pc'[j] = request /\ Running(j)' /\ ~Running(j) /\ ~LeavingFor(j)
  BY <1>0, <1>1 DEF Running, LeavingFor
<1>5. \A i \in Jobs : Running(i)' /\ job'[i].op = "assign" => UsesAssigned(job'[i].sel)
  BY <1>3, <1>4 DEF DrainInv, Clicked
<1>6. ASSUME NEW a, Assigning(a)', c.op # "assign" \/ c.app # a PROVE Assigning(a)
  BY <1>3, <1>4, <1>6 DEF Assigning
<1>7. ASSUME NEW a \in Apps \ loose' PROVE MainIsEmpty(a)'
  <2>1. MainIsEmpty(a)
    BY <1>1, <1>7 DEF DrainInv
  <2>2. ASSUME NEW i \in Jobs, pc[i] = "select", job[i].op = "assign", job[i].app = a
        PROVE  pc'[i] = "select" /\ job'[i].op = "assign" /\ job'[i].app = a
    BY <1>1, <1>3, <2>2
  <2> QED
    BY <1>1, <1>2, <2>1, <2>2 DEF MainIsEmpty
<1>8. ASSUME NEW a \in Apps \ loose', NEW i \in Jobs, LeavingFor(i)', job'[i].app = a
      PROVE  /\ ~Assigning(a)'
             /\ a \in Live =>
                  server.apps[a].alloc <= IF pc'[i] = "select" THEN 0 ELSE job'[i].amount
  <2>1. a \notin loose /\ (c.app = a => ~Careless(c))
    BY <1>1, <1>8
  <2>2. CASE i # j
    <3>1. LeavingFor(i) /\ job[i].app = a /\ job'[i] = job[i] /\ pc'[i] = pc[i]
      BY <1>3, <1>8, <2>2
    <3>2. ~Assigning(a)
      BY <2>1, <3>1 DEF DrainInv, LeaverKnows
    <3>3. Leaving(a)
      BY <3>1 DEF Leaving
    <3>4. c.op # "assign" \/ c.app # a
      BY <2>1, <3>3 DEF Careless
    <3>5. ~Assigning(a)'
      BY <1>6, <3>2, <3>4
    <3> QED
      BY <2>1, <3>1, <3>5 DEF DrainInv, LeaverKnows
  <2>3. CASE i = j
    <3>1. c.app = a /\ ToMain(c) /\ request \in {"reclaim", "select"}
      BY <1>4, <1>8, <2>3 DEF LeavingFor, ToMain
    <3>2. ~Assigning(a) /\ (a \in Live => ~(server.apps[a].alloc > c.amount))
      BY <2>1, <3>1 DEF Careless
    <3>3. c.op # "assign"
      BY <3>1 DEF ToMain
    <3>4. ~Assigning(a)'
      BY <1>6, <3>2, <3>3
    <3>5. request = "select" => c.amount = 0
      BY <3>1 DEF Clicked, ToMain
    <3>6. c.amount \in Nat /\ (a \in Live => server.apps[a].alloc \in Nat)
      BY <1>0, ListIs DEF Closures, Pages, Live, Row
    <3> QED
      BY <1>4, <2>3, <3>2, <3>4, <3>5, <3>6
  <2> QED
    BY <2>2, <2>3
<1>9. ASSUME NEW a \in Apps \ loose', NEW i \in Jobs PROVE LeaverKnows(a, i)'
  BY <1>1, <1>2, <1>8 DEF LeaverKnows
<1> QED
  BY <1>5, <1>7, <1>9 DEF DrainInv, UsesAssigned

\* A submission spends assigned credits of an app that pays from them.
LEMMA DrainSpend ==
  ASSUME Types, DrainInv, NEW a \in Apps, Spend(a)
  PROVE  DrainInv'
<1>1. server \in Pages /\ UNCHANGED <<job, pc, loose>> /\ job \in [Jobs -> AnyJob]
  BY DEF Types, PageTypes, JobTypes, Spend
<1>2. PICK S \in SUBSET Apps : server.apps \in [S -> Row]
  BY <1>1 DEF Pages, Lists
<1>3. a \in S /\ UsesAssigned(server.apps[a].sel) /\ server.apps[a].alloc > 0
  BY <1>2 DEF Spend, Live
<1>4. /\ DOMAIN server'.apps = S
      /\ \A b \in S : server'.apps[b].sel = server.apps[b].sel
      /\ \A b \in S \ {a} : server'.apps[b] = server.apps[b]
      /\ server'.apps[a].alloc = server.apps[a].alloc - 1
  BY <1>1, <1>2, <1>3 DEF Spend, Pages, Row
<1>5. Live = S /\ Live' = S /\ \A b \in S : server.apps[b].alloc \in Nat
  BY <1>2, <1>4 DEF Live, Row
<1>6. ASSUME NEW b \in Apps, MainIsEmpty(b) PROVE MainIsEmpty(b)'
  <2>1. CASE b = a
    BY <1>3, <1>4, <2>1, FreshIs DEF MainIsEmpty
  <2>2. CASE b # a
    BY <1>1, <1>4, <1>5, <1>6, <2>2 DEF MainIsEmpty
  <2> QED
    BY <2>1, <2>2
<1>7. \A b \in S, n \in Nat : server.apps[b].alloc <= n => server'.apps[b].alloc <= n
  BY <1>3, <1>4, <1>5
<1>8. ASSUME NEW b \in Apps, NEW j \in Jobs, LeaverKnows(b, j) PROVE LeaverKnows(b, j)'
  <2> DEFINE n == IF pc[j] = "select" THEN 0 ELSE job[j].amount
  <2>1. n \in Nat
    BY <1>1 DEF AnyJob
  <2>2. (LeavingFor(j)' <=> LeavingFor(j)) /\ (Assigning(b)' <=> Assigning(b))
    BY <1>1 DEF LeavingFor, ToMain, Assigning, Running
  <2>3. LeavingFor(j) /\ job[j].app = b => ~Assigning(b) /\ (b \in S => server.apps[b].alloc <= n)
    BY <1>5, <1>8 DEF LeaverKnows
  <2>4. n' = n
    BY <1>1
  <2> HIDE DEF n
  <2>5. LeavingFor(j)' /\ job[j].app = b =>
          ~Assigning(b)' /\ (b \in Live' => server'.apps[b].alloc <= n)
    BY <1>5, <1>7, <2>1, <2>2, <2>3
  <2> QED
    BY <1>1, <2>5 DEF LeaverKnows, n
<1>9. \A j \in Jobs : Running(j)' /\ job'[j].op = "assign" => UsesAssigned(job'[j].sel)
  BY <1>1 DEF DrainInv, Running
<1> QED
  BY <1>1, <1>6, <1>8, <1>9 DEF DrainInv, UsesAssigned

\* A request leaves an app that is on the main balance without credits, or its
\* selection is on its way, or it breaks off half-way.
LEMMA DrainRequest ==
  ASSUME Types, DrainInv, NEW j \in Jobs, Request(j)
  PROVE  DrainInv'
<1>0. server \in Pages /\ JobTypes /\ Running(j)
  BY RequestEnds DEF Types, PageTypes
<1>1. /\ \A i \in Jobs \ {j} : job'[i] = job[i] /\ pc'[i] = pc[i]
      /\ \/ pc'[j] = "done"
         \/ pc'[j] = "select" /\ job'[j] = job[j] /\ (Allocate(j) \/ Reclaim(j))
         \/ pc'[j] = "appId" /\ job'[j] = job[j]
      /\ loose \subseteq loose'
  BY JobsAfter
<1>2. ASSUME NEW i \in Jobs, Running(i)'
      PROVE  job'[i] = job[i] /\ Running(i) /\ (i # j => pc'[i] = pc[i])
  BY <1>0, <1>1, <1>2 DEF Running
<1>3. \A a : Assigning(a)' => Assigning(a)
  BY <1>2 DEF Assigning
<1>4. ASSUME NEW i \in Jobs, LeavingFor(i)'
      PROVE  LeavingFor(i) /\ job'[i] = job[i] /\ (i # j => pc'[i] = pc[i])
                           /\ (i = j => Reclaim(j) /\ pc[j] = "reclaim" /\ pc'[j] = "select")
  <2>1. Running(i)' /\ ToMain(job'[i]) /\ pc'[i] \in {"reclaim", "select"}
    BY <1>4 DEF LeavingFor, Running, ToMain
  <2>2. job'[i] = job[i] /\ Running(i) /\ (i # j => pc'[i] = pc[i])
    BY <1>2, <2>1
  <2>3. CASE i = j
    <3>1. pc'[j] = "select" /\ (Allocate(j) \/ Reclaim(j))
      BY <1>1, <2>1, <2>3
    <3>2. Allocate(j) => job[j].op = "assign"
      BY <1>0, RequestOf DEF Allocate
    <3>3. Reclaim(j) /\ pc[j] = "reclaim"
      BY <2>1, <2>2, <2>3, <3>1, <3>2 DEF ToMain, Reclaim
    <3> QED
      BY <2>1, <2>2, <2>3, <3>1, <3>3 DEF LeavingFor, ToMain
  <2> QED
    BY <2>1, <2>2, <2>3 DEF LeavingFor, ToMain
<1>5. job[j].amount \in Nat /\ \A i \in Jobs : job[i].amount \in Nat
  BY <1>0 DEF JobTypes, AnyJob
<1>6. \A a \in Live : server.apps[a].alloc \in Nat
  BY <1>0, ListIs DEF Pages, Live, Row
<1>7. ASSUME NEW a \in Apps \ loose', NEW i \in Jobs, LeavingFor(i), job[i].app = a
      PROVE  /\ ~Assigning(a)
             /\ a \in Live =>
                  server.apps[a].alloc <= IF pc[i] = "select" THEN 0 ELSE job[i].amount
  BY <1>1, <1>7 DEF DrainInv, LeaverKnows
<1>8. ASSUME NEW a \in Apps \ loose' PROVE MainIsEmpty(a)'
  <2> SUFFICES ASSUME a \in Live', server'.apps[a].sel = Main, server'.apps[a].alloc # 0
               PROVE  \E i \in Jobs : pc'[i] = "select" /\ job'[i].op = "assign" /\ job'[i].app = a
    BY DEF MainIsEmpty, Live
  <2>1. RowAfter(j, a) /\ MainIsEmpty(a)
    BY <1>1, <1>8, RowsAfter DEF DrainInv
  <2>2. ASSUME NEW i \in Jobs, i # j, pc[i] = "select", job[i].op = "assign", job[i].app = a
        PROVE  pc'[i] = "select" /\ job'[i].op = "assign" /\ job'[i].app = a
    BY <1>1, <2>2
  <2>3. ASSUME a \in Live, server'.apps[a] = server.apps[a],
               a = job[j].app => \/ Refused(j)
                                 \/ pc[j] \in {"create", "generateKey", "deleteKey", "appId"}
        PROVE  \E i \in Jobs : pc'[i] = "select" /\ job'[i].op = "assign" /\ job'[i].app = a
    <3>1. PICK i \in Jobs : pc[i] = "select" /\ job[i].op = "assign" /\ job[i].app = a
      BY <2>1, <2>3 DEF MainIsEmpty
    <3>2. i # j
      BY <1>8, <2>3, <3>1, JobsAfter
    <3> QED
      BY <2>2, <3>1, <3>2
  <2>4. ASSUME a \in Live, a = job[j].app, pc[j] = "allocate", Allocate(j)
        PROVE  \E i \in Jobs : pc'[i] = "select" /\ job'[i].op = "assign" /\ job'[i].app = a
    <3>1. job[j].op = "assign" /\ pc'[j] = "select"
      BY <1>0, <1>8, <2>4, JobsAfter, RequestOf
    <3> QED
      BY <1>1, <2>4, <3>1
  <2>5. ASSUME a \in Live, a = job[j].app, pc[j] = "reclaim",
               server'.apps[a].sel = server.apps[a].sel,
               server.apps[a].alloc >= job[j].amount,
               server'.apps[a].alloc = server.apps[a].alloc - job[j].amount
        PROVE  \E i \in Jobs : pc'[i] = "select" /\ job'[i].op = "assign" /\ job'[i].app = a
    <3>1. server.apps[a].alloc # 0
      BY <1>5, <1>6, <2>5
    <3>2. PICK i \in Jobs : pc[i] = "select" /\ job[i].op = "assign" /\ job[i].app = a
      BY <2>1, <2>5, <3>1 DEF MainIsEmpty
    <3> QED
      BY <2>2, <2>5, <3>2
  <2>6. ASSUME a \in Live, a = job[j].app, pc[j] = "select",
               server'.apps[a].alloc = server.apps[a].alloc, server'.apps[a].sel = job[j].sel
        PROVE  FALSE
    <3>1. job[j].sel = Main /\ job[j].op \in {"assign", "switch", "edit"}
      BY <1>0, <2>6, RequestOf
    <3>2. job[j].op # "assign"
      BY <1>0, <3>1, FreshIs DEF DrainInv
    <3>3. LeavingFor(j)
      BY <2>6, <3>1, <3>2 DEF LeavingFor, ToMain
    <3> QED
      BY <1>6, <1>7, <2>6, <3>3
  <2> QED
    BY <2>1, <2>3, <2>4, <2>5, <2>6 DEF RowAfter
<1>9. ASSUME NEW a \in Apps \ loose', NEW i \in Jobs, LeavingFor(i)', job'[i].app = a
      PROVE  /\ ~Assigning(a)'
             /\ a \in Live' =>
                  server'.apps[a].alloc <= IF pc'[i] = "select" THEN 0 ELSE job'[i].amount
  <2>1. LeavingFor(i) /\ job[i].app = a /\ job'[i] = job[i]
    BY <1>4, <1>9
  <2>2. ~Assigning(a) /\ ~Assigning(a)'
    BY <1>3, <1>7, <2>1
  <2> SUFFICES ASSUME a \in Live'
               PROVE  server'.apps[a].alloc <= IF pc'[i] = "select" THEN 0 ELSE job'[i].amount
    BY <2>2
  <2>3. RowAfter(j, a)
    BY RowsAfter
  <2>4. ASSUME a \in Live, server'.apps[a].alloc = server.apps[a].alloc, i # j
        PROVE  server'.apps[a].alloc <= IF pc'[i] = "select" THEN 0 ELSE job'[i].amount
    BY <1>4, <1>7, <1>9, <2>1, <2>4
  <2>5. CASE i = j
    <3>1. Reclaim(j) /\ pc[j] = "reclaim" /\ pc'[j] = "select"
      BY <1>4, <1>9, <2>5
    <3>2. a \in Live /\ server.apps[a].alloc <= job[j].amount
      BY <1>7, <2>1, <2>5, <3>1 DEF Reclaim
    <3>3. ~Refused(j)
      BY <3>1, JobsAfter
    <3>4. /\ server.apps[a].alloc >= job[j].amount
          /\ server'.apps[a].alloc = server.apps[a].alloc - job[j].amount
      BY <2>1, <2>3, <2>5, <3>1, <3>3 DEF RowAfter
    <3>5. server'.apps[a].alloc = 0
      BY <1>5, <1>6, <3>2, <3>4
    <3> QED
      BY <2>5, <3>1, <3>5
  <2>6. CASE i # j
    <3>1. CASE Allocate(j) /\ pc[j] = "allocate" /\ a = job[j].app
      <4>1. Assigning(a)
        BY <1>0, <3>1, RequestOf DEF Assigning
      <4> QED
        BY <2>2, <4>1
    <3>2. CASE /\ a \in Live /\ server.apps[a].alloc >= job[j].amount
               /\ server'.apps[a].alloc = server.apps[a].alloc - job[j].amount
      <4> DEFINE n == IF pc[i] = "select" THEN 0 ELSE job[i].amount
      <4>1. server.apps[a].alloc <= n /\ n \in Nat
        BY <1>5, <1>7, <2>1, <3>2
      <4>2. pc'[i] = pc[i]
        BY <1>1, <2>6
      <4>3. n = IF pc'[i] = "select" THEN 0 ELSE job'[i].amount
        BY <2>1, <4>2
      <4> HIDE DEF n
      <4>4. server'.apps[a].alloc <= n
        BY <1>5, <1>6, <3>2, <4>1
      <4> QED
        BY <4>3, <4>4
    <3>3. CASE server'.apps[a].alloc = 0
      BY <1>5, <2>1, <3>3
    <3> QED
      BY <2>3, <2>4, <2>6, <3>1, <3>2, <3>3 DEF RowAfter
  <2> QED
    BY <2>5, <2>6
<1>10. ASSUME NEW a \in Apps \ loose', NEW i \in Jobs PROVE LeaverKnows(a, i)'
  BY <1>9 DEF LeaverKnows, Live
<1>11. \A i \in Jobs : Running(i)' /\ job'[i].op = "assign" => UsesAssigned(job'[i].sel)
  BY <1>2 DEF DrainInv
<1> QED
  BY <1>8, <1>10, <1>11 DEF DrainInv, UsesAssigned

\* Every step keeps the apps in order that were not left to a race or half-way.
LEMMA DrainStep == Types /\ DrainInv /\ [Next]_vars => DrainInv'
<1> SUFFICES ASSUME Types, DrainInv, [Next]_vars PROVE DrainInv'
  OBVIOUS
<1>1. ASSUME NEW a \in Apps, NEW j \in Jobs, Click(j, a) PROVE DrainInv'
  BY <1>1, ClickStarts, DrainClick DEF Clicked
<1>2. ASSUME CloseDialog \/ \E a \in Apps : Dialog(a) PROVE DrainInv'
  BY <1>2, DrainStays DEF Dialog, CloseDialog, OpenDialog, Choose, CancelSwitch, TypeInForm
<1>3. ASSUME \/ \E v \in Views : Read(v)
             \/ ServeCard \/ LoseBalance \/ LoseCard \/ SessionRefresh
      PROVE  DrainInv'
  BY <1>3, ReadEffects, DrainStays
<1>4. CASE UNCHANGED vars
  BY <1>4, DrainStays DEF vars
<1> QED
  BY <1>1, <1>2, <1>3, <1>4, DrainRequest, DrainSpend DEF Next

\* Whatever handlers, submissions, deletions, refusals, lost answers and reads come
\* between the requests of a handler, no app that pays from the main balance keeps
\* credits of its own once no assignment is on its way, but for one whose assignment
\* broke off between its requests, overlapped a switch or an edit to the main balance,
\* or was not on the page yet when such a switch or edit began.
THEOREM NothingIsStranded == Spec => []NothingStranded
<1>1. Init => DrainInv
  <2> SUFFICES ASSUME Init PROVE DrainInv
    OBVIOUS
  <2>1. \A j \in Jobs : ~Running(j) /\ ~LeavingFor(j)
    BY DEF Init, Running, LeavingFor
  <2>2. \A a \in Live : server.apps[a].sel # Main
    BY DEF Init, Live, Assigned, Main
  <2> QED
    BY <2>1, <2>2 DEF DrainInv, MainIsEmpty, LeaverKnows
<1>2. Types /\ DrainInv => NothingStranded
  <2> SUFFICES ASSUME Types, DrainInv PROVE NothingStranded
    OBVIOUS
  <2>1. Live \subseteq Apps
    BY ListIs DEF Types, PageTypes, Pages, Live
  <2> QED
    BY <2>1 DEF DrainInv, MainIsEmpty, Assigning, Running, NothingStranded
<1> QED
  BY <1>1, <1>2, DrainStep, TypesHold, PTL DEF Spec

-----------------------------------------------------------------------------
(* What the page shows in the end                                          *)

\* A handler that has changed what a view shows and will have it read again.
WillRefresh(v) == \E j \in Jobs : v \in Unread(j)

\* A view that will be brought up to date, or is, whatever is still on its way.
Covered(v) ==
  \/ asked[v] > 0 \/ (v = "apps" /\ card = "asked") \/ WillRefresh(v)
  \/ /\ Len(answers[v]) > 0
     /\ ~answers[v][Len(answers[v])].late /\ answers[v][Len(answers[v])].value = server[v]
  \/ view[v] = server[v] /\ \A i \in 1 .. Len(answers[v]) : answers[v][i].late

\* The page's own read has one answer at most, and none before it is answered or
\* after it is taken.
OwnOnly(queues, state) ==
  /\ \A v \in Views : \A i \in 1 .. Len(queues[v]) :
       queues[v][i].own => v = "apps" /\ state = "answered"
  /\ \A i, k \in 1 .. Len(queues["apps"]) :
       queues["apps"][i].own /\ queues["apps"][k].own => i = k

\* Every view is covered unless something has left it behind.
CoverInv == OwnOnly(answers, card) /\ \A v \in Views \ excused : Covered(v)

\* A view that nothing happens to stays covered.
LEMMA StaysCovered ==
  ASSUME Types, NEW v \in Views, Covered(v), server'[v] = server[v], view'[v] = view[v],
         answers'[v] = answers[v], asked'[v] >= asked[v], asked'[v] \in Nat,
         v = "apps" => card' = card, WillRefresh(v) => WillRefresh(v)'
  PROVE  Covered(v)'
<1>1. asked[v] \in Nat
  BY DEF Types, ReadTypes
<1>2. asked[v] > 0 => asked'[v] > 0
  BY <1>1
<1> QED
  BY <1>2 DEF Covered

\* What handlers have still to read.
LEMMA UnreadOf ==
  ASSUME NEW j \in Jobs
  PROVE  /\ pc[j] \notin {"select", "appId"} => Unread(j) = {}
         /\ pc[j] = "select" /\ job[j].op # "assign" => Unread(j) \subseteq {"apps"}
         /\ Unread(j) \subseteq {"balance", "apps"}
         /\ pc[j] = "appId" => Unread(j) \subseteq {"apps"}
  BY DEF Unread

\* What a request changes is read again, or left behind by its failure or a deletion.
LEMMA RequestRefreshes ==
  ASSUME Types, NEW j \in Jobs, Request(j), NEW v \in Views
  PROVE  /\ excused \subseteq excused'
         /\ \/ v \in excused' \/ asked'[v] > 0 \/ WillRefresh(v)'
            \/ /\ server'[v] = server[v] /\ asked'[v] >= asked[v]
               /\ WillRefresh(v) => WillRefresh(v)'
<1> DEFINE Refreshed == \/ v \in excused' \/ asked'[v] > 0 \/ WillRefresh(v)'
                        \/ /\ server'[v] = server[v] /\ asked'[v] >= asked[v]
                           /\ WillRefresh(v) => WillRefresh(v)'
<1>0. /\ JobTypes /\ server \in Pages /\ asked \in [Views -> Nat] /\ excused \subseteq Views
      /\ server = [balance |-> server.balance, apps |-> server.apps, keys |-> server.keys]
  BY DEF Types, PageTypes, ReadTypes, HistoryTypes, Pages
<1>1. v \in {"balance", "apps", "keys"}
  BY DEF Views
<1>2. ASSUME NEW i \in Jobs, i # j PROVE Unread(i)' = Unread(i)
  <2>1. job'[i] = job[i] /\ pc'[i] = pc[i]
    BY <1>2, JobsAfter
  <2> QED
    BY <2>1 DEF Unread
<1>3. ASSUME NEW views, Ask(views)
      PROVE  /\ v \in views => asked'[v] > 0
             /\ asked'[v] >= asked[v]
  BY <1>0, <1>3 DEF Ask
<1>4. /\ \A views : Close(j, views) \/ Stay(j, views) => Ask(views)
      /\ \A request, views : Continue(j, request, views) => Ask(views) /\ UNCHANGED excused
  BY DEF Close, Stay, Continue
<1>5. ASSUME v \notin Unread(j) PROVE WillRefresh(v) => WillRefresh(v)'
  BY <1>2, <1>5 DEF WillRefresh
<1>6. ASSUME v \in Unread(j)' PROVE WillRefresh(v)'
  BY <1>6 DEF WillRefresh
<1>7. ASSUME server'[v] = server[v], asked'[v] >= asked[v], v \notin Unread(j)
      PROVE  Refreshed
  BY <1>5, <1>7
<1>8. (v \in excused' \/ asked'[v] > 0 \/ v \in Unread(j)') => Refreshed
  BY <1>6
<1> HIDE DEF Refreshed
<1> DEFINE Good == Refreshed /\ excused \subseteq excused'
\* A handler that breaks off leaves behind what it has changed.
<1>9. ASSUME NEW changed, Break(j, changed), v \in changed \/ server'[v] = server[v] PROVE Good
  <2>1. excused' = excused \cup Unread(j) \cup changed /\ UNCHANGED asked
    BY <1>9 DEF Break, reading
  <2>2. asked'[v] >= asked[v]
    BY <1>0, <2>1
  <2> QED
    BY <1>7, <1>8, <1>9, <2>1, <2>2
\* One that goes on or comes to its end has the views read again, or will.
<1>10. ASSUME NEW views, Close(j, views) \/ Stay(j, views), excused \subseteq excused',
              v \in views \/ v \in excused' \/ (server'[v] = server[v] /\ v \notin Unread(j))
       PROVE  Good
  <2>1. (v \in views => asked'[v] > 0) /\ asked'[v] >= asked[v]
    BY <1>3, <1>4, <1>10
  <2> QED
    BY <1>7, <1>8, <1>10, <2>1
<1>11. ASSUME NEW request, NEW views, Continue(j, request, views),
              v \in views \/ v \in Unread(j)' \/ (server'[v] = server[v] /\ v \notin Unread(j))
       PROVE  Good
  <2>1. (v \in views => asked'[v] > 0) /\ asked'[v] >= asked[v] /\ excused' = excused
    BY <1>3, <1>4, <1>11
  <2> QED
    BY <1>7, <1>8, <1>11, <2>1
<1> HIDE DEF Good
<1>12. ASSUME Allocate(j) PROVE Good
  <2>1. pc[j] = "allocate" /\ job[j].op = "assign" /\ server'.keys = server.keys
    BY <1>0, <1>12, RequestOf DEF Allocate
  <2>2. Unread(j) = {}
    BY <2>1, UnreadOf
  <2>3. ASSUME Continue(j, "select", {}) PROVE Good
    <3>1. pc'[j] = "select" /\ job'[j].op = "assign"
      BY <1>0, <2>1, <2>3 DEF Continue, JobTypes
    <3>2. Unread(j)' = {"balance", "apps"}
      BY <3>1 DEF Unread
    <3> QED
      BY <1>1, <1>11, <2>1, <2>2, <2>3, <3>2
  <2>4. ASSUME BreakHalfway(j, {"balance", "apps"}) PROVE Good
    BY <1>1, <1>9, <2>1, <2>4 DEF BreakHalfway
  <2> QED
    BY <1>12, <2>3, <2>4 DEF Allocate
<1>13. ASSUME Reclaim(j) PROVE Good
  <2>1. pc[j] = "reclaim" /\ server'.keys = server.keys
    BY <1>0, <1>13 DEF Reclaim
  <2>2. Unread(j) = {}
    BY <2>1, UnreadOf
  <2>3. ASSUME Reclaimed(j) /\ job[j].op = "switch" PROVE Good
    <3>1. Continue(j, "select", {"balance"})
      BY <2>3 DEF Reclaimed
    <3>2. pc'[j] = "select" /\ job'[j] = job[j] /\ job[j].sel = Main /\ job[j].amount > 0
      BY <1>0, <2>1, <2>3, <3>1 DEF Continue, JobTypes
    <3>3. Unread(j)' = {"apps"}
      BY <2>3, <3>2 DEF Unread
    <3> QED
      BY <1>1, <1>11, <2>1, <2>2, <3>1, <3>3
  <2>4. ASSUME Reclaimed(j) /\ job[j].op # "switch" PROVE Good
    <3>1. Stay(j, {"balance", "apps"}) /\ UNCHANGED excused
      BY <2>4 DEF Reclaimed
    <3> QED
      BY <1>1, <1>10, <2>1, <2>2, <3>1
  <2>5. ASSUME BreakOff(j, {"balance", "apps"}) PROVE Good
    BY <1>1, <1>9, <2>1, <2>5 DEF BreakOff
  <2> QED
    BY <1>13, <2>3, <2>4, <2>5 DEF Reclaim
<1>14. ASSUME Select(j) PROVE Good
  <2>1. pc[j] = "select" /\ server'.keys = server.keys /\ server'.balance = server.balance
    BY <1>0, <1>14 DEF Select
  <2>2. "keys" \notin Unread(j) /\ (job[j].op # "assign" => "balance" \notin Unread(j))
    BY <2>1, UnreadOf
  <2>3. ASSUME job[j].op = "assign" /\ Stay(j, {"balance", "apps"}) /\ UNCHANGED excused PROVE Good
    BY <1>1, <1>10, <2>1, <2>2, <2>3
  <2>4. ASSUME job[j].op \in {"switch", "edit"}, UNCHANGED excused,
               Stay(j, {"apps"}) \/ Close(j, {"apps"})
        PROVE  Good
    BY <1>1, <1>10, <2>1, <2>2, <2>4
  <2>5. ASSUME job[j].op = "edit" /\ Continue(j, "appId", {}) PROVE Good
    <3>1. pc'[j] = "appId"
      BY <1>0, <2>5 DEF Continue, JobTypes
    <3>2. Unread(j)' = {"apps"}
      BY <3>1 DEF Unread
    <3> QED
      BY <1>1, <1>11, <2>1, <2>2, <2>5, <3>2
  <2>6. ASSUME BreakOff(j, {"apps"}) PROVE Good
    BY <1>1, <1>9, <2>1, <2>6 DEF BreakOff
  <2> QED
    BY <1>14, <2>3, <2>4, <2>5, <2>6 DEF Select, Selected
<1>15. ASSUME StoreAppId(j) PROVE Good
  <2>1. pc[j] = "appId" /\ server' = server /\ Close(j, {"apps"}) /\ UNCHANGED excused
    BY <1>15 DEF StoreAppId
  <2>2. Unread(j) \subseteq {"apps"}
    BY <2>1, UnreadOf
  <2> QED
    BY <1>1, <1>10, <2>1, <2>2
<1>16. ASSUME CreateApp(j) PROVE Good
  <2>1. pc[j] = "create" /\ server'.keys = server.keys /\ server'.balance = server.balance
    BY <1>0, <1>16 DEF CreateApp
  <2>2. Unread(j) = {}
    BY <2>1, UnreadOf
  <2>3. Close(j, {"apps"}) /\ UNCHANGED excused => Good
    BY <1>1, <1>10, <2>1, <2>2
  <2>4. BreakOff(j, {"apps"}) => Good
    BY <1>1, <1>9, <2>1 DEF BreakOff
  <2> QED
    BY <1>16, <2>3, <2>4 DEF CreateApp
<1>17. ASSUME DeleteApp(j) PROVE Good
  <2>1. Close(j, {"apps"}) /\ excused' = excused \cup {"balance", "keys"} => Good
    BY <1>1, <1>10
  <2>2. BreakOff(j, Views) => Good
    BY <1>9 DEF BreakOff
  <2> QED
    BY <1>17, <2>1, <2>2 DEF DeleteApp
<1>18. ASSUME CreateKey(j) \/ RemoveKey(j) PROVE Good
  <2>1. /\ pc[j] \in {"generateKey", "deleteKey"}
        /\ server'.apps = server.apps /\ server'.balance = server.balance
    BY <1>0, <1>18 DEF CreateKey, RemoveKey
  <2>2. Unread(j) = {}
    BY <2>1, UnreadOf
  <2>3. (Stay(j, {"keys"}) \/ Close(j, {"keys"})) /\ UNCHANGED excused => Good
    BY <1>1, <1>10, <2>1, <2>2
  <2>4. BreakOff(j, {"keys"}) => Good
    BY <1>1, <1>9, <2>1 DEF BreakOff
  <2> QED
    BY <1>18, <2>3, <2>4 DEF CreateKey, RemoveKey
<1>19. ASSUME Refused(j) PROVE Good
  <2>1. Break(j, {}) /\ UNCHANGED server
    BY <1>19 DEF Refused, BreakHalfway, BreakOff
  <2> QED
    BY <1>9, <2>1
<1>20. Good
  BY <1>12, <1>13, <1>14, <1>15, <1>16, <1>17, <1>18, <1>19 DEF Request
<1> QED
  BY <1>20 DEF Good, Refreshed

\* A request keeps all views covered.
LEMMA CoverRequest ==
  ASSUME Types, CoverInv, NEW j \in Jobs, Request(j)
  PROVE  CoverInv'
<1>1. UNCHANGED <<view, answers, card>>
  BY JobsAfter
<1>2. OwnOnly(answers, card)'
  BY <1>1 DEF CoverInv, OwnOnly
<1>3. asked' \in [Views -> Nat]
  BY RequestEnds, EndsKeepTypes DEF ReadTypes
<1>4. ASSUME NEW v \in Views \ excused' PROVE Covered(v)'
  <2>1. v \notin excused /\ Covered(v)
    BY RequestRefreshes DEF CoverInv
  <2>2. CASE asked'[v] > 0 \/ WillRefresh(v)'
    BY <2>2 DEF Covered
  <2>3. CASE server'[v] = server[v] /\ asked'[v] >= asked[v] /\ (WillRefresh(v) => WillRefresh(v)')
    BY <1>1, <1>3, <2>1, <2>3, StaysCovered
  <2> QED
    BY <2>2, <2>3, RequestRefreshes
<1> QED
  BY <1>2, <1>4 DEF CoverInv

\* Steps that change neither the server's value of a view nor its reads.
LEMMA CoverStays ==
  ASSUME Types, CoverInv, UNCHANGED <<view, answers, asked, card>>, excused \subseteq excused',
         \A v \in Views \ excused' : server'[v] = server[v],
         \A v \in Views : WillRefresh(v) => WillRefresh(v)'
  PROVE  CoverInv'
<1>1. OwnOnly(answers, card)'
  BY DEF CoverInv, OwnOnly
<1>2. ASSUME NEW v \in Views \ excused' PROVE Covered(v)'
  <2>1. asked[v] \in Nat
    BY DEF Types, ReadTypes
  <2>2. asked'[v] >= asked[v] /\ asked'[v] \in Nat /\ Covered(v)
    BY <2>1 DEF CoverInv
  <2> QED
    BY <2>2, StaysCovered
<1> QED
  BY <1>1, <1>2 DEF CoverInv

\* A click asks for nothing yet.
LEMMA CoverClick ==
  ASSUME Types, CoverInv, NEW j \in Jobs, NEW c \in Closures, NEW request \in Labels,
         NEW holder \in BOOLEAN, Clicked(j, c, request, holder)
  PROVE  CoverInv'
<1>1. /\ job' = [job EXCEPT ![j] = c] /\ pc' = [pc EXCEPT ![j] = request] /\ pc[j] = "none"
      /\ UNCHANGED <<server, page, reading, excused>>
  BY DEF Clicked, Start
<1>2. Unread(j) = {}
  BY <1>1 DEF Unread
<1>4. ASSUME NEW i \in Jobs, i # j PROVE Unread(i)' = Unread(i)
  <2>1. pc'[i] = pc[i] /\ job'[i] = job[i]
    BY <1>1, <1>4 DEF Types, JobTypes
  <2> QED
    BY <2>1 DEF Unread
<1>3. \A v \in Views : WillRefresh(v) => WillRefresh(v)'
  BY <1>2, <1>4 DEF WillRefresh
<1> QED
  BY <1>1, <1>3, CoverStays DEF page, reading

\* A submission leaves the list of apps behind, and nothing else.
LEMMA CoverSpend ==
  ASSUME Types, CoverInv, NEW a \in Apps, Spend(a)
  PROVE  CoverInv'
<1>1. server \in Pages /\ excused' = excused \cup {"apps"}
  BY DEF Types, PageTypes, Spend
<1>2. server'.balance = server.balance /\ server'.keys = server.keys
  BY <1>1 DEF Spend, Pages
<1>3. \A v \in Views \ excused' : server'[v] = server[v]
  BY <1>1, <1>2 DEF Views
<1>4. \A v \in Views : WillRefresh(v) => WillRefresh(v)'
  BY DEF Spend, WillRefresh, Unread
<1> QED
  BY <1>1, <1>3, <1>4, CoverStays DEF Spend, page, reading

\* A queue whose own answers are aborted has none.
LEMMA AbortedHasNone ==
  ASSUME Types, NEW queues, AreAnswers(queues), NEW state, OwnOnly(queues, state)
  PROVE  \A k \in 1 .. Len(Aborted(queues["apps"])) : ~Aborted(queues["apps"])[k].own
<1> DEFINE queue == queues["apps"]
<1>1. "apps" \in Views
  BY DEF Views
<1>2. queue \in Queue("apps")
  BY <1>1 DEF AreAnswers
<1>3. \A i, k \in 1 .. Len(queue) : queue[i].own /\ queue[k].own => i = k
  BY DEF OwnOnly
<1> HIDE DEF queue
<1>4. CASE \A i \in 1 .. Len(queue) : ~queue[i].own
  BY <1>1, <1>2, <1>4, QueueAborted DEF queue
<1>5. ASSUME NEW i \in 1 .. Len(queue), queue[i].own
      PROVE  \A k \in 1 .. Len(Aborted(queue)) : ~Aborted(queue)[k].own
  <2>1. Len(queue) \in Nat
    BY <1>1, <1>2, QueuesAre
  <2>2. /\ Len(Aborted(queue)) = Len(queue) - 1
        /\ \A k \in 1 .. Len(queue) - 1 :
             Aborted(queue)[k] = IF \E m \in 1 .. Len(queue) : queue[m].own /\ m <= k
                                 THEN queue[k + 1] ELSE queue[k]
    BY <1>1, <1>2, <1>5, QueueAborted
  <2> TAKE k \in 1 .. Len(Aborted(queue))
  <2>3. k \in 1 .. Len(queue) - 1 /\ k \in 1 .. Len(queue) /\ k + 1 \in 1 .. Len(queue)
    BY <2>1, <2>2
  <2>4. (\E m \in 1 .. Len(queue) : queue[m].own /\ m <= k) <=> i <= k
    BY <1>3, <1>5
  <2>5. CASE i <= k
    <3>1. Aborted(queue)[k] = queue[k + 1] /\ k + 1 # i
      BY <2>1, <2>2, <2>3, <2>4, <2>5
    <3> QED
      BY <1>3, <1>5, <2>3, <3>1
  <2>6. CASE ~(i <= k)
    <3>1. Aborted(queue)[k] = queue[k] /\ k # i
      BY <2>1, <2>2, <2>3, <2>4, <2>6
    <3> QED
      BY <1>3, <1>5, <2>3, <3>1
  <2> QED
    BY <2>5, <2>6
<1> QED
  BY <1>4, <1>5 DEF queue

\* The page asks for its list anew: the list and the keys are on their way.
LEMMA CoverReload ==
  ASSUME Types, NEW before \in [Views -> Nat], NEW queued, AreAnswers(queued),
         NEW state, OwnOnly(queued, state), Reload(before, queued)
  PROVE  /\ OwnOnly(answers, card)'
         /\ Covered("apps")' /\ Covered("keys")'
         /\ asked'["balance"] = before["balance"] /\ answers'["balance"] = queued["balance"]
<1>1. /\ card' = "asked" /\ answers' = [queued EXCEPT !["apps"] = Aborted(@)]
      /\ asked' = [before EXCEPT !["keys"] = @ + 1]
  BY DEF Reload
<1>2. /\ "balance" \in Views /\ "keys" \in Views /\ "apps" \in Views
      /\ queued = [v \in Views |-> queued[v]]
  BY DEF Views, AreAnswers
<1>3. /\ answers'["apps"] = Aborted(queued["apps"])
      /\ \A v \in Views : v # "apps" => answers'[v] = queued[v]
  BY <1>1, <1>2
<1>4. OwnOnly(answers, card)'
  BY <1>3, AbortedHasNone DEF OwnOnly
<1>5. asked'["keys"] > 0 /\ asked'["balance"] = before["balance"]
  BY <1>1, <1>2
<1>6. Covered("apps")' /\ Covered("keys")'
  BY <1>1, <1>5 DEF Covered
<1> QED
  BY <1>2, <1>3, <1>4, <1>5, <1>6

\* An answer is asked for and comes.
LEMMA CoverAnswered ==
  ASSUME Types, NEW v \in Views, NEW own \in BOOLEAN, UNCHANGED server,
         answers'[v] = Append(answers[v], Answer(own, v))
  PROVE  Covered(v)'
<1> DEFINE e == Answer(own, v)
<1>1. ~e.late /\ e.value = server[v]
  BY DEF Answer
<1>2. answers[v] \in Queue(v)
  BY DEF Types, ReadTypes, AreAnswers
<1>3. Len(answers[v]) \in Nat
  BY <1>2, QueuesAre
<1>4. Len(answers'[v]) = Len(answers[v]) + 1 /\ answers'[v][Len(answers'[v])] = e
  BY <1>2, QueueAppend
<1>5. Len(answers'[v]) > 0
  BY <1>3, <1>4
<1> HIDE DEF e
<1> QED
  BY <1>1, <1>4, <1>5 DEF Covered

\* An answer is taken: a newer one is still to come, or it is the server's value and all
\* that are left are older.
LEMMA CoverTaken ==
  ASSUME Types, CoverInv, NEW v \in Views, NEW i \in 1 .. Len(answers[v]),
         answers'[v] = Without(answers[v], i), view'[v] = answers[v][i].value,
         asked'[v] = asked[v], UNCHANGED <<server, job, pc>>,
         excused' = Judged(v, i), v \notin excused',
         v = "apps" => (card' = card \/ answers[v][i].own)
  PROVE  Covered(v)'
<1> DEFINE queue == answers[v]
           n == Len(queue)
           left == answers'[v]
<1>1. queue \in Queue(v) /\ excused \subseteq Views
  BY DEF Types, ReadTypes, AreAnswers, HistoryTypes
<1>2. n \in Nat /\ i \in 1 .. n
  BY <1>1, QueuesAre
<1>3. /\ left = Without(queue, i) /\ Len(left) = n - 1
      /\ \A k \in 1 .. n - 1 : /\ k < i => left[k].late
                               /\ k >= i => left[k] = queue[k + 1]
  <2>1. left = Without(queue, i)
    OBVIOUS
  <2>2. i \in 1 .. Len(queue) /\ n = Len(queue)
    OBVIOUS
  <2> HIDE DEF queue, left, n
  <2>3. /\ Len(left) = n - 1
        /\ \A k \in 1 .. n - 1 : /\ k < i => Without(queue, i)[k].late
                                 /\ k >= i => Without(queue, i)[k] = queue[k + 1]
    BY <1>1, <2>1, <2>2, QueueWithout
  <2> QED
    BY <2>1, <2>3
<1>4. queue[i].late => queue[i].value = server[v]
  BY DEF Judged
<1>5. WillRefresh(v) => WillRefresh(v)'
  BY DEF WillRefresh, Unread
<1>6. ASSUME i = n, queue[i].value = server[v] PROVE Covered(v)'
  <2>1. \A k \in 1 .. Len(left) : left[k].late
    BY <1>2, <1>3, <1>6
  <2>2. view'[v] = server'[v]
    BY <1>6
  <2> QED
    BY <2>1, <2>2 DEF Covered
<1>7. ASSUME ~(i = n /\ queue[i].value = server[v]) PROVE Covered(v)'
  <2>1. v \notin excused /\ Covered(v)
    BY <1>4, <1>7 DEF Judged, CoverInv
  <2>2. asked[v] > 0 \/ WillRefresh(v) => Covered(v)'
    BY <1>5 DEF Covered
  <2>3. ASSUME v = "apps", card = "asked" PROVE Covered(v)'
    <3>1. ~answers[v][i].own
      BY <2>3 DEF CoverInv, OwnOnly
    <3>2. card' = "asked"
      BY <2>3, <3>1
    <3> QED
      BY <2>3, <3>2 DEF Covered
  <2>4. ASSUME n > 0, ~queue[n].late, queue[n].value = server[v] PROVE Covered(v)'
    <3>1. i # n
      BY <1>7, <2>4
    <3>2. n - 1 \in 1 .. n - 1 /\ n - 1 >= i /\ (n - 1) + 1 = n
      BY <1>2, <3>1
    <3>3. left[n - 1] = queue[n]
      BY <1>3, <3>2
    <3>4. Len(left) > 0 /\ left[Len(left)] = queue[n]
      BY <1>2, <1>3, <3>2, <3>3
    <3> QED
      BY <2>4, <3>4 DEF Covered
  <2>5. ASSUME \A k \in 1 .. n : queue[k].late PROVE Covered(v)'
    <3>1. view'[v] = server'[v]
      BY <1>2, <1>4, <2>5
    <3>2. \A k \in 1 .. Len(left) : left[k].late
      BY <1>2, <1>3, <2>5
    <3> QED
      BY <3>1, <3>2 DEF Covered
  <2> QED
    BY <2>1, <2>2, <2>3, <2>4, <2>5 DEF Covered
<1> QED
  BY <1>6, <1>7

\* The page's own answer, of which there is one at most, after another is taken.
LEMMA OwnAfterTaken ==
  ASSUME Types, NEW v \in Views, NEW i \in 1 .. Len(answers[v]), OwnOnly(answers, card),
         NEW queues, queues = [answers EXCEPT ![v] = Without(@, i)], NEW state,
         state = card \/ answers[v][i].own, answers[v][i].own \/ state = card
  PROVE  OwnOnly(queues, state)
<1> DEFINE queue == answers[v]
           left == queues[v]
           n == Len(queue)
<1>1. /\ queue \in Queue(v) /\ "apps" \in Views
      /\ left = Without(queue, i) /\ \A u \in Views : u # v => queues[u] = answers[u]
  BY DEF Types, ReadTypes, AreAnswers, Views
<1>2. n \in Nat /\ i \in 1 .. n
  BY <1>1, QueuesAre
<1>3. /\ Len(left) = n - 1
      /\ \A k \in 1 .. n - 1 : /\ k < i => left[k].own = queue[k].own
                               /\ k >= i => left[k] = queue[k + 1]
  <2> HIDE DEF queue, left
  <2> QED
    BY <1>1, <1>2, QueueWithout
<1>4. /\ \A k \in 1 .. n : queue[k].own => v = "apps" /\ card = "answered"
      /\ v = "apps" => \A k, m \in 1 .. n : queue[k].own /\ queue[m].own => k = m
  BY DEF OwnOnly
<1> DEFINE place(k) == IF k < i THEN k ELSE k + 1
<1>5. ASSUME NEW k \in 1 .. n - 1
      PROVE  place(k) \in 1 .. n /\ place(k) # i /\ left[k].own = queue[place(k)].own
  BY <1>2, <1>3
<1>6. \A k, m \in 1 .. n - 1 : place(k) = place(m) => k = m
  BY <1>2
<1> HIDE DEF place
<1>7. \A k \in 1 .. n - 1 : left[k].own => v = "apps" /\ state = "answered"
  <2> SUFFICES ASSUME NEW k \in 1 .. n - 1, left[k].own PROVE v = "apps" /\ state = "answered"
    OBVIOUS
  <2>1. queue[place(k)].own /\ v = "apps" /\ card = "answered"
    BY <1>4, <1>5
  <2>2. ~queue[i].own
    BY <1>2, <1>4, <1>5, <2>1
  <2> QED
    BY <2>1, <2>2
<1>8. v = "apps" => \A k, m \in 1 .. n - 1 : left[k].own /\ left[m].own => k = m
  BY <1>4, <1>5, <1>6
<1>9. ASSUME NEW u \in Views, u # v, NEW k \in 1 .. Len(queues[u]), queues[u][k].own
      PROVE  u = "apps" /\ state = "answered"
  <2>1. u = "apps" /\ card = "answered"
    BY <1>1, <1>9 DEF OwnOnly
  <2>2. ~queue[i].own
    BY <1>2, <1>4, <1>9, <2>1
  <2> QED
    BY <2>1, <2>2
<1>10. \A k, m \in 1 .. Len(queues["apps"]) :
         queues["apps"][k].own /\ queues["apps"][m].own => k = m
  <2>1. CASE v = "apps"
    BY <1>3, <1>8, <2>1
  <2>2. CASE v # "apps"
    BY <1>1, <2>2 DEF OwnOnly
  <2> QED
    BY <2>1, <2>2
<1>11. \A u \in Views : \A k \in 1 .. Len(queues[u]) :
         queues[u][k].own => u = "apps" /\ state = "answered"
  BY <1>3, <1>7, <1>9
<1> QED
  BY <1>10, <1>11 DEF OwnOnly

\* The user's record comes or goes: the page may ask for its list anew.
LEMMA CoverUser ==
  ASSUME Types, CoverInv, NEW before \in [Views -> Nat], NEW queued, AreAnswers(queued),
         NEW there, UserBecomes(there, before, queued), OwnOnly(queued, card),
         \A v \in Views : v # "balance" => before[v] = asked[v] /\ queued[v] = answers[v],
         UNCHANGED <<server, job, pc>>, view'.apps = view.apps, view'.keys = view.keys,
         \A v \in Views : v # "balance" /\ v \notin excused' => v \notin excused
  PROVE  /\ OwnOnly(answers, card)'
         /\ \A v \in Views \ excused' : v # "balance" => Covered(v)'
         /\ asked'["balance"] = before["balance"] /\ answers'["balance"] = queued["balance"]
<1>1. CASE there # user
  <2>1. Reload(before, queued)
    BY <1>1 DEF UserBecomes
  <2>2. \A v \in Views : v # "balance" => v = "apps" \/ v = "keys"
    BY DEF Views
  <2> QED
    BY <2>1, <2>2, CoverReload
<1>2. CASE there = user
  <2>1. asked' = before /\ answers' = queued /\ card' = card
    BY <1>2 DEF UserBecomes
  <2>2. OwnOnly(answers, card)'
    BY <2>1 DEF OwnOnly
  <2>3. ASSUME NEW v \in Views \ excused', v # "balance" PROVE Covered(v)'
    <3>1. v \in {"apps", "keys"}
      BY <2>3 DEF Views
    <3>2. view'[v] = view[v]
      BY <3>1
    <3>3. asked[v] \in Nat /\ asked'[v] = asked[v] /\ answers'[v] = answers[v]
      BY <2>1, <2>3 DEF Types, ReadTypes
    <3>4. asked'[v] >= asked[v] /\ asked'[v] \in Nat
      BY <3>3
    <3>5. Covered(v) /\ (WillRefresh(v) => WillRefresh(v)') /\ server'[v] = server[v]
      BY <2>3 DEF CoverInv, WillRefresh, Unread
    <3> QED
      BY <2>1, <3>2, <3>3, <3>4, <3>5, StaysCovered
  <2> QED
    BY <2>1, <2>2, <2>3
<1> QED
  BY <1>1, <1>2

\* Reads bring the views up to date, or leave them behind where one is lost or overtaken.
LEMMA CoverRead ==
  ASSUME Types, CoverInv,
         \/ \E v \in Views : Read(v)
         \/ ServeCard \/ LoseBalance \/ LoseCard \/ SessionRefresh
  PROVE  CoverInv'
<1>1. /\ view \in Pages /\ AreAnswers(answers) /\ asked \in [Views -> Nat]
      /\ \A v \in Views : answers[v] \in Queue(v)
      /\ "balance" \in Views /\ "apps" \in Views /\ "keys" \in Views
      /\ \A v \in Views : v \in {"balance", "apps", "keys"}
      /\ OwnOnly(answers, card)
  BY DEF Types, PageTypes, ReadTypes, AreAnswers, Views, CoverInv
<1>2. UNCHANGED <<server, job, pc>>
  BY ReadEffects
<1>3. ASSUME NEW v \in Views, v \notin excused, view'[v] = view[v], answers'[v] = answers[v],
             asked'[v] = asked[v], v = "apps" => card' = card
      PROVE  Covered(v)'
  <2>1. asked'[v] >= asked[v] /\ asked'[v] \in Nat
    BY <1>1, <1>3
  <2>2. Covered(v) /\ (WillRefresh(v) => WillRefresh(v)') /\ server'[v] = server[v]
    BY <1>2, <1>3 DEF CoverInv, WillRefresh, Unread
  <2> QED
    BY <1>3, <2>1, <2>2, StaysCovered
<1>4. ASSUME NEW v \in Views, Serve(v) PROVE CoverInv'
  <2>1. /\ answers' = [answers EXCEPT ![v] = Append(@, Answer(FALSE, v))]
        /\ asked' = [asked EXCEPT ![v] = @ - 1]
        /\ UNCHANGED <<view, card, excused>>
    BY <1>4 DEF Serve, page
  <2>2. answers'[v] = Append(answers[v], Answer(FALSE, v))
    BY <1>1, <2>1 DEF AreAnswers
  <2>3. Covered(v)'
    BY <1>2, <2>2, CoverAnswered
  <2>4. ASSUME NEW u \in Views \ excused', u # v PROVE Covered(u)'
    <3>1. answers'[u] = answers[u] /\ asked'[u] = asked[u] /\ view'[u] = view[u]
      BY <1>1, <2>1, <2>4 DEF AreAnswers
    <3> QED
      BY <1>3, <2>1, <2>4, <3>1
  <2>5. OwnOnly(answers, card)'
    <3> DEFINE queue == answers[v]
               longer == answers'[v]
    <3>1. /\ Len(queue) \in Nat /\ Len(longer) = Len(queue) + 1
          /\ \A k \in 1 .. Len(queue) : longer[k] = queue[k]
          /\ ~longer[Len(queue) + 1].own
      BY <1>1, <2>2, QueuesAre, QueueAppend DEF Answer
    <3>2. ASSUME NEW k \in 1 .. Len(longer), longer[k].own
          PROVE  k \in 1 .. Len(queue) /\ queue[k].own
      BY <3>1, <3>2
    <3>3. \A u \in Views : u # v => answers'[u] = answers[u]
      BY <1>1, <2>1 DEF AreAnswers
    <3> QED
      BY <1>1, <2>1, <3>2, <3>3 DEF OwnOnly
  <2> QED
    BY <2>3, <2>4, <2>5 DEF CoverInv
<1>5. ASSUME NEW v \in Views, LoseList(v) PROVE CoverInv'
  <2>1. /\ asked' = [asked EXCEPT ![v] = @ - 1] /\ excused' = excused \cup {v}
        /\ UNCHANGED <<view, answers, card>>
    BY <1>5 DEF LoseList, page
  <2>2. OwnOnly(answers, card)'
    BY <1>1, <2>1 DEF OwnOnly
  <2>3. ASSUME NEW u \in Views \ excused' PROVE Covered(u)'
    BY <1>1, <1>3, <2>1, <2>3
  <2> QED
    BY <2>2, <2>3 DEF CoverInv
<1>6. ASSUME NEW i \in 1 .. Len(answers["balance"]), ApplyBalance(i) PROVE CoverInv'
  <2> DEFINE queued == [answers EXCEPT !["balance"] = Without(@, i)]
  <2>1. /\ AreAnswers(queued) /\ queued["balance"] = Without(answers["balance"], i)
        /\ \A v \in Views : v # "balance" => queued[v] = answers[v]
    BY <1>1, AnswersAre, QueuesAre DEF AreAnswers
  <2>2. /\ UserBecomes(TRUE, asked, queued) /\ excused' = Judged("balance", i)
        /\ view'.balance = answers["balance"][i].value
        /\ view'.apps = view.apps /\ view'.keys = view.keys
    BY <1>1, <1>6 DEF ApplyBalance, Pages
  <2>3. \A v \in Views : v # "balance" /\ v \notin excused' => v \notin excused
    BY <2>2 DEF Judged
  <2>4. ~answers["balance"][i].own
    BY <1>1 DEF OwnOnly
  <2>5. OwnOnly(queued, card)
    BY <1>1, OwnAfterTaken
  <2> HIDE DEF queued
  <2>6. /\ OwnOnly(answers, card)'
        /\ \A v \in Views \ excused' : v # "balance" => Covered(v)'
        /\ asked'["balance"] = asked["balance"] /\ answers'["balance"] = queued["balance"]
    BY <1>1, <1>2, <2>1, <2>2, <2>3, <2>5, CoverUser
  <2>7. ASSUME "balance" \notin excused' PROVE Covered("balance")'
    <3> DEFINE v == "balance"
    <3>1. /\ v \in Views /\ answers'[v] = Without(answers[v], i) /\ asked'[v] = asked[v]
          /\ view'[v] = answers[v][i].value /\ excused' = Judged(v, i) /\ v \notin excused'
      BY <1>1, <2>1, <2>2, <2>6, <2>7
    <3>2. v # "apps"
      OBVIOUS
    <3> QED
      BY <3>1, <1>2, CoverTaken
  <2> QED
    BY <2>6, <2>7 DEF CoverInv
<1>7. ASSUME NEW i \in 1 .. Len(answers["keys"]), ApplyKeys(i) PROVE CoverInv'
  <2> DEFINE v == "keys"
  <2>1. /\ v \in Views /\ answers' = [answers EXCEPT ![v] = Without(@, i)]
        /\ view'[v] = answers[v][i].value /\ excused' = Judged(v, i)
        /\ view'.balance = view.balance /\ view'.apps = view.apps
        /\ UNCHANGED <<asked, card>>
    BY <1>1, <1>7 DEF ApplyKeys, Pages
  <2>2. answers'[v] = Without(answers[v], i) /\ \A u \in Views : u # v => answers'[u] = answers[u]
    BY <1>1, <2>1 DEF AreAnswers
  <2>3. OwnOnly(answers', card')
    BY <1>1, <2>1, OwnAfterTaken
  <2>4. v \notin excused' => Covered(v)'
    BY <1>2, <2>1, <2>2, CoverTaken
  <2>5. ASSUME NEW u \in Views \ excused', u # v PROVE Covered(u)'
    <3>1. u \notin excused /\ view'[u] = view[u]
      BY <1>1, <2>1, <2>5 DEF Judged
    <3> QED
      BY <1>3, <2>1, <2>2, <2>5, <3>1
  <2>6. OwnOnly(answers, card)'
    BY <2>3 DEF OwnOnly
  <2> QED
    BY <2>4, <2>5, <2>6 DEF CoverInv
<1>8. ASSUME NEW i \in 1 .. Len(answers["apps"]), ApplyApps(i) PROVE CoverInv'
  <2> DEFINE v == "apps"
  <2>1. /\ v \in Views /\ answers' = [answers EXCEPT ![v] = Without(@, i)]
        /\ view'[v] = answers[v][i].value /\ excused' = Judged(v, i)
        /\ view'.balance = view.balance /\ view'.keys = view.keys
        /\ card' = (IF answers[v][i].own THEN "idle" ELSE card)
        /\ UNCHANGED asked
    BY <1>1, <1>8 DEF ApplyApps, Pages
  <2>2. answers'[v] = Without(answers[v], i) /\ \A u \in Views : u # v => answers'[u] = answers[u]
    BY <1>1, <2>1 DEF AreAnswers
  <2>3. card' = card \/ answers[v][i].own
    BY <2>1
  <2>4. OwnOnly(answers', card')
    BY <1>1, <2>1, <2>3, OwnAfterTaken
  <2>5. v \notin excused' => Covered(v)'
    BY <1>2, <2>1, <2>2, <2>3, CoverTaken
  <2>6. ASSUME NEW u \in Views \ excused', u # v PROVE Covered(u)'
    <3>1. u \notin excused /\ view'[u] = view[u] /\ u # "apps"
      BY <1>1, <2>1, <2>6 DEF Judged
    <3> QED
      BY <1>3, <2>1, <2>2, <2>6, <3>1
  <2>7. OwnOnly(answers, card)'
    BY <2>4 DEF OwnOnly
  <2> QED
    BY <2>5, <2>6, <2>7 DEF CoverInv
<1>9. ASSUME ServeCard PROVE CoverInv'
  <2> DEFINE queue == answers["apps"]
             longer == answers'["apps"]
  <2>1. /\ answers' = [answers EXCEPT !["apps"] = Append(@, Answer(TRUE, "apps"))]
        /\ card = "asked" /\ card' = "answered" /\ UNCHANGED <<view, asked, excused>>
    BY <1>9 DEF ServeCard, page
  <2>2. longer = Append(queue, Answer(TRUE, "apps"))
    BY <1>1, <2>1 DEF AreAnswers
  <2>3. \A u \in Views : u # "apps" => answers'[u] = answers[u]
    BY <1>1, <2>1 DEF AreAnswers
  <2>4. Covered("apps")'
    BY <1>1, <1>2, <2>2, CoverAnswered
  <2>5. ASSUME NEW u \in Views \ excused', u # "apps" PROVE Covered(u)'
    BY <1>3, <2>1, <2>3, <2>5
  <2>6. \A v \in Views : \A k \in 1 .. Len(answers[v]) : ~answers[v][k].own
    BY <1>1, <2>1 DEF OwnOnly
  <2>7. /\ Len(queue) \in Nat /\ Len(longer) = Len(queue) + 1
        /\ \A k \in 1 .. Len(queue) : longer[k] = queue[k]
    <3>1. queue \in Queue("apps")
      BY <1>1
    <3> HIDE DEF queue, longer
    <3> QED
      BY <1>1, <2>2, <3>1, QueuesAre, QueueAppend
  <2>8. ASSUME NEW k \in 1 .. Len(longer), longer[k].own PROVE k = Len(queue) + 1
    <3>1. \A m \in 1 .. Len(queue) : ~queue[m].own
      BY <1>1, <2>6
    <3> HIDE DEF queue, longer
    <3>2. k \in 1 .. Len(queue) \/ k = Len(queue) + 1
      BY <2>7, <2>8
    <3> QED
      BY <2>7, <2>8, <3>1, <3>2
  <2>9. OwnOnly(answers, card)'
    BY <1>1, <2>1, <2>3, <2>6, <2>8 DEF OwnOnly
  <2> QED
    BY <2>4, <2>5, <2>9 DEF CoverInv
<1>10. ASSUME LoseBalance PROVE CoverInv'
  <2> DEFINE before == [asked EXCEPT !["balance"] = @ - 1]
  <2>1. /\ UserBecomes(FALSE, before, answers) /\ excused' = excused \cup {"balance"}
        /\ view'.apps = view.apps /\ view'.keys = view.keys
    BY <1>1, <1>10 DEF LoseBalance, Pages
  <2>2. before \in [Views -> Nat] /\ \A v \in Views : v # "balance" => before[v] = asked[v]
    BY <1>1, <1>10 DEF LoseBalance
  <2> HIDE DEF before
  <2>3. OwnOnly(answers, card)' /\ \A v \in Views \ excused' : v # "balance" => Covered(v)'
    BY <1>1, <1>2, <2>1, <2>2, CoverUser
  <2> QED
    BY <2>1, <2>3 DEF CoverInv
<1>11. ASSUME LoseCard PROVE CoverInv'
  <2>1. /\ card = "asked" /\ card' = "idle" /\ excused' = excused \cup {"apps"}
        /\ UNCHANGED <<view, asked, answers>>
    BY <1>11 DEF LoseCard, page
  <2>2. OwnOnly(answers, card)'
    BY <1>1, <2>1 DEF OwnOnly
  <2>3. ASSUME NEW u \in Views \ excused' PROVE Covered(u)'
    BY <1>3, <2>1, <2>3
  <2> QED
    BY <2>2, <2>3 DEF CoverInv
<1>12. ASSUME SessionRefresh PROVE CoverInv'
  <2> DEFINE before == [asked EXCEPT !["balance"] = @ + 1]
  <2>1. Reload(before, answers) /\ UNCHANGED <<view, excused>>
    BY <1>12 DEF SessionRefresh, page
  <2>4. before \in [Views -> Nat] /\ before["balance"] > 0
    BY <1>1
  <2> HIDE DEF before
  <2>2. /\ OwnOnly(answers, card)' /\ Covered("apps")' /\ Covered("keys")'
        /\ asked'["balance"] = before["balance"]
    BY <1>1, <2>1, <2>4, CoverReload
  <2>3. Covered("balance")'
    BY <2>2, <2>4 DEF Covered
  <2> QED
    BY <1>1, <2>2, <2>3 DEF CoverInv
<1> QED
  BY <1>4, <1>5, <1>6, <1>7, <1>8, <1>9, <1>10, <1>11, <1>12 DEF Read

\* Every step keeps all views covered.
LEMMA CoverStep == Types /\ CoverInv /\ [Next]_vars => CoverInv'
<1> SUFFICES ASSUME Types, CoverInv, [Next]_vars PROVE CoverInv'
  OBVIOUS
<1>1. ASSUME NEW a \in Apps, NEW j \in Jobs, Click(j, a) PROVE CoverInv'
  BY <1>1, ClickStarts, CoverClick DEF Clicked
<1>2. ASSUME UNCHANGED <<server, view, job, pc, answers, asked, card, excused>> PROVE CoverInv'
  <2>1. \A v \in Views : WillRefresh(v) => WillRefresh(v)'
    BY <1>2 DEF WillRefresh, Unread
  <2> QED
    BY <1>2, <2>1, CoverStays
<1>3. ASSUME CloseDialog \/ \E a \in Apps : Dialog(a) PROVE CoverInv'
  BY <1>2, <1>3 DEF Dialog, CloseDialog, OpenDialog, Choose, CancelSwitch, TypeInForm,
                    page, reading
<1>4. CASE UNCHANGED vars
  BY <1>2, <1>4 DEF vars, page, reading
<1> QED
  BY <1>1, <1>3, <1>4, CoverRequest, CoverSpend, CoverRead DEF Next

\* Whatever order the answers come in, the page shows what the server has once the
\* handlers and the reads they do not wait for are at their end, but for what a request
\* changed before its handler broke off, a read that failed, a wrong answer that came
\* after a newer one, and what is never read again.
THEOREM ViewsDoCatchUp == Spec => []ViewsCatchUp
<1>1. Init => CoverInv
  <2> SUFFICES ASSUME Init PROVE CoverInv
    OBVIOUS
  <2>1. \A v \in Views : view[v] = server[v] /\ answers[v] = <<>>
    BY DEF Init
  <2> QED
    BY <2>1 DEF CoverInv, OwnOnly, Covered, Views
<1>2. CoverInv => ViewsCatchUp
  <2> SUFFICES ASSUME CoverInv, Quiet, NEW v \in Views, v \notin excused
               PROVE  view[v] = server[v]
    BY DEF ViewsCatchUp
  <2>1. Covered(v)
    BY DEF CoverInv
  <2>2. ~WillRefresh(v)
    BY UnreadOf DEF Quiet, WillRefresh, Running
  <2>3. asked[v] = 0 /\ Len(answers[v]) = 0 /\ card # "asked"
    BY DEF Quiet
  <2> QED
    BY <2>1, <2>2, <2>3 DEF Covered
<1> QED
  BY <1>1, <1>2, CoverStep, TypesHold, PTL DEF Spec
=============================================================================
