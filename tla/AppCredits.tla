----------------------------- MODULE AppCredits -----------------------------
(***************************************************************************)
(* The apps of a user in the dashboard: the dialogs that assign credits to *)
(* an app, take them back, switch what it pays from, edit, create and      *)
(* delete apps and their keys, each a sequence of requests in an async     *)
(* handler, and the reads that bring the page up to date afterwards.       *)
(* The page has three views of the server, the main balance, the apps and  *)
(* the keys; a handler refreshes some of them without waiting, and answers *)
(* are taken as they come.                                                 *)
(*                                                                         *)
(* A request and its answer are one step, which may also lose the answer;  *)
(* a read is asked, answered with what the server then has, and applied,   *)
(* in three steps.  The server's own statements are those of CreditLedger, *)
(* taken here one request at a time.                                       *)
(***************************************************************************)
EXTENDS Integers, Sequences, FiniteSets

CONSTANTS
  Apps,        \* apps the user can have
  Funded,      \* those that have a credit assigned at the start
  Supply,      \* the main balance then
  Amounts,     \* amounts the user types
  MaxJobs,     \* bound: requests of the user
  MaxOutside   \* bound: session refreshes, submissions by clients, failed refreshes

ASSUME AppsAssumption ==
  /\ Funded \subseteq Apps /\ "none" \notin Apps
  /\ Supply \in Nat /\ Amounts \subseteq Nat
  /\ MaxJobs \in Nat /\ MaxOutside \in Nat

Jobs  == 1 .. MaxJobs
Views == {"balance", "apps", "keys"}
None  == 0

\* credit_selection and the options of the dialog.
Assigned == 0
Main     == 1
Fallback == 2
NoOption == -1
Options  == {Assigned, Main, Fallback}
UsesAssigned(option) == option \in {Assigned, Fallback}

Row  == [alloc : Nat, used : Nat, sel : Options]
Keys == [app : Apps, id : Jobs]
NoKey == [app |-> "none", id |-> None]

NoDialog == [kind |-> "none", app |-> "none"]
Kinds    == {"manage", "edit", "delete", "deleteKey"}
Closed   == [job |-> None, option |-> Main, pending |-> NoOption, sel |-> Main, key |-> NoKey]
NoJob    == [op |-> "none", app |-> "none", amount |-> 0, sel |-> Main, key |-> NoKey]

VARIABLES
  server, view,       \* balance, apps and keys, there and on the page
  user,               \* the page has the user's record
  open, dlg,          \* the open dialog and the state of its component
  job, pc,            \* per handler: its closure and its next request
  asked, answers,     \* per view: reads not answered, answers not applied
  card,               \* the read of the page's own effect
  outside,            \* counter of the bound
  excused,            \* history: views something has left behind the server
  loose, assigned     \* history: apps left to a race or half-way, apps ever assigned to

page    == <<view, user>>
dialogs == <<open, dlg>>
reading == <<asked, answers, card>>
vars == <<server, page, dialogs, job, pc, reading, outside, excused, loose, assigned>>

Listed == DOMAIN view.apps
Live   == DOMAIN server.apps

\* What the dialog of an app starts with when it is mounted.
Fresh(list, a) == [Closed EXCEPT !.option = list[a].sel, !.sel = list[a].sel]

Running(j) == pc[j] \notin {"none", "done"}

FromOutside == outside < MaxOutside /\ outside' = outside + 1

Init ==
  /\ server = [balance |-> Supply,
               apps |-> [a \in Funded |-> [alloc |-> 1, used |-> 0, sel |-> Assigned]],
               keys |-> {}]
  /\ view = server /\ user = TRUE
  /\ open = NoDialog /\ dlg = Closed
  /\ job = [j \in Jobs |-> NoJob] /\ pc = [j \in Jobs |-> "none"]
  /\ asked = [v \in Views |-> 0] /\ answers = [v \in Views |-> <<>>]
  /\ card = "idle"
  /\ outside = 0
  /\ excused = {} /\ loose = {} /\ assigned = Funded

-----------------------------------------------------------------------------
(* Dialogs                                                                 *)

\* While the page loads its list the items are gone, and their dialogs with
\* them; the name of the open dialog stays.
OnScreen(a) == card = "idle" /\ a \in Listed
Showing(kind, a) == open = [kind |-> kind, app |-> a] /\ OnScreen(a)

Free == open = NoDialog \/ ~OnScreen(open.app)

OpenDialog(kind, a) ==
  /\ Free /\ OnScreen(a)
  /\ open' = [kind |-> kind, app |-> a]
  /\ IF kind = "deleteKey"
     THEN \E k \in view.keys : k.app = a /\ dlg' = [Fresh(view.apps, a) EXCEPT !.key = k]
     ELSE dlg' = Fresh(view.apps, a)
  /\ UNCHANGED <<server, page, job, pc, reading, outside, excused, loose, assigned>>

\* The handler goes on without its dialog.
CloseDialog ==
  /\ open # NoDialog /\ ~Free
  /\ open' = NoDialog /\ dlg' = Closed
  /\ UNCHANGED <<server, page, job, pc, reading, outside, excused, loose, assigned>>

\* handleOptionChange: a change of what the server has asks for a confirmation.
Choose(a, option) ==
  /\ Showing("manage", a) /\ option # dlg.option
  /\ IF /\ UsesAssigned(view.apps[a].sel)
        /\ option = Main \/ UsesAssigned(dlg.option)
     THEN dlg' = [dlg EXCEPT !.pending = option]
     ELSE dlg' = [dlg EXCEPT !.option = option]
  /\ UNCHANGED <<open, server, page, job, pc, reading, outside, excused, loose, assigned>>

CancelSwitch(a) ==
  /\ Showing("manage", a) /\ dlg.pending # NoOption
  /\ dlg' = [dlg EXCEPT !.pending = NoOption]
  /\ UNCHANGED <<open, server, page, job, pc, reading, outside, excused, loose, assigned>>

\* A field of the form changes, and saveAppDetails is made anew with the row of the
\* page as it is then.
TypeInForm(a) ==
  /\ Showing("edit", a) /\ dlg.sel # view.apps[a].sel
  /\ dlg' = [dlg EXCEPT !.sel = view.apps[a].sel]
  /\ UNCHANGED <<open, server, page, job, pc, reading, outside, excused, loose, assigned>>

-----------------------------------------------------------------------------
(* Handlers start: what they use is fixed by the closure of the click      *)

\* A handler that assigns credits to the app, and one that will leave the app to
\* the main balance.
Assigning(a)   == \E j \in Jobs : Running(j) /\ job[j].op = "assign" /\ job[j].app = a
ToMain(c)      == c.op \in {"switch", "edit"} /\ c.sel = Main
LeavingFor(j)  == pc[j] \in {"reclaim", "select"} /\ ToMain(job[j])
Leaving(a)     == \E j \in Jobs : LeavingFor(j) /\ job[j].app = a

\* History: an assignment and a move to the main balance overlap, or the move does
\* not know of all the credits the app has.
Careless(closure) ==
  LET a == closure.app
  IN  \/ closure.op = "assign" /\ Leaving(a)
      \/ ToMain(closure) /\ Assigning(a)
      \/ ToMain(closure) /\ a \in Live /\ server.apps[a].alloc > closure.amount

Start(j, closure, request, holder) ==
  /\ pc[j] = "none" /\ \A i \in Jobs : i < j => pc[i] # "none"
  /\ job' = [job EXCEPT ![j] = closure]
  /\ pc' = [pc EXCEPT ![j] = request]
  /\ dlg' = IF holder THEN [dlg EXCEPT !.job = j] ELSE dlg
  /\ loose' = IF Careless(closure) THEN loose \cup {closure.app} ELSE loose
  /\ UNCHANGED <<open, server, page, reading, outside, excused, assigned>>

Idle(kind, a) == Showing(kind, a) /\ dlg.job = None

Closure(op, a, amount, sel) ==
  [op |-> op, app |-> a, amount |-> amount, sel |-> sel, key |-> NoKey]

\* handleAssignCredits: the selection goes with the assignment.
Assign(j, a, n) ==
  /\ Idle("manage", a) /\ UsesAssigned(dlg.option)
  /\ view.balance > 0 /\ n <= view.balance
  /\ Start(j, Closure("assign", a, n, dlg.option), "allocate", TRUE)

Unassign(j, a, n) ==
  /\ Idle("manage", a) /\ UsesAssigned(dlg.option)
  /\ view.apps[a].alloc > 0 /\ n <= view.apps[a].alloc
  /\ Start(j, Closure("unassign", a, n, Main), "reclaim", TRUE)

\* handleConfirmSwitch: the credits the page shows go back before the switch to
\* the main balance.
ConfirmSwitch(j, a) ==
  /\ Idle("manage", a) /\ dlg.pending # NoOption
  /\ LET shown == view.apps[a].alloc
     IN  Start(j, Closure("switch", a, shown, dlg.pending),
               IF dlg.pending = Main /\ shown > 0 THEN "reclaim" ELSE "select", TRUE)

\* saveAppDetails of an edit sends the selection of the render in which a field
\* of the form last changed, which an assignment since then does not renew.
Edit(j, a) == Idle("edit", a) /\ Start(j, Closure("edit", a, 0, dlg.sel), "select", TRUE)

\* The form of a new app goes with the page while the session is refreshed, and
\* comes back without the flag of a handler that is still on its way.
Create(j, a) ==
  /\ Free /\ a \notin Live
  /\ \A i \in Jobs : job[i].app # a
  /\ Start(j, Closure("create", a, 0, Main), "create", FALSE)

Delete(j, a) ==
  /\ Idle("delete", a)
  /\ Start(j, Closure("delete", a, 0, Main), "delete", TRUE)

GenerateKey(j, a) ==
  /\ Free /\ OnScreen(a)
  /\ Start(j, [Closure("generateKey", a, 0, Main) EXCEPT !.key = [app |-> a, id |-> j]],
           "generateKey", FALSE)

DeleteKey(j, a) ==
  /\ Idle("deleteKey", a) /\ dlg.key # NoKey
  /\ Start(j, [Closure("deleteKey", a, 0, Main) EXCEPT !.key = dlg.key], "deleteKey", TRUE)

-----------------------------------------------------------------------------
(* Handlers end                                                            *)

Finish(j) ==
  /\ pc' = [pc EXCEPT ![j] = "done"]
  /\ job' = [job EXCEPT ![j] = [NoJob EXCEPT !.app = job[j].app]]

Ask(views) == asked' = [v \in Views |-> IF v \in views THEN asked[v] + 1 ELSE asked[v]]

\* finally: setLoading(false), of the component the handler was started in.
Released(j) == IF dlg.job = j THEN [dlg EXCEPT !.job = None] ELSE dlg

\* The success branch: refresh the views named, and close whatever is open.
Close(j, views) ==
  /\ Finish(j)
  /\ Ask(views)
  /\ open' = NoDialog /\ dlg' = Closed
  /\ UNCHANGED <<page, answers, card, outside, loose>>

\* The success branch that stays in the dialog.
Stay(j, views) ==
  /\ Finish(j)
  /\ Ask(views)
  /\ dlg' = IF dlg.job = j /\ job[j].op = "switch"
            THEN [Released(j) EXCEPT !.option = job[j].sel, !.pending = NoOption]
            ELSE Released(j)
  /\ UNCHANGED <<open, page, answers, card, outside, loose>>

\* History: the views of what the handler has changed so far and not read again.
\* A switch has read the balance again when its credits were back.
Unread(j) ==
  LET c         == job[j]
      reclaimed == c.op = "switch" /\ c.sel = Main /\ c.amount > 0
  IN  CASE pc[j] = "select" /\ c.op = "assign"  -> {"balance", "apps"}
        [] pc[j] = "select" /\ reclaimed        -> {"apps"}
        [] pc[j] = "appId"                      -> {"apps"}
        [] OTHER                                -> {}

\* The catch branch refreshes nothing, what this request changed included.  The
\* delete alerts leave their flag set.
Break(j, changed) ==
  /\ Finish(j)
  /\ dlg' = IF job[j].op \in {"delete", "deleteKey"} THEN dlg ELSE Released(j)
  /\ excused' = excused \cup Unread(j) \cup changed
  /\ UNCHANGED <<open, page, reading, outside>>

\* An assignment that breaks off without its selection.
BreakHalfway(j, changed) == Break(j, changed) /\ loose' = loose \cup {job[j].app}

BreakOff(j, changed) == Break(j, changed) /\ UNCHANGED loose

Continue(j, request, views) ==
  /\ pc' = [pc EXCEPT ![j] = request]
  /\ Ask(views)
  /\ UNCHANGED <<dialogs, page, job, answers, card, outside, excused, loose>>

\* Mutant: the answer to an assignment is not looked at.
RefusedGoesOn(j) ==
  /\ Running(j)
  /\ IF pc[j] = "allocate" THEN Continue(j, "select", {}) ELSE BreakOff(j, {})
  /\ UNCHANGED <<server, assigned>>

\* Mutant: a switch goes on to the selection without its credits.
RefusedSwitches(j) ==
  /\ Running(j)
  /\ IF pc[j] = "reclaim" /\ job[j].op = "switch"
     THEN Continue(j, "select", {}) ELSE BreakOff(j, {})
  /\ UNCHANGED <<server, assigned>>

\* The server refuses, or is not reached.
Refused(j) ==
  /\ Running(j)
  /\ IF pc[j] = "select" /\ job[j].op = "assign" THEN BreakHalfway(j, {}) ELSE BreakOff(j, {})
  /\ UNCHANGED <<server, assigned>>

-----------------------------------------------------------------------------
(* Requests                                                                *)

SetRow(a, field, n) ==
  IF a \in Live THEN [server.apps EXCEPT ![a][field] = n] ELSE server.apps

\* allocate_credit_balance
Allocate(j) ==
  LET a == job[j].app
      n == job[j].amount
  IN  /\ pc[j] = "allocate" /\ server.balance >= n
      /\ server' = [server EXCEPT !.balance = @ - n,
                    !.apps = SetRow(a, "alloc", server.apps[a].alloc + n)]
      /\ assigned' = assigned \cup {a}
      /\ Continue(j, "select", {}) \/ BreakHalfway(j, {"balance", "apps"})

\* Mutant: only the list of apps is read again.
ReclaimedForgetsBalance(j) ==
  IF job[j].op = "switch"
  THEN Continue(j, "select", {"balance"})
  ELSE Stay(j, {"apps"}) /\ UNCHANGED excused

\* A switch goes on to the selection.
Reclaimed(j) ==
  IF job[j].op = "switch"
  THEN Continue(j, "select", {"balance"})
  ELSE Stay(j, {"balance", "apps"}) /\ UNCHANGED excused

\* Mutant: the row is not compared with the amount.
ReclaimUnchecked(j) ==
  LET a == job[j].app
      n == job[j].amount
  IN  /\ pc[j] = "reclaim" /\ a \in Live
      /\ server' = [server EXCEPT !.balance = @ + n,
                                  !.apps = SetRow(a, "alloc", server.apps[a].alloc - n)]
      /\ Reclaimed(j) \/ BreakOff(j, {"balance", "apps"})
      /\ UNCHANGED assigned

\* reclaim_credits
Reclaim(j) ==
  LET a == job[j].app
      n == job[j].amount
  IN  /\ pc[j] = "reclaim" /\ a \in Live /\ server.apps[a].alloc >= n
      /\ server' = [server EXCEPT !.balance = @ + n,
                                  !.apps = SetRow(a, "alloc", server.apps[a].alloc - n)]
      /\ Reclaimed(j) \/ BreakOff(j, {"balance", "apps"})
      /\ UNCHANGED assigned

\* What the handlers refresh when the selection is stored.  An edit of the Avail
\* app id has another request to make.
Selected(j) ==
  \/ job[j].op = "assign" /\ Stay(j, {"balance", "apps"}) /\ UNCHANGED excused
  \/ job[j].op = "switch" /\ Stay(j, {"apps"}) /\ UNCHANGED excused
  \/ job[j].op = "edit"   /\ Close(j, {"apps"}) /\ UNCHANGED excused
  \/ job[j].op = "edit"   /\ Continue(j, "appId", {})

\* edit_app_account
Select(j) ==
  /\ pc[j] = "select" /\ job[j].app \in Live
  /\ server' = [server EXCEPT !.apps = SetRow(job[j].app, "sel", job[j].sel)]
  /\ Selected(j) \/ BreakOff(j, {"apps"})
  /\ UNCHANGED assigned

\* update_app_id: nothing a view tells apart, and a refusal does not stop the edit.
StoreAppId(j) ==
  /\ pc[j] = "appId"
  /\ Close(j, {"apps"})
  /\ UNCHANGED <<server, excused, assigned>>

\* generate_app_account
CreateApp(j) ==
  /\ pc[j] = "create"
  /\ server' = [server EXCEPT !.apps =
                  [a \in Live \cup {job[j].app} |->
                     IF a \in Live THEN @[a] ELSE [alloc |-> 0, used |-> 0, sel |-> Main]]]
  /\ (Close(j, {"apps"}) /\ UNCHANGED excused) \/ BreakOff(j, {"apps"})
  /\ UNCHANGED assigned

\* delete_account: what the app had used goes to the main balance, its keys go with
\* it, and the page reads neither again.
DeleteApp(j) ==
  LET a == job[j].app
  IN  /\ pc[j] = "delete" /\ a \in Live
      /\ server' = [balance |-> server.balance + server.apps[a].used,
                    apps |-> [b \in Live \ {a} |-> server.apps[b]],
                    keys |-> {k \in server.keys : k.app # a}]
      /\ (Close(j, {"apps"}) /\ excused' = excused \cup {"balance", "keys"})
         \/ BreakOff(j, Views)
      /\ UNCHANGED assigned

\* generate_api_key, for an app that is there.
CreateKey(j) ==
  /\ pc[j] = "generateKey" /\ job[j].app \in Live
  /\ server' = [server EXCEPT !.keys = @ \cup {job[j].key}]
  /\ (Stay(j, {"keys"}) /\ UNCHANGED excused) \/ BreakOff(j, {"keys"})
  /\ UNCHANGED assigned

\* delete_api_key
RemoveKey(j) ==
  /\ pc[j] = "deleteKey"
  /\ server' = [server EXCEPT !.keys = @ \ {job[j].key}]
  /\ (Close(j, {"keys"}) /\ UNCHANGED excused) \/ BreakOff(j, {"keys"})
  /\ UNCHANGED assigned

\* A client of the app submits data.
Spend(a) ==
  /\ FromOutside
  /\ a \in Live /\ UsesAssigned(server.apps[a].sel) /\ server.apps[a].alloc > 0
  /\ server' = [server EXCEPT !.apps[a].alloc = @ - 1, !.apps[a].used = @ + 1]
  /\ excused' = excused \cup {"apps"}
  /\ UNCHANGED <<page, dialogs, job, pc, reading, loose, assigned>>

-----------------------------------------------------------------------------
(* Reads                                                                   *)

Answer(own, v) == [value |-> server[v], own |-> own, late |-> FALSE]

Serve(v) ==
  /\ asked[v] > 0
  /\ asked' = [asked EXCEPT ![v] = @ - 1]
  /\ answers' = [answers EXCEPT ![v] = Append(@, Answer(FALSE, v))]
  /\ UNCHANGED <<server, page, dialogs, job, pc, card, outside, excused, loose, assigned>>

ServeCard ==
  /\ card = "asked"
  /\ card' = "answered"
  /\ answers' = [answers EXCEPT !["apps"] = Append(@, Answer(TRUE, "apps"))]
  /\ UNCHANGED <<server, page, dialogs, job, pc, asked, outside, excused, loose, assigned>>

\* The answer to the page's own read is not taken any more, if it is there.
Aborted(queue) ==
  LET own == {i \in 1 .. Len(queue) : queue[i].own}
  IN  IF own = {} THEN queue
      ELSE [k \in 1 .. Len(queue) - 1 |->
              IF \E i \in own : i <= k THEN queue[k + 1] ELSE queue[k]]

\* The effect of the apps page aborts its own read, and no other, before it asks
\* again; the skeleton takes the place of the items.
Reload(before, queued) ==
  /\ card' = "asked"
  /\ answers' = [queued EXCEPT !["apps"] = Aborted(@)]
  /\ asked' = [before EXCEPT !["keys"] = @ + 1]
  /\ dlg' = Closed

\* Two effects depend on the session: the user is read again, and so is the page.
SessionRefresh ==
  /\ FromOutside
  /\ Reload([asked EXCEPT !["balance"] = @ + 1], answers)
  /\ UNCHANGED <<open, server, page, job, pc, excused, loose, assigned>>

\* The effect depends on the user's id.
UserBecomes(there, before, queued) ==
  /\ user' = there
  /\ IF there # user
     THEN Reload(before, queued)
     ELSE asked' = before /\ answers' = queued /\ UNCHANGED <<card, dlg>>

\* Answer i is taken: those the server gave before it are overtaken.
Without(queue, i) ==
  [k \in 1 .. Len(queue) - 1 |->
     IF k < i THEN [queue[k] EXCEPT !.late = TRUE] ELSE queue[k + 1]]

\* History: an overtaken answer leaves the view behind if it is not what the server
\* has; a view is up to date again with an answer that no newer one follows.
Judged(v, i) ==
  LET answer  == answers[v][i]
      current == answer.value = server[v]
  IN  IF answer.late /\ ~current THEN excused \cup {v}
      ELSE IF i = Len(answers[v]) /\ current THEN excused \ {v} ELSE excused

ApplyBalance(i) ==
  /\ i \in 1 .. Len(answers["balance"])
  /\ view' = [view EXCEPT !.balance = answers["balance"][i].value]
  /\ excused' = Judged("balance", i)
  /\ UserBecomes(TRUE, asked, [answers EXCEPT !["balance"] = Without(@, i)])
  /\ UNCHANGED <<open, server, job, pc, outside, loose, assigned>>

ApplyKeys(i) ==
  /\ i \in 1 .. Len(answers["keys"])
  /\ view' = [view EXCEPT !.keys = answers["keys"][i].value]
  /\ excused' = Judged("keys", i)
  /\ answers' = [answers EXCEPT !["keys"] = Without(@, i)]
  /\ UNCHANGED <<server, user, dialogs, job, pc, asked, card, outside, loose, assigned>>

\* Items are keyed by their index and the list comes in no order: with any answer
\* the dialog of an app may be mounted anew at another index.
Remount(list, again) ==
  IF open = NoDialog \/ open.app \notin DOMAIN list
  THEN dlg' = Closed
  ELSE IF again THEN dlg' = Fresh(list, open.app)
  ELSE dlg' \in {dlg, Fresh(list, open.app)}

ApplyApps(i) ==
  LET answer == answers["apps"][i]
  IN  /\ i \in 1 .. Len(answers["apps"])
      /\ view' = [view EXCEPT !.apps = answer.value]
      /\ excused' = Judged("apps", i)
      /\ answers' = [answers EXCEPT !["apps"] = Without(@, i)]
      /\ card' = IF answer.own THEN "idle" ELSE card
      /\ IF card' = "idle" THEN Remount(answer.value, answer.own) ELSE UNCHANGED dlg
      /\ UNCHANGED <<server, user, open, job, pc, asked, outside, loose, assigned>>

\* A failed read of the user clears the record and the balance.
LoseBalance ==
  /\ FromOutside
  /\ asked["balance"] > 0
  /\ view' = [view EXCEPT !.balance = 0]
  /\ excused' = excused \cup {"balance"}
  /\ UserBecomes(FALSE, [asked EXCEPT !["balance"] = @ - 1], answers)
  /\ UNCHANGED <<open, server, job, pc, loose, assigned>>

\* A failed read of a list leaves what was shown.
LoseList(v) ==
  /\ FromOutside
  /\ v # "balance" /\ asked[v] > 0
  /\ asked' = [asked EXCEPT ![v] = @ - 1]
  /\ excused' = excused \cup {v}
  /\ UNCHANGED <<server, page, dialogs, job, pc, answers, card, loose, assigned>>

LoseCard ==
  /\ card = "asked"
  /\ card' = "idle"
  /\ excused' = excused \cup {"apps"}
  /\ Remount(view.apps, TRUE)
  /\ UNCHANGED <<open, server, page, job, pc, asked, answers, outside, loose, assigned>>

-----------------------------------------------------------------------------

Click(j, a) ==
  \/ \E n \in Amounts : Assign(j, a, n) \/ Unassign(j, a, n)
  \/ ConfirmSwitch(j, a) \/ Edit(j, a) \/ Create(j, a) \/ Delete(j, a)
  \/ GenerateKey(j, a) \/ DeleteKey(j, a)

Request(j) ==
  \/ Allocate(j) \/ Reclaim(j) \/ Select(j) \/ StoreAppId(j) \/ CreateApp(j) \/ DeleteApp(j)
  \/ CreateKey(j) \/ RemoveKey(j) \/ Refused(j)

\* Bound: dialogs are of use as long as a request can follow.
Dialog(a) ==
  /\ \E j \in Jobs : pc[j] = "none"
  /\ \/ \E kind \in Kinds : OpenDialog(kind, a)
     \/ \E option \in Options : Choose(a, option)
     \/ CancelSwitch(a) \/ TypeInForm(a) \/ CloseDialog

Read(v) ==
  \/ Serve(v) \/ LoseList(v)
  \/ v = "balance" /\ \E i \in 1 .. Len(answers[v]) : ApplyBalance(i)
  \/ v = "keys"    /\ \E i \in 1 .. Len(answers[v]) : ApplyKeys(i)
  \/ v = "apps"    /\ \E i \in 1 .. Len(answers[v]) : ApplyApps(i)

Next ==
  \/ \E a \in Apps : Dialog(a) \/ Spend(a) \/ \E j \in Jobs : Click(j, a)
  \/ \E j \in Jobs : Request(j)
  \/ \E v \in Views : Read(v)
  \/ ServeCard \/ LoseBalance \/ LoseCard \/ SessionRefresh

Spec == Init /\ [][Next]_vars

-----------------------------------------------------------------------------
(* Properties                                                              *)

IsList(list) == \E S \in SUBSET Apps : list \in [S -> Row]

\* What the server holds, what the page shows and what reads are answered with are a
\* balance, a list of apps and keys.
IsValue(v, x) ==
  CASE v = "balance" -> x \in Nat
    [] v = "apps"    -> IsList(x)
    [] v = "keys"    -> x \in SUBSET Keys
IsPage(p) == DOMAIN p = Views /\ \A v \in Views : IsValue(v, p[v])

Dialogs == [job : Jobs \cup {None}, option : Options, pending : Options \cup {NoOption},
            sel : Options, key : Keys \cup {NoKey}]

\* What the handlers ask the server for, one request after the other.
Requests ==
  [assign |-> {"allocate", "select"}, unassign |-> {"reclaim"}, switch |-> {"reclaim", "select"},
   edit |-> {"select", "appId"}, create |-> {"create"}, delete |-> {"delete"},
   generateKey |-> {"generateKey"}, deleteKey |-> {"deleteKey"}]

Closures == [op : DOMAIN Requests, app : Apps, amount : Nat, sel : Options, key : Keys \cup {NoKey}]

\* The types of the variables; the balance is never overdrawn by the requests, and
\* a handler that runs is at a request of its own.
TypeOK ==
  /\ IsPage(server) /\ IsPage(view) /\ user \in BOOLEAN
  /\ open = NoDialog \/ open \in [kind : Kinds, app : Apps]
  /\ dlg \in Dialogs
  /\ \A j \in Jobs : Running(j) => job[j] \in Closures /\ pc[j] \in Requests[job[j].op]
  /\ asked \in [Views -> Nat]
  /\ \A v \in Views : \A i \in DOMAIN answers[v] : IsValue(v, answers[v][i].value)
  /\ card \in {"idle", "asked", "answered"}
  /\ excused \subseteq Views /\ loose \subseteq Apps /\ assigned \subseteq Apps

Quiet == /\ \A j \in Jobs : ~Running(j)
         /\ \A v \in Views : asked[v] = 0 /\ answers[v] = <<>>
         /\ card # "asked"

\* When all handlers and reads have come to their end the page shows what the
\* server has, but for what a request changed whose handler then broke off, a failed
\* read, a wrong answer that came after a newer one, the views the deletion of an app
\* does not read again, and submissions by clients, until a later answer puts it
\* right.  A request that is refused, and changes nothing, excuses nothing.
ViewsCatchUp == Quiet => \A v \in Views : v \in excused \/ view[v] = server[v]

\* However handlers, submissions, sessions and reads overlap and break off, an app
\* that pays from the main balance has no credits of its own left once no assignment
\* is on its way, with three exceptions, each seen on the way: an assignment that
\* broke off between its two requests, one that overlapped a switch or an edit to the
\* main balance of the same app, and such a switch or edit that began when the app
\* had more credits than the page showed.
NothingStranded ==
  \A a \in Live : server.apps[a].sel = Main /\ ~Assigning(a) /\ a \notin loose =>
    server.apps[a].alloc = 0

\* However stale the page and the closures are, no app is switched to assigned
\* credits that was never given any.
FundedSelection ==
  \A a \in Live : UsesAssigned(server.apps[a].sel) => a \in assigned
=============================================================================
