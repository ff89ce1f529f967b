-------------------------- MODULE DashboardSession --------------------------
(***************************************************************************)
(* The session of the dashboard: the token that AuthProvider fetches from  *)
(* the identity provider (Clerk) at every sign-in and sign-out and every   *)
(* five minutes, and the record and balance of the user that UserProvider  *)
(* fetches with it, registering a user the backend does not know and       *)
(* creating a first app.  Neither provider keeps its answers in order.     *)
(***************************************************************************)
EXTENDS Naturals

CONSTANTS
  People,        \* who may sign in
  Fetchers       \* bound: refetchUser calls on their way at once

Nobody == "nobody"

ASSUME PeopleAssumption == Nobody \notin People

VARIABLES
  signed,               \* who is signed in, by Clerk
  holder, authLoading,  \* whose token it is, and isLoading
  tokenCalls,           \* whose getToken is on its way
  fetch, caller,        \* per refetchUser: its next request, its token's owner
  shown,                \* whose record and balance the page shows
  registered, starters, \* the backend: its users, first apps created for each
  \* history of what outlives a session, read by no guard
  lateCalls,            \* getToken calls on their way when a session ended
  leftover,             \* the token is the answer to such a call
  late,                 \* fetches on their way then, or made with such a token
  stray                 \* what is shown was last set by such a fetch

auth      == <<signed, holder, authLoading, tokenCalls, lateCalls, leftover>>
fetching  == <<fetch, caller>>
backend   == <<registered, starters>>
sessionVars == <<auth, fetching, late, shown, backend, stray>>

SessionInit ==
  /\ signed = Nobody /\ holder = Nobody /\ authLoading = FALSE /\ tokenCalls = {}
  /\ fetch = [f \in Fetchers |-> "idle"] /\ caller = [f \in Fetchers |-> Nobody]
  /\ shown = Nobody
  /\ registered = {} /\ starters = [p \in People |-> 0]
  /\ lateCalls = {} /\ leftover = FALSE /\ late = {} /\ stray = FALSE

IsAuthenticated(who, owner) == who # Nobody /\ owner # Nobody

-----------------------------------------------------------------------------
(* UserProvider                                                            *)

Refetch(owner) ==
  \E f \in Fetchers :
    /\ fetch[f] = "idle"
    /\ fetch' = [fetch EXCEPT ![f] = "user"]
    /\ caller' = [caller EXCEPT ![f] = owner]

\* History: a fetch that begins with a token left over is late from the start.
Beginning == {f \in Fetchers : fetch[f] = "idle" /\ fetch'[f] # "idle"}
NoteLate  == late' = IF leftover' THEN late \cup Beginning ELSE late

\* The effect on isAuthenticated, token and authLoading.
UserEffect(who, owner, waiting) ==
  IF waiting THEN UNCHANGED <<fetching, shown, stray>>
  ELSE IF IsAuthenticated(who, owner)
       THEN Refetch(owner) /\ UNCHANGED <<shown, stray>>
       ELSE shown' = Nobody /\ stray' = FALSE /\ UNCHANGED fetching

\* Others call it too, after a purchase or a change of an app's credits.
UpdateCreditBalance ==
  /\ IsAuthenticated(signed, holder) /\ ~authLoading
  /\ Refetch(holder)
  /\ UNCHANGED <<auth, shown, backend, stray>>
  /\ NoteLate

Goto(f, request) ==
  /\ fetch' = [fetch EXCEPT ![f] = request]
  /\ UNCHANGED <<caller, late, shown, stray>>

Ends(f, record) ==
  /\ fetch' = [fetch EXCEPT ![f] = "idle"] /\ caller' = [caller EXCEPT ![f] = Nobody]
  /\ shown' = record
  /\ stray' = (f \in late) /\ late' = late \ {f}

\* A missing user and a request that failed are the same to the service, and both
\* go on to the registration, for which a user has to have a full name.
FetchUser(f) ==
  /\ fetch[f] = "user"
  /\ \/ caller[f] \in registered /\ Ends(f, caller[f])
     \/ Goto(f, "register")
     \/ Ends(f, Nobody)
  /\ UNCHANGED <<auth, backend>>

\* Mutant: a registration that is refused is taken for one that was made.
RegisterUserAnyAnswer(f) ==
  /\ fetch[f] = "register"
  /\ registered' = registered \cup {caller[f]}
  /\ Goto(f, "starter")
  /\ UNCHANGED <<auth, starters>>

\* register_new_user refuses a user it has; a refusal, and a lost answer, are errors
\* that clear the record and the balance.
RegisterUser(f) ==
  /\ fetch[f] = "register"
  /\ \/ /\ caller[f] \notin registered
        /\ registered' = registered \cup {caller[f]}
        /\ Goto(f, "starter") \/ Ends(f, Nobody)
     \/ Ends(f, Nobody) /\ UNCHANGED registered
  /\ UNCHANGED <<auth, starters>>

\* The first app; its failure is only logged.
CreateStarter(f) ==
  /\ fetch[f] = "starter"
  /\ starters' = [starters EXCEPT ![caller[f]] = @ + 1] \/ UNCHANGED starters
  /\ Goto(f, "again")
  /\ UNCHANGED <<auth, registered>>

FetchAgain(f) ==
  /\ fetch[f] = "again"
  /\ Ends(f, caller[f]) \/ Ends(f, Nobody)
  /\ UNCHANGED <<auth, backend>>

-----------------------------------------------------------------------------
(* AuthProvider                                                            *)

\* refreshToken, up to its await.  Two calls for one person are not told apart.
AsksForToken(p) ==
  /\ authLoading' = TRUE
  /\ tokenCalls' = tokenCalls \cup {p} /\ lateCalls' = lateCalls \ {p}

\* refreshToken sets isLoading, so that the effect of UserProvider waits; but a token
\* an earlier session left behind authenticates the new one first.
SignIn(p) ==
  /\ signed = Nobody
  /\ signed' = p
  /\ UserEffect(p, holder, authLoading \/ holder = Nobody)
  /\ AsksForToken(p)
  /\ UNCHANGED <<holder, leftover, backend>>
  /\ NoteLate

\* What is on its way when a session ends is late from then on.
SessionEnds ==
  /\ signed # Nobody
  /\ signed' = Nobody /\ authLoading' = FALSE
  /\ lateCalls' = tokenCalls /\ leftover' = FALSE
  /\ late' = {f \in Fetchers : fetch[f] # "idle"}
  /\ UNCHANGED <<tokenCalls, backend>>

\* Mutant: without a session refreshToken returns before it sets the token.
SignOutKeepsToken ==
  /\ SessionEnds
  /\ UserEffect(Nobody, holder, FALSE)
  /\ UNCHANGED holder

\* Without a session refreshToken has its null at once.
SignOut ==
  /\ SessionEnds
  /\ holder' = Nobody
  /\ UserEffect(Nobody, Nobody, FALSE)

\* The interval of five minutes.
AutoRefresh ==
  /\ signed # Nobody
  /\ AsksForToken(signed)
  /\ UNCHANGED <<signed, holder, leftover, fetching, late, shown, backend, stray>>

\* The token, or an error; also of a session that is over.
TokenArrives(p) ==
  /\ p \in tokenCalls
  /\ tokenCalls' = tokenCalls \ {p}
  /\ holder' \in {p, Nobody} /\ authLoading' = FALSE
  /\ leftover' = (holder' = p /\ p \in lateCalls) /\ lateCalls' = lateCalls \ {p}
  /\ UserEffect(signed, holder', FALSE)
  /\ NoteLate
  /\ UNCHANGED <<signed, backend>>

-----------------------------------------------------------------------------

SessionNext ==
  \/ \E p \in People : SignIn(p) \/ TokenArrives(p)
  \/ SignOut \/ AutoRefresh \/ UpdateCreditBalance
  \/ \E f \in Fetchers : FetchUser(f) \/ RegisterUser(f) \/ CreateStarter(f) \/ FetchAgain(f)

SessionSpec == SessionInit /\ [][SessionNext]_sessionVars

-----------------------------------------------------------------------------
(* Properties                                                              *)

\* The record and the balance on the page are of who is signed in, and none is left
\* when nobody is.  Two things the providers do not prevent are excepted, by where
\* the record came from: a fetch that was on its way when its session ended, and
\* one made with a token that arrived after its own session had ended.
OwnRecord == ~stray => shown \in {signed, Nobody}

\* However many fetches fail or overlap, and although each of them then tries to
\* register the user, the first app is created at most once.
OneStarterApp == \A p \in People : starters[p] <= 1
=============================================================================
