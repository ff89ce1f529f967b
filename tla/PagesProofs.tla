----------------------------- MODULE PagesProofs -----------------------------
(***************************************************************************)
(* Three parts of the dashboard that share no variable: the purchase form, *)
(* for any chains and tokens and any number of estimates on their way; the *)
(* session and the user's record, for any people and any number of fetches *)
(* that overlap; and the nationality check, for any users and countries    *)
(* and any number of requests whose page has been left.                    *)
(***************************************************************************)
EXTENDS PurchaseForm, DashboardSession, CountryGate, TLAPS

-----------------------------------------------------------------------------
(* The purchase form                                                       *)

Flights == [input : Inputs, chain : Chains, token : Tokens, current : BOOLEAN]

FormTypes ==
  /\ chain \in Chains /\ token \in Tokens \cup {NoToken}
  /\ stored \in [chain : Chains, token : Tokens]
  /\ input \in Inputs /\ debounced \in Inputs
  /\ evm \in EvmBalances /\ avail \in AvailBalances
  /\ estimating \in BOOLEAN /\ flights \subseteq Flights

\* Known about the error even when the button is disabled for another reason.
ErrorShown ==
  LET balance == BalanceOf(chain, evm, avail)
  IN  problem = NoError /\ balance # UnknownBalance => Value[input] <= balance

OneNewest == \A f, g \in flights : f.current /\ g.current => f = g

For(r) == EstimateOf(r.input, r.chain, r.token)

\* What is shown and what will be shown was the last thing asked for, which was the
\* amount, the chain and the token in the form if that amount is one to ask about.
AskedFor ==
  /\ estimate # NoEstimate => estimate = requested
  /\ \A f \in flights : f.current => For(f) = requested
  /\ Value[debounced] > 0 /\ ~skipped => requested = EstimateOf(debounced, chain, token)

FormInv == FormTypes /\ ErrorShown /\ OneNewest /\ SpinnerHasRequest /\ AskedFor

\* An input is worth a number.
LEMMA ValueIsNat == \A s \in Inputs : Value[s] \in Nat
  BY DEF Value

\* An empty input is worth nothing.
LEMMA EmptyIsZero == Empty \in Inputs /\ Value[Empty] = 0
  BY DEF Value, Inputs, Empty

\* The balance of the chain on the form is one of the balances read.
LEMMA BalanceTyped ==
  ASSUME FormInv
  PROVE  BalanceOf(chain, evm, avail) \in EvmBalances \cup AvailBalances
  BY DEF BalanceOf, FormInv, FormTypes

\* A balance that is known is a number.
LEMMA KnownIsNat ==
  \A balance \in EvmBalances \cup AvailBalances : balance # UnknownBalance => balance \in Nat
  BY DEF EvmBalances, AvailBalances, UnknownBalance

\* The effect on the balance leaves no error only if the balance covers the amount.
LEMMA CheckedCovers ==
  ASSUME NEW before, NEW s \in Inputs, NEW balance \in EvmBalances \cup AvailBalances,
         Checked(before, s, balance) = NoError, balance # UnknownBalance
  PROVE  Value[s] <= balance
  <1>1. balance \in Nat
    BY KnownIsNat
  <1>2. CASE Value[s] > 0
    BY <1>1, <1>2, ValueIsNat DEF Checked, NoError
  <1>3. CASE ~(Value[s] > 0)
    BY <1>1, <1>3, ValueIsNat
  <1> QED BY <1>2, <1>3

\* A new request is the only newest one, and for what it was made for.
LEMMA EstimateAsks ==
  ASSUME FormInv, NEW s \in Inputs, NEW c \in Chains, NEW t \in Tokens \cup {NoToken},
         Estimate(s, c, t)
  PROVE  /\ estimating' \in BOOLEAN /\ flights' \subseteq Flights
         /\ OneNewest' /\ SpinnerHasRequest'
         /\ estimate' # NoEstimate => estimate' = requested'
         /\ \A f \in flights' : f.current => For(f) = requested'
         /\ Value[s] > 0 /\ ~skipped' => requested' = EstimateOf(s, c, t)
  <1>1. CASE UNCHANGED <<estimate, estimating, flights, requested>> /\ (Value[s] = 0 \/ skipped')
    BY <1>1 DEF FormInv, FormTypes, OneNewest, SpinnerHasRequest, AskedFor
  <1>2. CASE /\ t # NoToken
             /\ flights' = Older \cup {[input |-> s, chain |-> c, token |-> t, current |-> TRUE]}
             /\ estimate' = NoEstimate /\ estimating' = TRUE
             /\ requested' = EstimateOf(s, c, t)
    <2>1. Older \subseteq Flights /\ \A f \in Older : ~f.current
      <3> SUFFICES ASSUME NEW f \in flights
                   PROVE  /\ [f EXCEPT !.current = FALSE] \in Flights
                          /\ ~[f EXCEPT !.current = FALSE].current
        BY Zenon DEF Older
      <3> QED BY DEF Flights, FormInv, FormTypes
    <2> DEFINE asked == [input |-> s, chain |-> c, token |-> t, current |-> TRUE]
    <2>2. asked \in Flights /\ asked.current
      BY <1>2 DEF Flights
    <2>3. For(asked) = EstimateOf(s, c, t)
      BY DEF For
    <2> HIDE DEF asked
    <2>4. flights' = Older \cup {asked}
      BY <1>2 DEF asked
    <2> QED BY <1>2, <2>1, <2>2, <2>3, <2>4 DEF OneNewest, SpinnerHasRequest
  <1> QED BY <1>1, <1>2 DEF Estimate, estimates

\* The invariant of the form holds in every reachable state.
LEMMA FormInvHolds == FormSpec => []FormInv
  <1>1. FormInit => FormInv
    <2> SUFFICES ASSUME FormInit PROVE FormInv
      OBVIOUS
    <2>1. FormTypes
      BY EmptyIsZero, FormAssumption
         DEF FormInit, FormTypes, EvmBalances, AvailBalances, UnknownBalance, Chains, Tokens
    <2> QED BY <2>1, EmptyIsZero
            DEF FormInit, FormInv, ErrorShown, OneNewest, SpinnerHasRequest, AskedFor,
                BalanceOf, UnknownBalance
  <1>2. FormInv /\ [FormNext]_formVars => FormInv'
    <2> SUFFICES ASSUME FormInv, [FormNext]_formVars
                 PROVE  FormInv'
      OBVIOUS
    <2>1. ASSUME NEW s \in Inputs, Type(s)
          PROVE  FormInv'
      <3>1. FormTypes'
        BY <2>1 DEF Type, selection, wallet, estimates, FormInv, FormTypes
      <3>2. ErrorShown'
        BY <2>1, BalanceTyped, CheckedCovers DEF Type, selection, wallet, ErrorShown
      <3>3. OneNewest' /\ SpinnerHasRequest' /\ AskedFor'
        BY <2>1 DEF Type, selection, estimates, FormInv, OneNewest, SpinnerHasRequest, AskedFor
      <3> QED BY <3>1, <3>2, <3>3 DEF FormInv
    <2>2. CASE TypeInvalid
      BY <2>2 DEF TypeInvalid, selection, amounts, wallet, estimates, FormInv,
                  FormTypes, ErrorShown, OneNewest, SpinnerHasRequest, AskedFor, NoError
    <2>3. CASE Debounce
      <3>1. input \in Inputs /\ chain \in Chains /\ token \in Tokens \cup {NoToken}
        BY DEF FormInv, FormTypes
      <3>2. Estimate(input, chain, token) /\ debounced' = input
            /\ UNCHANGED <<selection, input, problem, wallet>>
        BY <2>3 DEF Debounce
      <3> QED BY <3>1, <3>2, EstimateAsks
              DEF selection, wallet, FormInv, FormTypes, ErrorShown, AskedFor
    <2>4. ASSUME NEW c \in Chains, NEW t \in Tokens \cup {NoToken}, SelectionBecomes(c, t)
          PROVE  FormInv'
      <3>1. debounced \in Inputs /\ Estimate(debounced, c, t) /\ chain' = c /\ token' = t
            /\ UNCHANGED <<input, debounced, avail>> /\ evm' \in EvmBalances
        BY <2>4 DEF SelectionBecomes, FormInv, FormTypes
      <3>2. /\ estimating' \in BOOLEAN /\ flights' \subseteq Flights
            /\ OneNewest' /\ SpinnerHasRequest' /\ AskedFor'
        BY <3>1, EstimateAsks DEF AskedFor
      <3>3. FormTypes'
        BY <2>4, <3>1, <3>2 DEF SelectionBecomes, FormInv, FormTypes
      <3>4. ErrorShown'
        <4>1. BalanceOf(c, evm', avail) \in EvmBalances \cup AvailBalances /\ input \in Inputs
          BY <3>1 DEF BalanceOf, FormInv, FormTypes
        <4> QED BY <2>4, <3>1, <4>1, CheckedCovers
                DEF SelectionBecomes, ResetThenChecked, ErrorShown
      <3> QED BY <3>2, <3>3, <3>4 DEF FormInv
    <2>5. CASE BuyClears
      <3>1. ErrorShown'
        BY <2>5, EmptyIsZero, BalanceTyped, KnownIsNat
           DEF BuyClears, selection, wallet, ErrorShown
      <3> QED BY <2>5, <3>1, EmptyIsZero
              DEF BuyClears, selection, wallet, estimates, FormInv, FormTypes, OneNewest,
                  SpinnerHasRequest, AskedFor
    <2>6. CASE BalanceArrives
      <3>1. evm' \in EvmBalances /\ avail' \in AvailBalances
            /\ UNCHANGED <<selection, input, debounced, estimates>>
        BY <2>6 DEF BalanceArrives, FormInv, FormTypes
      <3>2. ErrorShown'
        <4>1. /\ BalanceOf(chain, evm', avail') \in EvmBalances \cup AvailBalances
              /\ input \in Inputs
          BY <3>1 DEF BalanceOf, FormInv, FormTypes
        <4> QED BY <2>6, <3>1, <4>1, CheckedCovers DEF BalanceArrives, selection, ErrorShown
      <3> QED BY <3>1, <3>2
              DEF selection, estimates, FormInv, FormTypes, OneNewest, SpinnerHasRequest,
                  AskedFor
    <2>7. ASSUME NEW f \in flights, EstimateArrives(f)
          PROVE  FormInv'
      <3>1. flights' = flights \ {f} /\ estimating' = (estimating /\ ~f.current)
            /\ UNCHANGED <<selection, amounts, wallet, requested, skipped>>
        BY <2>7 DEF EstimateArrives, FormInv, FormTypes, Flights
      <3>2. FormTypes' /\ ErrorShown' /\ OneNewest' /\ SpinnerHasRequest'
        BY <3>1 DEF selection, amounts, wallet, FormInv, FormTypes, ErrorShown, OneNewest,
                    SpinnerHasRequest
      <3>3. AskedFor'
        BY <2>7, <3>1 DEF EstimateArrives, selection, amounts, FormInv, AskedFor, For
      <3> QED BY <3>2, <3>3 DEF FormInv
    <2>8. CASE ChangeTab \/ ReloadPage
      <3>1. /\ input' = Empty /\ debounced' = Empty /\ evm' \in EvmBalances
            /\ flights' = {} /\ estimating' = FALSE /\ estimate' = NoEstimate
        BY <2>8 DEF ChangeTab, ReloadPage, Remounted
      <3>2. FormTypes'
        BY <2>8, <3>1, EmptyIsZero
           DEF ChangeTab, ReloadPage, selection, FormInv, FormTypes, AvailBalances
      <3>3. ErrorShown'
        <4>1. BalanceOf(chain', evm', avail') \in EvmBalances \cup AvailBalances
          BY <3>2 DEF BalanceOf, FormTypes
        <4> QED BY <3>1, <4>1, EmptyIsZero, KnownIsNat DEF ErrorShown
      <3> QED BY <3>1, <3>2, <3>3, EmptyIsZero
              DEF FormInv, OneNewest, SpinnerHasRequest, AskedFor
    <2>9. CASE UNCHANGED formVars
      BY <2>9 DEF formVars, selection, amounts, wallet, estimates, FormInv, FormTypes,
                  ErrorShown, OneNewest, SpinnerHasRequest, AskedFor
    <2>10. ASSUME NEW t \in Tokens, SelectToken(t)
           PROVE  FormInv'
      BY <2>4, <2>10 DEF SelectToken, FormInv, FormTypes
    <2>11. ASSUME NEW c \in Chains, SelectChain(c)
           PROVE  FormInv'
      BY <2>4, <2>11 DEF SelectChain
    <2> QED BY <2>1, <2>2, <2>3, <2>5, <2>6, <2>7, <2>8, <2>9, <2>10, <2>11 DEF FormNext
  <1> QED BY <1>1, <1>2, PTL DEF FormSpec

\* Buy Now never offers to pay more than a balance that is known (the effects of
\* PurchaseCredit on the amount, the selection and the balances).
THEOREM BuyStaysCovered == FormSpec => []BuyIsCovered
  <1>1. FormInv => BuyIsCovered
    BY DEF FormInv, ErrorShown, BuyIsCovered, BuyEnabled
  <1> QED BY <1>1, FormInvHolds, PTL

\* The spinner turns exactly while the newest request for an estimate is on its way
\* (estimateCreditsLoading and the request ids of calculateEstimateCredits).
THEOREM SpinnerStops == FormSpec => []SpinnerHasRequest
  <1>1. FormInv => SpinnerHasRequest
    BY DEF FormInv
  <1> QED BY <1>1, FormInvHolds, PTL

\* An estimate that is shown is the one last asked for, and that was asked for the chain
\* and the token in the form and for the amount last rested there, when this was not zero
\* and the request could be made (the request ids and the effects of PurchaseCredit).
THEOREM EstimateIsForForm == FormSpec => []EstimateMatches
  <1>1. FormInv => EstimateMatches
    BY DEF FormInv, AskedFor, EstimateMatches
  <1> QED BY <1>1, FormInvHolds, PTL

-----------------------------------------------------------------------------
(* The session: the record on the page and the first app of a user         *)

\* The types of the variables the proofs deal with.  A token's owner may be nobody
\* when UserProvider is told to fetch by a caller that has none.
SessionTypes ==
  /\ signed \in People \cup {Nobody} /\ holder \in People \cup {Nobody}
  /\ tokenCalls \subseteq People
  /\ fetch \in [Fetchers -> {"idle", "user", "register", "starter", "again"}]
  /\ caller \in [Fetchers -> People \cup {Nobody}]
  /\ registered \subseteq People
  /\ starters \in [People -> Nat]

\* A fetch under way is for somebody.
FetchesHaveCallers == \A f \in Fetchers : fetch[f] # "idle" => caller[f] \in People

\* Why there is one first app: the backend registers a user once, only the fetch
\* that registered her goes on to the app, and it has not been there yet.
StarterOnce ==
  /\ \A p \in People : p \notin registered => starters[p] = 0
  /\ \A f \in Fetchers : fetch[f] = "starter" =>
       caller[f] \in registered /\ starters[caller[f]] = 0
  /\ \A f, g \in Fetchers :
       fetch[f] = "starter" /\ fetch[g] = "starter" /\ caller[f] = caller[g] => f = g
  /\ OneStarterApp

SessionInv == SessionTypes /\ FetchesHaveCallers /\ StarterOnce

\* The effect of UserProvider starts at most one fetch, from its first request and
\* for an owner of a token.
LEMMA EffectStartsFetch ==
  ASSUME SessionInv, NEW who \in People \cup {Nobody}, NEW owner \in People \cup {Nobody},
         NEW waiting \in BOOLEAN, UserEffect(who, owner, waiting)
  PROVE  /\ fetch' \in [Fetchers -> {"idle", "user", "register", "starter", "again"}]
         /\ caller' \in [Fetchers -> People \cup {Nobody}]
         /\ FetchesHaveCallers'
         /\ \A f \in Fetchers : fetch'[f] = "starter" =>
              fetch[f] = "starter" /\ caller'[f] = caller[f]
  <1> USE DEF SessionInv, SessionTypes, FetchesHaveCallers
  <1>1. CASE UNCHANGED fetching
    BY <1>1 DEF fetching
  <1>2. CASE IsAuthenticated(who, owner) /\ Refetch(owner)
    <2>1. owner \in People
      BY <1>2 DEF IsAuthenticated
    <2>2. PICK f \in Fetchers :
            /\ fetch[f] = "idle"
            /\ fetch' = [fetch EXCEPT ![f] = "user"]
            /\ caller' = [caller EXCEPT ![f] = owner]
      BY <1>2 DEF Refetch
    <2> QED BY <2>1, <2>2
  <1> QED BY <1>1, <1>2 DEF UserEffect

\* What does not touch the backend and starts no fetch beyond its first request
\* keeps the invariant.
LEMMA OutsideBackend ==
  ASSUME SessionInv, UNCHANGED backend,
         signed' \in People \cup {Nobody}, holder' \in People \cup {Nobody},
         tokenCalls' \subseteq People,
         fetch' \in [Fetchers -> {"idle", "user", "register", "starter", "again"}],
         caller' \in [Fetchers -> People \cup {Nobody}],
         FetchesHaveCallers',
         \A f \in Fetchers : fetch'[f] = "starter" =>
           fetch[f] = "starter" /\ caller'[f] = caller[f]
  PROVE  SessionInv'
  <1>1. SessionTypes'
    BY DEF SessionInv, SessionTypes, backend
  <1>2. StarterOnce'
    BY DEF SessionInv, SessionTypes, StarterOnce, OneStarterApp, backend
  <1> QED BY <1>1, <1>2 DEF SessionInv

\* The invariant of the session holds in every reachable state.
LEMMA SessionInvHolds == SessionSpec => []SessionInv
  <1> USE PeopleAssumption
  <1>1. SessionInit => SessionInv
    BY DEF SessionInit, SessionInv, SessionTypes, FetchesHaveCallers, StarterOnce, OneStarterApp
  <1>2. SessionInv /\ [SessionNext]_sessionVars => SessionInv'
    <2> SUFFICES ASSUME SessionInv, [SessionNext]_sessionVars
                 PROVE  SessionInv'
      OBVIOUS
    <2>1. ASSUME NEW p \in People, SignIn(p)
          PROVE  SessionInv'
      <3>1. UserEffect(p, holder, authLoading \/ holder = Nobody)
        BY <2>1 DEF SignIn
      <3>2. (authLoading \/ holder = Nobody) \in BOOLEAN
        OBVIOUS
      <3>3. holder \in People \cup {Nobody}
        BY DEF SessionInv, SessionTypes
      <3> QED BY <2>1, <3>1, <3>2, <3>3, EffectStartsFetch, OutsideBackend
              DEF SignIn, AsksForToken, SessionInv, SessionTypes
    <2>2. ASSUME NEW p \in People, TokenArrives(p)
          PROVE  SessionInv'
      <3>1. holder' \in People \cup {Nobody} /\ signed \in People \cup {Nobody}
        BY <2>2 DEF TokenArrives, SessionInv, SessionTypes
      <3>2. UserEffect(signed, holder', FALSE)
        BY <2>2 DEF TokenArrives
      <3> QED BY <2>2, <3>1, <3>2, EffectStartsFetch, OutsideBackend
              DEF TokenArrives, SessionInv, SessionTypes
    <2>3. CASE SignOut
      <3>1. UserEffect(Nobody, Nobody, FALSE)
        BY <2>3 DEF SignOut
      <3> QED BY <2>3, <3>1, EffectStartsFetch, OutsideBackend
              DEF SignOut, SessionEnds, SessionInv, SessionTypes
    <2>4. CASE AutoRefresh
      BY <2>4, OutsideBackend
         DEF AutoRefresh, AsksForToken, fetching, SessionInv, SessionTypes, FetchesHaveCallers
    <2>5. CASE UpdateCreditBalance
      <3>1. UserEffect(signed, holder, FALSE)
        BY <2>5 DEF UpdateCreditBalance, UserEffect
      <3>2. signed \in People \cup {Nobody} /\ holder \in People \cup {Nobody}
        BY DEF SessionInv, SessionTypes
      <3> QED BY <2>5, <3>1, <3>2, EffectStartsFetch, OutsideBackend
              DEF UpdateCreditBalance, auth, SessionInv, SessionTypes
    <2>6. ASSUME NEW f \in Fetchers, FetchUser(f) \/ FetchAgain(f)
          PROVE  SessionInv'
      BY <2>6, OutsideBackend
         DEF FetchUser, FetchAgain, Goto, Ends, auth, backend, SessionInv, SessionTypes,
             FetchesHaveCallers
    <2>7. ASSUME NEW f \in Fetchers, RegisterUser(f)
          PROVE  SessionInv'
      <3>1. CASE /\ caller[f] \notin registered
                 /\ registered' = registered \cup {caller[f]}
                 /\ Goto(f, "starter")
        <4>1. caller[f] \in People /\ UNCHANGED <<signed, holder, tokenCalls, starters, caller>>
          BY <2>7, <3>1 DEF RegisterUser, Goto, auth, SessionInv, FetchesHaveCallers
        <4>2. SessionTypes' /\ FetchesHaveCallers'
          BY <3>1, <4>1 DEF Goto, SessionInv, SessionTypes, FetchesHaveCallers
        <4>3. \A g \in Fetchers : fetch[g] = "starter" => caller[g] # caller[f]
          BY <3>1 DEF SessionInv, StarterOnce
        <4>4. StarterOnce'
          BY <3>1, <4>1, <4>3
             DEF Goto, SessionInv, SessionTypes, StarterOnce, OneStarterApp
        <4> QED BY <4>2, <4>4 DEF SessionInv
      <3>2. CASE Ends(f, Nobody) /\ registered' \in {registered, registered \cup {caller[f]}}
        BY <2>7, <3>2
           DEF RegisterUser, Ends, auth, SessionInv, SessionTypes, FetchesHaveCallers,
               StarterOnce, OneStarterApp
      <3> QED BY <2>7, <3>1, <3>2 DEF RegisterUser
    <2>8. ASSUME NEW f \in Fetchers, CreateStarter(f)
          PROVE  SessionInv'
      <3>1. caller[f] \in People /\ caller[f] \in registered /\ starters[caller[f]] = 0
        BY <2>8 DEF CreateStarter, SessionInv, FetchesHaveCallers, StarterOnce
      <3>2. SessionTypes' /\ FetchesHaveCallers'
        BY <2>8, <3>1
           DEF CreateStarter, Goto, auth, SessionInv, SessionTypes, FetchesHaveCallers
      <3>3. \A g \in Fetchers : fetch[g] = "starter" /\ g # f => caller[g] # caller[f]
        BY <2>8 DEF CreateStarter, SessionInv, StarterOnce
      <3>4. StarterOnce'
        BY <2>8, <3>1, <3>3
           DEF CreateStarter, Goto, auth, SessionInv, SessionTypes, StarterOnce, OneStarterApp
      <3> QED BY <3>2, <3>4 DEF SessionInv
    <2>9. CASE UNCHANGED sessionVars
      BY <2>9 DEF sessionVars, auth, fetching, backend, SessionInv, SessionTypes,
                  FetchesHaveCallers, StarterOnce, OneStarterApp
    <2> QED BY <2>1, <2>2, <2>3, <2>4, <2>5, <2>6, <2>7, <2>8, <2>9 DEF SessionNext
  <1> QED BY <1>1, <1>2, PTL DEF SessionSpec

\* The first app of a user is created at most once (fetchUser and createDefaultApp of
\* UserProvider), whatever number of fetches overlap and fail.
THEOREM StarterAppOnce == SessionSpec => []OneStarterApp
  <1>1. SessionInv => OneStarterApp
    BY DEF SessionInv, StarterOnce
  <1> QED BY <1>1, SessionInvHolds, PTL

\* In what is not late, the token, the calls for tokens and the fetches are of who is
\* signed in, and so is what they have shown.
OwnInv ==
  /\ ~leftover => holder \in {signed, Nobody}
  /\ \A p \in tokenCalls \ lateCalls : p = signed
  /\ \A f \in Fetchers : fetch[f] # "idle" /\ f \notin late => caller[f] = signed
  /\ OwnRecord

\* The effect of UserProvider leaves the fetches on their way alone, and starts one with
\* the token there is, late if that is left over.
LEMMA EffectKeepsFetches ==
  ASSUME SessionInv, NEW who, NEW owner, NEW waiting \in BOOLEAN,
         UserEffect(who, owner, waiting), NoteLate,
         NEW f \in Fetchers, fetch'[f] # "idle"
  PROVE  /\ late \subseteq late'
         /\ \/ fetch[f] # "idle" /\ caller'[f] = caller[f]
            \/ caller'[f] = owner /\ who # Nobody /\ owner # Nobody /\ (leftover' => f \in late')
  <1>1. late \subseteq late'
    BY DEF NoteLate
  <1>2. CASE UNCHANGED fetching
    BY <1>1, <1>2 DEF fetching
  <1>3. CASE IsAuthenticated(who, owner) /\ Refetch(owner)
    <2>1. PICK g \in Fetchers : /\ fetch[g] = "idle"
                                /\ fetch' = [fetch EXCEPT ![g] = "user"]
                                /\ caller' = [caller EXCEPT ![g] = owner]
      BY <1>3 DEF Refetch
    <2>2. CASE f = g
      <3>1. caller'[f] = owner
        BY <2>1, <2>2 DEF SessionInv, SessionTypes
      <3>2. leftover' => f \in late'
        BY <2>1, <2>2 DEF NoteLate, Beginning
      <3> QED BY <1>1, <1>3, <3>1, <3>2 DEF IsAuthenticated
    <2>3. CASE f # g
      BY <1>1, <2>1, <2>3 DEF SessionInv, SessionTypes
    <2> QED BY <2>2, <2>3
  <1> QED BY <1>2, <1>3 DEF UserEffect

\* What the effect shows is what was shown, or nothing.
LEMMA EffectShows ==
  ASSUME NEW who, NEW owner, NEW waiting, UserEffect(who, owner, waiting)
  PROVE  UNCHANGED <<shown, stray>> \/ shown' = Nobody
  BY DEF UserEffect

\* Every step keeps what is not late with its session.
LEMMA OwnStep == SessionInv /\ OwnInv /\ [SessionNext]_sessionVars => OwnInv'
  <1> USE PeopleAssumption
  <1> SUFFICES ASSUME SessionInv, OwnInv, [SessionNext]_sessionVars
               PROVE  OwnInv'
    OBVIOUS
  <1>0. /\ signed \in People \cup {Nobody} /\ holder \in People \cup {Nobody}
        /\ tokenCalls \subseteq People
        /\ \A f \in Fetchers : fetch[f] # "idle" => caller[f] \in People
    BY DEF SessionInv, SessionTypes, FetchesHaveCallers
  <1>1. ASSUME NEW p \in People, SignIn(p)
        PROVE  OwnInv'
    <2>1. /\ signed = Nobody /\ signed' = p /\ holder' = holder /\ leftover' = leftover
          /\ tokenCalls' = tokenCalls \cup {p} /\ lateCalls' = lateCalls \ {p}
          /\ UserEffect(p, holder, authLoading \/ holder = Nobody) /\ NoteLate
      BY <1>1 DEF SignIn, AsksForToken
    <2>2. tokenCalls \ lateCalls = {}
      BY <1>0, <2>1 DEF OwnInv
    <2>3. ASSUME NEW f \in Fetchers, fetch'[f] # "idle"
          PROVE  f \in late'
      <3>1. CASE fetch[f] # "idle"
        <4>1. f \in late
          BY <1>0, <2>1, <3>1 DEF OwnInv
        <4> QED BY <2>1, <4>1 DEF NoteLate
      <3>2. CASE fetch[f] = "idle"
        <4>1. holder # Nobody /\ (leftover' => f \in late')
          BY <2>1, <2>3, <3>2, EffectKeepsFetches
        <4> QED BY <2>1, <4>1 DEF OwnInv
      <3> QED BY <3>1, <3>2
    <2>4. OwnRecord'
      BY <2>1, EffectShows DEF OwnInv, OwnRecord
    <2>5. ~leftover' => holder' \in {signed', Nobody}
      BY <2>1 DEF OwnInv
    <2>6. \A q \in tokenCalls' \ lateCalls' : q = signed'
      BY <2>1, <2>2
    <2> QED BY <2>3, <2>4, <2>5, <2>6 DEF OwnInv
  <1>2. ASSUME NEW p \in People, TokenArrives(p)
        PROVE  OwnInv'
    <2>1. /\ p \in tokenCalls /\ signed' = signed /\ holder' \in {p, Nobody}
          /\ leftover' = (holder' = p /\ p \in lateCalls)
          /\ tokenCalls' = tokenCalls \ {p} /\ lateCalls' = lateCalls \ {p}
          /\ UserEffect(signed, holder', FALSE) /\ NoteLate
      BY <1>2 DEF TokenArrives
    <2>2. ~leftover' => holder' \in {signed, Nobody}
      BY <2>1 DEF OwnInv
    <2>3. ASSUME NEW f \in Fetchers, fetch'[f] # "idle", f \notin late'
          PROVE  caller'[f] = signed
      <3>1. CASE fetch[f] # "idle" /\ caller'[f] = caller[f]
        <4>1. f \notin late
          BY <2>1, <2>3, EffectKeepsFetches
        <4> QED BY <3>1, <4>1 DEF OwnInv
      <3>2. CASE /\ caller'[f] = holder' /\ holder' # Nobody
                 /\ leftover' => f \in late'
        BY <2>2, <2>3, <3>2
      <3> QED BY <2>1, <2>3, <3>1, <3>2, EffectKeepsFetches
    <2>4. OwnRecord'
      BY <2>1, EffectShows DEF OwnInv, OwnRecord
    <2>5. \A q \in tokenCalls' \ lateCalls' : q = signed'
      BY <2>1 DEF OwnInv
    <2> QED BY <2>1, <2>2, <2>3, <2>4, <2>5 DEF OwnInv
  <1>3. CASE SignOut
    <2>1. /\ holder' = Nobody /\ tokenCalls' = tokenCalls /\ lateCalls' = tokenCalls
          /\ fetch' = fetch /\ late' = {f \in Fetchers : fetch[f] # "idle"}
          /\ signed' = Nobody /\ shown' = Nobody
      BY <1>3 DEF SignOut, SessionEnds, UserEffect, IsAuthenticated, fetching
    <2> QED BY <2>1 DEF OwnInv, OwnRecord
  <1>4. CASE AutoRefresh
    BY <1>4 DEF AutoRefresh, AsksForToken, fetching, OwnInv, OwnRecord
  <1>5. CASE UpdateCreditBalance
    <2>1. /\ UserEffect(signed, holder, FALSE) /\ NoteLate
          /\ UNCHANGED <<signed, holder, tokenCalls, lateCalls, leftover, shown, stray>>
      BY <1>5 DEF UpdateCreditBalance, UserEffect, auth
    <2>2. ASSUME NEW f \in Fetchers, fetch'[f] # "idle", f \notin late'
          PROVE  caller'[f] = signed
      <3>1. CASE fetch[f] # "idle" /\ caller'[f] = caller[f]
        <4>1. f \notin late
          BY <2>1, <2>2, EffectKeepsFetches
        <4> QED BY <3>1, <4>1 DEF OwnInv
      <3>2. CASE /\ caller'[f] = holder /\ holder # Nobody
                 /\ leftover' => f \in late'
        BY <2>1, <2>2, <3>2 DEF OwnInv
      <3> QED BY <2>1, <2>2, <3>1, <3>2, EffectKeepsFetches
    <2> QED BY <2>1, <2>2 DEF OwnInv, OwnRecord
  <1>6. ASSUME NEW f \in Fetchers, fetch[f] # "idle", UNCHANGED auth,
               \/ \E record \in {caller[f], Nobody} : Ends(f, record)
               \/ \E request \in {"register", "starter", "again"} : Goto(f, request)
        PROVE  OwnInv'
    <2>0. fetch \in [Fetchers -> {"idle", "user", "register", "starter", "again"}]
          /\ caller \in [Fetchers -> People \cup {Nobody}]
      BY DEF SessionInv, SessionTypes
    <2>1. ASSUME NEW request \in {"register", "starter", "again"}, Goto(f, request)
          PROVE  OwnInv'
      BY <1>6, <2>0, <2>1 DEF Goto, auth, OwnInv, OwnRecord
    <2>2. ASSUME NEW record \in {caller[f], Nobody}, Ends(f, record)
          PROVE  OwnInv'
      <3>1. f \notin late => record \in {signed, Nobody}
        BY <1>6, <2>2 DEF OwnInv
      <3>2. \A g \in Fetchers : fetch'[g] # "idle" =>
              g # f /\ fetch[g] # "idle" /\ caller'[g] = caller[g] /\ (g \in late => g \in late')
        BY <2>0, <2>2 DEF Ends
      <3> QED BY <1>6, <2>2, <3>1, <3>2 DEF Ends, auth, OwnInv, OwnRecord
    <2> QED BY <1>6, <2>1, <2>2
  <1>7. ASSUME NEW f \in Fetchers,
               FetchUser(f) \/ RegisterUser(f) \/ CreateStarter(f) \/ FetchAgain(f)
        PROVE  OwnInv'
    <2>1. /\ fetch[f] # "idle" /\ UNCHANGED auth
          /\ \/ \E record \in {caller[f], Nobody} : Ends(f, record)
             \/ \E request \in {"register", "starter", "again"} : Goto(f, request)
      BY <1>7 DEF FetchUser, RegisterUser, CreateStarter, FetchAgain
    <2> QED BY <1>6, <2>1
  <1>8. CASE UNCHANGED sessionVars
    BY <1>8 DEF sessionVars, auth, fetching, OwnInv, OwnRecord
  <1> QED BY <1>1, <1>2, <1>3, <1>4, <1>5, <1>7, <1>8 DEF SessionNext

\* The record shown is that of who is signed in, or of nobody, unless it was taken from a
\* fetch that was on its way when its session ended, or that was made with a token whose
\* getToken was (refetchUser of UserProvider, refreshToken of AuthProvider): at a change
\* of session everything else is cleared, and a new session uses its own token alone.
THEOREM RecordIsOwn == SessionSpec => []OwnRecord
  <1>1. SessionInit => OwnInv
    BY DEF SessionInit, OwnInv, OwnRecord
  <1>2. OwnInv => OwnRecord
    BY DEF OwnInv
  <1> QED BY <1>1, <1>2, OwnStep, SessionInvHolds, PTL DEF SessionSpec

-----------------------------------------------------------------------------
(* The nationality check                                                   *)

SomeUser    == Users \cup {NoUser}
SomeCountry == Countries \cup {NoCountry}

Requests == [by : SomeUser, country : SomeCountry,
             state : {"none", "sent", "stored", "error"}]

GateTypes ==
  /\ person \in SomeUser /\ loaded \in BOOLEAN /\ known \in SomeCountry
  /\ metadata \in [Users -> SomeCountry]
  /\ store \in [userId : SomeUser, country : SomeCountry, selected : BOOLEAN]
  /\ modal \in BOOLEAN /\ path \in {"/", "/block"}
  /\ submit \in Requests /\ orphans \subseteq Requests
  /\ chosen \in [Users -> SUBSET Countries] /\ strayed \in BOOLEAN

\* The store is the signed-in user's; she is asked or has answered; and a route other
\* than /block goes with an answer that is not denied, behind an open dialog too.
Guarded ==
  SignedIn =>
    /\ store.userId = person
    /\ modal \/ store.selected
    /\ path = "/" /\ store.selected => ~IsDenied(store.country)

\* A dialog needs a loaded page, a request of a user a store that has an owner, and
\* so does a selection: whoever comes next finds it to be another user's.
OwnedStore ==
  /\ modal => loaded
  /\ submit.by # NoUser => store.userId # NoUser
  /\ store.selected => store.userId # NoUser
  /\ submit.state = "stored" => submit.by # NoUser

MayBe(u, country) == country \in chosen[u] \cup {NoCountry}

\* Everywhere a user's country is kept or on its way, it is one the user submitted.
OwnAnswers ==
  /\ \A u \in Users : MayBe(u, metadata[u])
  /\ person # NoUser => MayBe(person, known)
  /\ \A r \in orphans \cup {submit} : r.by # NoUser => r.country \in chosen[r.by]
  /\ ~strayed /\ store.selected => store.country \in chosen[store.userId]

GateInv == GateTypes /\ Guarded /\ OwnedStore /\ OwnAnswers

\* The effects, run for any user with a country that user submitted, lead to the
\* store, the dialog and the route that the invariant asks for.
LEMMA EffectsGuard ==
  ASSUME GateInv, NEW u \in SomeUser, NEW country \in SomeCountry,
         u # NoUser => MayBe(u, country),
         Effects(u, country, path, modal)
  PROVE  /\ store' \in [userId : SomeUser, country : SomeCountry, selected : BOOLEAN]
         /\ modal' \in BOOLEAN /\ path' \in {"/", "/block"} /\ strayed' \in BOOLEAN
         /\ u # NoUser => /\ store'.userId = u
                          /\ modal' \/ store'.selected
                          /\ path' = "/" /\ store'.selected => ~IsDenied(store'.country)
         /\ store.userId # NoUser => store'.userId # NoUser
         /\ store'.selected => store'.userId # NoUser
         /\ ~strayed' /\ store'.selected => store'.country \in chosen[store'.userId]
         /\ u = NoUser => modal' = modal
  <1> USE GateAssumption DEF GateInv, GateTypes, SomeUser, SomeCountry
  <1>1. CASE u = NoUser
    BY <1>1 DEF Effects, OwnedStore, OwnAnswers
  <1>2. CASE u # NoUser
    <2> DEFINE kept == StoreOf(u)
               asks == ~kept.selected /\ country = NoCountry
    <2>1. /\ store' = IF kept.selected \/ asks THEN kept
                      ELSE [kept EXCEPT !.country = country, !.selected = TRUE]
          /\ modal' = (modal \/ asks)
          /\ path' = Route(path, store', u)
          /\ strayed' = (strayed /\ store.userId = u)
      BY <1>2 DEF Effects
    <2>2. /\ kept \in [userId : SomeUser, country : SomeCountry, selected : BOOLEAN]
          /\ kept.userId = u
          /\ kept.selected => store.userId = u /\ kept.country = store.country /\ store.selected
      BY <1>2 DEF StoreOf, OwnedStore
    <2> HIDE DEF kept
    <2>3. CASE kept.selected
      BY <1>2, <2>1, <2>2, <2>3 DEF OwnAnswers, Route
    <2>4. CASE asks
      BY <1>2, <2>1, <2>2, <2>4 DEF Route
    <2>5. CASE ~kept.selected /\ ~asks
      BY <1>2, <2>1, <2>2, <2>5 DEF Route, MayBe
    <2> QED BY <2>3, <2>4, <2>5
  <1> QED BY <1>1, <1>2

\* No request is a request of no state.
LEMMA NoSubmitTyped == NoSubmit \in Requests
  BY DEF NoSubmit, Requests, SomeUser, SomeCountry

\* The invariant of the nationality check holds in every reachable state.
LEMMA GateInvHolds == GateSpec => []GateInv
  <1> USE GateAssumption
  <1>1. GateInit => GateInv
    <2> SUFFICES ASSUME GateInit PROVE GateInv
      OBVIOUS
    <2>1. GateTypes
      BY NoSubmitTyped DEF GateInit, GateTypes, SomeUser, SomeCountry
    <2>2. Guarded /\ OwnedStore /\ OwnAnswers
      BY DEF GateInit, Guarded, SignedIn, OwnedStore, OwnAnswers, MayBe, NoSubmit
    <2> QED BY <2>1, <2>2 DEF GateInv
  <1>2. GateInv /\ [GateNext]_gateVars => GateInv'
    <2> SUFFICES ASSUME GateInv, [GateNext]_gateVars
                 PROVE  GateInv'
      OBVIOUS
    <2>1. ASSUME NEW u \in SomeUser, UserChanges(u) \/ ClerkLoads(u)
          PROVE  GateInv'
      <3>1. /\ person' = u /\ known' = MetadataOf(u) /\ loaded' = TRUE
            /\ Effects(u, MetadataOf(u), path, modal)
            /\ UNCHANGED <<metadata, submit, orphans, chosen>>
        BY <2>1 DEF UserChanges, ClerkLoads, GateInv, GateTypes
      <3>2. MetadataOf(u) \in SomeCountry /\ (u # NoUser => MayBe(u, MetadataOf(u)))
        BY DEF MetadataOf, GateInv, GateTypes, OwnAnswers, SomeUser, SomeCountry
      <3> QED BY <3>1, <3>2, EffectsGuard
              DEF GateInv, GateTypes, Guarded, SignedIn, OwnedStore, OwnAnswers, MayBe, Requests
    <2>2. CASE RecordRefreshes
      <3>1. /\ known' = MetadataOf(person) /\ loaded
            /\ Effects(person, MetadataOf(person), path, modal)
            /\ UNCHANGED <<person, loaded, metadata, submit, orphans, chosen>>
        BY <2>2 DEF RecordRefreshes
      <3>2. /\ person \in SomeUser /\ MetadataOf(person) \in SomeCountry
            /\ person # NoUser => MayBe(person, MetadataOf(person))
        BY DEF MetadataOf, GateInv, GateTypes, OwnAnswers, SomeUser, SomeCountry
      <3> QED BY <3>1, <3>2, EffectsGuard
              DEF GateInv, GateTypes, Guarded, SignedIn, OwnedStore, OwnAnswers, MayBe, Requests
    <2>3. CASE LoadPage
      <3>1. GateTypes'
        BY <2>3, NoSubmitTyped
           DEF LoadPage, GateInv, GateTypes, Requests
      <3>2. Guarded' /\ OwnedStore'
        BY <2>3
           DEF LoadPage, GateInv, GateTypes, Guarded, SignedIn, OwnedStore, IsDenied, NoSubmit
      <3>3. OwnAnswers'
        BY <2>3
           DEF LoadPage, GateInv, GateTypes, OwnedStore, OwnAnswers, MayBe, NoSubmit
      <3> QED BY <3>1, <3>2, <3>3 DEF GateInv
    <2>4. ASSUME NEW c \in Countries, Submit(c)
          PROVE  GateInv'
      <3>1. person # NoUser => store.userId = person
        BY <2>4 DEF Submit, GateInv, OwnedStore, Guarded, SignedIn
      <3>2. GateTypes'
        BY <2>4 DEF Submit, clerk, routing, GateInv, GateTypes, Requests, SomeUser, SomeCountry
      <3>3. Guarded' /\ OwnedStore'
        BY <2>4, <3>1 DEF Submit, clerk, routing, GateInv, Guarded, SignedIn, OwnedStore
      <3>4. /\ chosen' \in [Users -> SUBSET Countries]
            /\ \A u \in Users : chosen[u] \subseteq chosen'[u]
            /\ person # NoUser => c \in chosen'[person]
        BY <2>4 DEF Submit, GateInv, GateTypes, SomeUser
      <3>5. OwnAnswers'
        <4>1. \A r \in orphans : r.by \in SomeUser
          BY DEF GateInv, GateTypes, Requests
        <4>2. store.userId \in SomeUser /\ person \in SomeUser
          BY DEF GateInv, GateTypes
        <4> QED BY <2>4, <3>4, <4>1, <4>2
                DEF Submit, clerk, GateInv, OwnedStore, OwnAnswers, MayBe, SomeUser
      <3> QED BY <3>2, <3>3, <3>5 DEF GateInv
    <2>5. CASE UpdateUserCountry
      BY <2>5 DEF UpdateUserCountry, clerk, routing, GateInv, GateTypes, Guarded, SignedIn,
                  OwnedStore, OwnAnswers, MayBe, Requests, SomeUser, SomeCountry
    <2>6. ASSUME NEW r \in orphans, OrphanEnds(r)
          PROVE  GateInv'
      BY <2>6 DEF OrphanEnds, clerk, routing, GateInv, GateTypes, Guarded, SignedIn,
                  OwnedStore, OwnAnswers, MayBe, Requests, SomeUser, SomeCountry
    <2>7. CASE Saved
      <3>1. GateTypes'
        BY <2>7, NoSubmitTyped
           DEF Saved, clerk, GateInv, GateTypes, Requests
      <3>2. Guarded' /\ OwnedStore'
        BY <2>7
           DEF Saved, clerk, GateInv, GateTypes, Guarded, SignedIn, OwnedStore, IsDenied, NoSubmit
      <3>3. OwnAnswers'
        <4>1. store'.userId = store.userId /\ store'.country = submit.country
          BY <2>7 DEF Saved, GateInv, GateTypes
        <4>2. submit.by # NoUser /\ submit.country \in chosen[submit.by]
          BY <2>7 DEF Saved, GateInv, OwnedStore, OwnAnswers
        <4>3. submit'.by = NoUser
          BY <2>7 DEF Saved, NoSubmit
        <4> QED BY <2>7, <4>1, <4>2, <4>3 DEF Saved, clerk, GateInv, OwnAnswers, MayBe
      <3> QED BY <3>1, <3>2, <3>3 DEF GateInv
    <2>8. CASE SaveFails \/ Dismiss
      <3>1. GateTypes'
        BY <2>8, NoSubmitTyped
           DEF SaveFails, Dismiss, clerk, routing, GateInv, GateTypes, Requests
      <3>2. Guarded' /\ OwnedStore'
        BY <2>8
           DEF SaveFails, Dismiss, clerk, routing, GateInv, GateTypes, Guarded, SignedIn,
               OwnedStore, IsDenied, NoSubmit
      <3>3. OwnAnswers'
        BY <2>8
           DEF SaveFails, Dismiss, clerk, routing, GateInv, GateTypes, OwnedStore, OwnAnswers,
               MayBe, NoSubmit
      <3> QED BY <3>1, <3>2, <3>3 DEF GateInv
    <2>9. CASE UNCHANGED gateVars
      BY <2>9 DEF gateVars, clerk, routing, GateInv, GateTypes, Guarded, SignedIn,
                  OwnedStore, OwnAnswers, MayBe
    <2> QED BY <2>1, <2>2, <2>3, <2>4, <2>5, <2>6, <2>7, <2>8, <2>9 DEF GateNext, SomeUser
  <1> QED BY <1>1, <1>2, PTL DEF GateSpec

\* Nobody signed in is past both the dialog and /block without a country that is not
\* denied (CountrySelectionModal and CountryBlockCheck), in any order of sign-ins,
\* saves, failures and reloads, for any list of denied countries.
THEOREM GateIsKept == GateSpec => []GateHolds
  <1>1. GateInv => GateHolds
    BY DEF GateInv, Guarded, GateHolds
  <1> QED BY <1>1, GateInvHolds, PTL

\* The country the browser keeps is one the signed-in user has submitted
\* (setUserCountry and setUserId of the user store), but for the late answer to
\* another user's request.
THEOREM CountryIsOwn == GateSpec => []OwnCountry
  <1>1. GateInv => OwnCountry
    BY DEF GateInv, Guarded, OwnAnswers, OwnCountry
  <1> QED BY <1>1, GateInvHolds, PTL
=============================================================================
