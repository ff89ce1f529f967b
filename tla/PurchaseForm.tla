---------------------------- MODULE PurchaseForm ----------------------------
(***************************************************************************)
(* The form in which a purchase is made up in the dashboard: the chain and *)
(* the token, which are kept in the browser's storage, the amount and its  *)
(* error, the balance of the wallet, and the estimate of the credits,      *)
(* asked for when the amount has rested and when the chain or the token    *)
(* changes.  The effects of a commit are part of the step that changes the *)
(* state they depend on, in the order in which the component has them.     *)
(***************************************************************************)
EXTENDS Integers, FiniteSets

CONSTANTS
  TokensOf,      \* supportedTokensAndChains: the tokens of each chain
  MaxFlights     \* bound: estimates on their way at once

Chains  == DOMAIN TokensOf
NoToken == "undefined"
Tokens  == UNION {TokensOf[c] : c \in Chains}

ASSUME FormAssumption ==
  /\ MaxFlights \in Nat \ {0}
  /\ "Ethereum" \in Chains /\ "ETH" \in TokensOf["Ethereum"] /\ NoToken \notin Tokens

\* What is in the input, and what a number makes of it.  The button tells "0" apart
\* from other zeros: it disables it like an empty input.
Empty  == "empty"
Inputs == {Empty, "0", "0.0", "1", "2"}
Value  == [s \in Inputs |-> CASE s = "1" -> 1 [] s = "2" -> 2 [] OTHER -> 0]

NoError == "none"

\* The balance of the wallet covers one of the two amounts, or neither.
UnknownBalance == -1
EvmBalances    == {UnknownBalance, 1}
AvailBalances  == {0, 1}

\* An estimate is known by what it was asked for.
EstimateOf(s, c, t) == [input |-> s, chain |-> c, token |-> t]
NoEstimate          == EstimateOf(Empty, "none", NoToken)

VARIABLES
  chain, token, stored,     \* the selection and the copy in localStorage
  input, debounced,         \* tokenAmount and its debounced value
  problem,                  \* tokenAmountError
  evm, avail,               \* the wallet's balances, of the selection and of Avail
  estimate, estimating,     \* what "You Receive" shows
  flights,                  \* requests for estimates; current: of the newest id
  requested,                \* history: what was last asked for
  skipped                   \* history: the last estimate due was not asked for

selection == <<chain, token, stored>>
amounts   == <<input, debounced, problem>>
wallet    == <<evm, avail>>
estimates == <<estimate, estimating, flights, requested, skipped>>
formVars  == <<selection, amounts, wallet, estimates>>

FormInit ==
  /\ chain = "Ethereum" /\ token = "ETH" /\ stored = [chain |-> chain, token |-> token]
  /\ input = Empty /\ debounced = Empty /\ problem = NoError
  /\ evm = UnknownBalance /\ avail = 0
  /\ estimate = NoEstimate /\ estimating = FALSE /\ flights = {}
  /\ requested = NoEstimate /\ skipped = FALSE

-----------------------------------------------------------------------------
(* Effects                                                                 *)

BalanceOf(c, e, v) == IF c = "Avail" THEN v ELSE e

\* The effect that compares the amount with the balance; a balance that is not
\* there compares as not smaller, an amount of zero leaves the error as it is.
Checked(before, s, balance) ==
  IF Value[s] > 0
  THEN IF balance # UnknownBalance /\ balance < Value[s] THEN "insufficient" ELSE NoError
  ELSE IF s = Empty THEN NoError ELSE before

\* Mutant: the effect that resets the error is the later one.
CheckedThenReset(before, s, balance) == NoError

\* A change of the chain or the token resets the error before it is checked again.
ResetThenChecked(before, s, balance) == Checked(NoError, s, balance)

Older == {[f EXCEPT !.current = FALSE] : f \in flights}

\* calculateEstimateCredits: without a token to pay with it returns at once, and so it
\* does without the session's, which may be missing at any time; what is shown or on
\* its way stays.
Estimate(s, c, t) ==
  \/ Value[s] = 0 /\ UNCHANGED estimates
  \/ /\ Value[s] # 0
     /\ skipped' = TRUE /\ UNCHANGED <<estimate, estimating, flights, requested>>
  \/ /\ Value[s] # 0 /\ t # NoToken
     /\ Cardinality(flights) < MaxFlights
     /\ flights' = Older \cup {[input |-> s, chain |-> c, token |-> t, current |-> TRUE]}
     /\ estimate' = NoEstimate /\ estimating' = TRUE
     /\ requested' = EstimateOf(s, c, t) /\ skipped' = FALSE

-----------------------------------------------------------------------------
(* The user                                                                *)

\* Mutant: emptying the input gives up the request, and forgets the spinner.
TypeGivesUp(s) ==
  /\ s # input
  /\ input' = s
  /\ problem' = Checked(IF s = Empty \/ Value[s] > 0 THEN problem ELSE "zero", s,
                        BalanceOf(chain, evm, avail))
  /\ IF s = Empty THEN estimate' = NoEstimate /\ flights' = Older
                    /\ UNCHANGED <<estimating, requested, skipped>>
               ELSE UNCHANGED estimates
  /\ UNCHANGED <<selection, debounced, wallet>>

\* onChange with a number, or with nothing; the requests on their way go on.
Type(s) ==
  /\ s # input
  /\ input' = s
  /\ problem' = Checked(IF s = Empty \/ Value[s] > 0 THEN problem ELSE "zero", s,
                        BalanceOf(chain, evm, avail))
  /\ IF s = Empty
     THEN estimate' = NoEstimate /\ UNCHANGED <<estimating, flights, requested, skipped>>
     ELSE UNCHANGED estimates
  /\ UNCHANGED <<selection, debounced, wallet>>

\* onChange with anything else changes the error alone, and no effect runs.
TypeInvalid ==
  /\ problem' = "invalid"
  /\ UNCHANGED <<selection, input, debounced, wallet, estimates>>

\* The amount has not changed for half a second.
Debounce ==
  /\ debounced # input
  /\ debounced' = input
  /\ Estimate(input, chain, token)
  /\ UNCHANGED <<selection, input, problem, wallet>>

\* Persistence leaves an undefined token out.
SelectionBecomes(c, t) ==
  /\ chain' = c /\ token' = t
  /\ stored' = [chain |-> c, token |-> IF t = NoToken THEN stored.token ELSE t]
  /\ evm' \in EvmBalances
  /\ problem' = ResetThenChecked(problem, input, BalanceOf(c, evm', avail))
  /\ Estimate(debounced, c, t)
  /\ UNCHANGED <<input, debounced, avail>>

SelectChain(c) == SelectionBecomes(c, NoToken)

SelectToken(t) == t \in TokensOf[chain] /\ t # token /\ SelectionBecomes(chain, t)

\* isDisabled of the button, with the loading of a purchase left out.
BuyEnabled == token # NoToken /\ input \notin {Empty, "0"} /\ problem = NoError

\* A purchase that was sent empties the input; the estimate stays.
BuyClears ==
  /\ BuyEnabled
  /\ input' = Empty /\ problem' = NoError
  /\ UNCHANGED <<selection, debounced, wallet, estimates>>

-----------------------------------------------------------------------------
(* The wallet, the backend and the page                                    *)

BalanceArrives ==
  /\ \/ evm' \in EvmBalances /\ UNCHANGED avail
     \/ avail' \in AvailBalances /\ UNCHANGED evm
  /\ wallet' # wallet
  /\ problem' = Checked(problem, input, BalanceOf(chain, evm', avail'))
  /\ UNCHANGED <<selection, input, debounced, estimates>>

\* Mutant: an answer is shown whichever request it is for.
EstimateArrivesLate(f) ==
  /\ flights' = flights \ {f}
  /\ \/ estimate' = EstimateOf(f.input, f.chain, f.token)
     \/ UNCHANGED estimate
  /\ estimating' = IF f.current THEN FALSE ELSE estimating
  /\ UNCHANGED <<selection, amounts, wallet, requested, skipped>>

\* Only the newest request shows its answer and ends the loading; a failure, or an
\* answer without data, shows nothing.
EstimateArrives(f) ==
  /\ flights' = flights \ {f}
  /\ IF f.current
     THEN /\ \/ estimate' = EstimateOf(f.input, f.chain, f.token)
             \/ UNCHANGED estimate
          /\ estimating' = FALSE
     ELSE UNCHANGED <<estimate, estimating>>
  /\ UNCHANGED <<selection, amounts, wallet, requested, skipped>>

\* The form is mounted anew when the tab was left, and with the stored selection
\* after a reload of the page.
Remounted ==
  /\ input' = Empty /\ debounced' = Empty /\ problem' = NoError
  /\ evm' \in EvmBalances
  /\ estimate' = NoEstimate /\ estimating' = FALSE /\ flights' = {}
  /\ requested' = NoEstimate /\ skipped' = FALSE

ChangeTab == Remounted /\ UNCHANGED <<selection, avail>>

ReloadPage ==
  /\ Remounted
  /\ chain' = stored.chain /\ token' = stored.token
  /\ avail' = 0
  /\ UNCHANGED stored

-----------------------------------------------------------------------------

FormNext ==
  \/ \E s \in Inputs : Type(s)
  \/ \E c \in Chains : SelectChain(c)
  \/ \E t \in Tokens : SelectToken(t)
  \/ \E f \in flights : EstimateArrives(f)
  \/ TypeInvalid \/ Debounce \/ BuyClears \/ BalanceArrives
  \/ ChangeTab \/ ReloadPage

FormSpec == FormInit /\ [][FormNext]_formVars

-----------------------------------------------------------------------------
(* Properties                                                              *)

\* Whatever the order in which amounts, selections and balances change, the button
\* never offers to pay more than a balance that is known.
BuyIsCovered ==
  LET balance == BalanceOf(chain, evm, avail)
  IN  BuyEnabled /\ balance # UnknownBalance => Value[input] <= balance

\* Of all the requests that may be on their way, only the last one made is ever
\* shown: it is for the chain and the token in the form and for the last amount
\* that rested there, unless that amount was zero or the request for it could not
\* be made.  Then the estimate before it may stand, or still arrive: emptying the
\* input clears an estimate that is shown, but gives up none that is on its way,
\* and a purchase empties the input alone.
EstimateMatches ==
  estimate # NoEstimate =>
    /\ estimate = requested
    /\ Value[debounced] > 0 /\ ~skipped => estimate = EstimateOf(debounced, chain, token)

\* The spinner turns exactly while the newest request is on its way, so that no
\* answer, failure or change of the form leaves it turning.
SpinnerHasRequest == estimating <=> \E f \in flights : f.current
=============================================================================
