------------------------------- MODULE MCPages -------------------------------
(***************************************************************************)
(* Four parts of the page that share no variable, checked in one run: the  *)
(* first state chooses one of them, and only that part moves.              *)
(***************************************************************************)
EXTENDS AppCredits, PurchaseForm, DashboardSession, CountryGate, TLC

VARIABLE part

OnlyFirst == {"a1"}
TwoApps   == {"a1", "a2"}
TwoChains == "Ethereum" :> {"ETH"} @@ "Avail" :> {"AVAIL"}

Parts == {"apps", "form", "session", "gate"}

PagesInit == part \in Parts /\ Init /\ FormInit /\ SessionInit /\ GateInit

Moves(p) ==
  CASE p = "apps"    -> Next        /\ UNCHANGED <<formVars, sessionVars, gateVars>>
    [] p = "form"    -> FormNext    /\ UNCHANGED <<vars, sessionVars, gateVars>>
    [] p = "session" -> SessionNext /\ UNCHANGED <<vars, formVars, gateVars>>
    [] p = "gate"    -> GateNext    /\ UNCHANGED <<vars, formVars, sessionVars>>

PagesNext == Moves(part) /\ UNCHANGED part

PagesSpec == PagesInit /\ [][PagesNext]_<<part, vars, formVars, sessionVars, gateVars>>
=============================================================================
