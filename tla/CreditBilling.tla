---------------------------- MODULE CreditBilling ----------------------------
(***************************************************************************)
(* The arithmetic of a bill: which of the two balances a submission may be *)
(* paid from (the app's assigned credits, the user's fallback credits) and *)
(* how its cost is split between them.  BigDecimal addition, subtraction   *)
(* and comparison are exact; an amount is an integer number of whatever    *)
(* unit the module using this one counts in (whole credits in              *)
(* SubmissionPipeline, halves in CreditLedger).                            *)
(***************************************************************************)
EXTENDS Integers, Sequences, Functions

\* apps.credit_selection: 0, 1, 2 and NULL (the column is nullable, and
\* edit_app_account writes back whatever it was given).
Selections == {"assigned", "fallback", "both", "unset"}

\* validate_balance: the strict comparisons are the code's (">=" is an error).
BalanceCovers(sel, cost, app, user) ==
  \/ sel = "assigned" /\ cost < app
  \/ sel = "fallback" /\ cost < user
  \/ sel = "both" /\ cost - app < user

\* The (billed_from_credit, billed_from_fallback) pair of
\* update_database_on_submission, computed from the app balance that was read
\* when the attempt began.
BillSplit(sel, cost, app) ==
  IF sel = "assigned" THEN [credit |-> cost, fallback |-> 0]
  ELSE IF sel = "both" /\ app >= 0
       THEN IF cost > app THEN [credit |-> app, fallback |-> cost - app]
                          ELSE [credit |-> cost, fallback |-> 0]
       ELSE [credit |-> 0, fallback |-> cost]

\* The cost accumulated by the LRANGE walk of validate_race_condition up to
\* and including position i of a reservation list.
CumulativeCost(list, i) ==
  SumFunctionOnSet([j \in 1 .. i |-> list[j].cost], 1 .. i)

\* The walk stops at the first entry of the submission, not at the newest one.
FirstEntry(list, sub) ==
  CHOOSE i \in DOMAIN list :
    /\ list[i].sub = sub
    /\ \A j \in 1 .. i - 1 : list[j].sub # sub
=============================================================================
