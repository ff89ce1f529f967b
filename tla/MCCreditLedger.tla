--------------------------- MODULE MCCreditLedger ---------------------------
EXTENDS CreditLedger, TLC

\* A client may ask for less than nothing.
MCAmounts == {-1, 1, 2}

Symmetric == Permutations(Reqs)
=============================================================================
