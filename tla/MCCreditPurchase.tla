-------------------------- MODULE MCCreditPurchase --------------------------
EXTENDS CreditPurchase

\* A deposit of an ERC20 token and one of the Avail chain, in either order.
OneOfEach == <<"erc20", "avail">>
=============================================================================
