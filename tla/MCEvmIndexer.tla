---------------------------- MODULE MCEvmIndexer ----------------------------
EXTENDS EvmIndexer

CONSTANTS o1, o2, t1, t2

\* Two deposits of one transaction in a block, and one a block later.
MCBlockOf == <<2, 2, 3>>
MCOrderOf == <<o1, o2, o2>>
MCTxOf == <<t1, t1, t2>>

OneBlock == <<2>>
OneOrder == <<o1>>
OneTx == <<t1>>
=============================================================================
