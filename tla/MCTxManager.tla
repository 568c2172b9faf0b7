---------------------------- MODULE MCTxManager -----------------------------
(***************************************************************************)
(* An instance of TxManager for TLC.                                       *)
(***************************************************************************)
EXTENDS TxManager

MCMarket == {[tip |-> 1, baseFee |-> 1]}
=============================================================================
