---------------------------- MODULE MCKeyTransfer ----------------------------
(* One key with funds and one that may be generated; two transfers, of     *)
(* different amounts, so that both may wait for the receiver at once.      *)
EXTENDS KeyTransfer
=============================================================================
