--------------------------- MODULE MCNetworkUpgrade ---------------------------
(* Two precompiles, one activation time and two versions of the VM that do *)
(* not speak the same version of the RPC protocol.  A file with both       *)
(* upgrades is imported: generate does not come to an end with the last.   *)
EXTENDS NetworkUpgrade

MCPrecompiles == {"txAllowList", "feeManager"}
Fee == [pre |-> "feeManager", ts |-> 1]
Tx == [pre |-> "txAllowList", ts |-> 1]
MCImports == {{Fee, Tx}}
MCRpc == [v \in {1, 2} |-> 10 + v]
=============================================================================
