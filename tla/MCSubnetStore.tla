---------------------------- MODULE MCSubnetStore ----------------------------
(* Two terminals, in one of which subnets are created and imported; two    *)
(* addresses, of which one may be given an amount that is zero in its low  *)
(* word; two versions of the RPC protocol; and two genesis files, so that  *)
(* one may overwrite the other.                                            *)
EXTENDS SubnetStore

MCTerminals == {"t1", "t2"}
Give(x, y) == [a \in {"a1", "a2"} |-> IF a = "a1" THEN x ELSE y]
MCAirdrops == {Give(1, 0), Give(0, 1), Give(2, 0)}
=============================================================================
