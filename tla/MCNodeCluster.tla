---------------------------- MODULE MCNodeCluster ----------------------------
(* Instances of NodeCluster for TLC. *)
EXTENDS NodeCluster, TLC

CONSTANTS t1, t2, c1, i1, i2, i3, i4

OneTerminal == {t1}
TwoTerminals == {t1, t2}
OneCluster == {c1}
TwoInstances == {i1, i2}
ThreeInstances == {i1, i2, i3}
FourInstances == {i1, i2, i3, i4}

AnyCommand == [t \in Terminals |-> {"create", "stop", "refresh"}]
StopBesideOthers ==
    [t \in Terminals |-> IF t = t1 THEN {"create", "refresh"} ELSE {"stop"}]

OneNode == {<<1>>}
OneOrTwoRegions == {<<1>>, <<1, 1>>}
ThreeLayouts == {<<1>>, <<1, 1>>, <<2>>}

Ask(from, static, devnet) ==
    [service |-> from, static |-> static, devnet |-> devnet]

AnyOfAws == {Ask("aws", FALSE, d) : d \in BOOLEAN}
BothServices == {Ask("aws", TRUE, FALSE), Ask("gcp", TRUE, FALSE),
                 Ask("aws", FALSE, TRUE)}

(* Sound for safety: nothing tells one instance from another. *)
Symmetry == Permutations(Instances)

=============================================================================
