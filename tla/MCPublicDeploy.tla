---------------------------- MODULE MCPublicDeploy ----------------------------
(* Instances of PublicDeploy for TLC. *)
EXTENDS PublicDeploy, TLC

CONSTANTS u1, u2, u3, p1, p2

NoUser == {}
OneUser == {u1}
OtherUser == {u2}
TwoUsers == {u1, u2}
ThreeUsers == {u1, u2, u3}
OnePath == {p1}
TwoPaths == {p1, p2}

(* Sound for invariants: nothing tells one file name from another. *)
Symmetry == Permutations(Paths)

(* Addresses are numbers, which the O-Chain keeps in ascending order. *)
Addresses == 1..3
Ascending ==
    [S \in SUBSET Keys |->
        CHOOSE s \in [1..Cardinality(S) -> S] :
            \A i, j \in 1..Cardinality(S) : i < j => s[i] < s[j]]

(* Wallets: a key each; the first user with a second key. *)
OneKeyEach == [u \in Users |-> IF u = u1 THEN {1} ELSE IF u = u2 THEN {2} ELSE {3}]
TwoKeysFirst == [u \in Users |-> IF u = u1 THEN {1, 3} ELSE {2}]

(* Control keys, not in the order of the O-Chain, and threshold. *)
TwoOfThree == {[keys |-> <<3, 1, 2>>, thr |-> 2]}
ThreeOfThree == {[keys |-> <<3, 1, 2>>, thr |-> 3]}
OneOfThree == {[keys |-> <<3, 1, 2>>, thr |-> 1]}
TwoOrOneOfThree == TwoOfThree \cup OneOfThree

NoFlags == {}
FlagPairs == {<<a, b>> : a, b \in Addresses}
FlagsDistinct == {f \in FlagPairs : f[1] # f[2]}

=============================================================================
