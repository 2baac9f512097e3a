--------------------------- MODULE MCLocalNetwork ---------------------------
(* Instances of LocalNetwork for TLC: names and slots are model values. *)
EXTENDS LocalNetwork, TLC

CONSTANTS c1, n1, n2, default, s1

OneSlot == {c1}
TwoNames == {n1, n2}
DefaultOnly == {default}
WithCustom == {default, s1}

(* Sound for invariants and action properties, which treat all names alike. *)
Symmetry == Permutations(Names)

=============================================================================
