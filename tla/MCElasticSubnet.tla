--------------------------- MODULE MCElasticSubnet ---------------------------
(* A subnet of two nodes, and of an asset with enough in circulation for   *)
(* one of them to stake the most but not for both.  The second             *)
(* configuration does not admit the period that `elastic` asks for.        *)
EXTENDS ElasticSubnet

CONSTANTS n1, n2

MCNodes == {n1, n2}

Usual == [initial |-> 3, most |-> 4, min |-> 1, max |-> 2, del |-> 1,
          short |-> 1, long |-> 2, dshort |-> 1, dlong |-> 2]
MCConfigs == {Usual, [Usual EXCEPT !.long = 1]}
=============================================================================
