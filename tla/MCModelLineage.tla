--------------------------- MODULE MCModelLineage ---------------------------
(***************************************************************************)
(* A small instance of ModelLineage: two models that take turns.           *)
(***************************************************************************)
EXTENDS ModelLineage, TLC

CONSTANTS phishing, legitimate, v1, e1, c1, c2, m1, m2, x1, x2, g1, g2

ModelSymmetry == Permutations({m1, m2}) \cup Permutations({x1, x2})
                 \cup Permutations({g1, g2}) \cup Permutations({c1, c2})
                 \cup Permutations({phishing, legitimate})
=============================================================================
