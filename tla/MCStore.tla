------------------------------- MODULE MCStore -------------------------------
(* CatalogStore on small sets: two providers that may share page contents.  *)
EXTENDS CatalogStore, TLC

CONSTANTS p1, p2, c1, c2, f1, f2, x1, x2

\* None of these sets is told apart by the specification.
Symmetry == Permutations({p1, p2}) \cup Permutations({c1, c2})
            \cup Permutations({f1, f2}) \cup Permutations({x1, x2})
=============================================================================
