------------------------------- MODULE MCReads -------------------------------
(* CatalogReads with two providers and two catalogs.                       *)
EXTENDS CatalogReads, TLC

CONSTANTS p1, p2, c1, c2, x, y

\* Before, at the start of, within, at the end of, and after: 0 .. 4.
OneWindow == {[since |-> 1, until |-> 3]}

\* Bound: only the lists and feeds look at the clock, so the other requests are made at
\* its first moment.
ClockBound == now > 0 => request = None \/ request.kind = "feed"

\* Neither providers nor catalogs are told apart by the specification.
Symmetry == Permutations({p1, p2}) \cup Permutations({c1, c2})
=============================================================================
