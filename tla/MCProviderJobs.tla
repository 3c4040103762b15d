--------------------------- MODULE MCProviderJobs ---------------------------
(* ProviderJobs with its sets of model values taken up to symmetry. *)
EXTENDS ProviderJobs, TLC

Symmetry == Permutations(Provider) \cup Permutations(Conf)
              \cup Permutations(Job) \cup Permutations(Request)

=============================================================================
