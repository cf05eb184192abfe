----------------------------- MODULE MCRatings -----------------------------
(* Values for the constants of RatingsService. *)
EXTENDS RatingsService, TLC

\* Slots and orders are interchangeable.
Symmetry == Permutations(Workers) \cup Permutations(Orders)

=============================================================================
