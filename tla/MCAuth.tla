------------------------------- MODULE MCAuth -------------------------------
(* Values for the constants of AuthService. *)
EXTENDS AuthService, TLC

\* Slots, jti and phones are interchangeable.
Symmetry == Permutations(Workers) \cup Permutations(Tokens) \cup Permutations(Phones)

=============================================================================
