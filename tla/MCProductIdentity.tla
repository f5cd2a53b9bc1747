-------------------------- MODULE MCProductIdentity --------------------------
(* Small instances of ProductIdentity for TLC. *)
EXTENDS ProductIdentity, TLC

\* Sound for the safety run only: CallsReturn is checked without it.
Symmetry == Permutations(Workers) \cup Permutations(Products)

=============================================================================
