------------------------------ MODULE MCAuth ------------------------------
(* Instances of AuthService for TLC. *)
EXTENDS AuthService, TLC

\* Requests of the future differ only by name.
Symmetry == Permutations(Requests \ Registered)

=============================================================================
