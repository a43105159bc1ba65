------------------------------ MODULE MCPush ------------------------------
(* Instances of PushSubscriptions for TLC. *)
EXTENDS PushSubscriptions, TLC

\* Calls, users and endpoints differ only by name.
Symmetry == Permutations(Calls) \cup Permutations(Users) \cup Permutations(Endpoints)

=============================================================================
