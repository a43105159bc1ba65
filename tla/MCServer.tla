----------------------------- MODULE MCServer -----------------------------
(* Instances of ServerLifecycle for TLC. *)
EXTENDS ServerLifecycle
=============================================================================
