------------------------------ MODULE MCHttp ------------------------------
(* An instance of HttpServer for TLC. *)
EXTENDS HttpServer
=============================================================================
