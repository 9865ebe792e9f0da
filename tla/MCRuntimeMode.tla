---------------------------- MODULE MCRuntimeMode ----------------------------
(* A small instance of RuntimeMode for TLC. *)
EXTENDS RuntimeMode

CONSTANT r1

OneAdmin == {r1}
===============================================================================
