-------------------------- MODULE MCExceptionMessages --------------------------
(* ExceptionMessages for TLC.  No action or property tells clients apart. *)
EXTENDS ExceptionMessages

Clients == Permutations(Client)
===============================================================================
