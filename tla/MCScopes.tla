------------------------------- MODULE MCScopes -------------------------------
(***************************************************************************)
(* Scopes on a small instance: two names, one of which may be a function   *)
(* of the line, nested blocks, and a handful of variables.                 *)
(***************************************************************************)
EXTENDS Scopes, TLC

CONSTANTS x, y
===============================================================================
