------------------------------ MODULE MCPrinting ------------------------------
(* Model values and bounds for Printing: those of Types. *)
EXTENDS MCTypes, Printing
===============================================================================
