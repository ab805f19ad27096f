--------------------------------- MODULE MCGc ---------------------------------
(* Model values and bounds for Gc. *)
EXTENDS GcImpl

===============================================================================
