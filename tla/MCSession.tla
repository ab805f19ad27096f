------------------------------ MODULE MCSession ------------------------------
(***************************************************************************)
(* Session on small instances: signatures that differ in the number of     *)
(* their arguments or only in their types.                                 *)
(***************************************************************************)
EXTENDS Session

CONSTANTS f, g, int1, double1, int2

TwoSigs == {int1, double1}
ThreeSigs == {int1, double1, int2}
ArityOfSig == [s \in Sig |-> IF s = int2 THEN 2 ELSE 1]
===============================================================================
