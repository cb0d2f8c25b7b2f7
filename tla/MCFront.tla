------------------------------- MODULE MCFront -------------------------------
(* An instance of Front for TLC.                                            *)
EXTENDS Front

\* The product of the home shop and the one of the second shop.
TwoShops == [p \in {"flour", "butter"} |-> IF p = "flour" THEN "home" ELSE "store"]
=============================================================================
