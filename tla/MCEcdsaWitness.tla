--------------------------- MODULE MCEcdsaWitness ---------------------------
(***************************************************************************)
(* EcdsaWitness on the curve y^2 = x^3 - 3x + 10 over 11 elements: prime   *)
(* order 7, two abscissae at or above the order; every hash, r and s up to *)
(* the order, every key, and keys off the curve or out of the field.       *)
(***************************************************************************)
EXTENDS EcdsaWitness

Generator == <<2, 1>>

Keys == {<<x, y>> \in (0 .. 10) \X (0 .. 10) : OnCurve(<<x, y>>)} \cup {<<1, 1>>, <<11, 3>>}

AllInputs == [z : 0 .. 7, r : 0 .. 7, s : 0 .. 7, q : Keys]
=============================================================================
