------------------------- MODULE MCConnectionSetup -------------------------
(***************************************************************************)
(* Instances of ConnectionSetup: two addresses, resolved once, twice or in *)
(* a mixed order, and sizes on both sides of every limit.                  *)
(***************************************************************************)
EXTENDS ConnectionSetup

CONSTANTS a, b

SomeResolutions == {<<>>, <<a>>, <<a, b>>, <<a, a, b>>, <<b, a, b>>}

(* The requested exponent is 10.                                           *)
SomeParameters == {<<>>, <<0>>, <<7>>, <<8>>, <<10>>, <<11>>, <<8, 10>>, <<10, 8>>, <<8, 14>>}
=============================================================================
