-------------------------------- MODULE MCRoom --------------------------------
(* TLC instance of Room: two receivers, two messages at four indices, whose  *)
(* i32 is positive, NA and negative.                                         *)
EXTENDS Room
=============================================================================
