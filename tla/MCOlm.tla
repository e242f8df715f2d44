--------------------------------- MODULE MCOlm ---------------------------------
(* TLC instance of Olm: limits small enough for a chain to be displaced, a  *)
(* key to be dropped and a gap to be too wide.                               *)
EXTENDS Olm
=============================================================================
