----------------------------- MODULE MCExternalPtr -----------------------------
(* TLC instance of ExternalPtr: three boxes, so that a pointer can be filled *)
(* again after its value went, and two objects.                              *)
EXTENDS ExternalPtr
=============================================================================
