------------------------------ MODULE MCDevice ------------------------------
(* TLC instance of Device: three keys for a store of two, so that it         *)
(* overflows, two messages, each delivered any number of times, two crashes.   *)
EXTENDS Device
=============================================================================
