------------------------------ MODULE MCAccount ------------------------------
(* TLC instance of Account: a store of two keys and six draws, so a batch    *)
(* can overrun the store while older keys are pending, published or used.    *)
EXTENDS Account
=============================================================================
