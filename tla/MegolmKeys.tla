------------------------------ MODULE MegolmKeys ------------------------------
(***************************************************************************)
(* What the sender and the receivers of a Megolm group session share: the  *)
(* session keys that went out, and the message index, a u32 that the Rust  *)
(* functions hand to R with `as i32` (src/rust/src/lib.rs 258-280,         *)
(* 337-349).  A ratchet is the number of times it was advanced.            *)
(***************************************************************************)
EXTENDS Naturals, Integers

CONSTANTS
  NA,             \* R's NA_integer_
  IndexModulus,   \* 2^32: the message index is a u32
  MaxIndex        \* bound: the index of the last message

ASSUME ModulusAssumption == IndexModulus \in Nat \ {0}
ASSUME NAAssumption == NA \notin Int
(* The index does not wrap: that would take 2^32 messages in one session.   *)
ASSUME IndexBoundAssumption == MaxIndex \in Nat /\ MaxIndex < IndexModulus

VARIABLE keys   \* session keys shared: the ratchets they were taken from

(* `as i32`, as R reads it: the smallest i32 is NA_integer_.                *)
AsRIntegerSaturated(i) ==
  IF i < IndexModulus \div 2 THEN i ELSE (IndexModulus \div 2) - 1

AsRInteger(i) ==
  LET half == IndexModulus \div 2
  IN  CASE i < half -> i
        [] i = half -> NA
        [] OTHER -> i - IndexModulus

=============================================================================
