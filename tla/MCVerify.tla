------------------------------- MODULE MCVerify -------------------------------
(* TLC instance of Verify: Alice's two devices and Bob's, Alice's first in   *)
(* two versions, one of them with an algorithm missing, and a device that    *)
(* signed keys nobody can use.                                               *)
EXTENDS Verify

CONSTANTS alice, bob, phone, laptop, edA, edB, edC, cA, cB, olm, megolm

MCUsers == {alice, bob}
MCDeviceIds == {phone, laptop}
MCSigners == {edA, edB, edC}
MCCurves == {cA, cB}
MCAlgorithms == {olm, megolm}

Statement(u, d, algorithms, curve, ed) ==
  [by |-> ed, content |-> [user |-> u, device |-> d, algorithms |-> algorithms,
                           named |-> d, curve25519 |-> curve, ed25519 |-> ed]]

MCStatements ==
  {Statement(alice, phone, MCAlgorithms, cA, edA),
   Statement(alice, phone, {olm}, cB, edA),
   Statement(bob, phone, MCAlgorithms, cB, edB),
   Statement(alice, laptop, MCAlgorithms, Malformed, edC)}

(* A response holds what a device signed, or that with one field of another  *)
(* value or missing.                                                         *)
Altered(dk) ==
  {[dk EXCEPT !.user = u] : u \in MCUsers} \cup
  {[dk EXCEPT !.device = d] : d \in MCDeviceIds} \cup
  {[dk EXCEPT !.named = d] : d \in MCDeviceIds} \cup
  {[dk EXCEPT !.algorithms = a] : a \in (SUBSET MCAlgorithms) \cup {Absent}} \cup
  {[dk EXCEPT !.curve25519 = c] : c \in MCCurves \cup {LowOrder, Malformed, Absent}} \cup
  {[dk EXCEPT !.ed25519 = e] : e \in MCSigners \cup {Malformed, Absent}}

MCObjects == UNION {Altered(st.content) : st \in MCStatements}

MCOneTimeKeys ==
  {[by |-> edA, content |-> cB], [by |-> edA, content |-> LowOrder],
   [by |-> edB, content |-> cA], [by |-> edC, content |-> cA],
   [by |-> edC, content |-> Malformed]}
=============================================================================
