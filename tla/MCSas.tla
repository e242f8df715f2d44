-------------------------------- MODULE MCSas --------------------------------
(* TLC instance of Sas: two processes, one with two handles, so that a       *)
(* party can be given a third party's key or its own.  The objects within a  *)
(* process, the key pairs and the texts are interchangeable.                 *)
EXTENDS Sas, TLC

CONSTANTS a1, a2, b1

MCProcesses == {{a1, a2}, {b1}}

Symmetric ==
  Permutations({a1, a2}) \cup Permutations(KeyPairs) \cup
  Permutations(Infos) \cup Permutations(Inputs)
=============================================================================
