---------------------------- MODULE MegolmPromise ----------------------------
(***************************************************************************)
(* What an inbound Megolm session promises its caller, whatever ratchets   *)
(* it keeps inside: it has a first known index, and it reads exactly the   *)
(* messages from that index on, in any order and any number of times.      *)
(***************************************************************************)
EXTENDS Naturals

CONSTANTS
  Handles,
  Messages,   \* the indices of the messages of the room
  NoIndex

VARIABLES
  first,    \* the first known index of each handle, NoIndex where there is none
  outcome   \* the last message given to a handle, and whether it was read

vars == <<first, outcome>>

NoOutcome == [handle |-> NoIndex]

Init ==
  /\ first = [h \in Handles |-> NoIndex]
  /\ outcome = NoOutcome

(* A handle is made, or remade, for a session known from index i on.        *)
Open(h, i) ==
  /\ first' = [first EXCEPT ![h] = i]
  /\ outcome' = NoOutcome

Decrypt(h, c) ==
  /\ first[h] # NoIndex
  /\ outcome' = [handle |-> h, message |-> c, read |-> first[h] <= c]
  /\ UNCHANGED first

Next ==
  \/ \E h \in Handles, c \in Messages : Open(h, c)
  \/ \E h \in Handles, c \in Messages : Decrypt(h, c)

Spec == Init /\ [][Next]_vars
=============================================================================
