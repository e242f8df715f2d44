--------------------------------- MODULE Room ---------------------------------
(***************************************************************************)
(* A Megolm session end to end: the sender of MegolmOutbound, crashing and *)
(* restored from its pickle, and the receivers of MegolmInbound, who are   *)
(* given its session keys and the messages it sent, late, in any order and *)
(* repeatedly, or each other's exports.                                    *)
(***************************************************************************)
EXTENDS MegolmOutbound, MegolmInbound

vars == <<saveFirst, outbound, disk, drafts, sent, rewound, keys, inbound, exports, blobs, outcome>>
sender == <<saveFirst, outbound, disk, drafts, sent, rewound>>
receivers == <<inbound, exports, blobs, outcome>>

Init == OutboundInit /\ InboundInit

(* The sender's steps that reach no receiver.                               *)
Sender ==
  /\ \/ \E text \in Texts : encrypt(text)
     \/ outbound_pickle
     \/ \E c \in drafts : Send(c)
     \/ outbound_unpickle
  /\ UNCHANGED receivers

(* A session key goes to whoever is in the room.                            *)
KeyToRoom == ShareKey /\ SessionKeyShared(outbound) /\ UNCHANGED sender

(* Receivers are handed messages of the room.                               *)
Read(h) == \E c \in sent : decrypt(h, c.index)

Receiver(h) ==
  /\ \/ inbound_new(h)
     \/ inbound_import(h)
     \/ inbound_unpickle(h)
     \/ inbound_export(h)
     \/ inbound_pickle(h)
     \/ Read(h)
  /\ UNCHANGED sender

Next == Sender \/ KeyToRoom \/ \E h \in Handles : Receiver(h)

Spec == Init /\ [][Next]_vars

-----------------------------------------------------------------------------

(* A session that goes back to a key shared before a message was encrypted  *)
(* reads that message, however the sender crashed since, whatever the       *)
(* receiver read or failed to read before, and through however many         *)
(* exports, imports and pickles the session came: nobody who was let in is  *)
(* shut out again, unless the sender went back behind the key.              *)
SharedKeyReads ==
  Forward =>
    \A c \in sent, h \in Handles :
      /\ inbound[h] # NoSession
      /\ outcome = [handle |-> h, message |-> c.index, read |-> FALSE]
      => inbound[h].initial \notin c.shared

=============================================================================
