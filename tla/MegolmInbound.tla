---------------------------- MODULE MegolmInbound ----------------------------
(***************************************************************************)
(* The receivers of a Megolm group session (src/rust/src/lib.rs 302-367):  *)
(* inbound sessions made from the sender's session key, from another       *)
(* receiver's export or from a pickle, reading the sender's messages in    *)
(* any order and repeatedly.  The index of a ratchet is its number modulo  *)
(* IndexModulus, and a message decrypts only with the very ratchet that    *)
(* encrypted it.                                                           *)
(***************************************************************************)
EXTENDS MegolmKeys, FiniteSets

CONSTANTS
  Handles,        \* inbound session handles
  NoSession,      \* a handle not yet made
  MaxKeys         \* bound: session keys the sender shares

ASSUME KeysAssumption == MaxKeys \in Nat
ASSUME NoSessionAssumption == 
  NoSession \notin Nat /\ NoSession \notin [origin : Nat, initial : Nat, latest : Nat]

VARIABLES
  inbound,    \* the InboundGroupSession behind each handle
  exports,    \* exported session keys
  blobs,      \* pickles; in each of the three, origin is a history: the key
              \* of the sender that the session descends from
  outcome     \* the last message given to a handle, and whether it was read

inboundVars == <<keys, inbound, exports, blobs, outcome>>

Messages == 0 .. MaxIndex
InboundSession == [origin : Nat, initial : Nat, latest : Nat]
Copy == [origin : Nat, ratchet : Nat]

Index(ratchet) == ratchet % IndexModulus

(* Ratchet::advance_to: forward to the next ratchet with that index.        *)
AdvanceTo(ratchet, i) == ratchet + ((i - Index(ratchet)) % IndexModulus)

(* InboundGroupSession::find_ratchet.  The initial ratchet stays; the       *)
(* latest one moves with the messages and starts again from the initial one *)
(* for an older message.                                                    *)
FromInitial(s, i) == Index(s.initial) = i

KnownToLatest(s, i) == Index(s.latest) <= i

Known(s, i) == Index(s.latest) <= i \/ Index(s.initial) <= i

LatestNeverRestarts(s, i) == AdvanceTo(s.latest, i)

Latest(s, i) ==
  IF Index(s.latest) <= i THEN AdvanceTo(s.latest, i) ELSE AdvanceTo(s.initial, i)

FoundRatchet(s, i) == IF FromInitial(s, i) THEN s.initial ELSE Latest(s, i)

Moved(s, i) ==
  IF FromInitial(s, i) \/ ~Known(s, i) THEN s ELSE [s EXCEPT !.latest = Latest(s, i)]

(* The MAC verifies only under the ratchet the sender used.                 *)
Decrypts(s, i) == Known(s, i) /\ FoundRatchet(s, i) = i

Fresh(c) == [origin |-> c.origin, initial |-> c.ratchet, latest |-> c.ratchet]

Original(k) == [origin |-> k, ratchet |-> k]

CopyAt(s, ratchet) == [origin |-> s.origin, ratchet |-> ratchet]

(* The abstract view.                                                       *)
Promise ==
  INSTANCE MegolmPromise WITH
    NoIndex <- NoSession,
    first <- [h \in Handles |->
                IF inbound[h] = NoSession THEN NoSession ELSE inbound[h].initial]

InboundInit ==
  /\ keys = {}
  /\ inbound = [h \in Handles |-> NoSession]
  /\ exports = {}
  /\ blobs = {}
  /\ outcome = Promise!NoOutcome

(* The sender shares the session key of its current ratchet.                *)
SessionKeyShared(k) ==
  /\ Cardinality(keys) < MaxKeys
  /\ keys' = keys \cup {k}
  /\ UNCHANGED <<inbound, exports, blobs, outcome>>

Opened(h, s) ==
  /\ inbound' = [inbound EXCEPT ![h] = s]
  /\ outcome' = Promise!NoOutcome
  /\ UNCHANGED <<keys, exports, blobs>>

inbound_new(h) == \E k \in keys : Opened(h, Fresh(Original(k)))

inbound_import(h) == \E e \in exports : Opened(h, Fresh(e))

(* The pickle holds the initial ratchet only.                               *)
inbound_unpickle(h) == \E b \in blobs : Opened(h, Fresh(b))

(* export_at_first_known_index.                                             *)
inbound_export_latest(h) ==
  /\ inbound[h] # NoSession
  /\ exports' = exports \cup {CopyAt(inbound[h], inbound[h].latest)}
  /\ UNCHANGED <<keys, inbound, blobs, outcome>>

inbound_export(h) ==
  /\ inbound[h] # NoSession
  /\ exports' = exports \cup {CopyAt(inbound[h], inbound[h].initial)}
  /\ UNCHANGED <<keys, inbound, blobs, outcome>>

inbound_pickle(h) ==
  /\ inbound[h] # NoSession
  /\ blobs' = blobs \cup {CopyAt(inbound[h], inbound[h].initial)}
  /\ UNCHANGED <<keys, inbound, exports, outcome>>

(* The latest ratchet moves before the MAC is checked, so also when the     *)
(* message is refused.                                                      *)
decrypt(h, i) ==
  /\ inbound[h] # NoSession
  /\ inbound' = [inbound EXCEPT ![h] = Moved(@, i)]
  /\ outcome' = [handle |-> h, message |-> i, read |-> Decrypts(inbound[h], i)]
  /\ UNCHANGED <<keys, exports, blobs>>

InboundNext ==
  \/ \E k \in Messages : SessionKeyShared(k)
  \/ \E h \in Handles :
       \/ inbound_new(h)
       \/ inbound_import(h)
       \/ inbound_unpickle(h)
       \/ inbound_export(h)
       \/ inbound_pickle(h)
       \/ \E i \in Messages : decrypt(h, i)

InboundSpec == InboundInit /\ [][InboundNext]_inboundVars

-----------------------------------------------------------------------------

(* Types; and the latest ratchet is never behind the initial one.           *)
InboundTypeOK ==
  /\ keys \subseteq Messages /\ exports \cup blobs \subseteq Copy
  /\ inbound \in [Handles -> InboundSession \cup {NoSession}]
  /\ \A h \in Handles :
       inbound[h] # NoSession =>
         /\ inbound[h].initial <= inbound[h].latest
         /\ inbound[h].latest < IndexModulus

(* However a session was forwarded, exported, imported and pickled, it      *)
(* starts at the very key of the sender it descends from, also when other   *)
(* keys of the same session went out: forwarding neither widens nor narrows *)
(* what the forwarder could read (R/megolm.R:108).                          *)
SessionStartsAtSharedKey ==
  \A h \in Handles :
    inbound[h] # NoSession =>
      inbound[h].initial = inbound[h].origin /\ inbound[h].origin \in keys

(* Refinement: the moving latest ratchet is invisible.  Whether a message   *)
(* is read depends on the first known index alone, not on what was          *)
(* decrypted before, in which order, or on a pickle that dropped it.        *)
ImplementsPromise == Promise!Spec

=============================================================================
