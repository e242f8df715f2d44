---------------------------------- MODULE Sas ----------------------------------
(***************************************************************************)
(* Short-authentication-string key agreement (src/rust/src/sas.rs): the    *)
(* handles of several R processes, each with an ephemeral key pair that is *)
(* spent by one Diffie-Hellman exchange, and the tags the processes make   *)
(* and verify with the secrets.  The keys and tags handed to the calls are *)
(* whatever the transport delivers: any party's, in any order, repeated,   *)
(* or damaged.                                                             *)
(***************************************************************************)
EXTENDS Naturals, FiniteSets

CONSTANTS
  Processes,   \* disjoint sets of R objects, one set per process
  KeyPairs,    \* ephemeral Curve25519 key pairs, each drawn at most once
  LowOrder,    \* a public key of low order: every exchange with it is void
  Malformed,   \* text that decodes to no key, or to no tag of 32 bytes
  Inputs,      \* texts to authenticate
  Infos,       \* context strings
  None,        \* an empty Option
  NoHandle,    \* an R object that is no SAS handle (yet): the calls refuse it
  Cleared,     \* a handle saved and loaded again: an external pointer to null
  MaxTags      \* bound: tags made

Objects == UNION Processes

ASSUME ProcessesAssumption == \A p, q \in Processes : p # q => p \cap q = {}
ASSUME ValuesAssumption ==
  /\ LowOrder \notin KeyPairs /\ Malformed \notin KeyPairs /\ LowOrder # Malformed
  /\ \A S \in SUBSET KeyPairs : S # None

VARIABLES
  handle,     \* what each R object holds
  drawn,      \* key pairs drawn so far
  tags,       \* tags made, each with the key pair of its maker
  exchanges,  \* history: the exchanges computed, <<own key pair, peer key>>
  accepted    \* history: the last tag accepted, and by whom

vars == <<handle, drawn, tags, exchanges, accepted>>

(* A Diffie-Hellman secret is the same for both ends.                       *)
SharedSecret(own, peer) == {own, peer}

Secrets == {SharedSecret(a, b) : a, b \in KeyPairs}

(* public is also the name of the key pair; fresh says whether its secret   *)
(* half is still there.                                                     *)
SasHandle == [public : KeyPairs, fresh : BOOLEAN, established : Secrets \cup {None}]

ASSUME HandleAssumption == NoHandle \notin SasHandle /\ Cleared \notin SasHandle

Mac == [secret : Secrets, input : Inputs, info : Infos]

(* checked: the call goes on only with a live handle of the right tag.      *)
Live(o) == handle[o] \in SasHandle

Established(o) == Live(o) /\ handle[o].established # None

Init ==
  /\ handle = [o \in Objects |-> NoHandle]
  /\ drawn = {}
  /\ tags = {}
  /\ exchanges = {}
  /\ accepted = None

sas_new(o) ==
  /\ handle[o] = NoHandle
  /\ \E k \in KeyPairs \ drawn :
       /\ drawn' = drawn \cup {k}
       /\ handle' = [handle EXCEPT ![o] = [public |-> k, fresh |-> TRUE, established |-> None]]
  /\ UNCHANGED <<tags, exchanges, accepted>>

(* The ephemeral secret is taken from the handle, then used.  A key of low   *)
(* order leaves it taken and nothing established.                           *)
Exchange(o, peer, fresh) ==
  /\ exchanges' = exchanges \cup {<<handle[o].public, peer>>}
  /\ handle' = [handle EXCEPT ![o] =
       [public |-> @.public,
        fresh |-> fresh,
        established |->
          IF peer = LowOrder THEN @.established ELSE SharedSecret(@.public, peer)]]
  /\ UNCHANGED <<drawn, tags, accepted>>

sas_establish_taken_late(o, peer) ==
  Live(o) /\ peer # Malformed /\ handle[o].fresh /\ Exchange(o, peer, peer = LowOrder)

(* A key that does not decode is refused before the handle is touched, a    *)
(* spent handle before anything is computed.                                *)
sas_establish(o, peer) ==
  /\ Live(o)
  /\ peer # Malformed
  /\ handle[o].fresh
  /\ Exchange(o, peer, FALSE)

MacOf(o, input, info) ==
  [secret |-> handle[o].established, input |-> input, info |-> info]

sas_mac(o, input, info) ==
  /\ Established(o)
  /\ Cardinality(tags) < MaxTags
  /\ tags' = tags \cup {[by |-> handle[o].public, mac |-> MacOf(o, input, info)]}
  /\ UNCHANGED <<handle, drawn, exchanges, accepted>>

(* The answer of verify_mac on an established handle: a malformed tag is    *)
(* FALSE, never an error.                                                   *)
VerifiesSecretOnly(o, input, info, mac) ==
  mac # Malformed /\ mac.secret = handle[o].established

Verifies(o, input, info, mac) == mac # Malformed /\ mac = MacOf(o, input, info)

sas_verify_mac(o, input, info) ==
  /\ Established(o)
  /\ \E t \in tags \cup {[by |-> None, mac |-> Malformed]} :
       accepted' =
         IF Verifies(o, input, info, t.mac)
           THEN [by |-> handle[o].public, input |-> input, info |-> info, tag |-> t]
           ELSE None
  /\ UNCHANGED <<handle, drawn, tags, exchanges>>

(* The process ends.  A workspace saved and loaded keeps the R objects, not *)
(* what they pointed to.                                                    *)
Restart(p) ==
  /\ handle' = [o \in Objects |->
                  IF o \in p /\ handle[o] # NoHandle THEN Cleared ELSE handle[o]]
  /\ accepted' = None
  /\ UNCHANGED <<drawn, tags, exchanges>>

Next ==
  \/ \E o \in Objects :
       \/ sas_new(o)
       \/ \E peer \in drawn \cup {LowOrder, Malformed} : sas_establish(o, peer)
       \/ \E input \in Inputs, info \in Infos :
            sas_mac(o, input, info) \/ sas_verify_mac(o, input, info)
  \/ \E p \in Processes : Restart(p)

Spec == Init /\ [][Next]_vars

-----------------------------------------------------------------------------

(* Types; and a handle never holds both halves: a secret established means  *)
(* the ephemeral key is gone.                                               *)
TypeOK ==
  /\ handle \in [Objects -> SasHandle \cup {NoHandle, Cleared}]
  /\ drawn \subseteq KeyPairs
  /\ tags \subseteq [by : KeyPairs, mac : Mac]
  /\ exchanges \subseteq KeyPairs \X (KeyPairs \cup {LowOrder})
  /\ \A o \in Objects : Established(o) => ~handle[o].fresh

(* The ephemeral secret is consumed exactly once (R/sas.R:19): whatever     *)
(* peer keys a handle is given, in whatever order and however often, also   *)
(* when one was refused for its low order, its key pair enters one exchange *)
(* at most, and none while it still counts as fresh.                        *)
EphemeralUsedOnce ==
  /\ \A x, y \in exchanges : x[1] = y[1] => x = y
  /\ \A o \in Objects : Live(o) /\ handle[o].fresh =>
       \A x \in exchanges : x[1] # handle[o].public

(* A tag is accepted only if its maker exchanged keys with the verifier,    *)
(* each with the other's, and made it over the same input and context; or   *)
(* the verifier made it itself, which the context strings must tell apart.  *)
AcceptedTagFromPeer ==
  accepted # None =>
    /\ accepted.tag.mac.input = accepted.input
    /\ accepted.tag.mac.info = accepted.info
    /\ \/ accepted.tag.by = accepted.by
       \/ /\ <<accepted.by, accepted.tag.by>> \in exchanges
          /\ <<accepted.tag.by, accepted.by>> \in exchanges

(* What an established handle will show and verify never changes, and a     *)
(* handle spent on a low-order key is never brought back: both end with     *)
(* the process, and a handle loaded from disk stays dead (sas.rs:1-2).      *)
SecretIsFinal ==
  [][\A o \in Objects :
       handle[o] # NoHandle /\ ~(Live(o) /\ handle[o].fresh) =>
         handle'[o] \in {handle[o], Cleared}]_vars

=============================================================================
