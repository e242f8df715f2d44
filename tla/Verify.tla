-------------------------------- MODULE Verify --------------------------------
(***************************************************************************)
(* What the verification helpers (R/verify.R) let through on the way to an *)
(* outbound Olm session: a device-keys object checked against the device   *)
(* it was asked for, a one-time key checked against the key that object    *)
(* vouched for, and the session opened with the two.  Responses come as    *)
(* the homeserver gives them: fields missing, outdated, or taken from      *)
(* another device's object.                                                *)
(***************************************************************************)
EXTENDS Naturals, FiniteSets

CONSTANTS
  Users, DeviceIds,
  Signers,      \* Ed25519 keys, each held by one device
  Curves,       \* sound Curve25519 public keys
  LowOrder,     \* a key that decodes and that no exchange can use
  Malformed,    \* text that does not decode
  Absent,       \* a field the object does not have
  Algorithms,   \* the two algorithms required by default
  Statements,   \* the device-keys objects that devices signed
  Objects,      \* the device-keys objects a response may hold
  OneTimeKeys   \* the one-time keys that devices signed

Peers == Users \X DeviceIds
CurveFields == Curves \cup {LowOrder, Malformed, Absent}
EdFields == Signers \cup {Malformed, Absent}

(* The signed part of a device-keys object.  named is the device id that    *)
(* the entries of its keys map carry.                                       *)
DeviceKeys ==
  [user : Users, device : DeviceIds, algorithms : (SUBSET Algorithms) \cup {Absent},
   named : DeviceIds, curve25519 : CurveFields, ed25519 : EdFields]

Signed(Content) == [by : Signers, content : Content]

ASSUME StatementsAssumption == Statements \subseteq Signed(DeviceKeys)
ASSUME ObjectsAssumption == Objects \subseteq DeviceKeys
ASSUME OneTimeKeysAssumption == OneTimeKeys \subseteq Signed(CurveFields \ {Absent})

VARIABLES
  verified,   \* per peer: what verify_device_keys returned, Absent before
  otk,        \* per peer: what verify_one_time_key returned, Absent before
  session,    \* per peer: the keys its outbound session was opened with
  refused     \* peers whose verified keys create_outbound turned down

vars == <<verified, otk, session, refused>>

(* One signature, filed under a peer; sig is what some device signed.       *)
Signatures(signed) == [under : Peers, sig : signed \cup {Malformed, Absent}]

ed25519_verify(public_key, message, sig) ==
  /\ public_key \in Signers
  /\ sig \notin {Malformed, Absent}
  /\ sig = [by |-> public_key, content |-> message]

curve25519_is_valid(key) == key \notin {Malformed, Absent}

(* What mxc_verify_device_keys demands of object dk with its signature      *)
(* before it returns the keys.                                              *)
AcceptsAnyUser(dk, s, peer, required) ==
  /\ dk.device = peer[2]
  /\ required # {} => dk.algorithms # Absent /\ required \subseteq dk.algorithms
  /\ dk.named = peer[2] /\ dk.curve25519 # Absent /\ dk.ed25519 # Absent
  /\ s.under[2] = peer[2]
  /\ ed25519_verify(dk.ed25519, dk, s.sig)

AcceptsDeviceKeys(dk, s, peer, required) ==
  /\ dk.user = peer[1] /\ dk.device = peer[2]
  /\ required # {} => dk.algorithms # Absent /\ required \subseteq dk.algorithms
  /\ dk.named = peer[2] /\ dk.curve25519 # Absent /\ dk.ed25519 # Absent
  /\ s.under = peer
  /\ ed25519_verify(dk.ed25519, dk, s.sig)

(* What mxc_verify_one_time_key demands, signing_ed25519 being the key the  *)
(* caller verified before.                                                  *)
AcceptsOneTimeKey(key, s, peer, signing_ed25519) ==
  /\ key # Absent /\ curve25519_is_valid(key)
  /\ s.under = peer
  /\ ed25519_verify(signing_ed25519, key, s.sig)

(* mxc_olm_create_outbound: both keys must decode and contribute.           *)
Usable(key) == key \in Curves

Init ==
  /\ verified = [p \in Peers |-> Absent]
  /\ otk = [p \in Peers |-> Absent]
  /\ session = [p \in Peers |-> Absent]
  /\ refused = {}

(* A refused object raises an error: nothing is returned.  A device asked   *)
(* for again may have changed its keys; its one-time key is claimed anew.   *)
verify_device_keys(peer, required) ==
  /\ \E dk \in Objects, s \in Signatures(Statements) :
       /\ AcceptsDeviceKeys(dk, s, peer, required)
       /\ verified' = [verified EXCEPT ![peer] =
            [curve25519 |-> dk.curve25519, ed25519 |-> dk.ed25519, required |-> required]]
  /\ otk' = [otk EXCEPT ![peer] = Absent]
  /\ refused' = refused \ {peer}
  /\ UNCHANGED session

verify_one_time_key(peer) ==
  /\ verified[peer] # Absent
  /\ \E key \in CurveFields, s \in Signatures(OneTimeKeys) :
       /\ AcceptsOneTimeKey(key, s, peer, verified[peer].ed25519)
       /\ otk' = [otk EXCEPT ![peer] = key]
  /\ UNCHANGED <<verified, session, refused>>

olm_create_outbound(peer) ==
  /\ verified[peer] # Absent /\ otk[peer] # Absent
  /\ IF Usable(verified[peer].curve25519) /\ Usable(otk[peer])
       THEN /\ session' = [session EXCEPT ![peer] =
                 [identity |-> verified[peer], one_time_key |-> otk[peer]]]
            /\ UNCHANGED refused
       ELSE refused' = refused \cup {peer} /\ UNCHANGED session
  /\ otk' = [otk EXCEPT ![peer] = Absent]
  /\ UNCHANGED verified

Next ==
  \E peer \in Peers :
    \/ \E required \in {Algorithms, {}} : verify_device_keys(peer, required)
    \/ verify_one_time_key(peer)
    \/ olm_create_outbound(peer)

Spec == Init /\ [][Next]_vars

-----------------------------------------------------------------------------

Identity ==
  [curve25519 : CurveFields \ {Absent}, ed25519 : Signers, required : {Algorithms, {}}]

(* Types; and a verified one-time key always decodes.                       *)
TypeOK ==
  /\ verified \in [Peers -> Identity \cup {Absent}]
  /\ otk \in [Peers -> Curves \cup {LowOrder, Absent}]
  /\ session \in [Peers -> [identity : Identity, one_time_key : Curves] \cup {Absent}]
  /\ refused \subseteq Peers

(* A session rests on one device's word: the holder of one Ed25519 key      *)
(* signed, as this user and device, both key entries and all required       *)
(* algorithms, and signed the one-time key too.  No field of another        *)
(* object, another user or another device gets through the two helpers.     *)
SessionKeysVouched ==
  \A p \in Peers : session[p] # Absent =>
    LET id == session[p].identity
    IN  /\ \E st \in Statements :
             /\ st.by = id.ed25519 /\ st.content.ed25519 = id.ed25519
             /\ <<st.content.user, st.content.device>> = p /\ st.content.named = p[2]
             /\ st.content.curve25519 = id.curve25519
             /\ id.required = {} \/ id.required \subseteq st.content.algorithms
        /\ [by |-> id.ed25519, content |-> session[p].one_time_key] \in OneTimeKeys

(* "Any of the following raises an error ...: malformed base64"             *)
(* (R/verify.R:57-61): no malformed key is returned as verified.            *)
MalformedKeyRefused ==
  \A p \in Peers : verified[p] # Absent => verified[p].curve25519 # Malformed

(* "ready for session creation" (R/verify.R:259-261): with sound device     *)
(* keys, a one-time key that was verified opens a session.                  *)
VerifiedKeyOpensSession ==
  \A p \in refused : verified[p] # Absent => ~Usable(verified[p].curve25519)

=============================================================================
