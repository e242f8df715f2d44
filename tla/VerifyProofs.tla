----------------------------- MODULE VerifyProofs -----------------------------
(***************************************************************************)
(* Proofs about Verify, for any users, devices, signers, keys and          *)
(* algorithms, and for any objects a homeserver may answer with.           *)
(***************************************************************************)
EXTENDS Verify, TLAPS

(* What a device said of itself, and of a one-time key.                     *)
VouchedFor(p, id) ==
  \E st \in Statements :
    /\ st.by = id.ed25519 /\ st.content.ed25519 = id.ed25519
    /\ <<st.content.user, st.content.device>> = p /\ st.content.named = p[2]
    /\ st.content.curve25519 = id.curve25519
    /\ id.required = {} \/ id.required \subseteq st.content.algorithms

(* The inductive invariant: what is held between the calls was vouched for, *)
(* the one-time key by the very keys it will be used with.                  *)
IInv ==
  /\ TypeOK
  /\ \A p \in Peers : verified[p] # Absent => VouchedFor(p, verified[p])
  /\ \A p \in Peers : otk[p] # Absent =>
       verified[p] # Absent /\ [by |-> verified[p].ed25519, content |-> otk[p]] \in OneTimeKeys
  /\ SessionKeysVouched

LEMMA InitIInv == Init => IInv
  BY DEF Init, IInv, TypeOK, SessionKeysVouched

(* The device-keys helper returns what one statement of the device says.    *)
LEMMA AcceptedIsVouched ==
  ASSUME NEW p \in Peers, NEW required \in {Algorithms, {}},
         NEW dk \in Objects, NEW s \in Signatures(Statements),
         AcceptsDeviceKeys(dk, s, p, required)
  PROVE  LET id == [curve25519 |-> dk.curve25519, ed25519 |-> dk.ed25519,
                    required |-> required]
         IN  VouchedFor(p, id) /\ id \in Identity
<1>1. /\ dk \in DeviceKeys /\ dk.ed25519 \in Signers /\ dk.curve25519 # Absent
      /\ s.sig \in Statements /\ s.sig = [by |-> dk.ed25519, content |-> dk]
      /\ dk.user = p[1] /\ dk.device = p[2] /\ dk.named = p[2]
      /\ required # {} => required \subseteq dk.algorithms
  BY ObjectsAssumption DEF AcceptsDeviceKeys, ed25519_verify, Signatures
<1>2. p = <<p[1], p[2]>>
  BY DEF Peers
<1>3. dk.curve25519 \in CurveFields \ {Absent}
  BY <1>1 DEF DeviceKeys
<1> QED
  BY <1>1, <1>2, <1>3 DEF VouchedFor, Identity

LEMMA StepIInv ==
  ASSUME IInv, [Next]_vars
  PROVE  IInv'
<1>1. ASSUME NEW p \in Peers, NEW required \in {Algorithms, {}},
             verify_device_keys(p, required)
      PROVE  IInv'
  <2>1. PICK dk \in Objects, s \in Signatures(Statements) :
          /\ AcceptsDeviceKeys(dk, s, p, required)
          /\ verified' = [verified EXCEPT ![p] =
               [curve25519 |-> dk.curve25519, ed25519 |-> dk.ed25519, required |-> required]]
    BY <1>1 DEF verify_device_keys
  <2> DEFINE id == [curve25519 |-> dk.curve25519, ed25519 |-> dk.ed25519,
                    required |-> required]
  <2>2. VouchedFor(p, id) /\ id \in Identity
    BY <2>1, AcceptedIsVouched
  <2>3. verified' = [verified EXCEPT ![p] = id]
    BY <2>1
  <2> HIDE DEF id, VouchedFor
  <2>4. /\ otk' = [otk EXCEPT ![p] = Absent] /\ UNCHANGED session
        /\ refused' = refused \ {p}
    BY <1>1 DEF verify_device_keys
  <2>5. TypeOK'
    BY <2>2, <2>3, <2>4 DEF IInv, TypeOK
  <2>6. /\ verified'[p] = id /\ otk'[p] = Absent
        /\ \A q \in Peers \ {p} : verified'[q] = verified[q] /\ otk'[q] = otk[q]
    BY <2>3, <2>4 DEF IInv, TypeOK
  <2>7. \A q \in Peers : verified'[q] # Absent => VouchedFor(q, verified'[q])
    BY <2>2, <2>6 DEF IInv
  <2>8. \A q \in Peers : otk'[q] # Absent =>
          /\ verified'[q] # Absent
          /\ [by |-> verified'[q].ed25519, content |-> otk'[q]] \in OneTimeKeys
    BY <2>6 DEF IInv
  <2>9. SessionKeysVouched'
    BY <2>4 DEF IInv, SessionKeysVouched
  <2> QED
    BY <2>5, <2>7, <2>8, <2>9 DEF IInv, VouchedFor
<1>2. ASSUME NEW p \in Peers, verify_one_time_key(p)
      PROVE  IInv'
  <2>1. PICK key \in CurveFields, s \in Signatures(OneTimeKeys) :
          /\ AcceptsOneTimeKey(key, s, p, verified[p].ed25519)
          /\ otk' = [otk EXCEPT ![p] = key]
    BY <1>2 DEF verify_one_time_key
  <2>2. /\ key \in Curves \cup {LowOrder}
        /\ [by |-> verified[p].ed25519, content |-> key] \in OneTimeKeys
    BY <2>1 DEF AcceptsOneTimeKey, ed25519_verify, curve25519_is_valid, Signatures, CurveFields
  <2>3. verified[p] # Absent /\ UNCHANGED <<verified, session, refused>>
    BY <1>2 DEF verify_one_time_key
  <2>4. otk'[p] = key /\ \A q \in Peers \ {p} : otk'[q] = otk[q]
    BY <2>1 DEF IInv, TypeOK
  <2>5. TypeOK'
    BY <2>1, <2>2, <2>3 DEF IInv, TypeOK
  <2> QED
    BY <2>2, <2>3, <2>4, <2>5 DEF IInv, VouchedFor, SessionKeysVouched
<1>3. ASSUME NEW p \in Peers, olm_create_outbound(p)
      PROVE  IInv'
  <2>1. /\ verified[p] # Absent /\ otk[p] # Absent /\ UNCHANGED verified
        /\ otk' = [otk EXCEPT ![p] = Absent]
    BY <1>3 DEF olm_create_outbound
  <2>2. \A q \in Peers : otk'[q] # Absent => otk'[q] = otk[q]
    BY <2>1 DEF IInv, TypeOK
  <2>3. CASE UNCHANGED session /\ refused' = refused \cup {p}
    <3>1. TypeOK'
      BY <2>1, <2>3 DEF IInv, TypeOK
    <3> QED
      BY <3>1, <2>1, <2>2, <2>3 DEF IInv, VouchedFor, SessionKeysVouched
  <2>4. CASE /\ Usable(verified[p].curve25519) /\ Usable(otk[p]) /\ UNCHANGED refused
             /\ session' = [session EXCEPT ![p] =
                  [identity |-> verified[p], one_time_key |-> otk[p]]]
    <3> DEFINE opened == [identity |-> verified[p], one_time_key |-> otk[p]]
    <3>1. opened.identity = verified[p] /\ opened.one_time_key = otk[p]
      OBVIOUS
    <3> HIDE DEF opened
    <3>2. \A q \in Peers : session'[q] # Absent =>
            (q = p /\ session'[q] = opened) \/ session'[q] = session[q]
      BY <2>4 DEF IInv, TypeOK, opened
    <3>3. TypeOK'
      BY <2>1, <2>4, <3>1, <3>2 DEF IInv, TypeOK, Usable
    <3>4. VouchedFor(p, verified[p])
            /\ [by |-> verified[p].ed25519, content |-> otk[p]] \in OneTimeKeys
      BY <2>1 DEF IInv
    <3>5. SessionKeysVouched'
      BY <3>1, <3>2, <3>4 DEF IInv, SessionKeysVouched, VouchedFor
    <3> QED
      BY <3>3, <3>5, <2>1, <2>2 DEF IInv, VouchedFor
  <2> QED
    BY <2>3, <2>4, <1>3 DEF olm_create_outbound
<1>4. CASE UNCHANGED vars
  BY <1>4 DEF vars, IInv, TypeOK, VouchedFor, SessionKeysVouched
<1> QED
  BY <1>1, <1>2, <1>3, <1>4 DEF Next

THEOREM VerifyInvariant == Spec => []IInv
<1>1. Init => IInv
  BY InitIInv
<1>2. IInv /\ [Next]_vars => IInv'
  BY StepIInv
<1> QED
  BY <1>1, <1>2, PTL DEF Spec

(* Types, and a verified one-time key always decodes.                       *)
THEOREM VerifyTypeOK == Spec => []TypeOK
<1>1. IInv => TypeOK
  BY DEF IInv
<1> QED
  BY <1>1, VerifyInvariant, PTL

(* A session rests on one device's word.                                    *)
THEOREM VerifySessionKeysVouched == Spec => []SessionKeysVouched
<1>1. IInv => SessionKeysVouched
  BY DEF IInv
<1> QED
  BY <1>1, VerifyInvariant, PTL
=============================================================================
