------------------------------- MODULE SasProofs -------------------------------
(***************************************************************************)
(* Proofs about Sas, for any number of processes, handles, key pairs and   *)
(* tags: the ephemeral secret is used once, what a handle established is   *)
(* final, and an accepted tag comes from the peer.                         *)
(***************************************************************************)
EXTENDS Sas, TLAPS

(* The inductive invariant.  A key pair has one handle at most, which is    *)
(* why an exchange computed by one handle cannot be repeated by another;    *)
(* and every secret, in a handle or under a tag, was computed by its owner. *)
Computed(done, k, secret) == \E p \in KeyPairs : <<k, p>> \in done /\ secret = {k, p}

DrawnOnce ==
  /\ \A o \in Objects : Live(o) => handle[o].public \in drawn
  /\ \A x \in exchanges : x[1] \in drawn
  /\ \A o, q \in Objects :
       Live(o) /\ Live(q) /\ handle[o].public = handle[q].public => o = q

SecretsComputed ==
  /\ \A o \in Objects :
       Established(o) => Computed(exchanges, handle[o].public, handle[o].established)
  /\ \A t \in tags : Computed(exchanges, t.by, t.mac.secret)

IInv ==
  TypeOK /\ EphemeralUsedOnce /\ AcceptedTagFromPeer /\ DrawnOnce /\ SecretsComputed

-----------------------------------------------------------------------------

LEMMA InitIInv == Init => IInv
  BY HandleAssumption
     DEF Init, IInv, TypeOK, EphemeralUsedOnce, AcceptedTagFromPeer, DrawnOnce,
         SecretsComputed, Live, Established

(* A fresh handle is drawn from the key pairs nobody had.                   *)
LEMMA NewIInv ==
  ASSUME IInv, NEW o \in Objects, sas_new(o)
  PROVE  IInv'
<1>1. PICK k \in KeyPairs \ drawn :
        /\ drawn' = drawn \cup {k}
        /\ handle' = [handle EXCEPT ![o] = [public |-> k, fresh |-> TRUE, established |-> None]]
  BY DEF sas_new
<1> DEFINE s == [public |-> k, fresh |-> TRUE, established |-> None]
<1>2. s \in SasHandle /\ s.public = k /\ s.fresh /\ s.established = None
  BY DEF SasHandle
<1> HIDE DEF s
<1>3. /\ handle'[o] = s
      /\ \A q \in Objects \ {o} : handle'[q] = handle[q]
      /\ UNCHANGED <<tags, exchanges, accepted>>
  BY <1>1, <1>2 DEF IInv, TypeOK, sas_new, s
<1>4. TypeOK'
  BY <1>1, <1>2, <1>3 DEF IInv, TypeOK, Established, Live, s
<1>5. DrawnOnce'
  BY <1>1, <1>2, <1>3 DEF IInv, DrawnOnce, Live
<1>6. EphemeralUsedOnce'
  BY <1>1, <1>2, <1>3 DEF IInv, DrawnOnce, EphemeralUsedOnce, Live
<1>7. SecretsComputed'
  BY <1>2, <1>3 DEF IInv, SecretsComputed, Computed, Established, Live
<1>8. AcceptedTagFromPeer'
  BY <1>3 DEF IInv, AcceptedTagFromPeer
<1> QED
  BY <1>4, <1>5, <1>6, <1>7, <1>8 DEF IInv

(* The exchange ends the freshness of the only handle that holds the key    *)
(* pair.                                                                    *)
LEMMA EstablishIInv ==
  ASSUME IInv, NEW o \in Objects, NEW peer \in drawn \cup {LowOrder, Malformed},
         sas_establish(o, peer)
  PROVE  IInv'
<1> DEFINE secret ==
      IF peer = LowOrder THEN handle[o].established ELSE {handle[o].public, peer}
    s == [public |-> handle[o].public, fresh |-> FALSE, established |-> secret]
<1>1. /\ handle[o] \in SasHandle /\ handle[o].fresh /\ handle[o].public \in KeyPairs
      /\ handle[o].established = None
      /\ peer \in KeyPairs \cup {LowOrder} /\ drawn \subseteq KeyPairs
  BY DEF IInv, TypeOK, sas_establish, Live, Established, SasHandle
<1>2. handle' = [handle EXCEPT ![o] = s]
  BY DEF sas_establish, Exchange, SharedSecret
<1>3. secret \in Secrets \cup {None}
  BY <1>1 DEF Secrets, SharedSecret
<1>4. s \in SasHandle /\ s.public = handle[o].public /\ ~s.fresh /\ s.established = secret
  BY <1>1, <1>3 DEF SasHandle
<1>5. secret # None => peer \in KeyPairs /\ secret = {handle[o].public, peer}
  BY <1>1
<1> HIDE DEF s, secret
<1>6. /\ handle'[o] = s
      /\ \A q \in Objects \ {o} : handle'[q] = handle[q]
      /\ exchanges' = exchanges \cup {<<handle[o].public, peer>>}
      /\ UNCHANGED <<drawn, tags, accepted>>
  BY <1>2 DEF IInv, TypeOK, sas_establish, Exchange
<1>7. TypeOK'
  BY <1>1, <1>2, <1>4, <1>6 DEF IInv, TypeOK, Established, Live
<1>8. DrawnOnce'
  BY <1>1, <1>4, <1>6 DEF IInv, DrawnOnce, Live
<1>9. EphemeralUsedOnce'
  <2>1. \A x \in exchanges : x[1] # handle[o].public
    BY <1>1 DEF IInv, EphemeralUsedOnce, Live
  <2>2. \A q \in Objects \ {o} : Live(q) => handle[q].public # handle[o].public
    BY <1>1 DEF IInv, DrawnOnce, Live
  <2> QED
    BY <2>1, <2>2, <1>4, <1>6 DEF IInv, EphemeralUsedOnce, Live
<1>10. SecretsComputed'
  <2>1. \A k, x : Computed(exchanges, k, x) => Computed(exchanges', k, x)
    BY <1>6 DEF Computed
  <2>2. secret # None => Computed(exchanges', handle[o].public, secret)
    BY <1>5, <1>6 DEF Computed
  <2> HIDE DEF Computed
  <2>3. ASSUME NEW q \in Objects, Established(q)'
        PROVE  Computed(exchanges', handle'[q].public, handle'[q].established)
    <3>1. CASE q = o
      BY <3>1, <2>2, <2>3, <1>4, <1>6 DEF Established
    <3>2. CASE q # o
      <4>1. Established(q) /\ handle'[q] = handle[q]
        BY <3>2, <2>3, <1>6 DEF Established, Live
      <4> QED
        BY <4>1, <2>1 DEF IInv, SecretsComputed
    <3> QED
      BY <3>1, <3>2
  <2>4. \A t \in tags' : Computed(exchanges', t.by, t.mac.secret)
    BY <2>1, <1>6 DEF IInv, SecretsComputed
  <2> QED
    BY <2>3, <2>4 DEF SecretsComputed
<1>11. AcceptedTagFromPeer'
  BY <1>6 DEF IInv, AcceptedTagFromPeer
<1> QED
  BY <1>7, <1>8, <1>9, <1>10, <1>11 DEF IInv

LEMMA MacIInv ==
  ASSUME IInv, NEW o \in Objects, NEW input \in Inputs, NEW info \in Infos,
         sas_mac(o, input, info)
  PROVE  IInv'
<1> DEFINE t == [by |-> handle[o].public, mac |-> MacOf(o, input, info)]
<1>1. /\ tags' = tags \cup {t}
      /\ UNCHANGED <<handle, drawn, exchanges, accepted>>
      /\ Established(o)
  BY DEF sas_mac
<1>2. /\ t \in [by : KeyPairs, mac : Mac]
      /\ Computed(exchanges, t.by, t.mac.secret)
  BY <1>1 DEF IInv, TypeOK, SecretsComputed, Established, Live, SasHandle, Mac, MacOf
<1> HIDE DEF t
<1>3. TypeOK'
  BY <1>1, <1>2 DEF IInv, TypeOK, Established, Live
<1>4. SecretsComputed'
  BY <1>1, <1>2 DEF IInv, SecretsComputed, Computed, Established, Live
<1> QED
  BY <1>1, <1>3, <1>4
     DEF IInv, EphemeralUsedOnce, AcceptedTagFromPeer, DrawnOnce, Live

(* Two ends that hold the same secret computed it from the same two keys.   *)
LEMMA VerifyIInv ==
  ASSUME IInv, NEW o \in Objects, NEW input \in Inputs, NEW info \in Infos,
         sas_verify_mac(o, input, info)
  PROVE  IInv'
<1>1. PICK t \in tags \cup {[by |-> None, mac |-> Malformed]} :
        accepted' =
          IF Verifies(o, input, info, t.mac)
            THEN [by |-> handle[o].public, input |-> input, info |-> info, tag |-> t]
            ELSE None
  BY DEF sas_verify_mac
<1>2. AcceptedTagFromPeer'
  <2>1. CASE Verifies(o, input, info, t.mac)
    <3>1. t \in tags /\ t.mac = MacOf(o, input, info)
      BY <2>1 DEF Verifies
    <3>2. t.mac.secret = handle[o].established /\ t.mac.input = input /\ t.mac.info = info
      BY <3>1 DEF MacOf
    <3>3. PICK p \in KeyPairs :
            <<handle[o].public, p>> \in exchanges
              /\ handle[o].established = {handle[o].public, p}
      BY DEF IInv, SecretsComputed, Computed, sas_verify_mac
    <3>4. PICK q \in KeyPairs : <<t.by, q>> \in exchanges /\ t.mac.secret = {t.by, q}
      BY <3>1 DEF IInv, SecretsComputed, Computed
    <3>5. t.by = handle[o].public \/ (t.by = p /\ q = handle[o].public)
      BY <3>2, <3>3, <3>4
    <3>6. accepted' = [by |-> handle[o].public, input |-> input, info |-> info, tag |-> t]
      BY <1>1, <2>1
    <3>7. UNCHANGED exchanges
      BY DEF sas_verify_mac
    <3> QED
      BY <3>2, <3>3, <3>4, <3>5, <3>6, <3>7 DEF AcceptedTagFromPeer
  <2>2. CASE ~Verifies(o, input, info, t.mac)
    BY <2>2, <1>1 DEF AcceptedTagFromPeer
  <2> QED
    BY <2>1, <2>2
<1> QED
  BY <1>2
     DEF sas_verify_mac, IInv, TypeOK, EphemeralUsedOnce, DrawnOnce, SecretsComputed,
         Computed, Live, Established

LEMMA RestartIInv ==
  ASSUME IInv, NEW p \in Processes, Restart(p)
  PROVE  IInv'
<1>1. \A o \in Objects : handle'[o] = Cleared \/ handle'[o] = handle[o]
  BY DEF Restart
<1>2. \A o \in Objects : Live(o)' => Live(o) /\ handle'[o] = handle[o]
  BY <1>1, HandleAssumption DEF Live
<1>3. UNCHANGED <<drawn, tags, exchanges>> /\ accepted' = None
  BY DEF Restart
<1>4. TypeOK'
  <2>1. handle' \in [Objects -> SasHandle \cup {NoHandle, Cleared}]
    BY DEF IInv, TypeOK, Restart
  <2> QED
    BY <2>1, <1>2, <1>3 DEF IInv, TypeOK, Established, Live
<1>5. EphemeralUsedOnce' /\ DrawnOnce'
  BY <1>2, <1>3 DEF IInv, EphemeralUsedOnce, DrawnOnce
<1>6. SecretsComputed' /\ AcceptedTagFromPeer'
  BY <1>2, <1>3 DEF IInv, SecretsComputed, Computed, Established, AcceptedTagFromPeer
<1> QED
  BY <1>4, <1>5, <1>6 DEF IInv

LEMMA StepIInv ==
  ASSUME IInv, [Next]_vars
  PROVE  IInv'
<1>1. CASE UNCHANGED vars
  BY <1>1 DEF vars, IInv, TypeOK, EphemeralUsedOnce, AcceptedTagFromPeer, DrawnOnce,
              SecretsComputed, Computed, Live, Established
<1> QED
  BY <1>1, NewIInv, EstablishIInv, MacIInv, VerifyIInv, RestartIInv DEF Next

THEOREM SasInvariant == Spec => []IInv
<1>1. Init => IInv
  BY InitIInv
<1>2. IInv /\ [Next]_vars => IInv'
  BY StepIInv
<1> QED
  BY <1>1, <1>2, PTL DEF Spec

(* Types, and a handle never holds both halves.                             *)
THEOREM SasTypeOK == Spec => []TypeOK
<1>1. IInv => TypeOK
  BY DEF IInv
<1> QED
  BY <1>1, SasInvariant, PTL

(* The ephemeral secret is consumed exactly once (R/sas.R:19).              *)
THEOREM SasEphemeralUsedOnce == Spec => []EphemeralUsedOnce
<1>1. IInv => EphemeralUsedOnce
  BY DEF IInv
<1> QED
  BY <1>1, SasInvariant, PTL

(* A tag is accepted only from a maker that exchanged keys with the         *)
(* verifier, or from the verifier itself.                                   *)
THEOREM SasAcceptedTagFromPeer == Spec => []AcceptedTagFromPeer
<1>1. IInv => AcceptedTagFromPeer
  BY DEF IInv
<1> QED
  BY <1>1, SasInvariant, PTL

(* What an established or spent handle holds only ever goes away.           *)
THEOREM SasSecretIsFinal == Spec => SecretIsFinal
<1> DEFINE Final(o) ==
      handle[o] # NoHandle /\ ~(Live(o) /\ handle[o].fresh) =>
        handle'[o] \in {handle[o], Cleared}
<1>1. ASSUME TypeOK, [Next]_vars, NEW o \in Objects
      PROVE  Final(o)
  <2>1. CASE \E q \in Objects : sas_new(q)
    BY <2>1, <1>1 DEF TypeOK, sas_new
  <2>2. CASE \E q \in Objects, peer \in drawn \cup {LowOrder, Malformed} :
               sas_establish(q, peer)
    BY <2>2, <1>1 DEF TypeOK, sas_establish, Exchange
  <2>3. CASE UNCHANGED handle
    BY <2>3
  <2>4. CASE \E p \in Processes : Restart(p)
    BY <2>4 DEF Restart
  <2> QED
    BY <1>1, <2>1, <2>2, <2>3, <2>4 DEF Next, vars, sas_mac, sas_verify_mac
<1>2. TypeOK /\ [Next]_vars => [\A o \in Objects : Final(o)]_vars
  BY <1>1
<1> QED
  BY <1>2, SasTypeOK, PTL DEF Spec, SecretIsFinal
=============================================================================
