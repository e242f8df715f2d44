------------------------------ MODULE MegolmProofs ------------------------------
(***************************************************************************)
(* Proofs about the sender (MegolmOutbound), the receivers (MegolmInbound) *)
(* and the two together (Room), for any texts, any number of handles and   *)
(* restarts, any index width and any number of messages short of a wrapped *)
(* index.                                                                  *)
(***************************************************************************)
EXTENDS Room, TLAPS

(* The sender's inductive invariant.  As long as no restart took the ratchet *)
(* back, it is ahead of everything that left the process and of the drafts; *)
(* and for the client that saves first the pickle is, so that no restart    *)
(* does.                                                                    *)
AheadOfWhatLeft(ratchet) ==
  /\ \A c \in sent : c.index < ratchet
  /\ \A k \in keys : k <= ratchet

OutboundIInv ==
  /\ OutboundTypeOK
  /\ \A c \in drafts : c.index < outbound
  /\ saveFirst => ~rewound /\ AheadOfWhatLeft(disk)
  /\ ~rewound =>
       /\ AheadOfWhatLeft(outbound)
       /\ \A c, d \in drafts \cup sent : c.index = d.index => c = d
       /\ \A c \in drafts \cup sent : \A k \in c.shared : k <= c.index

-----------------------------------------------------------------------------

(* The cast to i32 and R's NA lose nothing: distinct u32 stay distinct.     *)
LEMMA AsRIntegerInjective ==
  ASSUME NEW i \in 0 .. MaxIndex, NEW j \in 0 .. MaxIndex, AsRInteger(i) = AsRInteger(j)
  PROVE  i = j
<1> DEFINE half == IndexModulus \div 2
<1>1. /\ IndexModulus \in Nat /\ half \in Int /\ i \in Int /\ j \in Int
      /\ 0 <= i /\ i < IndexModulus /\ 0 <= j /\ j < IndexModulus
  BY ModulusAssumption, IndexBoundAssumption
<1>2. \A x \in Int : AsRInteger(x) =
        IF x < half THEN x ELSE IF x = half THEN NA ELSE x - IndexModulus
  <2> SUFFICES ASSUME NEW x \in Int
               PROVE  AsRInteger(x) =
                        IF x < half THEN x ELSE IF x = half THEN NA ELSE x - IndexModulus
    OBVIOUS
  <2>1. CASE x < half
    BY <2>1, <1>1 DEF AsRInteger
  <2>2. CASE x = half
    BY <2>2, <1>1 DEF AsRInteger
  <2>3. CASE ~(x < half) /\ x # half
    BY <2>3, <1>1 DEF AsRInteger
  <2> QED
    BY <2>1, <2>2, <2>3
<1> HIDE DEF half
<1> QED
  BY <1>1, <1>2, NAAssumption

LEMMA OutboundInitIInv == OutboundInit => OutboundIInv
<1> SUFFICES ASSUME OutboundInit PROVE OutboundIInv
  OBVIOUS
<1>1. /\ saveFirst \in BOOLEAN /\ outbound = 0 /\ disk = -1 /\ rewound = FALSE
      /\ drafts = {} /\ sent = {} /\ keys = {} /\ NoPickle = -1
  BY DEF OutboundInit, outbound_new, NoPickle
<1>2. OutboundTypeOK
  <2>1. outbound \in 0 .. (MaxIndex + 1) /\ disk \in NoPickle .. outbound
    BY <1>1, IndexBoundAssumption DEF NoPickle
  <2>2. drafts \cup sent \subseteq Message /\ keys \subseteq 0 .. MaxIndex
    BY <1>1
  <2> QED
    BY <1>1, <2>1, <2>2 DEF OutboundTypeOK
<1> QED
  BY <1>1, <1>2 DEF OutboundIInv, AheadOfWhatLeft

LEMMA EncryptStep ==
  ASSUME OutboundIInv, NEW text \in Texts, encrypt(text)
  PROVE  OutboundIInv'
<1> USE IndexBoundAssumption
<1> DEFINE new == [index |-> outbound, text |-> text, shared |-> keys]
<1>1. /\ outbound \in Nat /\ disk \in Int /\ disk <= outbound /\ NoPickle <= disk
      /\ outbound <= MaxIndex
      /\ outbound' = outbound + 1 /\ drafts' = drafts \cup {new}
      /\ UNCHANGED <<saveFirst, disk, sent, rewound, keys>>
  BY DEF OutboundIInv, OutboundTypeOK, NoPickle, encrypt
<1>2. new \in Message /\ new.index = outbound /\ new.shared = keys
  BY <1>1 DEF OutboundIInv, OutboundTypeOK, Message
<1>3. /\ \A c \in drafts \cup sent : c \in Message /\ c.index \in Nat
      /\ \A c \in drafts : c.index < outbound
      /\ \A k \in keys : k \in Nat
  BY <1>1 DEF OutboundIInv, OutboundTypeOK, Message
<1> HIDE DEF new
<1>4. OutboundTypeOK'
  BY <1>1, <1>2 DEF OutboundIInv, OutboundTypeOK, NoPickle
<1>5. \A c \in drafts' : c.index < outbound'
  BY <1>1, <1>2, <1>3
<1>6. (saveFirst => ~rewound /\ AheadOfWhatLeft(disk))'
  BY <1>1 DEF OutboundIInv, AheadOfWhatLeft
<1>7. ASSUME ~rewound
      PROVE  /\ AheadOfWhatLeft(outbound)'
             /\ \A c, d \in drafts' \cup sent' : c.index = d.index => c = d
             /\ \A c \in drafts' \cup sent' : \A k \in c.shared : k <= c.index
  <2>1. /\ \A c \in sent : c.index < outbound
        /\ \A k \in keys : k <= outbound
        /\ \A c, d \in drafts \cup sent : c.index = d.index => c = d
        /\ \A c \in drafts \cup sent : \A k \in c.shared : k <= c.index
    BY <1>7 DEF OutboundIInv, AheadOfWhatLeft
  <2>2. AheadOfWhatLeft(outbound)'
    BY <1>1, <1>3, <2>1 DEF AheadOfWhatLeft
  <2>3. drafts' \cup sent' = (drafts \cup sent) \cup {new}
    BY <1>1
  <2>4. \A c \in drafts \cup sent : c.index # new.index
    BY <1>1, <1>2, <1>3, <2>1
  <2>5. \A k \in new.shared : k <= new.index
    BY <1>2, <2>1
  <2> QED
    BY <2>1, <2>2, <2>3, <2>4, <2>5
<1> QED
  BY <1>1, <1>4, <1>5, <1>6, <1>7 DEF OutboundIInv

LEMMA OutboundStepIInv ==
  ASSUME OutboundIInv, [OutboundNext]_outboundVars
  PROVE  OutboundIInv'
<1> USE IndexBoundAssumption
<1>0. /\ outbound \in Nat /\ disk \in Int /\ disk <= outbound
      /\ \A c \in drafts \cup sent : c \in Message /\ c.index \in Nat
      /\ \A k \in keys : k \in Nat
  BY DEF OutboundIInv, OutboundTypeOK, NoPickle, Message
<1>1. CASE ShareKey
  <2>1. /\ keys' = keys \cup {outbound} /\ outbound \in 0 .. MaxIndex
        /\ saveFirst => disk = outbound
        /\ UNCHANGED <<saveFirst, outbound, disk, drafts, sent, rewound>>
    BY <1>0, <1>1 DEF ShareKey
  <2>2. OutboundTypeOK'
    BY <2>1 DEF OutboundIInv, OutboundTypeOK
  <2>3. (saveFirst => ~rewound /\ AheadOfWhatLeft(disk))'
    BY <1>0, <2>1 DEF OutboundIInv, AheadOfWhatLeft
  <2>4. (~rewound => AheadOfWhatLeft(outbound))'
    BY <1>0, <2>1 DEF OutboundIInv, AheadOfWhatLeft
  <2> QED
    BY <2>1, <2>2, <2>3, <2>4 DEF OutboundIInv
<1>2. ASSUME NEW text \in Texts, encrypt(text)
      PROVE  OutboundIInv'
  BY <1>2, EncryptStep
<1>3. CASE outbound_pickle
  <2>1. disk' = outbound /\ UNCHANGED <<saveFirst, outbound, drafts, sent, rewound, keys>>
    BY <1>3 DEF outbound_pickle
  <2>2. OutboundTypeOK'
    BY <1>0, <2>1 DEF OutboundIInv, OutboundTypeOK, NoPickle
  <2> QED
    BY <2>1, <2>2 DEF OutboundIInv, AheadOfWhatLeft
<1>4. ASSUME NEW c \in drafts, Send(c)
      PROVE  OutboundIInv'
  <2>1. /\ sent' = sent \cup {c} /\ drafts' = drafts \ {c}
        /\ saveFirst => disk > c.index
        /\ UNCHANGED <<saveFirst, outbound, disk, rewound, keys>>
    BY <1>4 DEF Send
  <2>2. drafts' \cup sent' = drafts \cup sent
    BY <2>1
  <2>3. OutboundTypeOK'
    BY <2>1, <2>2 DEF OutboundIInv, OutboundTypeOK
  <2>4. (saveFirst => ~rewound /\ AheadOfWhatLeft(disk))'
    BY <1>0, <2>1 DEF OutboundIInv, AheadOfWhatLeft
  <2>5. (~rewound => AheadOfWhatLeft(outbound))'
    BY <1>0, <2>1 DEF OutboundIInv, AheadOfWhatLeft
  <2> QED
    BY <2>1, <2>2, <2>3, <2>4, <2>5 DEF OutboundIInv
<1>5. CASE outbound_unpickle
  <2>1. /\ disk # NoPickle /\ outbound' = disk /\ drafts' = {}
        /\ rewound' = (rewound \/ BehindWhatLeft)
        /\ UNCHANGED <<saveFirst, disk, sent, keys>>
    BY <1>5 DEF outbound_unpickle
  <2>2. OutboundTypeOK'
    BY <1>0, <2>1 DEF OutboundIInv, OutboundTypeOK, NoPickle
  <2>3. ~ BehindWhatLeft <=> AheadOfWhatLeft(disk)
    BY <1>0 DEF BehindWhatLeft, AheadOfWhatLeft
  <2>4. (saveFirst => ~rewound /\ AheadOfWhatLeft(disk))'
    BY <2>1, <2>3 DEF OutboundIInv, AheadOfWhatLeft
  <2>5. (~rewound => AheadOfWhatLeft(outbound))'
    BY <2>1, <2>3 DEF AheadOfWhatLeft
  <2> QED
    BY <2>1, <2>2, <2>4, <2>5 DEF OutboundIInv
<1>6. CASE UNCHANGED outboundVars
  BY <1>6 DEF OutboundIInv, OutboundTypeOK, AheadOfWhatLeft, outboundVars
<1> QED
  BY <1>1, <1>2, <1>3, <1>4, <1>5, <1>6 DEF OutboundNext

THEOREM MegolmOutboundInvariant == OutboundSpec => []OutboundIInv
<1>1. OutboundInit => OutboundIInv
  BY OutboundInitIInv
<1>2. OutboundIInv /\ [OutboundNext]_outboundVars => OutboundIInv'
  BY OutboundStepIInv
<1> QED
  BY <1>1, <1>2, PTL DEF OutboundSpec

(* Types, and the pickle is never ahead of the ratchet in memory.           *)
THEOREM MegolmOutboundTypeOK == OutboundSpec => []OutboundTypeOK
<1>1. OutboundIInv => OutboundTypeOK
  BY DEF OutboundIInv
<1> QED
  BY <1>1, MegolmOutboundInvariant, PTL

(* No two messages of the room carry the same index, and the integer R sees *)
(* tells them apart (lib.rs:274, 343), for every client that saves the      *)
(* ratchet first and every other that no restart has taken back.            *)
THEOREM MegolmIndexIdentifiesMessage == OutboundSpec => []IndexIdentifiesMessage
<1>1. OutboundIInv => IndexIdentifiesMessage
  <2> SUFFICES ASSUME OutboundIInv, Forward, NEW c \in sent, NEW d \in sent,
                      AsRInteger(c.index) = AsRInteger(d.index)
               PROVE  c = d
    BY DEF IndexIdentifiesMessage
  <2>1. c.index \in 0 .. MaxIndex /\ d.index \in 0 .. MaxIndex
    BY DEF OutboundIInv, OutboundTypeOK, Message
  <2>2. c.index = d.index
    BY <2>1, AsRIntegerInjective
  <2> QED
    BY <2>2 DEF OutboundIInv, Forward
<1> QED
  BY <1>1, MegolmOutboundInvariant, PTL

(* No restart takes such a client's ratchet back behind a session key       *)
(* already shared (lib.rs:258 with 284 and 292).                            *)
THEOREM MegolmKeyCoversLaterMessages == OutboundSpec => []KeyCoversLaterMessages
<1>1. OutboundIInv => KeyCoversLaterMessages
  BY DEF OutboundIInv, Forward, KeyCoversLaterMessages
<1> QED
  BY <1>1, MegolmOutboundInvariant, PTL

-----------------------------------------------------------------------------

(* The receivers' inductive invariant.  Every copy of a ratchet that        *)
(* travels, exported or pickled, is the very key of the sender it descends  *)
(* from; without that nothing is known of the session a handle is remade    *)
(* from.                                                                    *)
SessionOK(s) ==
  /\ s \in InboundSession
  /\ s.origin \in keys /\ s.initial = s.origin
  /\ s.initial <= s.latest
  /\ s.latest < IndexModulus

CopyOK(c) == c \in Copy /\ c.origin \in keys /\ c.ratchet = c.origin

InboundIInv ==
  /\ keys \subseteq Messages
  /\ \A c \in exports \cup blobs : CopyOK(c)
  /\ inbound \in [Handles -> InboundSession \cup {NoSession}]
  /\ \A h \in Handles : inbound[h] # NoSession => SessionOK(inbound[h])

-----------------------------------------------------------------------------

(* A value below the modulus is its own remainder: an index that fits in    *)
(* its integer type is not disturbed by the conversion.                     *)
LEMMA RemainderOfSmall ==
  ASSUME NEW M \in Nat \ {0}, NEW x \in Nat, x < M
  PROVE  x % M = x
OBVIOUS

(* AdvanceTo, forward and within the modulus, arrives at the ratchet asked  *)
(* for (Ratchet::advance_to).                                               *)
LEMMA AdvanceArrives ==
  ASSUME NEW r \in Nat, NEW i \in Nat, r <= i, i < IndexModulus
  PROVE  AdvanceTo(r, i) = i
<1>1. IndexModulus \in Nat \ {0} /\ r < IndexModulus /\ i - r \in Nat /\ i - r < IndexModulus
  BY ModulusAssumption
<1>2. Index(r) = r
  BY <1>1, RemainderOfSmall DEF Index
<1>3. (i - r) % IndexModulus = i - r
  BY <1>1, RemainderOfSmall
<1> QED
  BY <1>2, <1>3 DEF AdvanceTo

(* What decrypting message i does to a session, in plain terms: the first   *)
(* known index decides alone whether it is read, the initial ratchet stays, *)
(* and the latest one lands on i or does not move.                          *)
LEMMA DecryptFacts ==
  ASSUME NEW s \in InboundSession, s.initial <= s.latest, s.latest < IndexModulus,
         NEW i \in Messages
  PROVE  /\ Decrypts(s, i) <=> s.initial <= i
         /\ Moved(s, i) \in InboundSession
         /\ Moved(s, i).initial = s.initial /\ Moved(s, i).origin = s.origin
         /\ s.initial <= Moved(s, i).latest
         /\ Moved(s, i).latest < IndexModulus
<1>1. /\ s.initial \in Nat /\ s.latest \in Nat /\ i \in Nat
      /\ IndexModulus \in Nat \ {0} /\ i < IndexModulus /\ s.initial < IndexModulus
  BY ModulusAssumption, IndexBoundAssumption DEF InboundSession, Messages
<1>2. Index(s.initial) = s.initial /\ Index(s.latest) = s.latest
  BY <1>1, RemainderOfSmall DEF Index
<1>3. Known(s, i) <=> s.initial <= i
  BY <1>1, <1>2 DEF Known
<1>4. s.initial <= i => Latest(s, i) = i
  <2>1. CASE s.latest <= i
    BY <2>1, <1>1, <1>2, AdvanceArrives DEF Latest
  <2>2. CASE ~(s.latest <= i)
    BY <2>2, <1>1, <1>2, AdvanceArrives DEF Latest
  <2> QED
    BY <2>1, <2>2
<1>5. Decrypts(s, i) <=> s.initial <= i
  BY <1>1, <1>2, <1>3, <1>4 DEF Decrypts, FoundRatchet, FromInitial
<1>6. CASE s.initial <= i /\ s.initial # i
  <2>1. Moved(s, i) = [s EXCEPT !.latest = i]
    BY <1>6, <1>2, <1>3, <1>4 DEF Moved, FromInitial
  <2> QED
    BY <2>1, <1>1, <1>5, <1>6 DEF InboundSession
<1>7. CASE ~(s.initial <= i /\ s.initial # i)
  <2>1. Moved(s, i) = s
    BY <1>7, <1>1, <1>2, <1>3 DEF Moved, FromInitial
  <2> QED
    BY <2>1, <1>1, <1>5
<1> QED
  BY <1>6, <1>7

(* A session made from a shared key, or from a copy that is one, is a good  *)
(* one.                                                                     *)
LEMMA FreshOK ==
  ASSUME keys \subseteq Messages, NEW c, CopyOK(c)
  PROVE  SessionOK(Fresh(c)) /\ Fresh(c) # NoSession /\ Fresh(c).initial = c.origin
  BY ModulusAssumption, IndexBoundAssumption, NoSessionAssumption
     DEF CopyOK, Copy, SessionOK, Fresh, InboundSession, Messages

LEMMA MadeFromCopy ==
  ASSUME InboundIInv, NEW h \in Handles,
         inbound_new(h) \/ inbound_import(h) \/ inbound_unpickle(h)
  PROVE  \E c : CopyOK(c) /\ Opened(h, Fresh(c))
<1>1. CASE inbound_new(h)
  <2>1. PICK k \in keys : Opened(h, Fresh(Original(k)))
    BY <1>1 DEF inbound_new
  <2>2. CopyOK(Original(k))
    BY DEF InboundIInv, Messages, CopyOK, Copy, Original
  <2> QED
    BY <2>1, <2>2
<1>2. CASE inbound_import(h) \/ inbound_unpickle(h)
  BY <1>2 DEF InboundIInv, inbound_import, inbound_unpickle
<1> QED
  BY <1>1, <1>2

-----------------------------------------------------------------------------

LEMMA InboundInitIInv == InboundInit => InboundIInv
  BY DEF InboundInit, InboundIInv, Messages

LEMMA OpenedIInv ==
  ASSUME InboundIInv, NEW h \in Handles, NEW c, CopyOK(c), Opened(h, Fresh(c))
  PROVE  InboundIInv'
<1>1. SessionOK(Fresh(c)) /\ Fresh(c) \in InboundSession
  BY FreshOK DEF InboundIInv, SessionOK
<1>2. inbound' \in [Handles -> InboundSession \cup {NoSession}]
  BY <1>1 DEF InboundIInv, Opened
<1>3. ASSUME NEW g \in Handles, inbound'[g] # NoSession
      PROVE  SessionOK(inbound[g])'
  <2>1. CASE g = h
    BY <2>1, <1>1 DEF InboundIInv, Opened, SessionOK
  <2>2. CASE g # h
    BY <2>2, <1>3 DEF InboundIInv, Opened, SessionOK
  <2> QED
    BY <2>1, <2>2
<1> QED
  BY <1>2, <1>3 DEF InboundIInv, Opened, CopyOK

LEMMA InboundStepIInv ==
  ASSUME InboundIInv, [InboundNext]_inboundVars
  PROVE  InboundIInv'
<1>1. ASSUME NEW k \in Messages, SessionKeyShared(k)
      PROVE  InboundIInv'
  BY <1>1 DEF InboundIInv, SessionKeyShared, SessionOK, CopyOK
<1>2. ASSUME NEW h \in Handles, inbound_new(h) \/ inbound_import(h) \/ inbound_unpickle(h)
      PROVE  InboundIInv'
  <2>1. PICK c : CopyOK(c) /\ Opened(h, Fresh(c))
    BY <1>2, MadeFromCopy
  <2> QED
    BY <2>1, OpenedIInv
<1>3. ASSUME NEW h \in Handles, inbound_export(h) \/ inbound_pickle(h)
      PROVE  InboundIInv'
  <2> DEFINE made == CopyAt(inbound[h], inbound[h].initial)
  <2>1. /\ inbound[h] # NoSession /\ UNCHANGED <<keys, inbound>>
        /\ exports' \cup blobs' = exports \cup blobs \cup {made}
    BY <1>3 DEF inbound_export, inbound_pickle
  <2>2. CopyOK(made)
    BY <2>1 DEF InboundIInv, SessionOK, InboundSession, CopyOK, Copy, CopyAt
  <2> HIDE DEF made
  <2> QED
    BY <2>1, <2>2 DEF InboundIInv, SessionOK, CopyOK
<1>4. ASSUME NEW h \in Handles, NEW i \in Messages, decrypt(h, i)
      PROVE  InboundIInv'
  <2>1. inbound[h] # NoSession /\ SessionOK(inbound[h])
    BY <1>4 DEF InboundIInv, decrypt
  <2>2. /\ Moved(inbound[h], i) \in InboundSession
        /\ Moved(inbound[h], i).initial = inbound[h].initial
        /\ Moved(inbound[h], i).origin = inbound[h].origin
        /\ inbound[h].initial <= Moved(inbound[h], i).latest
        /\ Moved(inbound[h], i).latest < IndexModulus
    BY <2>1, DecryptFacts DEF SessionOK
  <2>3. inbound' = [inbound EXCEPT ![h] = Moved(inbound[h], i)]
    BY <1>4 DEF decrypt
  <2>4. inbound' \in [Handles -> InboundSession \cup {NoSession}]
    BY <2>2, <2>3 DEF InboundIInv
  <2>5. ASSUME NEW g \in Handles, inbound'[g] # NoSession
        PROVE  SessionOK(inbound[g])'
    <3>1. CASE g = h
      <4>1. inbound'[g] = Moved(inbound[h], i)
        BY <3>1, <2>3 DEF InboundIInv
      <4> QED
        BY <4>1, <2>1, <2>2, <1>4 DEF SessionOK, decrypt
    <3>2. CASE g # h
      BY <3>2, <2>3, <2>5, <1>4 DEF InboundIInv, SessionOK, decrypt
    <3> QED
      BY <3>1, <3>2
  <2> QED
    BY <2>4, <2>5, <1>4 DEF InboundIInv, CopyOK, decrypt
<1>5. CASE UNCHANGED inboundVars
  BY <1>5 DEF InboundIInv, SessionOK, CopyOK, inboundVars
<1> QED
  BY <1>1, <1>2, <1>3, <1>4, <1>5 DEF InboundNext

THEOREM MegolmInboundInvariant == InboundSpec => []InboundIInv
<1>1. InboundInit => InboundIInv
  BY InboundInitIInv
<1>2. InboundIInv /\ [InboundNext]_inboundVars => InboundIInv'
  BY InboundStepIInv
<1> QED
  BY <1>1, <1>2, PTL DEF InboundSpec

(* Types, and the latest ratchet is never behind the initial one.           *)
THEOREM MegolmInboundTypeOK == InboundSpec => []InboundTypeOK
<1>1. InboundIInv => InboundTypeOK
  BY DEF InboundIInv, InboundTypeOK, SessionOK, CopyOK, Messages
<1> QED
  BY <1>1, MegolmInboundInvariant, PTL

(* However a session was forwarded, exported, imported and pickled, it      *)
(* starts at the very key of the sender it descends from (lib.rs:351).      *)
THEOREM MegolmSessionStartsAtSharedKey == InboundSpec => []SessionStartsAtSharedKey
<1>1. InboundIInv => SessionStartsAtSharedKey
  BY DEF InboundIInv, SessionStartsAtSharedKey, SessionOK
<1> QED
  BY <1>1, MegolmInboundInvariant, PTL

-----------------------------------------------------------------------------

LEMMA InitPromise == InboundInit => Promise!Init
  BY DEF InboundInit, Promise!Init, Promise!NoOutcome

LEMMA OpenedPromise ==
  ASSUME InboundIInv, NEW h \in Handles, NEW c, CopyOK(c), Opened(h, Fresh(c))
  PROVE  Promise!Next
<1>1. c.origin \in Messages /\ Fresh(c) # NoSession /\ Fresh(c).initial = c.origin
  BY FreshOK DEF InboundIInv, CopyOK
<1>2. Promise!Open(h, c.origin)
  BY <1>1 DEF InboundIInv, Opened, Promise!Open, Promise!NoOutcome
<1> QED
  BY <1>1, <1>2 DEF Promise!Next

LEMMA StepPromise ==
  ASSUME InboundIInv, [InboundNext]_inboundVars
  PROVE  [Promise!Next]_(Promise!vars)
<1>1. CASE UNCHANGED inbound /\ UNCHANGED outcome
  BY <1>1 DEF Promise!vars
<1>2. ASSUME NEW h \in Handles, inbound_new(h) \/ inbound_import(h) \/ inbound_unpickle(h)
      PROVE  Promise!Next
  <2>1. PICK c : CopyOK(c) /\ Opened(h, Fresh(c))
    BY <1>2, MadeFromCopy
  <2> QED
    BY <2>1, OpenedPromise
<1>3. ASSUME NEW h \in Handles, NEW i \in Messages, decrypt(h, i)
      PROVE  Promise!Next
  <2>1. inbound[h] # NoSession /\ SessionOK(inbound[h])
    BY <1>3 DEF InboundIInv, decrypt
  <2>2. /\ Decrypts(inbound[h], i) <=> inbound[h].initial <= i
        /\ Moved(inbound[h], i) \in InboundSession
        /\ Moved(inbound[h], i).initial = inbound[h].initial
    BY <2>1, DecryptFacts DEF SessionOK
  <2>3. inbound' = [inbound EXCEPT ![h] = Moved(inbound[h], i)]
    BY <1>3 DEF decrypt
  <2>4. Moved(inbound[h], i) # NoSession
    BY <2>2, NoSessionAssumption DEF InboundSession
  <2>5. \A g \in Handles :
          (IF inbound'[g] = NoSession THEN NoSession ELSE inbound'[g].initial)
            = (IF inbound[g] = NoSession THEN NoSession ELSE inbound[g].initial)
    BY <2>1, <2>2, <2>3, <2>4 DEF InboundIInv
  <2>6. inbound[h].initial # NoSession
    BY <2>1, NoSessionAssumption DEF SessionOK, InboundSession
  <2>7. outcome' = [handle |-> h, message |-> i, read |-> inbound[h].initial <= i]
    BY <2>2, <1>3 DEF decrypt, Decrypts
  <2>8. Promise!Decrypt(h, i)
    BY <2>1, <2>5, <2>6, <2>7 DEF Promise!Decrypt
  <2> QED
    BY <2>8 DEF Promise!Next
<1> QED
  BY <1>1, <1>2, <1>3
     DEF InboundNext, inboundVars, SessionKeyShared, inbound_export, inbound_pickle

(* The refinement: whether a message is read depends on the first known     *)
(* index alone.                                                             *)
THEOREM MegolmImplementsPromise == InboundSpec => ImplementsPromise
<1>1. InboundInit => Promise!Init
  BY InitPromise
<1>2. InboundIInv /\ [InboundNext]_inboundVars => [Promise!Next]_(Promise!vars)
  BY StepPromise
<1> QED
  BY <1>1, <1>2, MegolmInboundInvariant, PTL DEF InboundSpec, ImplementsPromise, Promise!Spec

-----------------------------------------------------------------------------
(* The room is one sender and its receivers: every step of it is a step of  *)
(* each, or leaves it alone, so what was proved of each holds in it.        *)

LEMMA RoomIsSender == Spec => OutboundSpec
<1>1. Init => OutboundInit
  BY DEF Init
<1>2. [Next]_vars => [OutboundNext]_outboundVars
  BY DEF Next, Sender, KeyToRoom, Receiver, Read, OutboundNext, vars, outboundVars, sender,
         Opened, inbound_new, inbound_import, inbound_unpickle, inbound_export,
         inbound_pickle, decrypt
<1> QED
  BY <1>1, <1>2, PTL DEF Spec, OutboundSpec

LEMMA RoomStepIsReceivers ==
  ASSUME OutboundIInv, [Next]_vars
  PROVE  [InboundNext]_inboundVars
<1>1. CASE Sender
  <2>1. keys' = keys
    BY <1>1 DEF Sender, encrypt, outbound_pickle, Send, outbound_unpickle
  <2> QED
    BY <2>1, <1>1 DEF Sender, receivers, inboundVars
<1>2. CASE KeyToRoom
  <2>1. outbound \in Messages
    BY <1>2 DEF KeyToRoom, ShareKey, OutboundIInv, OutboundTypeOK, Messages
  <2> QED
    BY <2>1, <1>2 DEF KeyToRoom, InboundNext
<1>3. ASSUME NEW h \in Handles, Receiver(h)
      PROVE  InboundNext
  <2>1. CASE Read(h)
    <3>1. PICK c \in sent : decrypt(h, c.index)
      BY <2>1 DEF Read
    <3>2. c.index \in Messages
      BY DEF OutboundIInv, OutboundTypeOK, Message, Messages
    <3> QED
      BY <3>1, <3>2 DEF InboundNext
  <2> QED
    BY <2>1, <1>3 DEF Receiver, InboundNext
<1>4. CASE UNCHANGED vars
  BY <1>4 DEF vars, inboundVars
<1> QED
  BY <1>1, <1>2, <1>3, <1>4 DEF Next

LEMMA RoomIsReceivers == Spec => InboundSpec
<1>1. Init => InboundInit
  BY DEF Init
<1>2. OutboundIInv /\ [Next]_vars => [InboundNext]_inboundVars
  BY RoomStepIsReceivers
<1> QED
  BY <1>1, <1>2, RoomIsSender, MegolmOutboundInvariant, PTL DEF Spec, InboundSpec

(* What the last message given to a handle tells of the session behind it.  *)
OutcomeOK ==
  \/ outcome = Promise!NoOutcome
  \/ \E h \in Handles, i \in Messages :
       /\ inbound[h] # NoSession
       /\ outcome = [handle |-> h, message |-> i, read |-> inbound[h].initial <= i]

LEMMA StepOutcomeOK ==
  ASSUME InboundIInv, OutcomeOK, [InboundNext]_inboundVars
  PROVE  OutcomeOK'
<1>1. CASE UNCHANGED inbound /\ UNCHANGED outcome
  BY <1>1 DEF OutcomeOK, Promise!NoOutcome
<1>2. ASSUME NEW h \in Handles, inbound_new(h) \/ inbound_import(h) \/ inbound_unpickle(h)
      PROVE  OutcomeOK'
  BY <1>2 DEF inbound_new, inbound_import, inbound_unpickle, Opened, OutcomeOK, Promise!NoOutcome
<1>3. ASSUME NEW h \in Handles, NEW i \in Messages, decrypt(h, i)
      PROVE  OutcomeOK'
  <2>1. inbound[h] # NoSession /\ SessionOK(inbound[h])
    BY <1>3 DEF InboundIInv, decrypt
  <2>2. /\ Decrypts(inbound[h], i) <=> inbound[h].initial <= i
        /\ Moved(inbound[h], i) \in InboundSession
        /\ Moved(inbound[h], i).initial = inbound[h].initial
    BY <2>1, DecryptFacts DEF SessionOK
  <2>3. inbound'[h] = Moved(inbound[h], i)
    BY <1>3 DEF decrypt, InboundIInv
  <2>4. inbound'[h] # NoSession
    BY <2>2, <2>3, NoSessionAssumption DEF InboundSession
  <2>5. outcome' = [handle |-> h, message |-> i, read |-> inbound'[h].initial <= i]
    BY <2>2, <2>3, <1>3 DEF decrypt, Decrypts
  <2> QED
    BY <2>4, <2>5 DEF OutcomeOK
<1> QED
  BY <1>1, <1>2, <1>3
     DEF InboundNext, inboundVars, SessionKeyShared, inbound_export, inbound_pickle

(* Whoever was let in is never shut out: a session that goes back to a key  *)
(* shared before a message was encrypted reads it, through every crash of   *)
(* the sender and every history of the receivers, as long as the sender     *)
(* saves first or was never taken back.                                     *)
THEOREM RoomSharedKeyReads == Spec => []SharedKeyReads
<1>1. InboundInit => OutcomeOK
  BY DEF InboundInit, OutcomeOK
<1>2. InboundSpec => []OutcomeOK
  <2>1. InboundIInv /\ OutcomeOK /\ [InboundNext]_inboundVars => OutcomeOK'
    BY StepOutcomeOK
  <2> QED
    BY <1>1, <2>1, MegolmInboundInvariant, PTL DEF InboundSpec
<1>3. OutboundIInv /\ InboundIInv /\ OutcomeOK => SharedKeyReads
  <2> SUFFICES ASSUME OutboundIInv, InboundIInv, OutcomeOK, Forward,
                      NEW c \in sent, NEW h \in Handles, inbound[h] # NoSession,
                      outcome = [handle |-> h, message |-> c.index, read |-> FALSE],
                      inbound[h].initial \in c.shared
               PROVE  FALSE
    BY DEF SharedKeyReads
  <2>1. inbound[h].initial <= c.index
    BY DEF OutboundIInv, Forward
  <2>2. outcome.read = (inbound[h].initial <= c.index)
    BY DEF OutcomeOK, Promise!NoOutcome
  <2> QED
    BY <2>1, <2>2
<1> QED
  BY <1>2, <1>3, RoomIsSender, RoomIsReceivers, MegolmOutboundInvariant,
     MegolmInboundInvariant, PTL

(* In the room too no two messages carry the same index, on the same        *)
(* condition.                                                               *)
THEOREM RoomIndexIdentifiesMessage == Spec => []IndexIdentifiesMessage
  BY RoomIsSender, MegolmIndexIdentifiesMessage, PTL

(* In the room too the receivers keep the promise of MegolmPromise.         *)
THEOREM RoomImplementsPromise == Spec => ImplementsPromise
  BY RoomIsReceivers, MegolmImplementsPromise, PTL
=============================================================================
