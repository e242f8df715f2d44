---------------------------------- MODULE Olm ----------------------------------
(***************************************************************************)
(* The two ends of one Olm session (src/rust/src/lib.rs 161-248) over the  *)
(* double ratchet of vodozemac.  A ratchet key pair is the number of the   *)
(* draw that made it.  A root key, and with it the chain it starts, is     *)
(* known by the ratchet keys that went into it: its last one is the key    *)
(* the chain's messages carry.  Each end pickles its session before what   *)
(* it encrypted leaves the process (R/olm.R:72), may die at any moment and *)
(* goes on from the pickle.  Messages are lost, repeated and reordered,    *)
(* and a message of another session may be tried on this one: the          *)
(* interface does not tell to which session a message belongs.             *)
(***************************************************************************)
EXTENDS Naturals, Sequences, SequencesExt, FiniteSets, FiniteSetsExt

CONSTANTS
  Alice,         \* who starts the session
  Bob,           \* who answers
  NoSession,
  Stray,         \* the ratchet key of a message of some other session
  MaxChains,     \* vodozemac's MAX_RECEIVING_CHAINS, 5
  MaxSkipped,    \* vodozemac's MAX_MESSAGE_KEYS, 40
  MaxGap,        \* vodozemac's MAX_MESSAGE_GAP, 2000
  MaxMessages,   \* bound: encryptions
  MaxKeys        \* bound: ratchet keys drawn

ASSUME PartiesAssumption == Alice # Bob
ASSUME LimitsAssumption ==
  MaxChains \in Nat \ {0} /\ MaxSkipped \in Nat \ {0} /\ MaxGap \in Nat
ASSUME BoundsAssumption == MaxMessages \in Nat /\ MaxKeys \in Nat
ASSUME StrayAssumption == Stray \notin Nat

VARIABLES
  session,     \* the Session behind each end's handle
  drafts,      \* ciphertexts made and not yet sent (volatile)
  disk,        \* each end's last session pickle
  sent,        \* the messages that left a process
  drawn,       \* ratchet keys drawn so far
  encrypted    \* plaintexts encrypted so far

vars == <<session, drafts, disk, sent, drawn, encrypted>>

Parties == {Alice, Bob}
Peer(p) == IF p = Alice THEN Bob ELSE Alice

Key == 0 .. (MaxKeys - 1)
Chain == Seq(Key)

(* prekey is the message type.  text tells plaintexts apart, and heard is    *)
(* history: the length of the longest chain its sender had read from.       *)
Message ==
  [from : Parties, chain : Chain, index : Nat, prekey : BOOLEAN, text : Nat, heard : Nat]

StrayMessage(p) == [from |-> Peer(p), chain |-> <<Stray>>, index |-> 0,
                    prekey |-> FALSE, text |-> MaxMessages, heard |-> 0]

ReceiverChain == [chain : Chain, next : Nat, skipped : SUBSET Nat]

(* Active: the last key of root is one's own, and index is the next one of  *)
(* the sending chain.  Inactive: the last key is the peer's.  read is       *)
(* history: what was decrypted.                                             *)
Session ==
  [root : Chain, active : BOOLEAN, index : Nat, chains : Seq(ReceiverChain),
   read : SUBSET Message]

Outbound(k) ==
  [root |-> <<k>>, active |-> TRUE, index |-> 0, chains |-> <<>>, read |-> {}]

NewChain(chain) == [chain |-> chain, next |-> 0, skipped |-> {}]

ASSUME NoSessionAssumption == NoSession \notin Session

(* Session::new_remote, before the pre-key message is decrypted.            *)
Inbound(m) ==
  [root |-> m.chain, active |-> FALSE, index |-> 0, chains |-> <<NewChain(m.chain)>>,
   read |-> {}]

Activated(s, k) == [s EXCEPT !.root = Append(@, k), !.active = TRUE, !.index = 0]

-----------------------------------------------------------------------------
(* Decryption.                                                               *)

Newest(S) == {i \in S : Cardinality({j \in S : j > i}) < MaxSkipped}

(* The receiver chain a message belongs to, by its ratchet key.             *)
Found(s, m) == {n \in 1 .. Len(s.chains) : Last(s.chains[n].chain) = Last(m.chain)}

(* find_message_key and the MAC.                                            *)
ReadsFromSkipped(c, m) == c.chain = m.chain /\ m.index < c.next + MaxGap + 1

Reads(c, m) ==
  /\ c.chain = m.chain
  /\ IF m.index < c.next THEN m.index \in c.skipped ELSE m.index - c.next <= MaxGap

StepForgets(c, i) ==
  IF i < c.next THEN [c EXCEPT !.skipped = @ \ {i}] ELSE [c EXCEPT !.next = i + 1]

Step(c, i) ==
  IF i < c.next THEN [c EXCEPT !.skipped = @ \ {i}]
  ELSE [c EXCEPT !.next = i + 1,
                 !.skipped = Newest(@ \cup {j \in c.next .. (i - 1) : i - j <= MaxSkipped})]

Pushed(chains, c) == Append(IF Len(chains) = MaxChains THEN Tail(chains) ELSE chains, c)

(* The chain to which the sending ratchet advances on a new ratchet key.    *)
NextChain(s, m) == NewChain(Append(s.root, Last(m.chain)))

(* An inactive ratchet is activated first, with a key the sender of m       *)
(* cannot have known.                                                       *)
Decrypts(s, m) ==
  IF Found(s, m) # {} THEN \A n \in Found(s, m) : Reads(s.chains[n], m)
  ELSE s.active /\ Reads(NextChain(s, m), m)

Decrypted(s, m) ==
  IF Found(s, m) # {}
    THEN [s EXCEPT !.chains = [n \in DOMAIN @ |->
                                IF n \in Found(s, m) THEN Step(@[n], m.index) ELSE @[n]],
                   !.read = @ \cup {m}]
    ELSE [s EXCEPT !.root = Append(@, Last(m.chain)), !.active = FALSE, !.index = 0,
                   !.chains = Pushed(@, Step(NextChain(s, m), m.index)),
                   !.read = @ \cup {m}]

(* The activation stays when the message is refused.                        *)
Mutates(s, m) == Found(s, m) = {} /\ ~s.active

(* The abstract view: what was sent, and what each end has read and saved.   *)
ReadBy(s) == IF s = NoSession THEN {} ELSE s.read

Promise ==
  INSTANCE OlmPromise WITH
    read <- [p \in Parties |-> ReadBy(session[p])],
    saved <- [p \in Parties |-> ReadBy(disk[p])]

-----------------------------------------------------------------------------

Init ==
  /\ session = [p \in Parties |-> NoSession]
  /\ drafts = [p \in Parties |-> {}]
  /\ disk = [p \in Parties |-> NoSession]
  /\ sent = {}
  /\ drawn = 0
  /\ encrypted = 0

(* Nothing of a session that was never pickled has been sent.               *)
create_outbound ==
  /\ session[Alice] = NoSession
  /\ drawn < MaxKeys
  /\ session' = [session EXCEPT ![Alice] = Outbound(drawn)]
  /\ drawn' = drawn + 1
  /\ UNCHANGED <<drafts, disk, sent, encrypted>>

(* A pre-key message that decrypts; a refused one leaves no session.  The   *)
(* account still has the one-time key: it is pickled after the session.     *)
create_inbound(m) ==
  /\ session[Bob] = NoSession
  /\ m.prekey
  /\ Decrypts(Inbound(m), m)
  /\ session' = [session EXCEPT ![Bob] = Decrypted(Inbound(m), m)]
  /\ UNCHANGED <<drafts, disk, sent, drawn, encrypted>>

Heard(s) == Max({0} \cup {Len(m.chain) : m \in s.read})

MessageFrom(p, s) ==
  [from |-> p, chain |-> s.root, index |-> s.index, prekey |-> s.chains = <<>>,
   text |-> encrypted, heard |-> Heard(s)]

encrypt_sent(p) ==
  /\ session[p] # NoSession
  /\ encrypted < MaxMessages
  /\ session[p].active \/ drawn < MaxKeys
  /\ LET s == IF session[p].active THEN session[p] ELSE Activated(session[p], drawn)
     IN  /\ sent' = sent \cup {MessageFrom(p, s)}
         /\ session' = [session EXCEPT ![p] = [s EXCEPT !.index = @ + 1]]
  /\ drawn' = IF session[p].active THEN drawn ELSE drawn + 1
  /\ encrypted' = encrypted + 1
  /\ UNCHANGED <<drafts, disk>>

encrypt_chain_kept(p) ==
  /\ session[p] # NoSession
  /\ encrypted < MaxMessages
  /\ session[p].active \/ drawn < MaxKeys
  /\ LET s == IF session[p].active THEN session[p] ELSE Activated(session[p], drawn)
     IN  /\ drafts' = [drafts EXCEPT ![p] = @ \cup {MessageFrom(p, s)}]
         /\ session' = [session EXCEPT ![p] = s]
  /\ drawn' = IF session[p].active THEN drawn ELSE drawn + 1
  /\ encrypted' = encrypted + 1
  /\ UNCHANGED <<disk, sent>>

encrypt(p) ==
  /\ session[p] # NoSession
  /\ encrypted < MaxMessages
  /\ session[p].active \/ drawn < MaxKeys
  /\ LET s == IF session[p].active THEN session[p] ELSE Activated(session[p], drawn)
     IN  /\ drafts' = [drafts EXCEPT ![p] = @ \cup {MessageFrom(p, s)}]
         /\ session' = [session EXCEPT ![p] = [s EXCEPT !.index = @ + 1]]
  /\ drawn' = IF session[p].active THEN drawn ELSE drawn + 1
  /\ encrypted' = encrypted + 1
  /\ UNCHANGED <<disk, sent>>

decrypt(p, m) ==
  /\ session[p] # NoSession
  /\ \/ /\ Decrypts(session[p], m)
        /\ session' = [session EXCEPT ![p] = Decrypted(@, m)]
        /\ UNCHANGED drawn
     \/ /\ ~Decrypts(session[p], m)
        /\ IF Mutates(session[p], m)
             THEN /\ drawn < MaxKeys
                  /\ session' = [session EXCEPT ![p] = Activated(@, drawn)]
                  /\ drawn' = drawn + 1
             ELSE UNCHANGED <<session, drawn>>
  /\ UNCHANGED <<drafts, disk, sent, encrypted>>

(* The session is pickled; what was encrypted before may now be sent.       *)
session_pickle(p) ==
  /\ session[p] # NoSession
  /\ disk' = [disk EXCEPT ![p] = session[p]]
  /\ sent' = sent \cup drafts[p]
  /\ drafts' = [drafts EXCEPT ![p] = {}]
  /\ UNCHANGED <<session, drawn, encrypted>>

(* The process dies; the next one unpickles what there is.                  *)
session_unpickle(p) ==
  /\ session' = [session EXCEPT ![p] = disk[p]]
  /\ drafts' = [drafts EXCEPT ![p] = {}]
  /\ UNCHANGED <<disk, sent, drawn, encrypted>>

To(p) == {m \in sent : m.from = Peer(p)}

Next ==
  \/ create_outbound
  \/ \E m \in To(Bob) : create_inbound(m)
  \/ \E p \in Parties :
       \/ encrypt(p)
       \/ \E m \in To(p) \cup {StrayMessage(p)} : decrypt(p, m)
       \/ session_pickle(p)
       \/ session_unpickle(p)

Spec == Init /\ [][Next]_vars

-----------------------------------------------------------------------------

(* Types; the stores keep to their limits, no two receiver chains answer to *)
(* one ratchet key, and only keys behind a chain are kept for latecomers.   *)
SessionOK(s) ==
  /\ s \in Session
  /\ s.root # <<>>
  /\ Len(s.chains) <= MaxChains
  /\ ~s.active => s.chains # <<>> /\ s.index = 0
  /\ \A n \in DOMAIN s.chains :
       /\ Cardinality(s.chains[n].skipped) <= MaxSkipped
       /\ \A i \in s.chains[n].skipped : i < s.chains[n].next
       /\ \A k \in DOMAIN s.chains :
            Last(s.chains[n].chain) = Last(s.chains[k].chain) => n = k

TypeOK ==
  /\ \A p \in Parties : \A s \in {session[p], disk[p]} : s = NoSession \/ SessionOK(s)
  /\ \A p \in Parties : drafts[p] \subseteq Message
  /\ sent \subseteq Message
  /\ drawn \in 0 .. MaxKeys /\ encrypted \in 0 .. MaxMessages

(* No message key ever protects two plaintexts, though an end that dies     *)
(* goes on from a ratchet it had before (R/olm.R:72).                       *)
MessageKeyOnce ==
  \A m, n \in sent : m.chain = n.chain /\ m.index = n.index => m = n

(* A message a session has read is never read again.                        *)
ReadOnce ==
  \A p \in Parties : session[p] # NoSession =>
    \A m \in session[p].read : ~Decrypts(session[p], m)

(* The ratchets never part: all that was ever sent lies on one line of      *)
(* ratchet keys, drawn in turns, whatever was lost, refused or forgotten in *)
(* a crash; and each answer goes out on a newer ratchet than any its sender *)
(* has read from, so that every turn brings a fresh key into the session.   *)
OneConversation ==
  \A m, n \in sent :
    /\ IsPrefix(m.chain, n.chain) \/ IsPrefix(n.chain, m.chain)
    /\ (m.from = n.from) <=> (Len(m.chain) % 2 = Len(n.chain) % 2)
    /\ Len(m.chain) > m.heard

(* What a session gave up: chains followed by MaxChains newer ones, keys    *)
(* more than MaxSkipped behind, messages more than MaxGap ahead.            *)
FirstUnseen(s, chain) ==
  Max({0} \cup {m.index + 1 : m \in {r \in s.read : r.chain = chain}})

GivenUp(s, m) ==
  \/ Cardinality({n.chain : n \in {r \in s.read : Len(r.chain) > Len(m.chain)}}) >= MaxChains
  \/ m.index + MaxSkipped < FirstUnseen(s, m.chain)
  \/ m.index > FirstUnseen(s, m.chain) + MaxGap

(* Every message either end has sent and the other has not read can still   *)
(* be read there, in whatever order they come, after any crash and any      *)
(* refused message, unless it was given up for the limits.                  *)
UnreadStaysReadable ==
  \A p \in Parties : session[p] # NoSession =>
    \A m \in To(p) \ session[p].read : Decrypts(session[p], m) \/ GivenUp(session[p], m)

(* Alice leaves off the pre-key part only when Bob's session is on disk:    *)
(* no crash of Bob's makes her messages unreadable to him.                  *)
NormalMeansEstablished ==
  \A m \in sent : m.from = Alice /\ ~m.prekey => disk[Bob] # NoSession

(* The two ends see a conversation as in OlmPromise: whatever order messages *)
(* come in, whatever is refused or forgotten in a crash, each is read once,  *)
(* and what leaves answers what its sender will remember having read.        *)
ImplementsPromise == Promise!Spec

=============================================================================
