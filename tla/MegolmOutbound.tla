---------------------------- MODULE MegolmOutbound ----------------------------
(***************************************************************************)
(* The sender of a Megolm group session (src/rust/src/lib.rs 252-298): a   *)
(* ratchet that moves with every message, pickled to disk, lost with the   *)
(* process and unpickled by the next one.  The session key shared with the *)
(* room is the ratchet as it stands.  When to pickle is the client's       *)
(* choice, and the package asks for nothing (R/megolm.R 42-53): both the   *)
(* client that saves the ratchet before a key or a message made with it    *)
(* leaves the process and the one that saves whenever it likes are here.   *)
(***************************************************************************)
EXTENDS MegolmKeys

CONSTANT Texts   \* plaintexts, each encrypted at most once per process

NoPickle == -1   \* nothing saved yet

VARIABLES
  saveFirst,  \* the client's choice: is the ratchet saved before a session key
              \* or a message leaves?
  outbound,   \* the GroupSession in memory: how often its ratchet advanced
  disk,       \* its last pickle
  drafts,     \* ciphertexts made and not yet sent (volatile)
  sent,       \* ciphertexts in the room
  rewound     \* history: did a restart take the ratchet back behind a message
              \* or a key that had left?

outboundVars == <<saveFirst, outbound, disk, drafts, sent, rewound, keys>>

(* shared records which session keys had gone out when text was encrypted.  *)
Message == [index : 0 .. MaxIndex, text : Texts, shared : SUBSET (0 .. MaxIndex)]

outbound_new == outbound = 0

OutboundInit ==
  /\ saveFirst \in BOOLEAN
  /\ outbound_new
  /\ disk = NoPickle
  /\ drafts = {}
  /\ sent = {}
  /\ rewound = FALSE
  /\ keys = {}

(* mxc_megolm_outbound_info hands out the session key; the client ships it  *)
(* over Olm (ShareKeyUnsaved: whatever the client chose, it is not saved).  *)
ShareKeyUnsaved ==
  /\ outbound <= MaxIndex
  /\ keys' = keys \cup {outbound}
  /\ UNCHANGED <<saveFirst, outbound, disk, drafts, sent, rewound>>

ShareKey ==
  /\ outbound <= MaxIndex
  /\ saveFirst => disk = outbound
  /\ keys' = keys \cup {outbound}
  /\ UNCHANGED <<saveFirst, outbound, disk, drafts, sent, rewound>>

encrypt(text) ==
  /\ outbound <= MaxIndex
  /\ \A c \in drafts \cup sent : c.text # text
  /\ drafts' = drafts \cup {[index |-> outbound, text |-> text, shared |-> keys]}
  /\ outbound' = outbound + 1
  /\ UNCHANGED <<saveFirst, disk, sent, rewound, keys>>

outbound_pickle ==
  /\ disk' = outbound
  /\ UNCHANGED <<saveFirst, outbound, drafts, sent, rewound, keys>>

(* A ciphertext is posted.                                                  *)
Send(c) ==
  /\ saveFirst => disk > c.index
  /\ sent' = sent \cup {c}
  /\ drafts' = drafts \ {c}
  /\ UNCHANGED <<saveFirst, outbound, disk, rewound, keys>>

(* The process dies; the next one goes on from the pickle, if there is one. *)
BehindWhatLeft == (\E c \in sent : c.index >= disk) \/ (\E k \in keys : k > disk)

outbound_unpickle ==
  /\ disk # NoPickle
  /\ outbound' = disk
  /\ drafts' = {}
  /\ rewound' = (rewound \/ BehindWhatLeft)
  /\ UNCHANGED <<saveFirst, disk, sent, keys>>

OutboundNext ==
  \/ ShareKey
  \/ \E text \in Texts : encrypt(text)
  \/ outbound_pickle
  \/ \E c \in drafts : Send(c)
  \/ outbound_unpickle

OutboundSpec == OutboundInit /\ [][OutboundNext]_outboundVars

-----------------------------------------------------------------------------

(* Types; and the pickle is never ahead of the ratchet in memory.           *)
OutboundTypeOK ==
  /\ saveFirst \in BOOLEAN /\ rewound \in BOOLEAN
  /\ outbound \in 0 .. (MaxIndex + 1)
  /\ disk \in NoPickle .. outbound
  /\ drafts \cup sent \subseteq Message
  /\ keys \subseteq 0 .. MaxIndex

(* The clients the package keeps its promises to: those that save first,    *)
(* and of the others those that no restart has taken back.                  *)
Forward == saveFirst \/ ~rewound

(* No two messages of the room carry the same index, crashes and unpickled  *)
(* ratchets notwithstanding, and the integer R sees tells them apart, so    *)
(* message_index can be used to dedupe replays (R/megolm.R:125): saving     *)
(* first is enough for it, and short of that nothing but a restart from a   *)
(* pickle behind what left breaks it.                                       *)
IndexIdentifiesMessage ==
  Forward => \A c, d \in sent : AsRInteger(c.index) = AsRInteger(d.index) => c = d

(* Whoever was given a session key can read everything encrypted after it   *)
(* was shared: the ratchet is never again behind a shared key, under the    *)
(* same condition.                                                          *)
KeyCoversLaterMessages == Forward => \A c \in sent : \A k \in c.shared : k <= c.index

=============================================================================
