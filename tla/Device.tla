-------------------------------- MODULE Device --------------------------------
(***************************************************************************)
(* A device over the life of several R processes: the Account of           *)
(* Account.tla in memory, its last pickle on disk, the homeserver that     *)
(* hands its public keys to peers, and the peers' pre-key messages.  The   *)
(* device follows the documented routine (R/account.R, e2e_demo.R):        *)
(* generate, pickle, upload what is pending, mark it published, pickle.    *)
(* The pickle is the account and nothing else: the public half of a new    *)
(* fallback key is what mxc_account_fallback_key returned and no other     *)
(* function returns it, so it dies with the process.                       *)
(* The process may die between any two steps, an upload's answer may be    *)
(* lost, and messages arrive late, repeatedly, in any order or never.      *)
(* After an inbound session two pickles are due.  The package leaves their *)
(* order to the client, so both orders are modelled, each with what it     *)
(* guarantees.                                                             *)
(***************************************************************************)
EXTENDS Naturals, FiniteSets

CONSTANTS
  MaxOneTimeKeys, MaxFresh, MaxBatch, NoKey,   \* as in Account
  MaxMessages,    \* bound: pre-key messages sent by peers
  MaxCrashes      \* bound: crashes

ASSUME DeviceBoundAssumption == MaxMessages \in Nat /\ MaxCrashes \in Nat
ASSUME StoreAssumption ==
  /\ MaxOneTimeKeys \in Nat \ {0}
  /\ MaxFresh \in Nat /\ MaxBatch \in Nat
  /\ NoKey \notin Nat

VARIABLES
  accountFirst,             \* the client's order after an inbound session: is
                            \* the account or the session pickled first?
  account, fresh, opened,   \* as in Account; account is volatile
  up,         \* is the R process alive
  pc,         \* where the publishing routine stands (volatile)
  returned,   \* what mxc_account_fallback_key returned, until uploaded (volatile)
  sessions,   \* inbound sessions in memory (volatile)
  disk,       \* the last account pickle
  saved,      \* session pickles on disk
  server,     \* the public keys the homeserver holds
  uploaded,   \* history: every one-time key it was ever given
  sent,       \* pre-key messages peers have sent
  lost,       \* history: the rotations in the pickle, since the homeserver's
              \* key, whose public half died with its process
  crashes

accountVars == <<account, fresh, opened>>
clientVars == <<up, pc, returned, sessions>>
peerVars == <<server, uploaded, sent>>
vars == <<accountFirst, accountVars, clientVars, disk, saved, peerVars, lost, crashes>>

Acc == INSTANCE Account

(* The era in which a session was opened tells two sessions from one        *)
(* message apart.                                                           *)
Message == [n : 1 .. MaxMessages, key : 0 .. MaxFresh, fallback : BOOLEAN]
Session == [msg : Message, era : 0 .. MaxCrashes]

Init ==
  /\ accountFirst \in BOOLEAN
  /\ Acc!Init
  /\ up = TRUE
  /\ pc = "idle"
  /\ returned = NoKey
  /\ sessions = {}
  /\ disk = Acc!NewAccount
  /\ saved = {}
  /\ server = [oneTime |-> {}, fallback |-> NoKey]
  /\ uploaded = {}
  /\ sent = {}
  /\ lost = 0
  /\ crashes = 0

-----------------------------------------------------------------------------
(* The publishing routine.                                                   *)

GenerateNoPickle(n) ==
  /\ up /\ pc = "idle"
  /\ Acc!generate_one_time_keys(n)
  /\ pc' = "saved"
  /\ UNCHANGED <<accountFirst, up, returned, sessions, disk, saved, peerVars, lost, crashes>>

GenerateAnyTime(n) ==
  /\ up
  /\ Acc!generate_one_time_keys(n)
  /\ pc' = IF pc = "idle" THEN "made" ELSE pc
  /\ UNCHANGED <<accountFirst, up, returned, sessions, disk, saved, peerVars, lost, crashes>>

Generate(n) ==
  /\ up /\ pc = "idle"
  /\ Acc!generate_one_time_keys(n)
  /\ pc' = "made"
  /\ UNCHANGED <<accountFirst, up, returned, sessions, disk, saved, peerVars, lost, crashes>>

Rotate ==
  /\ up /\ pc = "idle"
  /\ Acc!fallback_key
  /\ returned' = account'.fallback
  /\ pc' = "made"
  /\ UNCHANGED <<accountFirst, up, sessions, disk, saved, peerVars, lost, crashes>>

(* mxc_account_pickle and a write of the blob.  It may come at any time the  *)
(* account has changed, and the routine waits for it after a generation and *)
(* after marking.  When sessions are pickled first, it waits for them.       *)
SaveAccountNoWait ==
  /\ up
  /\ pc \in {"made", "marked"} \/ disk # account
  /\ disk' = account
  /\ pc' = CASE pc = "made" -> "saved"
             [] pc = "marked" -> "idle"
             [] OTHER -> pc
  /\ UNCHANGED <<accountFirst, accountVars, up, returned, sessions, saved, peerVars, lost, crashes>>

SaveAccount ==
  /\ up
  /\ pc \in {"made", "marked"} \/ disk # account
  /\ accountFirst \/ sessions \subseteq saved
  /\ disk' = account
  /\ pc' = CASE pc = "made" -> "saved"
             [] pc = "marked" -> "idle"
             [] OTHER -> pc
  /\ UNCHANGED <<accountFirst, accountVars, up, returned, sessions, saved, peerVars, lost, crashes>>

(* /keys/upload of what mxc_account_one_time_keys lists and of the fallback  *)
(* key.  The server keeps a key it already holds under the same id.  An      *)
(* answer that does not arrive leaves the client where it was.               *)
Upload(answered) ==
  /\ up /\ pc = "saved"
  /\ server' = [oneTime |-> server.oneTime \cup Acc!one_time_keys,
                fallback |-> IF returned = NoKey THEN server.fallback ELSE returned]
  /\ uploaded' = uploaded \cup Acc!one_time_keys
  /\ lost' = IF returned = NoKey THEN lost ELSE 0
  /\ pc' = IF answered THEN "accepted" ELSE pc
  /\ UNCHANGED <<accountFirst, accountVars, up, returned, sessions, disk, saved, sent, crashes>>

MarkPublished ==
  /\ up /\ pc = "accepted"
  /\ Acc!mark_published
  /\ returned' = NoKey
  /\ pc' = "marked"
  /\ UNCHANGED <<accountFirst, up, sessions, disk, saved, peerVars, lost, crashes>>

-----------------------------------------------------------------------------
(* Inbound sessions.                                                         *)

(* mxc_olm_create_inbound on a message that may have been delivered before.  *)
Receive(m) ==
  LET prekey == [key |-> m.key, sameIdentity |-> TRUE, decrypts |-> TRUE]
  IN  /\ up
      /\ Acc!Opens(account, prekey)
      /\ Acc!create_inbound(prekey)
      /\ sessions' = sessions \cup {[msg |-> m, era |-> crashes]}
      /\ UNCHANGED <<accountFirst, up, pc, returned, disk, saved, peerVars, lost, crashes>>

(* mxc_olm_session_pickle and a write of the blob.                           *)
SaveSessionNoWait(s) ==
  /\ up
  /\ s \in sessions \ saved
  /\ saved' = saved \cup {s}
  /\ UNCHANGED <<accountFirst, accountVars, clientVars, disk, peerVars, lost, crashes>>

SaveSession(s) ==
  /\ up
  /\ s \in sessions \ saved
  /\ accountFirst => disk = account
  /\ saved' = saved \cup {s}
  /\ UNCHANGED <<accountFirst, accountVars, clientVars, disk, peerVars, lost, crashes>>

-----------------------------------------------------------------------------
(* The process dies; a new one unpickles the account and resumes with the    *)
(* one-time keys still pending.                                              *)

Crash ==
  /\ up
  /\ crashes < MaxCrashes
  /\ crashes' = crashes + 1
  /\ up' = FALSE
  /\ account' = Acc!NewAccount
  /\ pc' = "idle"
  /\ returned' = NoKey
  /\ sessions' = {}
  /\ lost' = IF returned = disk.fallback /\ returned \notin {NoKey, server.fallback}
             THEN lost + 1 ELSE lost
  /\ UNCHANGED <<accountFirst, fresh, opened, disk, saved, peerVars>>

RestartAt(next) ==
  /\ ~up
  /\ up' = TRUE
  /\ account' = disk
  /\ pc' = next
  /\ UNCHANGED <<accountFirst, fresh, opened, returned, sessions, disk, saved,
                 peerVars, lost, crashes>>

RestartIdle == RestartAt("idle")

Restart == RestartAt(IF disk.unpublished # {} THEN "saved" ELSE "idle")

-----------------------------------------------------------------------------
(* The homeserver and the peers.                                             *)

(* A peer claims a key, one-time keys first, and sends a pre-key message.    *)
Claim(n) ==
  /\ \A m \in sent : m.n # n
  /\ \/ \E k \in server.oneTime :
          /\ server' = [server EXCEPT !.oneTime = @ \ {k}]
          /\ sent' = sent \cup {[n |-> n, key |-> k.key, fallback |-> FALSE]}
     \/ /\ server.oneTime = {} /\ server.fallback # NoKey
        /\ sent' = sent \cup {[n |-> n, key |-> server.fallback, fallback |-> TRUE]}
        /\ UNCHANGED server
  /\ UNCHANGED <<accountFirst, accountVars, clientVars, disk, saved, uploaded, lost, crashes>>

Next ==
  \/ \E n \in 1 .. MaxBatch : Generate(n)
  \/ Rotate
  \/ SaveAccount
  \/ \E answered \in BOOLEAN : Upload(answered)
  \/ MarkPublished
  \/ \E m \in sent : Receive(m)
  \/ \E s \in sessions : SaveSession(s)
  \/ Crash
  \/ Restart
  \/ \E n \in 1 .. MaxMessages : Claim(n)

Spec == Init /\ [][Next]_vars

(* A script runs on to its end and is restarted when it dies; an upload is   *)
(* repeated until it is answered.  Peers owe nothing.                        *)
Fairness ==
  /\ WF_vars(SaveAccount)
  /\ WF_vars(Upload(TRUE))
  /\ WF_vars(MarkPublished)
  /\ WF_vars(Restart)
  /\ \A n \in 1 .. MaxMessages :
       /\ WF_vars(\E m \in sent : m.n = n /\ Receive(m))
       /\ WF_vars(\E s \in sessions : s.msg.n = n /\ SaveSession(s))

FairSpec == Spec /\ Fairness

-----------------------------------------------------------------------------

(* Types; and while the process is down nothing volatile is left of it, and *)
(* a fallback key waiting for upload is the account's current one.          *)
TypeOK ==
  /\ account \in Acc!AccountState
  /\ disk \in Acc!AccountState
  /\ up \in BOOLEAN
  /\ pc \in {"idle", "made", "saved", "accepted", "marked"}
  /\ {returned, server.fallback} \subseteq (0 .. MaxFresh) \cup {NoKey}
  /\ sessions \cup saved \subseteq Session
  /\ ~up => account = Acc!NewAccount /\ pc = "idle" /\ sessions = {} /\ returned = NoKey
  /\ returned # NoKey => returned = account.fallback
  /\ sent \subseteq Message
  /\ lost \in 0 .. MaxCrashes

Evicted(k) == k.id + MaxOneTimeKeys < disk.nextKeyId

(* A public key the homeserver can still hand out for the first time has    *)
(* its secret half in the pickle on disk, whatever crashes come, unless     *)
(* MaxOneTimeKeys younger keys have displaced it.                           *)
NoOrphanedKey ==
  \A k \in server.oneTime :
    \/ k \in disk.private
    \/ \E m \in sent : m.key = k.key
    \/ Evicted(k)

(* The fallback key the homeserver hands out is one the pickle can answer   *)
(* for, in the middle of a rotation too, since a rotation keeps the key     *)
(* before it.  A rotation whose public half died with the process has used  *)
(* up that one key: the pickle answers until the client rotates again.      *)
FallbackReachable ==
  (server.fallback # NoKey /\ (lost = 0 \/ (lost = 1 /\ returned = NoKey))) =>
    server.fallback \in {disk.fallback, disk.previous}

(* A restart takes the key ids back to the pickle's counter, yet the        *)
(* homeserver is never given two different keys under one id.               *)
IdsNeverReused == \A j, k \in uploaded : j.id = k.id => j = k

(* A key that is no longer pending was accepted by the homeserver: marking  *)
(* (R/account.R:93, which marks all that is pending) never hides a key that *)
(* was not in the upload.                                                   *)
PublishedWasUploaded ==
  /\ account.private \ account.unpublished \subseteq uploaded
  /\ disk.private \ disk.unpublished \subseteq uploaded

(* Account first: at most one session per one-time key ever reaches disk,   *)
(* however often its message is delivered and wherever the process dies.    *)
OneDurableSession ==
  accountFirst => \A s, t \in saved :
    (s.msg.key = t.msg.key /\ ~s.msg.fallback) => s = t

(* Session first: a one-time key is gone from the pickle only if the        *)
(* session it opened is on disk, or younger keys displaced it, so the       *)
(* pre-key message that used it stays readable.                             *)
NoSessionLost ==
  ~accountFirst =>
    \A k \in uploaded :
      \/ k \in disk.private
      \/ \E s \in saved : s.msg.key = k.key
      \/ Evicted(k)

(* The one-time keys pending in the pickle are eventually published, lost   *)
(* answers and crashes notwithstanding.                                     *)
PendingGetsPublished == disk.unpublished # {} ~> disk.unpublished = {}

(* Session first: a message built with a one-time key eventually has its    *)
(* own session on disk, unless younger keys displaced the key, or the       *)
(* homeserver handed the key out a second time (an upload was repeated) and *)
(* the session is that of the other message.                                *)
MessageGetsSession ==
  \A n \in 1 .. MaxMessages :
    (~accountFirst /\ \E m \in sent : m.n = n /\ ~m.fallback) ~>
      \E m \in sent :
        /\ m.n = n
        /\ \/ \E s \in saved : s.msg = m
           \/ \E k \in uploaded : k.key = m.key /\ Evicted(k)
           \/ \E o \in sent \ {m} : o.key = m.key /\ \E s \in saved : s.msg = o

=============================================================================
