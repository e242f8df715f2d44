------------------------------ MODULE OlmPromise ------------------------------
(***************************************************************************)
(* What an Olm session promises its two ends, whatever ratchets and chains *)
(* it keeps inside.  An end reads what the other sent and nothing else.    *)
(* What it wrote leaves with its next pickle, no two messages under one    *)
(* key, and only when that pickle has what the message answers.  An end    *)
(* that dies goes on from its last pickle and forgets nothing else.        *)
(***************************************************************************)
EXTENDS Naturals, Sequences

CONSTANT Parties

VARIABLES
  sent,    \* the messages on the way, whoever wrote them
  read,    \* what each end has read
  saved    \* what it had read when it last pickled its session

vars == <<sent, read, saved>>

Init ==
  /\ sent = {}
  /\ read = [p \in Parties |-> {}]
  /\ saved = [p \in Parties |-> {}]

Read(p, m) ==
  /\ m \in sent /\ m.from # p
  /\ m \notin read[p]
  /\ read' = [read EXCEPT ![p] = @ \cup {m}]
  /\ UNCHANGED <<sent, saved>>

(* What a message answers is in S: its sender had read that far, and knew    *)
(* by then that the session stands at the other end, or sends the message as *)
(* one that starts it.                                                       *)
Answers(m, S) ==
  /\ m.heard = 0 \/ \E r \in S : Len(r.chain) = m.heard
  /\ m.prekey \/ S # {}

Pickle(p) ==
  /\ saved' = [saved EXCEPT ![p] = read[p]]
  /\ sent \subseteq sent'
  /\ \A m \in sent' \ sent :
       /\ m.from = p
       /\ Answers(m, read[p])
       /\ \A n \in sent' : m.chain = n.chain /\ m.index = n.index => m = n
  /\ UNCHANGED read

Restart(p) ==
  /\ read' = [read EXCEPT ![p] = saved[p]]
  /\ UNCHANGED <<sent, saved>>

Next ==
  \E p \in Parties :
    \/ \E m \in sent : Read(p, m)
    \/ Pickle(p)
    \/ Restart(p)

Spec == Init /\ [][Next]_vars
===============================================================================
