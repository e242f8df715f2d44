---------------------------- MODULE AccountPromise ----------------------------
(***************************************************************************)
(* What an Olm account promises its owner, whatever maps and ids it keeps  *)
(* inside.  A key is its number in the order of making.  One-time keys     *)
(* give way to younger ones only when the store is full, the oldest first, *)
(* and each opens one session; a fallback key opens any number, until the  *)
(* second one after it is made.                                            *)
(***************************************************************************)
EXTENDS Naturals, FiniteSets

CONSTANTS
  Limit,   \* one-time keys the store has room for
  None

VARIABLES
  made,       \* the keys made so far are those below made
  live,       \* the one-time keys that can still open a session
  pending,    \* the keys to be uploaded
  current,    \* the fallback key, and the one before it
  previous,
  used        \* the keys a session was opened with

vars == <<made, live, pending, current, previous, used>>

Init ==
  /\ made = 0
  /\ live = {} /\ pending = {} /\ used = {}
  /\ current = None /\ previous = None

(* The keys from made on, and those that had to give way to them.            *)
Generate ==
  LET new       == made .. (made' - 1)
      displaced == (live \cup new) \ live'
  IN  /\ made' >= made
      /\ live' \subseteq live \cup new
      /\ Cardinality(live') <= Limit
      /\ \A k \in displaced : Cardinality(live') = Limit /\ \A j \in live' : k < j
      /\ pending' = (pending \cup new) \ displaced
      /\ UNCHANGED <<current, previous, used>>

Publish ==
  /\ pending' = {}
  /\ UNCHANGED <<made, live, current, previous, used>>

Rotate ==
  /\ made' = made + 1
  /\ current' = made /\ previous' = current
  /\ pending' = (pending \ {current}) \cup {made}
  /\ UNCHANGED <<live, used>>

OpenOneTime(k) ==
  /\ k \in live
  /\ live' = live \ {k} /\ pending' = pending \ {k}
  /\ used' = used \cup {k}
  /\ UNCHANGED <<made, current, previous>>

OpenFallback(k) ==
  /\ k \in {current, previous} \ {None}
  /\ used' = used \cup {k}
  /\ UNCHANGED <<made, live, pending, current, previous>>

Next ==
  \/ Generate
  \/ Publish
  \/ Rotate
  \/ \E k \in live : OpenOneTime(k)
  \/ \E k \in {current, previous} : OpenFallback(k)

Spec == Init /\ [][Next]_vars
===============================================================================
