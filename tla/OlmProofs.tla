------------------------------ MODULE OlmProofs ------------------------------
(***************************************************************************)
(* Theorems about Olm.tla for any limits and any number of messages, keys  *)
(* and crashes.                                                            *)
(***************************************************************************)
EXTENDS Olm, FiniteSetTheorems, WellFoundedInduction, TLAPS

(* c is the beginning of d: IsPrefix, key by key.                            *)
Under(c, d) == Len(c) <= Len(d) /\ \A i \in 1 .. Len(c) : c[i] = d[i]

(* Alice's ratchets are the odd ones of a chain, Bob's the even ones.        *)
Turn(p) == IF p = Alice THEN 1 ELSE 0

(* A line of ratchet keys: each drawn after the ones before it, and none of  *)
(* them after d.                                                             *)
Line(c, d) ==
  /\ c \in Chain /\ c # <<>>
  /\ \A i \in 1 .. Len(c) : c[i] < d
  /\ \A i, j \in 1 .. Len(c) : i < j => c[i] < c[j]

(* How much of its root a session has in common with its peer.               *)
Shared(s) == IF s.active THEN Len(s.root) - 1 ELSE Len(s.root)

(* The first n keys of c came with a message of p's.                         *)
CameFrom(p, c, n, M) ==
  n = 0 \/ \E m \in M : m.from = p /\ Len(m.chain) = n /\ Under(m.chain, c)

Root(p, s, M, d) ==
  /\ Line(s.root, d)
  /\ s.active <=> Len(s.root) % 2 = Turn(p)
  /\ CameFrom(Peer(p), s.root, Shared(s), M)

(* The receiver chains are those of the peer's last turns.  None is missing  *)
(* while there is room.                                                      *)
Chains(p, s) ==
  /\ \A n \in DOMAIN s.chains :
       /\ Under(s.chains[n].chain, s.root)
       /\ Len(s.chains[n].chain) = Shared(s) - 2 * (Len(s.chains) - n)
       /\ Len(s.chains[n].chain) > 0
  /\ Len(s.chains) < MaxChains => 2 * Len(s.chains) = Shared(s) + 1 - Turn(p)

(* What was read is the peer's and lies on the root; a message key that was  *)
(* used is gone from its chain.                                              *)
Spent(p, s, M) ==
  /\ IsFiniteSet(s.read)
  /\ \A r \in s.read :
       /\ r \in M /\ r.from = Peer(p) /\ Under(r.chain, s.root)
       /\ \A n \in DOMAIN s.chains : s.chains[n].chain = r.chain =>
            r.index < s.chains[n].next /\ r.index \notin s.chains[n].skipped

(* A key behind its chain was used, is kept, or is too old.                  *)
Kept(s) ==
  \A n \in DOMAIN s.chains :
    LET c == s.chains[n]
    IN  /\ \E r \in s.read : r.chain = c.chain /\ r.index + 1 = c.next
        /\ \A i \in 0 .. (c.next - 1) :
             \/ i \in c.skipped
             \/ \E r \in s.read : r.chain = c.chain /\ r.index = i
             \/ i + MaxSkipped < c.next

SessionInv(p, s, M, d) ==
  /\ SessionOK(s)
  /\ \A n \in DOMAIN s.chains : IsFiniteSet(s.chains[n].skipped)
  /\ Root(p, s, M, d)
  /\ Chains(p, s)
  /\ Spent(p, s, M)
  /\ Kept(s)

MessageInv(p, m, M, d) ==
  /\ m \in Message /\ m.from = p
  /\ Line(m.chain, d)
  /\ Len(m.chain) % 2 = Turn(p)
  /\ CameFrom(Peer(p), m.chain, Len(m.chain) - 1, M)
  /\ m.prekey <=> Len(m.chain) = 1
  /\ m.heard < Len(m.chain)

(* A session s of p's is ahead of the messages in M: they lie on its root,   *)
(* and those of its sending chain before its index.                          *)
Ahead(p, s, M) ==
  \A m \in M : m.from = p =>
    /\ s # NoSession
    /\ Under(m.chain, s.root)
    /\ s.active /\ m.chain = s.root => m.index < s.index

(* p has used every message key once.                                        *)
Once(p, M) ==
  \A m, n \in M :
    m.from = p /\ n.from = p /\ m.chain = n.chain /\ m.index = n.index => m = n

(* One end: its session s, its pickle t and its drafts D.  Both are ahead of *)
(* what was sent, and s of the drafts as well: an end that dies goes on from *)
(* t without them.                                                           *)
PartyInv(p, s, t, D, M, d) ==
  /\ s # NoSession => SessionInv(p, s, M, d)
  /\ t # NoSession => SessionInv(p, t, M, d)
  /\ \A m \in D : MessageInv(p, m, M, d)
  /\ Ahead(p, s, M \cup D)
  /\ Ahead(p, t, M)
  /\ Once(p, M \cup D)

IInv ==
  /\ session \in [Parties -> Session \cup {NoSession}]
  /\ disk \in [Parties -> Session \cup {NoSession}]
  /\ drafts \in [Parties -> SUBSET Message]
  /\ drawn \in 0 .. MaxKeys /\ encrypted \in 0 .. MaxMessages
  /\ \A p \in Parties : PartyInv(p, session[p], disk[p], drafts[p], sent, drawn)
  /\ \A m \in sent : \E p \in Parties : MessageInv(p, m, sent, drawn)

-----------------------------------------------------------------------------
(* Lines of ratchet keys.                                                    *)

LEMMA KeysAreNumbers ==
  ASSUME NEW c \in Chain, NEW i \in 1 .. Len(c)
  PROVE  c[i] \in Nat
<1>1. c[i] \in Key
  BY DEF Chain
<1> QED BY <1>1, BoundsAssumption DEF Key

LEMMA UnderTrans ==
  ASSUME NEW b \in Chain, NEW c \in Chain, NEW d \in Chain, Under(b, c), Under(c, d)
  PROVE  Under(b, d)
BY DEF Under, Chain

LEMMA UnderBoth ==
  ASSUME NEW b \in Chain, NEW c \in Chain, NEW d \in Chain, Under(b, d), Under(c, d),
         Len(b) <= Len(c)
  PROVE  Under(b, c)
BY DEF Under, Chain

LEMMA UnderEqual ==
  ASSUME NEW b \in Chain, NEW c \in Chain, Under(b, c), Len(b) = Len(c)
  PROVE  b = c
BY DEF Under, Chain

LEMMA UnderAppend ==
  ASSUME NEW b \in Chain, NEW c \in Chain, NEW k \in Key, Under(b, c)
  PROVE  Under(b, Append(c, k))
BY DEF Under, Chain

LEMMA UnderPrefix ==
  ASSUME NEW b \in Chain, NEW c \in Chain, Under(b, c)
  PROVE  IsPrefix(b, c)
<1>1. SubSeq(b, 1, Len(b)) = b
  BY DEF Chain
<1>2. SubSeq(c, 1, Len(b)) \in Seq(Key) /\ Len(SubSeq(c, 1, Len(b))) = Len(b)
      /\ \A i \in 1 .. Len(b) : SubSeq(c, 1, Len(b))[i] = c[i]
  BY DEF Under, Chain
<1>3. SubSeq(c, 1, Len(b)) = b
  BY <1>2 DEF Under, Chain
<1> QED BY <1>1, <1>3 DEF IsPrefix, Under

(* Two chains on one line with the same last key are one.                    *)
LEMMA LastTells ==
  ASSUME NEW b, NEW c, NEW d, Line(b, d), Line(c, d), Under(b, c) \/ Under(c, b),
         Last(b) = Last(c)
  PROVE  b = c
<1>1. b \in Chain /\ c \in Chain /\ Len(b) \in Nat \ {0} /\ Len(c) \in Nat \ {0}
  BY DEF Line, Chain
<1>2. ASSUME NEW x, NEW y, Line(x, d), Line(y, d), Under(x, y), Last(x) = Last(y)
      PROVE  Len(x) = Len(y)
  <2>1. x \in Chain /\ y \in Chain /\ Len(x) \in Nat \ {0} /\ Len(y) \in Nat \ {0}
    BY <1>2 DEF Line, Chain
  <2>2. x[Len(x)] = y[Len(x)] /\ Len(x) <= Len(y) /\ y[Len(x)] = y[Len(y)]
    BY <2>1, <1>2 DEF Under, Last
  <2>3. y[Len(x)] \in Nat
    BY <2>1, <2>2, KeysAreNumbers
  <2>4. ~ (Len(x) < Len(y))
    BY <2>1, <2>2, <2>3, <1>2 DEF Line
  <2> QED BY <2>1, <2>2, <2>4
<1>3. Len(b) = Len(c)
  BY <1>2
<1> QED BY <1>1, <1>3, UnderEqual

LEMMA LineAppend ==
  ASSUME NEW c, NEW d \in Nat, Line(c, d), d < MaxKeys
  PROVE  /\ Line(Append(c, d), d + 1)
         /\ Len(Append(c, d)) = Len(c) + 1
         /\ Append(c, d)[Len(c) + 1] = d
         /\ \A i \in 1 .. Len(c) : Append(c, d)[i] = c[i]
<1>1. c \in Seq(Key) /\ Len(c) \in Nat \ {0}
  BY DEF Line, Chain
<1>2. d \in Key
  BY BoundsAssumption DEF Key
<1>3. /\ Append(c, d) \in Seq(Key) /\ Append(c, d) # <<>>
      /\ Len(Append(c, d)) = Len(c) + 1
      /\ Append(c, d)[Len(c) + 1] = d
      /\ \A i \in 1 .. Len(c) : Append(c, d)[i] = c[i]
  BY <1>1, <1>2
<1>4. \A i \in 1 .. Len(c) : c[i] \in Nat
  BY KeysAreNumbers DEF Line
<1> HIDE DEF Key
<1>5. \A i \in 1 .. (Len(c) + 1) : Append(c, d)[i] < d + 1
  BY <1>1, <1>3, <1>4 DEF Line
<1>6. \A i, j \in 1 .. (Len(c) + 1) : i < j => Append(c, d)[i] < Append(c, d)[j]
  BY <1>1, <1>3, <1>4 DEF Line
<1> QED BY <1>3, <1>5, <1>6 DEF Line, Chain

LEMMA LineGrows ==
  ASSUME NEW c, NEW d \in Nat, NEW e \in Nat, d <= e, Line(c, d)
  PROVE  Line(c, e)
<1>1. \A i \in 1 .. Len(c) : c[i] \in Nat
  BY KeysAreNumbers DEF Line
<1> QED BY <1>1 DEF Line

-----------------------------------------------------------------------------
(* The two ends.                                                             *)

LEMMA PeerFacts ==
  ASSUME NEW p \in Parties
  PROVE  /\ Peer(p) \in Parties /\ Peer(p) # p /\ Peer(Peer(p)) = p
         /\ Turn(p) \in {0, 1} /\ Turn(Peer(p)) = 1 - Turn(p) /\ Turn(Peer(p)) # Turn(p)
BY PartiesAssumption DEF Parties, Peer, Turn

(* Each end has on its root what the other has sent, and all but its own     *)
(* last key came from the other: the shorter root is the beginning of the    *)
(* longer one.                                                               *)
LEMMA OneLine ==
  ASSUME NEW p \in Parties, NEW s, NEW t, NEW M, NEW d \in Nat,
         Root(p, s, M, d), Root(Peer(p), t, M, d),
         \A m \in M : m.from = p => Under(m.chain, s.root),
         \A m \in M : m.from = Peer(p) => Under(m.chain, t.root)
  PROVE  Under(s.root, t.root) \/ Under(t.root, s.root)
<1> DEFINE Agree(n) == /\ n <= Len(s.root) /\ n <= Len(t.root)
                       /\ \A i \in 1 .. n : s.root[i] = t.root[i]
<1>1. Len(s.root) \in Nat \ {0} /\ Len(t.root) \in Nat \ {0}
  BY DEF Root, Line, Chain
<1>2. Agree(Shared(t))
  <2>1. CameFrom(p, t.root, Shared(t), M)
    BY PeerFacts DEF Root
  <2>2. CASE Shared(t) = 0
    BY <2>2, <1>1
  <2>3. CASE \E m \in M : m.from = p /\ Len(m.chain) = Shared(t) /\ Under(m.chain, t.root)
    BY <2>3 DEF Under
  <2> QED BY <2>1, <2>2, <2>3 DEF CameFrom
<1>3. Agree(Shared(s))
  <2>1. CameFrom(Peer(p), s.root, Shared(s), M)
    BY DEF Root
  <2>2. CASE Shared(s) = 0
    BY <2>2, <1>1
  <2>3. CASE \E m \in M : m.from = Peer(p) /\ Len(m.chain) = Shared(s) /\ Under(m.chain, s.root)
    BY <2>3 DEF Under
  <2> QED BY <2>1, <2>2, <2>3 DEF CameFrom
<1>4. Agree(Len(s.root)) => Under(s.root, t.root)
  BY DEF Under
<1>5. Agree(Len(t.root)) => Under(t.root, s.root)
  BY DEF Under
<1>6. CASE ~ s.active
  BY <1>3, <1>4, <1>6 DEF Shared
<1>7. CASE ~ t.active
  BY <1>2, <1>5, <1>7 DEF Shared
<1>8. CASE s.active /\ t.active
  <2>1. Len(s.root) % 2 = Turn(p) /\ Len(t.root) % 2 = Turn(Peer(p))
    BY <1>8 DEF Root
  <2>2. Len(s.root) # Len(t.root)
    BY <2>1, PeerFacts
  <2>3. Shared(s) = Len(s.root) - 1 /\ Shared(t) = Len(t.root) - 1
    BY <1>8 DEF Shared
  <2>4. CASE Len(s.root) < Len(t.root)
    BY <2>3, <2>4, <1>1, <1>2, <1>4
  <2>5. CASE Len(t.root) < Len(s.root)
    BY <2>3, <2>5, <1>1, <1>3, <1>5
  <2> QED BY <2>2, <2>4, <2>5, <1>1
<1> QED BY <1>6, <1>7, <1>8

(* More messages and more keys take nothing back.                            *)
LEMMA SessionStays ==
  ASSUME NEW p, NEW s, NEW M, NEW N, NEW d \in Nat, NEW e \in Nat,
         SessionInv(p, s, M, d), M \subseteq N, d <= e
  PROVE  SessionInv(p, s, N, e)
<1>1. Root(p, s, N, e)
  BY LineGrows DEF SessionInv, Root, CameFrom
<1>2. Spent(p, s, N)
  BY DEF SessionInv, Spent
<1> QED BY <1>1, <1>2 DEF SessionInv

LEMMA MessageStays ==
  ASSUME NEW p, NEW m, NEW M, NEW N, NEW d \in Nat, NEW e \in Nat,
         MessageInv(p, m, M, d), M \subseteq N, d <= e
  PROVE  MessageInv(p, m, N, e)
BY LineGrows DEF MessageInv, CameFrom

LEMMA AheadStays ==
  ASSUME NEW p, NEW s, NEW M, NEW N, Ahead(p, s, M),
         \A m \in N : m.from = p => m \in M
  PROVE  Ahead(p, s, N)
BY DEF Ahead


-----------------------------------------------------------------------------
(* The stores of a session.                                                  *)

(* The number of newer keys tells the kept ones apart, and a key that is     *)
(* dropped has MaxSkipped newer ones between itself and the next.            *)
LEMMA NewestFacts ==
  ASSUME NEW S \in SUBSET Nat, IsFiniteSet(S)
  PROVE  /\ Newest(S) \subseteq S
         /\ IsFiniteSet(Newest(S))
         /\ Cardinality(Newest(S)) <= MaxSkipped
         /\ \A next \in Nat, i \in S \ Newest(S) :
              (\A j \in S : j < next) => i + MaxSkipped < next
<1> DEFINE newer(i) == {j \in S : j > i}
           rank == [i \in Newest(S) |-> Cardinality(newer(i))]
<1>0. \A i \in S : i \in Nat
  OBVIOUS
<1>1. \A i \in S : IsFiniteSet(newer(i)) /\ Cardinality(newer(i)) \in Nat
  <2> TAKE i \in S
  <2>1. IsFiniteSet(newer(i))
    BY FS_Subset, newer(i) \in SUBSET S
  <2> QED BY <2>1, FS_CardinalityType
<1>2. Newest(S) \subseteq S /\ IsFiniteSet(Newest(S))
  BY FS_Subset, Newest(S) \in SUBSET S DEF Newest
<1>3. rank \in [Newest(S) -> 0 .. (MaxSkipped - 1)]
  <2>1. \A i \in Newest(S) : Cardinality(newer(i)) \in Nat /\ Cardinality(newer(i)) < MaxSkipped
    BY <1>1, <1>2 DEF Newest
  <2> HIDE DEF newer
  <2> QED BY <2>1, LimitsAssumption
<1>4. \A i, j \in Newest(S) : rank[i] = rank[j] => i = j
  <2>1. ASSUME NEW i \in Newest(S), NEW j \in Newest(S), i > j
        PROVE  rank[i] # rank[j]
    <3>3. i \in S /\ j \in S
      BY <1>2
    <3>4. i \in Nat /\ j \in Nat
      BY <3>3
    <3>5. \A k \in S : k > i => k > j
      BY <3>4, <1>0, <2>1
    <3>6. ~ (i > i)
      BY <3>4
    <3>1. newer(i) \in SUBSET newer(j) /\ i \in newer(j) /\ i \notin newer(i)
      BY <3>3, <3>5, <3>6, <2>1
    <3>2. Cardinality(newer(i)) # Cardinality(newer(j))
      BY <1>1, <3>1, <3>3, FS_Subset
    <3> QED BY <3>2
  <2>2. SUFFICES ASSUME NEW i \in Newest(S), NEW j \in Newest(S), i # j
                 PROVE  rank[i] # rank[j]
    OBVIOUS
  <2>4. i \in S /\ j \in S
    BY <1>2
  <2>5. i \in Nat /\ j \in Nat
    BY <2>4
  <2>3. i > j \/ j > i
    BY <2>2, <2>5
  <2> QED BY <2>1, <2>3
<1>5. rank \in Injection(Newest(S), 0 .. (MaxSkipped - 1))
  BY <1>3, <1>4 DEF Injection, IsInjective
<1>6. IsFiniteSet(0 .. (MaxSkipped - 1)) /\ Cardinality(0 .. (MaxSkipped - 1)) = MaxSkipped
  BY FS_Interval, LimitsAssumption
<1>7. Cardinality(Newest(S)) <= MaxSkipped
  BY <1>5, <1>6, FS_Injection
<1>8. ASSUME NEW next \in Nat, NEW i \in S \ Newest(S), \A j \in S : j < next
      PROVE  i + MaxSkipped < next
  <2> DEFINE low == i + 1
             high == next - 1
  <2>1. Cardinality(newer(i)) >= MaxSkipped
    BY <1>1, LimitsAssumption DEF Newest
  <2>3. low \in Int /\ high \in Int /\ i \in Nat /\ i < next
    BY <1>0, <1>8
  <2>2. newer(i) \in SUBSET (low .. high)
    <3> SUFFICES ASSUME NEW j \in S, j > i PROVE j \in low .. high
      OBVIOUS
    <3>1. j \in Nat /\ j < next
      BY <1>0, <1>8
    <3> QED BY <2>3, <3>1
  <2> HIDE DEF low, high
  <2>4. IsFiniteSet(low .. high) /\ Cardinality(low .. high) = IF low > high THEN 0 ELSE high - low + 1
    BY <2>3, FS_Interval
  <2>5. Cardinality(newer(i)) <= Cardinality(low .. high)
    BY <2>2, <2>4, FS_Subset
  <2>6. Cardinality(newer(i)) \in Nat
    BY <1>1
  <2> HIDE DEF newer
  <2> QED BY <2>1, <2>2, <2>3, <2>4, <2>5, <2>6, LimitsAssumption DEF low, high
<1> QED BY <1>2, <1>7, <1>8

(* What a step of a receiver chain leaves.                                   *)
LEMMA StepFacts ==
  ASSUME NEW c \in ReceiverChain, NEW i \in Nat, IsFiniteSet(c.skipped),
         Cardinality(c.skipped) <= MaxSkipped, \A j \in c.skipped : j < c.next,
         i < c.next => i \in c.skipped
  PROVE  LET e == Step(c, i)
         IN  /\ e \in ReceiverChain /\ e.chain = c.chain
             /\ IsFiniteSet(e.skipped) /\ Cardinality(e.skipped) <= MaxSkipped
             /\ \A j \in e.skipped : j < e.next
             /\ i < e.next /\ i \notin e.skipped
             /\ c.next <= e.next
             /\ e.next = c.next \/ e.next = i + 1
             /\ \A j \in 0 .. (c.next - 1) : j \notin c.skipped => j \notin e.skipped
             /\ \A j \in 0 .. (e.next - 1) :
                  \/ j \in e.skipped
                  \/ j = i
                  \/ j + MaxSkipped < e.next
                  \/ j < c.next /\ j \notin c.skipped
<1> DEFINE e == Step(c, i)
<1>1. c.chain \in Chain /\ c.next \in Nat /\ c.skipped \in SUBSET Nat
  BY DEF ReceiverChain
<1>2. CASE i < c.next
  <2>1. e = [c EXCEPT !.skipped = c.skipped \ {i}]
    BY <1>2 DEF Step
  <2>2. e \in ReceiverChain /\ e.chain = c.chain /\ e.next = c.next /\ e.skipped = c.skipped \ {i}
    BY <1>1, <2>1 DEF ReceiverChain
  <2> HIDE DEF e
  <2>3. IsFiniteSet(e.skipped) /\ Cardinality(e.skipped) <= Cardinality(c.skipped)
    BY <2>2, FS_Subset, c.skipped \ {i} \in SUBSET c.skipped
  <2>4. Cardinality(e.skipped) \in Nat /\ Cardinality(c.skipped) \in Nat
    BY <2>3, FS_CardinalityType
  <2>5. Cardinality(e.skipped) <= MaxSkipped
    BY <2>3, <2>4, LimitsAssumption
  <2> QED BY <1>1, <1>2, <2>2, <2>3, <2>5 DEF e
<1>3. CASE ~ (i < c.next)
  <2> DEFINE late == {j \in c.next .. (i - 1) : i - j <= MaxSkipped}
             pool == c.skipped \cup late
  <2>1. e = [c EXCEPT !.next = i + 1, !.skipped = Newest(pool)]
    BY <1>3 DEF Step
  <2>2. late \in SUBSET (0 .. i)
    BY <1>1
  <2>3. IsFiniteSet(0 .. i)
    BY FS_Interval
  <2>4. IsFiniteSet(late)
    BY <2>2, <2>3, FS_Subset
  <2>11. IsFiniteSet(pool)
    <3> HIDE DEF late
    <3> QED BY <2>4, FS_Union
  <2>12. pool \in SUBSET Nat
    BY <1>1, <2>2
  <2>5. \A j \in pool : j < i
    BY <1>1, <1>3
  <2>6. /\ Newest(pool) \subseteq pool /\ IsFiniteSet(Newest(pool))
        /\ Cardinality(Newest(pool)) <= MaxSkipped
        /\ \A j \in pool \ Newest(pool) : j + MaxSkipped < i
    <3> HIDE DEF pool
    <3> QED BY <2>5, <2>11, <2>12, NewestFacts
  <2> DEFINE kept == Newest(pool)
  <2> HIDE DEF kept
  <2>7. kept \in SUBSET Nat
    BY <2>6, <2>12 DEF kept
  <2>8. /\ e \in ReceiverChain /\ e.chain = c.chain /\ e.next = i + 1
        /\ e.skipped = kept
    <3>1. e = [c EXCEPT !.next = i + 1, !.skipped = kept]
      BY <2>1 DEF kept
    <3>2. c = [chain |-> c.chain, next |-> c.next, skipped |-> c.skipped]
      BY DEF ReceiverChain
    <3>3. e = [chain |-> c.chain, next |-> i + 1, skipped |-> kept]
      BY <3>1, <3>2
    <3>4. i + 1 \in Nat
      OBVIOUS
    <3> HIDE DEF e
    <3> QED BY <1>1, <3>3, <3>4, <2>7 DEF ReceiverChain
  <2>9. \A j \in 0 .. i : j \in kept \/ j = i \/ j + MaxSkipped < i + 1 \/ (j < c.next /\ j \notin c.skipped)
    <3> TAKE j \in 0 .. i
    <3>1. CASE j \in pool
      BY <3>1, <2>6, LimitsAssumption DEF kept
    <3>2. CASE j \notin pool /\ j >= c.next
      BY <3>2, <1>1, LimitsAssumption
    <3>3. CASE j \notin pool /\ j < c.next
      BY <3>3, <1>1
    <3> QED BY <3>1, <3>2, <3>3, <1>1
  <2>10. \A j \in kept : j < i /\ (j < c.next => j \in c.skipped)
    BY <2>5, <2>6, <1>1 DEF kept
  <2> HIDE DEF e, pool, late
  <2>13. IsFiniteSet(kept) /\ Cardinality(kept) <= MaxSkipped
    BY <2>6 DEF kept
  <2>14. (e.chain = c.chain /\ e.next = i + 1 /\ i < e.next /\ c.next <= e.next)
         /\ i \notin e.skipped /\ \A j \in e.skipped : j < e.next
    <3>1. i < i + 1 /\ c.next <= i + 1
      BY <1>1, <1>3
    <3>2. \A j \in kept : j < i + 1
      BY <2>7, <2>10
    <3> QED BY <2>8, <2>10, <3>1, <3>2, <1>1, <1>3
  <2>15. \A j \in 0 .. (c.next - 1) : j \notin c.skipped => j \notin e.skipped
    BY <1>1, <2>8, <2>10
  <2>16. \A j \in 0 .. (e.next - 1) :
           j \in e.skipped \/ j = i \/ j + MaxSkipped < e.next \/ (j < c.next /\ j \notin c.skipped)
    BY <2>8, <2>9
  <2> QED BY <2>8, <2>13, <2>14, <2>15, <2>16 DEF e
<1> QED BY <1>1, <1>2, <1>3


-----------------------------------------------------------------------------
(* Sessions that are made, activated and used to encrypt.                    *)

LEMMA Parity ==
  ASSUME NEW n \in Nat
  PROVE  n % 2 \in {0, 1} /\ (n + 1) % 2 = 1 - (n % 2) /\ (n + 2) % 2 = n % 2
OBVIOUS

LEMMA Flips ==
  ASSUME NEW n \in Nat, NEW b \in {0, 1}
  PROVE  n % 2 # b <=> (n + 1) % 2 = b
OBVIOUS

LEMMA SessionFacts ==
  ASSUME NEW s \in Session
  PROVE  /\ s.root \in Chain /\ s.active \in BOOLEAN /\ s.index \in Nat
         /\ s.chains \in Seq(ReceiverChain) /\ s.read \in SUBSET Message
         /\ Len(s.root) \in Nat /\ Len(s.chains) \in Nat
         /\ DOMAIN s.chains = 1 .. Len(s.chains)
         /\ \A n \in DOMAIN s.chains :
              /\ s.chains[n] \in ReceiverChain /\ s.chains[n].chain \in Chain
              /\ s.chains[n].next \in Nat /\ s.chains[n].skipped \in SUBSET Nat
<1>1. /\ s.root \in Chain /\ s.active \in BOOLEAN /\ s.index \in Nat
      /\ s.chains \in Seq(ReceiverChain) /\ s.read \in SUBSET Message
  BY DEF Session
<1>2. Len(s.root) \in Nat /\ Len(s.chains) \in Nat
  BY <1>1 DEF Chain
<1>3. /\ DOMAIN s.chains = 1 .. Len(s.chains)
      /\ \A n \in DOMAIN s.chains : s.chains[n] \in ReceiverChain
  BY <1>1
<1> QED BY <1>1, <1>2, <1>3 DEF ReceiverChain

(* A session with the stores of s, on a root that goes on from that of s.     *)
LEMMA SameStores ==
  ASSUME NEW p \in Parties, NEW s, NEW t \in Session, NEW M \in SUBSET Message,
         NEW d \in Nat, NEW e \in Nat, d <= e,
         SessionInv(p, s, M, d),
         t.chains = s.chains, t.read = s.read, Shared(t) = Shared(s),
         Under(s.root, t.root), Line(t.root, e),
         t.active <=> Len(t.root) % 2 = Turn(p),
         ~t.active => t.chains # <<>> /\ t.index = 0
  PROVE  SessionInv(p, t, M, e)
<1>1. s \in Session /\ t.root \in Chain
  BY DEF SessionInv, SessionOK, Line
<1>2. SessionOK(t)
  BY DEF SessionInv, SessionOK, Line
<1>3. \A m \in M : m.chain \in Chain /\ (Under(m.chain, s.root) => Under(m.chain, t.root))
  <2> TAKE m \in M
  <2>1. m.chain \in Chain
    BY DEF Message
  <2> QED BY <2>1, <1>1, SessionFacts, UnderTrans
<1>4. Root(p, t, M, e)
  BY <1>3 DEF SessionInv, Root, CameFrom
<1>5. \A n \in DOMAIN s.chains : Under(s.chains[n].chain, t.root)
  <2> TAKE n \in DOMAIN s.chains
  <2>1. s.chains[n].chain \in Chain /\ Under(s.chains[n].chain, s.root)
    BY <1>1, SessionFacts DEF SessionInv, Chains
  <2> QED BY <2>1, <1>1, SessionFacts, UnderTrans
<1>6. Chains(p, t)
  BY <1>5 DEF SessionInv, Chains
<1>7. Spent(p, t, M)
  BY <1>3 DEF SessionInv, Spent
<1>8. Kept(t)
  BY DEF SessionInv, Kept
<1> QED BY <1>2, <1>4, <1>6, <1>7, <1>8 DEF SessionInv

LEMMA OutboundInv ==
  ASSUME NEW M, NEW d \in Nat, d < MaxKeys
  PROVE  SessionInv(Alice, Outbound(d), M, d + 1)
<1> DEFINE s == Outbound(d)
<1>1. /\ s.root = <<d>> /\ s.active = TRUE /\ s.index = 0
      /\ s.chains = <<>> /\ s.read = {}
  BY DEF Outbound
<1>2. d \in Key
  BY BoundsAssumption DEF Key
<1>3. <<d>> \in Chain /\ <<d>> # <<>> /\ Len(<<d>>) = 1 /\ <<d>>[1] = d
  BY <1>2 DEF Chain
<1>4. s \in Session
  <2>1. <<>> \in Seq(ReceiverChain) /\ {} \in SUBSET Message
    OBVIOUS
  <2> QED BY <1>3, <2>1 DEF Outbound, Session
<1>5. Len(s.chains) = 0 /\ DOMAIN s.chains = {}
  BY <1>1
<1>6. IsFiniteSet(s.read)
  BY <1>1, FS_EmptySet
<1> HIDE DEF s
<1>7. Line(s.root, d + 1)
  <2>1. 1 .. Len(s.root) = {1}
    BY <1>1, <1>3
  <2>2. d < d + 1
    OBVIOUS
  <2> QED BY <1>1, <1>3, <2>1, <2>2 DEF Line
<1>8. SessionOK(s)
  BY <1>1, <1>3, <1>4, <1>5, LimitsAssumption DEF SessionOK
<1>9. Shared(s) = 0 /\ Turn(Alice) = 1
  BY <1>1, <1>3 DEF Shared, Turn
<1>10. Root(Alice, s, M, d + 1)
  BY <1>1, <1>3, <1>7, <1>9 DEF Root, CameFrom
<1>11. Chains(Alice, s)
  BY <1>5, <1>9 DEF Chains
<1>12. Spent(Alice, s, M)
  BY <1>1, <1>6 DEF Spent
<1>13. Kept(s)
  BY <1>5 DEF Kept
<1> QED BY <1>5, <1>8, <1>10, <1>11, <1>12, <1>13 DEF SessionInv, s

LEMMA ActivatedInv ==
  ASSUME NEW p \in Parties, NEW s, NEW M \in SUBSET Message, NEW d \in Nat,
         SessionInv(p, s, M, d), ~s.active, d < MaxKeys
  PROVE  LET t == Activated(s, d)
         IN  /\ SessionInv(p, t, M, d + 1)
             /\ t.active /\ t.index = 0 /\ t.root = Append(s.root, d)
             /\ t.chains = s.chains /\ t.read = s.read
             /\ Under(s.root, t.root) /\ ~ Line(t.root, d)
<1> DEFINE t == Activated(s, d)
<1>1. s \in Session
  BY DEF SessionInv, SessionOK
<1>2. Line(s.root, d) /\ s.root \in Chain /\ Len(s.root) \in Nat
  BY <1>1, SessionFacts DEF SessionInv, Root
<1>3. /\ Line(Append(s.root, d), d + 1)
      /\ Len(Append(s.root, d)) = Len(s.root) + 1
      /\ Append(s.root, d)[Len(s.root) + 1] = d
      /\ \A i \in 1 .. Len(s.root) : Append(s.root, d)[i] = s.root[i]
  BY <1>2, LineAppend
<1> DEFINE root == Append(s.root, d)
<1> HIDE DEF root
<1>4. root \in Chain
  BY <1>3 DEF Line, root
<1>5. /\ t \in Session
      /\ t.root = root /\ t.active = TRUE /\ t.index = 0
      /\ t.chains = s.chains /\ t.read = s.read
  <2>1. t = [s EXCEPT !.root = root, !.active = TRUE, !.index = 0]
    BY DEF Activated, root
  <2> HIDE DEF t
  <2> QED BY <1>1, <1>4, <2>1 DEF Session
<1> HIDE DEF t
<1>6. Under(s.root, root)
  BY <1>2, <1>3 DEF Under, root
<1>7. ~ Line(root, d)
  <2>1. Len(s.root) + 1 \in 1 .. Len(root) /\ root[Len(s.root) + 1] = d /\ ~ (d < d)
    BY <1>2, <1>3 DEF root
  <2> QED BY <2>1 DEF Line
<1>8. Shared(t) = Shared(s)
  BY <1>2, <1>3, <1>5 DEF Shared, root
<1>9. Len(root) % 2 = Turn(p)
  <2>1. Len(s.root) % 2 # Turn(p)
    BY DEF SessionInv, Root
  <2>2. Len(root) = Len(s.root) + 1
    BY <1>3 DEF root
  <2>3. Turn(p) \in {0, 1}
    BY PeerFacts
  <2>4. (Len(s.root) + 1) % 2 = Turn(p)
    BY <1>2, <2>1, <2>3, Flips
  <2> QED BY <2>2, <2>4
<1>10. SessionInv(p, t, M, d + 1)
  <2>1. d + 1 \in Nat /\ d <= d + 1
    OBVIOUS
  <2>2. Line(t.root, d + 1) /\ Under(s.root, t.root)
    BY <1>3, <1>5, <1>6 DEF root
  <2> QED BY <1>5, <1>8, <1>9, <2>1, <2>2, SameStores
<1> QED BY <1>5, <1>6, <1>7, <1>10 DEF t, root

LEMMA IndexInv ==
  ASSUME NEW p \in Parties, NEW s, NEW M \in SUBSET Message, NEW d \in Nat,
         SessionInv(p, s, M, d), s.active
  PROVE  LET t == [s EXCEPT !.index = @ + 1]
         IN  /\ SessionInv(p, t, M, d) /\ t \in Session
             /\ t.root = s.root /\ t.active /\ t.index = s.index + 1
<1> DEFINE t == [s EXCEPT !.index = @ + 1]
<1>1. s \in Session /\ s.index \in Nat /\ s.root \in Chain /\ Len(s.root) \in Nat
  BY SessionFacts DEF SessionInv, SessionOK
<1>2. /\ t \in Session /\ t.index = s.index + 1
      /\ t.root = s.root /\ t.active = s.active /\ t.chains = s.chains /\ t.read = s.read
  <2> DEFINE index == s.index + 1
  <2>1. index \in Nat
    BY <1>1
  <2>2. t = [s EXCEPT !.index = index]
    OBVIOUS
  <2> HIDE DEF index, t
  <2>3. /\ t \in Session /\ t.index = index
        /\ t.root = s.root /\ t.active = s.active /\ t.chains = s.chains /\ t.read = s.read
    BY <1>1, <2>1, <2>2 DEF Session
  <2> QED BY <2>3 DEF index
<1> HIDE DEF t
<1>3. Under(s.root, t.root) /\ Shared(t) = Shared(s)
  BY <1>1, <1>2 DEF Under, Shared
<1>4. Line(t.root, d) /\ (t.active <=> Len(t.root) % 2 = Turn(p))
  BY <1>2 DEF SessionInv, Root
<1>5. SessionInv(p, t, M, d)
  <2>1. d <= d
    OBVIOUS
  <2> QED BY <1>2, <1>3, <1>4, <2>1, SameStores
<1> QED BY <1>2, <1>5 DEF t

-----------------------------------------------------------------------------
(* Sessions that decrypt.                                                    *)

(* On a chain it knows, a message changes that chain only.                   *)
LEMMA ReadInv ==
  ASSUME NEW p \in Parties, NEW s, NEW M \in SUBSET Message, NEW d \in Nat,
         SessionInv(p, s, M, d),
         NEW m \in M, m.from = Peer(p), Found(s, m) # {}, Decrypts(s, m)
  PROVE  LET t == Decrypted(s, m)
         IN  /\ SessionInv(p, t, M, d) /\ t \in Session
             /\ t.root = s.root /\ t.active = s.active /\ t.index = s.index
<1> DEFINE t == Decrypted(s, m)
           F == Found(s, m)
           new == [n \in DOMAIN s.chains |->
                     IF n \in F THEN Step(s.chains[n], m.index) ELSE s.chains[n]]
<1>1. s \in Session /\ m \in Message /\ m.index \in Nat /\ m.chain \in Chain
  BY DEF SessionInv, SessionOK, Message
<1>2. /\ DOMAIN s.chains = 1 .. Len(s.chains) /\ Len(s.chains) \in Nat
      /\ \A n \in DOMAIN s.chains : s.chains[n] \in ReceiverChain
      /\ s.read \in SUBSET Message /\ s.root \in Chain
      /\ \A n \in DOMAIN s.chains : s.chains[n].next \in Nat
  BY <1>1, SessionFacts
<1>3. \A n \in F : /\ n \in DOMAIN s.chains /\ s.chains[n].chain = m.chain
                   /\ m.index < s.chains[n].next => m.index \in s.chains[n].skipped
  BY <1>2 DEF Decrypts, Found, Reads
<1>4. \A n \in DOMAIN s.chains : s.chains[n].chain = m.chain => n \in F
  BY <1>2 DEF Found
<1>5. \A n \in DOMAIN s.chains :
        /\ IsFiniteSet(s.chains[n].skipped) /\ Cardinality(s.chains[n].skipped) <= MaxSkipped
        /\ \A i \in s.chains[n].skipped : i < s.chains[n].next
  BY DEF SessionInv, SessionOK
(* The step of a chain.                                                      *)
<1> DEFINE Stepped(c, e) ==
      /\ e \in ReceiverChain /\ e.chain = c.chain
      /\ IsFiniteSet(e.skipped) /\ Cardinality(e.skipped) <= MaxSkipped
      /\ \A j \in e.skipped : j < e.next
      /\ c.next <= e.next
      /\ \A j \in 0 .. (c.next - 1) : j \notin c.skipped => j \notin e.skipped
<1>6. \A n \in F : /\ Stepped(s.chains[n], new[n])
                   /\ m.index < new[n].next /\ m.index \notin new[n].skipped
                   /\ new[n].next = s.chains[n].next \/ new[n].next = m.index + 1
                   /\ \A j \in 0 .. (new[n].next - 1) :
                        \/ j \in new[n].skipped
                        \/ j = m.index
                        \/ j + MaxSkipped < new[n].next
                        \/ j < s.chains[n].next /\ j \notin s.chains[n].skipped
  <2> TAKE n \in F
  <2>1. n \in DOMAIN s.chains /\ new[n] = Step(s.chains[n], m.index)
    BY <1>3
  <2>2. s.chains[n] \in ReceiverChain
    BY <1>2, <2>1
  <2> HIDE DEF new, F
  <2> QED BY <1>1, <1>3, <1>5, <2>1, <2>2, StepFacts
<1>7. \A n \in DOMAIN s.chains \ F : new[n] = s.chains[n] /\ Stepped(s.chains[n], new[n])
  <2> TAKE n \in DOMAIN s.chains \ F
  <2>1. new[n] = s.chains[n]
    OBVIOUS
  <2>2. s.chains[n].next <= s.chains[n].next
    BY <1>2
  <2> HIDE DEF new, F
  <2> QED BY <1>2, <1>5, <2>1, <2>2
<1>8. \A n \in DOMAIN s.chains : Stepped(s.chains[n], new[n])
  BY <1>6, <1>7
<1>9. new \in Seq(ReceiverChain) /\ Len(new) = Len(s.chains) /\ DOMAIN new = DOMAIN s.chains
  <2> DEFINE k == Len(s.chains)
  <2>1. k \in Nat /\ DOMAIN new = 1 .. k /\ \A n \in 1 .. k : new[n] \in ReceiverChain
    BY <1>2, <1>8
  <2>2. new = [n \in 1 .. k |-> new[n]]
    BY <1>2
  <2> HIDE DEF k, new
  <2>3. new \in [1 .. k -> ReceiverChain]
    BY <2>1, <2>2
  <2>4. new \in Seq(ReceiverChain) /\ Len(new) = k
    BY <2>1, <2>3
  <2> QED BY <1>2, <2>1, <2>4 DEF k
<1>10. /\ t \in Session
       /\ t.root = s.root /\ t.active = s.active /\ t.index = s.index
       /\ t.chains = new /\ t.read = s.read \cup {m}
  <2> DEFINE read == s.read \cup {m}
  <2>1. read \in SUBSET Message
    BY <1>1, <1>2
  <2>2. t = [s EXCEPT !.chains = new, !.read = read]
    BY DEF Decrypted
  <2> HIDE DEF read, new, t
  <2>3. /\ t \in Session
        /\ t.root = s.root /\ t.active = s.active /\ t.index = s.index
        /\ t.chains = new /\ t.read = read
    BY <1>1, <1>9, <2>1, <2>2 DEF Session
  <2> QED BY <2>3 DEF read
<1> HIDE DEF t, new, F
<1>11. SessionOK(t)
  <2>1. new = <<>> => s.chains = <<>>
    BY <1>2, <1>9
  <2>2. \A n \in DOMAIN new : /\ Cardinality(new[n].skipped) <= MaxSkipped
                              /\ \A i \in new[n].skipped : i < new[n].next
                              /\ new[n].chain = s.chains[n].chain
    BY <1>8, <1>9
  <2> QED BY <1>9, <1>10, <2>1, <2>2 DEF SessionInv, SessionOK
<1>12. \A n \in DOMAIN t.chains : IsFiniteSet(t.chains[n].skipped)
  BY <1>8, <1>9, <1>10
<1>13. Shared(t) = Shared(s) /\ Root(p, t, M, d)
  BY <1>10 DEF SessionInv, Root, Shared
<1>14. Chains(p, t)
  <2>1. \A n \in DOMAIN new : new[n].chain = s.chains[n].chain
    BY <1>8, <1>9
  <2> QED BY <1>9, <1>10, <1>13, <2>1 DEF SessionInv, Chains
<1>15. Under(m.chain, s.root)
  BY <1>3 DEF SessionInv, Chains, F
<1>16. Spent(p, t, M)
  <2>1. IsFiniteSet(t.read)
    BY <1>10, FS_AddElement DEF SessionInv, Spent
  <2>2. ASSUME NEW r \in t.read, NEW n \in DOMAIN t.chains, t.chains[n].chain = r.chain
        PROVE  r.index < t.chains[n].next /\ r.index \notin t.chains[n].skipped
    <3>1. n \in DOMAIN s.chains /\ s.chains[n].chain = r.chain /\ t.chains[n] = new[n]
          /\ r \in Message /\ r.index \in Nat
      BY <1>8, <1>9, <1>10, <2>2 DEF Session, Message
    <3>2. CASE r = m
      BY <1>4, <1>6, <3>1, <3>2
    <3>3. CASE r # m
      <4>1. r \in s.read
        BY <1>10, <3>3
      <4>2. r.index < s.chains[n].next /\ r.index \notin s.chains[n].skipped
        BY <3>1, <4>1 DEF SessionInv, Spent
      <4>3. new[n].next \in Nat /\ s.chains[n].next \in Nat
        BY <1>2, <1>8, <3>1 DEF ReceiverChain
      <4>4. s.chains[n].next <= new[n].next /\ r.index \in 0 .. (s.chains[n].next - 1)
        BY <1>8, <3>1, <4>2, <4>3
      <4> QED BY <1>8, <3>1, <4>2, <4>3, <4>4
    <3> QED BY <3>2, <3>3
  <2>3. \A r \in t.read : r \in M /\ r.from = Peer(p) /\ Under(r.chain, t.root)
    BY <1>10, <1>15 DEF SessionInv, Spent
  <2> QED BY <2>1, <2>2, <2>3 DEF Spent
<1>17. Kept(t)
  <2> SUFFICES ASSUME NEW n \in DOMAIN t.chains
               PROVE  /\ \E r \in t.read : r.chain = t.chains[n].chain /\ r.index + 1 = t.chains[n].next
                      /\ \A i \in 0 .. (t.chains[n].next - 1) :
                           \/ i \in t.chains[n].skipped
                           \/ \E r \in t.read : r.chain = t.chains[n].chain /\ r.index = i
                           \/ i + MaxSkipped < t.chains[n].next
    BY DEF Kept
  <2>1. /\ n \in DOMAIN s.chains /\ t.chains[n] = new[n] /\ new[n].chain = s.chains[n].chain
        /\ s.read \subseteq t.read /\ m \in t.read
    BY <1>8, <1>9, <1>10
  <2>2. /\ \E r \in s.read : r.chain = s.chains[n].chain /\ r.index + 1 = s.chains[n].next
        /\ \A i \in 0 .. (s.chains[n].next - 1) :
             \/ i \in s.chains[n].skipped
             \/ \E r \in s.read : r.chain = s.chains[n].chain /\ r.index = i
             \/ i + MaxSkipped < s.chains[n].next
    BY <2>1 DEF SessionInv, Kept
  <2>3. CASE n \notin F
    BY <1>7, <2>1, <2>2, <2>3
  <2>4. CASE n \in F
    <3>1. s.chains[n].chain = m.chain /\ new[n].next \in Nat /\ s.chains[n].next \in Nat
          /\ s.chains[n].next <= new[n].next
      BY <1>2, <1>3, <1>8, <2>1, <2>4 DEF ReceiverChain
    <3>2. \E r \in t.read : r.chain = t.chains[n].chain /\ r.index + 1 = t.chains[n].next
      BY <1>6, <2>1, <2>2, <2>4, <3>1
    <3>3. ASSUME NEW i \in 0 .. (new[n].next - 1)
          PROVE  \/ i \in new[n].skipped
                 \/ \E r \in t.read : r.chain = new[n].chain /\ r.index = i
                 \/ i + MaxSkipped < new[n].next
      <4>1. CASE i = m.index
        BY <2>1, <3>1, <4>1
      <4>2. CASE i < s.chains[n].next /\ i \notin s.chains[n].skipped
        <5>1. i \in 0 .. (s.chains[n].next - 1)
          BY <4>2, <3>1
        <5>2. (\E r \in s.read : r.chain = s.chains[n].chain /\ r.index = i)
              \/ i + MaxSkipped < s.chains[n].next
          BY <2>2, <4>2, <5>1
        <5>3. i + MaxSkipped < s.chains[n].next => i + MaxSkipped < new[n].next
          BY <3>1, LimitsAssumption
        <5> QED BY <2>1, <5>2, <5>3
      <4> QED BY <1>6, <2>4, <4>1, <4>2
    <3> QED BY <2>1, <3>2, <3>3
  <2> QED BY <2>3, <2>4
<1> QED BY <1>10, <1>11, <1>12, <1>13, <1>14, <1>16, <1>17 DEF SessionInv, t

LEMMA Limits ==
  MaxChains \in Nat /\ MaxChains >= 1 /\ MaxSkipped \in Nat /\ MaxSkipped >= 1 /\ MaxGap \in Nat
BY LimitsAssumption

LEMMA Below ==
  ASSUME NEW a \in Nat, NEW b \in Nat, a <= b, a # b
  PROVE  a + 1 <= b
OBVIOUS

LEMMA SameDistance ==
  ASSUME NEW n \in Nat, NEW k \in Nat, NEW new \in Nat, NEW old \in Nat, NEW root \in Int,
         new = old + 1 - k
  PROVE  root + 1 - 2 * (new - n) = (root - 1) - 2 * (old - (n + k))
OBVIOUS

LEMMA OneMoreTurn ==
  ASSUME NEW old \in Nat, NEW root \in Int, NEW turn \in {0, 1}, 2 * old = (root - 1) + 1 - turn
  PROVE  2 * (old + 1) = (root + 1) + 1 - turn
OBVIOUS

LEMMA FreshStep ==
  ASSUME NEW c \in Chain, NEW i \in Nat
  PROVE  LET e == Step(NewChain(c), i)
         IN  /\ e \in ReceiverChain /\ e.chain = c /\ e.next = i + 1
             /\ IsFiniteSet(e.skipped) /\ Cardinality(e.skipped) <= MaxSkipped
             /\ \A j \in e.skipped : j < e.next
             /\ i \notin e.skipped
             /\ \A j \in 0 .. i : j \in e.skipped \/ j = i \/ j + MaxSkipped < e.next
<1> DEFINE b == NewChain(c)
           e == Step(b, i)
<1>1. b \in ReceiverChain /\ b.chain = c /\ b.next = 0 /\ b.skipped = {}
  <2>1. 0 \in Nat /\ {} \in SUBSET Nat
    OBVIOUS
  <2> QED BY <2>1 DEF NewChain, ReceiverChain
<1>2. IsFiniteSet(b.skipped) /\ Cardinality(b.skipped) <= MaxSkipped
      /\ \A j \in b.skipped : j < b.next
  <2>1. Cardinality(b.skipped) = 0
    BY <1>1, FS_EmptySet
  <2>2. 0 <= MaxSkipped
    BY LimitsAssumption
  <2> QED BY <1>1, <2>1, <2>2, FS_EmptySet
<1>3. i < b.next => i \in b.skipped
  BY <1>1
<1> HIDE DEF b
<1>4. /\ e \in ReceiverChain /\ e.chain = b.chain
      /\ IsFiniteSet(e.skipped) /\ Cardinality(e.skipped) <= MaxSkipped
      /\ \A j \in e.skipped : j < e.next
      /\ i < e.next /\ i \notin e.skipped
      /\ e.next = b.next \/ e.next = i + 1
      /\ \A j \in 0 .. (e.next - 1) :
           \/ j \in e.skipped
           \/ j = i
           \/ j + MaxSkipped < e.next
           \/ j < b.next /\ j \notin b.skipped
  BY <1>1, <1>2, <1>3, StepFacts
<1> HIDE DEF e
<1>5. e.next = i + 1
  BY <1>1, <1>4
<1>6. \A j \in 0 .. i : j \in e.skipped \/ j = i \/ j + MaxSkipped < e.next
  BY <1>1, <1>4, <1>5
<1> QED BY <1>1, <1>4, <1>5, <1>6 DEF e, b

(* The oldest chains leave from the front.                                   *)
LEMMA PushedFacts ==
  ASSUME NEW cs \in Seq(ReceiverChain), NEW e \in ReceiverChain, Len(cs) <= MaxChains
  PROVE  LET new == Pushed(cs, e)
             k == IF Len(cs) = MaxChains THEN 1 ELSE 0
         IN  /\ new \in Seq(ReceiverChain) /\ Len(new) = Len(cs) + 1 - k /\ Len(new) <= MaxChains
             /\ k \in {0, 1} /\ k <= Len(cs) /\ Len(new) \in Nat \ {0}
             /\ \A n \in 1 .. (Len(new) - 1) : new[n] = cs[n + k] /\ n + k \in DOMAIN cs
             /\ new[Len(new)] = e
<1>1. CASE Len(cs) = MaxChains
  <2>1. cs # <<>> /\ Len(cs) \in Nat \ {0}
    BY <1>1, LimitsAssumption
  <2>2. /\ Tail(cs) \in Seq(ReceiverChain) /\ Len(Tail(cs)) = Len(cs) - 1
        /\ \A n \in 1 .. (Len(cs) - 1) : Tail(cs)[n] = cs[n + 1]
    BY <2>1
  <2> DEFINE tail == Tail(cs)
  <2>3. Pushed(cs, e) = Append(tail, e)
    BY <1>1 DEF Pushed
  <2> HIDE DEF tail
  <2>4. /\ Append(tail, e) \in Seq(ReceiverChain) /\ Len(Append(tail, e)) = Len(cs)
        /\ \A n \in 1 .. (Len(cs) - 1) : Append(tail, e)[n] = tail[n]
        /\ Append(tail, e)[Len(cs)] = e
    BY <2>1, <2>2 DEF tail
  <2>5. \A n \in 1 .. (Len(cs) - 1) : n + 1 \in DOMAIN cs
    BY <2>1
  <2> QED BY <1>1, <2>1, <2>2, <2>3, <2>4, <2>5 DEF tail
<1>2. CASE Len(cs) # MaxChains
  <2>1. Pushed(cs, e) = Append(cs, e)
    BY <1>2 DEF Pushed
  <2>2. Len(cs) \in Nat /\ DOMAIN cs = 1 .. Len(cs)
    OBVIOUS
  <2>3. /\ Append(cs, e) \in Seq(ReceiverChain) /\ Len(Append(cs, e)) = Len(cs) + 1
        /\ \A n \in 1 .. Len(cs) : Append(cs, e)[n] = cs[n]
        /\ Append(cs, e)[Len(cs) + 1] = e
    OBVIOUS
  <2>4. Len(cs) + 1 <= MaxChains
    BY <1>2, <2>2, Limits, Below
  <2> QED BY <1>2, <2>1, <2>2, <2>3, <2>4
<1> QED BY <1>1, <1>2

(* On a new ratchet key, the root goes on to the chain of the message.       *)
LEMMA TurnInv ==
  ASSUME NEW p \in Parties, NEW s, NEW M \in SUBSET Message, NEW d \in Nat,
         SessionInv(p, s, M, d),
         NEW m \in M, MessageInv(Peer(p), m, M, d), Found(s, m) = {}, Decrypts(s, m)
  PROVE  LET t == Decrypted(s, m)
         IN  /\ SessionInv(p, t, M, d) /\ t \in Session
             /\ Under(s.root, t.root) /\ ~t.active
<1> DEFINE t == Decrypted(s, m)
           e == Step(NextChain(s, m), m.index)
           new == Pushed(s.chains, e)
           k == IF Len(s.chains) = MaxChains THEN 1 ELSE 0
           read == s.read \cup {m}
<1>1. s \in Session /\ m \in Message /\ m.index \in Nat /\ m.chain \in Chain /\ m.from = Peer(p)
  BY DEF SessionInv, SessionOK, MessageInv, Message
<1>2. /\ DOMAIN s.chains = 1 .. Len(s.chains) /\ Len(s.chains) \in Nat
      /\ s.chains \in Seq(ReceiverChain)
      /\ \A n \in DOMAIN s.chains : s.chains[n] \in ReceiverChain /\ s.chains[n].chain \in Chain
      /\ s.read \in SUBSET Message /\ s.root \in Chain /\ Len(s.root) \in Nat
      /\ \A n \in DOMAIN s.chains : s.chains[n].next \in Nat
  BY <1>1, SessionFacts
<1>3. s.active /\ Append(s.root, Last(m.chain)) = m.chain
  BY DEF Decrypts, Reads, NextChain, NewChain
<1>4. NextChain(s, m) = NewChain(m.chain)
  BY <1>3 DEF NextChain
<1>5. Len(m.chain) = Len(s.root) + 1 /\ Under(s.root, m.chain)
  <2>1. Len(m.chain) \in Nat \ {0} /\ Last(m.chain) \in Key
    BY <1>1 DEF MessageInv, Line, Chain, Last
  <2> DEFINE a == Last(m.chain)
  <2> HIDE DEF a
  <2>2. /\ Len(Append(s.root, a)) = Len(s.root) + 1
        /\ \A i \in 1 .. Len(s.root) : Append(s.root, a)[i] = s.root[i]
    BY <1>2 DEF Chain
  <2>3. Append(s.root, a) = m.chain
    BY <1>3 DEF a
  <2> QED BY <1>2, <2>2, <2>3 DEF Under
<1>6. /\ e \in ReceiverChain /\ e.chain = m.chain /\ e.next = m.index + 1
      /\ IsFiniteSet(e.skipped) /\ Cardinality(e.skipped) <= MaxSkipped
      /\ \A j \in e.skipped : j < e.next
      /\ m.index \notin e.skipped
      /\ \A j \in 0 .. m.index : j \in e.skipped \/ j = m.index \/ j + MaxSkipped < e.next
  BY <1>1, <1>4, FreshStep
<1> HIDE DEF e
<1>7. /\ new \in Seq(ReceiverChain) /\ Len(new) = Len(s.chains) + 1 - k /\ Len(new) <= MaxChains
      /\ k \in {0, 1} /\ k <= Len(s.chains) /\ Len(new) \in Nat \ {0}
      /\ \A n \in 1 .. (Len(new) - 1) : new[n] = s.chains[n + k] /\ n + k \in DOMAIN s.chains
      /\ new[Len(new)] = e
  BY <1>2, <1>6, PushedFacts DEF SessionInv, SessionOK
<1>8. /\ t \in Session
      /\ t.root = m.chain /\ t.active = FALSE /\ t.index = 0
      /\ t.chains = new /\ t.read = read
  <2>1. read \in SUBSET Message
    BY <1>1, <1>2
  <2>2. t = [s EXCEPT !.root = m.chain, !.active = FALSE, !.index = 0, !.chains = new,
                      !.read = read]
    BY <1>3 DEF Decrypted, e
  <2> HIDE DEF read, new, t
  <2> QED BY <1>1, <1>7, <2>1, <2>2 DEF Session
<1>9. Shared(s) = Len(s.root) - 1 /\ Shared(t) = Len(s.root) + 1
  BY <1>2, <1>3, <1>5, <1>8 DEF Shared
<1> HIDE DEF t, new, read
<1>10. k = 0 \/ Len(new) = MaxChains
  <2>1. CASE Len(s.chains) = MaxChains
    BY <1>2, <1>7, <2>1, Limits
  <2>2. CASE Len(s.chains) # MaxChains
    BY <2>2
  <2> QED BY <2>1, <2>2
<1> HIDE DEF k
(* Every chain is the new one or an old one.                                 *)
<1>11. DOMAIN new = 1 .. Len(new) /\ Len(new) \in DOMAIN new
  BY <1>7
<1>12. \A n \in DOMAIN new : n = Len(new) \/ n \in 1 .. (Len(new) - 1)
  BY <1>7, <1>11
<1>13. \A n \in DOMAIN s.chains :
         /\ Under(s.chains[n].chain, s.root)
         /\ Len(s.chains[n].chain) = Shared(s) - 2 * (Len(s.chains) - n)
         /\ Len(s.chains[n].chain) > 0
  BY DEF SessionInv, Chains
<1>14. \A n \in DOMAIN new :
         /\ Under(new[n].chain, m.chain)
         /\ Len(new[n].chain) = Shared(t) - 2 * (Len(new) - n)
         /\ Len(new[n].chain) > 0
  <2> TAKE n \in DOMAIN new
  <2>1. CASE n = Len(new)
    <3>1. new[n].chain = m.chain /\ Len(m.chain) = Shared(t)
      BY <1>5, <1>6, <1>7, <1>9, <2>1
    <3>2. Under(m.chain, m.chain) /\ Len(m.chain) > 0
      BY <1>2, <1>5 DEF Under
    <3> QED BY <1>2, <1>7, <1>9, <2>1, <3>1, <3>2
  <2>2. CASE n \in 1 .. (Len(new) - 1)
    <3> DEFINE o == n + k
    <3>1. o \in DOMAIN s.chains /\ new[n] = s.chains[o]
      BY <1>7, <2>2
    <3>2. Under(s.chains[o].chain, m.chain)
      BY <1>1, <1>2, <1>5, <1>13, <3>1, UnderTrans
    <3>3. Shared(t) - 2 * (Len(new) - n) = Shared(s) - 2 * (Len(s.chains) - o)
      <4>1. n \in Nat /\ k \in Nat /\ Len(s.chains) \in Nat /\ Len(s.root) \in Nat
        BY <1>2, <1>7, <2>2
      <4>2. Len(new) \in Nat /\ Len(new) = Len(s.chains) + 1 - k /\ Len(s.root) \in Int
        BY <1>7, <4>1
      <4>3. Len(s.root) + 1 - 2 * (Len(new) - n) = (Len(s.root) - 1) - 2 * (Len(s.chains) - (n + k))
        <5> DEFINE a == Len(new)
                   b == Len(s.chains)
                   c == Len(s.root)
        <5>1. a \in Nat /\ b \in Nat /\ c \in Int /\ a = b + 1 - k
          BY <4>1, <4>2
        <5> HIDE DEF a, b, c
        <5>2. c + 1 - 2 * (a - n) = (c - 1) - 2 * (b - (n + k))
          BY <4>1, <5>1, SameDistance
        <5> QED BY <5>2 DEF a, b, c
      <4> QED BY <1>9, <4>3
    <3> HIDE DEF o
    <3> QED BY <1>13, <3>1, <3>2, <3>3
  <2> QED BY <1>12, <2>1, <2>2
<1>15. Chains(p, t)
  <2>1. Len(new) < MaxChains => 2 * Len(new) = Shared(t) + 1 - Turn(p)
    <3> HAVE Len(new) < MaxChains
    <3>1. k = 0 /\ Len(s.chains) < MaxChains
      BY <1>2, <1>7, <1>10, Limits
    <3>2. 2 * Len(s.chains) = Shared(s) + 1 - Turn(p)
      BY <3>1 DEF SessionInv, Chains
    <3>3. Turn(p) \in {0, 1}
      BY PeerFacts
    <3>4. Len(new) = Len(s.chains) + 1
      BY <1>2, <1>7, <3>1
    <3>5. Len(s.chains) \in Nat /\ Len(s.root) \in Int
      BY <1>2
    <3>6. 2 * (Len(s.chains) + 1) = (Len(s.root) + 1) + 1 - Turn(p)
      BY <1>9, <3>2, <3>3, <3>5, OneMoreTurn
    <3> QED BY <1>9, <3>4, <3>6
  <2> QED BY <1>8, <1>14, <2>1 DEF Chains
<1>16. Root(p, t, M, d)
  <2>1. Len(m.chain) % 2 # Turn(p)
    BY PeerFacts DEF MessageInv
  <2>2. CameFrom(Peer(p), m.chain, Shared(t), M)
    <3>1. Under(m.chain, m.chain) /\ Len(m.chain) = Shared(t)
      BY <1>2, <1>5, <1>9 DEF Under
    <3> QED BY <1>1, <3>1 DEF CameFrom
  <2> QED BY <1>8, <2>1, <2>2 DEF Root, MessageInv
<1>17. SessionOK(t)
  <2>1. new # <<>>
    BY <1>7
  <2>2. \A n \in DOMAIN new : /\ Cardinality(new[n].skipped) <= MaxSkipped
                              /\ \A i \in new[n].skipped : i < new[n].next
    BY <1>6, <1>7, <1>12 DEF SessionInv, SessionOK
  <2>3. ASSUME NEW n \in DOMAIN new, NEW o \in DOMAIN new, Last(new[n].chain) = Last(new[o].chain)
        PROVE  n = o
    <3>1. Line(m.chain, d)
      BY DEF MessageInv
    <3>2. \A i \in DOMAIN new : Len(new[i].chain) \in 1 .. Len(m.chain)
                                /\ Last(new[i].chain) = m.chain[Len(new[i].chain)]
      <4> TAKE i \in DOMAIN new
      <4>5. new[i] \in ReceiverChain
        BY <1>7, <1>11
      <4>1. new[i].chain \in Chain
        BY <4>5 DEF ReceiverChain
      <4>2. Len(new[i].chain) \in Nat
        BY <4>1 DEF Chain
      <4>3. Len(m.chain) \in Nat /\ Len(new[i].chain) > 0 /\ Under(new[i].chain, m.chain)
        BY <1>2, <1>5, <1>14
      <4>4. Len(new[i].chain) \in 1 .. Len(new[i].chain)
        BY <4>2, <4>3
      <4> QED BY <4>2, <4>3, <4>4 DEF Under, Last
    <3>3. \A a, b \in 1 .. Len(m.chain) : m.chain[a] = m.chain[b] => a = b
      <4> TAKE a, b \in 1 .. Len(m.chain)
      <4>1. m.chain[a] \in Nat /\ m.chain[b] \in Nat /\ a \in Nat /\ b \in Nat
        BY <1>1, KeysAreNumbers
      <4> QED BY <3>1, <4>1 DEF Line
    <3>4. Len(new[n].chain) = Len(new[o].chain)
      BY <2>3, <3>2, <3>3
    <3>5. n \in Nat /\ o \in Nat /\ Len(new) \in Nat /\ Shared(t) \in Nat
      BY <1>2, <1>7, <1>9, <1>11
    <3> QED BY <1>14, <3>4, <3>5
  <2>4. t.root # <<>>
    BY <1>8 DEF MessageInv, Line
  <2> QED BY <1>7, <1>8, <2>1, <2>2, <2>3, <2>4 DEF SessionOK
<1>18. \A n \in DOMAIN t.chains : IsFiniteSet(t.chains[n].skipped)
  BY <1>6, <1>7, <1>8, <1>12 DEF SessionInv
<1>19. Spent(p, t, M)
  <2>1. IsFiniteSet(t.read)
    BY <1>8, FS_AddElement DEF SessionInv, Spent, read
  <2>2. \A r \in s.read : r \in Message /\ r.chain \in Chain /\ Under(r.chain, s.root)
    BY <1>2 DEF SessionInv, Spent, Message
  <2>3. \A r \in t.read : r \in M /\ r.from = Peer(p) /\ Under(r.chain, t.root)
    <3>1. Under(m.chain, m.chain)
      BY <1>2, <1>5 DEF Under
    <3>2. \A r \in s.read : Under(r.chain, m.chain)
      BY <1>1, <1>2, <1>5, <2>2, UnderTrans
    <3> QED BY <1>1, <1>8, <3>1, <3>2 DEF SessionInv, Spent, read
  <2>4. ASSUME NEW r \in t.read, NEW n \in DOMAIN t.chains, t.chains[n].chain = r.chain
        PROVE  r.index < t.chains[n].next /\ r.index \notin t.chains[n].skipped
    <3>1. CASE n = Len(new)
      <4>1. r.chain = m.chain /\ t.chains[n] = e
        BY <1>6, <1>7, <1>8, <2>4, <3>1
      <4>2. r \notin s.read
        BY <1>2, <1>5, <2>2, <4>1 DEF Under
      <4> QED BY <1>1, <1>6, <1>8, <4>1, <4>2 DEF read
    <3>2. CASE n \in 1 .. (Len(new) - 1)
      <4> DEFINE o == n + k
      <4>1. o \in DOMAIN s.chains /\ t.chains[n] = s.chains[o]
        BY <1>7, <1>8, <3>2
      <4>2. r # m
        BY <1>2, <1>5, <1>13, <2>4, <4>1 DEF Under
      <4>3. r \in s.read
        BY <1>8, <4>2 DEF read
      <4> HIDE DEF o
      <4> QED BY <2>4, <4>1, <4>3 DEF SessionInv, Spent
    <3> QED BY <1>8, <1>12, <3>1, <3>2
  <2> QED BY <2>1, <2>3, <2>4 DEF Spent
<1>20. Kept(t)
  <2> SUFFICES ASSUME NEW n \in DOMAIN t.chains
               PROVE  /\ \E r \in t.read : r.chain = t.chains[n].chain /\ r.index + 1 = t.chains[n].next
                      /\ \A i \in 0 .. (t.chains[n].next - 1) :
                           \/ i \in t.chains[n].skipped
                           \/ \E r \in t.read : r.chain = t.chains[n].chain /\ r.index = i
                           \/ i + MaxSkipped < t.chains[n].next
    BY DEF Kept
  <2>1. CASE n = Len(new)
    <3>1. t.chains[n] = e /\ m \in t.read /\ e.next - 1 = m.index
      BY <1>1, <1>6, <1>7, <1>8, <2>1 DEF read
    <3> QED BY <1>6, <3>1
  <2>2. CASE n \in 1 .. (Len(new) - 1)
    <3> DEFINE o == n + k
    <3>1. o \in DOMAIN s.chains /\ t.chains[n] = s.chains[o] /\ s.read \subseteq t.read
      BY <1>7, <1>8, <2>2 DEF read
    <3> HIDE DEF o
    <3> QED BY <3>1 DEF SessionInv, Kept
  <2> QED BY <1>8, <1>12, <2>1, <2>2
<1> QED BY <1>5, <1>8, <1>15, <1>16, <1>17, <1>18, <1>19, <1>20 DEF SessionInv, t

(* The first message of a session makes the answering end.                   *)
LEMMA InboundInv ==
  ASSUME NEW M \in SUBSET Message, NEW d \in Nat,
         NEW m \in M, MessageInv(Alice, m, M, d), m.prekey
  PROVE  LET t == Decrypted(Inbound(m), m)
         IN  SessionInv(Bob, t, M, d) /\ ~t.active
<1> DEFINE s == Inbound(m)
           t == Decrypted(s, m)
           b == NewChain(m.chain)
           e == Step(b, m.index)
<1>1. /\ m \in Message /\ m.index \in Nat /\ m.chain \in Chain /\ Len(m.chain) = 1
      /\ m.chain # <<>> /\ m.from = Alice
  BY DEF MessageInv, Message, Line
<1>2. Bob \in Parties /\ Peer(Bob) = Alice /\ Turn(Bob) = 0
  BY PartiesAssumption DEF Parties, Peer, Turn
<1>3. /\ s.root = m.chain /\ s.active = FALSE /\ s.index = 0
      /\ s.chains = <<b>> /\ s.read = {}
      /\ s = [root |-> m.chain, active |-> FALSE, index |-> 0, chains |-> <<b>>, read |-> {}]
  BY DEF Inbound
<1>4. b.chain = m.chain
  BY DEF NewChain
<1>5. /\ e \in ReceiverChain /\ e.chain = m.chain /\ e.next = m.index + 1
      /\ IsFiniteSet(e.skipped) /\ Cardinality(e.skipped) <= MaxSkipped
      /\ \A j \in e.skipped : j < e.next
      /\ m.index \notin e.skipped
      /\ \A j \in 0 .. m.index : j \in e.skipped \/ j = m.index \/ j + MaxSkipped < e.next
  BY <1>1, FreshStep
<1> HIDE DEF s, e, b
<1>6. Found(s, m) = {1}
  <2>1. Len(<<b>>) = 1 /\ <<b>>[1] = b /\ 1 .. 1 = {1}
    OBVIOUS
  <2> QED BY <1>3, <1>4, <2>1 DEF Found
<1>7. t.chains = <<e>>
  <2>1. t.chains = [n \in DOMAIN <<b>> |-> IF n \in {1} THEN Step(<<b>>[n], m.index) ELSE <<b>>[n]]
    BY <1>3, <1>6 DEF Decrypted
  <2>2. DOMAIN <<b>> = {1} /\ <<b>>[1] = b
    OBVIOUS
  <2>3. t.chains = [n \in {1} |-> e]
    BY <2>1, <2>2 DEF e
  <2>4. DOMAIN <<e>> = {1} /\ <<e>>[1] = e /\ <<e>> = [n \in 1 .. 1 |-> e] /\ 1 .. 1 = {1}
    OBVIOUS
  <2> QED BY <2>3, <2>4
<1>8. t = [root |-> m.chain, active |-> FALSE, index |-> 0, chains |-> <<e>>, read |-> {m}]
  <2> DEFINE cs == t.chains
  <2>1. t = [s EXCEPT !.chains = cs, !.read = {m}]
    BY <1>3, <1>6 DEF Decrypted
  <2> HIDE DEF t
  <2>2. t = [root |-> m.chain, active |-> FALSE, index |-> 0, chains |-> cs, read |-> {m}]
    BY <1>3, <2>1
  <2> QED BY <1>7, <2>2
<1> HIDE DEF t
<1>9. /\ t \in Session /\ t.root = m.chain /\ t.active = FALSE /\ t.index = 0
      /\ t.chains = <<e>> /\ t.read = {m}
  <2>1. <<e>> \in Seq(ReceiverChain) /\ {m} \in SUBSET Message
    BY <1>1, <1>5
  <2> QED BY <1>1, <1>8, <2>1 DEF Session
<1>10. Len(t.chains) = 1 /\ DOMAIN t.chains = {1} /\ t.chains[1] = e /\ t.chains # <<>>
  BY <1>9
<1>11. SessionOK(t)
  BY <1>1, <1>5, <1>9, <1>10, Limits DEF SessionOK
<1>12. Shared(t) = 1
  BY <1>1, <1>9 DEF Shared
<1>13. Under(m.chain, m.chain)
  BY <1>1 DEF Under
<1>14. Root(Bob, t, M, d)
  <2>1. Line(m.chain, d)
    BY DEF MessageInv
  <2>2. Len(m.chain) % 2 # 0
    BY <1>1
  <2>3. CameFrom(Alice, m.chain, 1, M)
    BY <1>1, <1>13 DEF CameFrom
  <2> QED BY <1>2, <1>9, <1>12, <2>1, <2>2, <2>3 DEF Root
<1>15. Chains(Bob, t)
  <2>1. Under(t.chains[1].chain, t.root) /\ Len(t.chains[1].chain) = 1
    BY <1>1, <1>5, <1>9, <1>10, <1>13
  <2> QED BY <1>2, <1>10, <1>12, <2>1 DEF Chains
<1>16. Spent(Bob, t, M)
  <2>1. IsFiniteSet(t.read)
    BY <1>9, FS_Singleton
  <2>2. m.index < e.next /\ m.index \notin e.skipped
    BY <1>1, <1>5
  <2> QED BY <1>1, <1>2, <1>9, <1>10, <1>13, <2>1, <2>2 DEF Spent
<1>17. Kept(t)
  <2>1. e.next - 1 = m.index /\ e.next = m.index + 1
    BY <1>1, <1>5
  <2>2. \A i \in 0 .. (e.next - 1) :
             \/ i \in e.skipped
             \/ \E r \in t.read : r.chain = e.chain /\ r.index = i
             \/ i + MaxSkipped < e.next
    BY <1>5, <1>9, <2>1
  <2>3. \E r \in t.read : r.chain = e.chain /\ r.index + 1 = e.next
    BY <1>5, <1>9
  <2> QED BY <1>10, <2>2, <2>3 DEF Kept
<1>18. \A n \in DOMAIN t.chains : IsFiniteSet(t.chains[n].skipped)
  BY <1>5, <1>10
<1> QED BY <1>9, <1>11, <1>14, <1>15, <1>16, <1>17, <1>18 DEF SessionInv, t, s

(* A message of another session is refused.                                  *)
LEMMA StrayRefused ==
  ASSUME NEW p, NEW q, NEW s, NEW M, NEW d, SessionInv(p, s, M, d)
  PROVE  ~ Decrypts(s, StrayMessage(q))
<1> DEFINE m == StrayMessage(q)
<1>1. s \in Session
  BY DEF SessionInv, SessionOK
<1>2. m.chain = <<Stray>> /\ Last(m.chain) = Stray /\ Len(m.chain) = 1
  BY DEF StrayMessage, Last
<1> HIDE DEF m
<1>3. Found(s, m) = {}
  <2> SUFFICES ASSUME NEW n \in DOMAIN s.chains PROVE Last(s.chains[n].chain) # Stray
    BY <1>1, <1>2, SessionFacts DEF Found
  <2> DEFINE c == s.chains[n].chain
  <2>1. c \in Chain /\ Len(c) > 0
    BY <1>1, SessionFacts DEF SessionInv, Chains
  <2>2. Len(c) \in 1 .. Len(c)
    BY <2>1 DEF Chain
  <2> HIDE DEF c
  <2>3. c[Len(c)] \in Nat
    BY <2>1, <2>2, KeysAreNumbers
  <2>4. Last(c) # Stray
    BY <2>3, StrayAssumption DEF Last
  <2> QED BY <2>4 DEF c
<1>4. Append(s.root, Stray) # <<Stray>>
  <2>1. s.root \in Seq(Key \cup {Stray}) /\ Len(s.root) \in Nat \ {0}
    BY DEF SessionInv, Root, Line, Chain
  <2>2. Len(Append(s.root, Stray)) = Len(s.root) + 1 /\ Len(<<Stray>>) = 1
    BY <2>1
  <2>3. Len(Append(s.root, Stray)) # Len(<<Stray>>)
    BY <2>1, <2>2
  <2> QED BY <2>3, Zenon
<1> QED BY <1>2, <1>3, <1>4 DEF Decrypts, Reads, NextChain, NewChain, m

-----------------------------------------------------------------------------
(* Messages.                                                                 *)

LEMMA NatOrder == IsWellFoundedOn({ss \in Nat \X Nat : ss[1] < ss[2]}, Nat)
BY NatLessThanWellFounded DEF OpToRel

LEMMA Least ==
  ASSUME NEW S \in SUBSET Nat, S # {}
  PROVE  \E x \in S : \A y \in S : x <= y
<1> DEFINE R == {ss \in Nat \X Nat : ss[1] < ss[2]}
<1>1. IsWellFoundedOn(R, Nat)
  BY NatOrder
<1>2. \A a, b \in Nat : <<a, b>> \in R <=> a < b
  OBVIOUS
<1> HIDE DEF R
<1>3. PICK x \in S : \A y \in S : ~ (<<y, x>> \in R)
  BY <1>1, WFMin
<1>4. \A y \in S : x <= y
  <2> TAKE y \in S
  <2>1. x \in Nat /\ y \in Nat /\ ~ (y < x)
    BY <1>2, <1>3
  <2> QED BY <2>1
<1> QED BY <1>4

(* The largest of bounded numbers.                                           *)
LEMMA MaxFacts ==
  ASSUME NEW n \in Nat, NEW S \in SUBSET (0 .. n), S # {}
  PROVE  Max(S) \in S /\ Max(S) \in Nat /\ \A x \in S : x <= Max(S)
<1> DEFINE T == {n - x : x \in S}
<1>1. \A x \in S : x \in Nat /\ x <= n /\ n - x \in T /\ n - x \in Nat
  OBVIOUS
<1>2. T \in SUBSET Nat /\ T # {}
  BY <1>1
<1>3. PICK t \in T : \A y \in T : t <= y
  <2> HIDE DEF T
  <2> QED BY <1>2, Least
<1>4. PICK x \in S : t = n - x
  BY <1>3
<1>5. \A y \in S : x >= y
  <2> TAKE y \in S
  <2>1. x \in Nat /\ y \in Nat /\ t <= n - y
    BY <1>1, <1>3
  <2> QED BY <1>4, <2>1
<1>6. Max(S) \in S /\ \A y \in S : Max(S) >= y
  BY <1>5 DEF Max
<1>7. \A y \in S : y <= Max(S)
  <2> TAKE y \in S
  <2>1. y \in Nat /\ Max(S) \in Nat /\ Max(S) >= y
    BY <1>1, <1>6
  <2> QED BY <2>1
<1> QED BY <1>1, <1>6, <1>7

LEMMA LineFacts ==
  ASSUME NEW c, NEW d, Line(c, d)
  PROVE  c \in Chain /\ c # <<>> /\ Len(c) \in Nat /\ Len(c) # 0 /\ Len(c) > 0
BY DEF Line, Chain

LEMMA RootFacts ==
  ASSUME NEW p, NEW s, NEW M, NEW d, SessionInv(p, s, M, d)
  PROVE  /\ s \in Session /\ s.root \in Chain /\ Len(s.root) \in Nat /\ Len(s.root) > 0
         /\ Line(s.root, d)
         /\ s.active => Len(s.root) % 2 = Turn(p) /\ Shared(s) = Len(s.root) - 1
         /\ ~s.active => Len(s.root) % 2 # Turn(p) /\ Shared(s) = Len(s.root)
<1>1. s \in Session
  BY DEF SessionInv, SessionOK
<1>2. Line(s.root, d) /\ (s.active <=> Len(s.root) % 2 = Turn(p))
  BY DEF SessionInv, Root
<1> QED BY <1>1, <1>2, LineFacts DEF Shared

(* An active session has only read from chains shorter than its root.        *)
LEMMA HeardFacts ==
  ASSUME NEW p \in Parties, NEW s, NEW M, NEW d \in Nat, SessionInv(p, s, M, d), s.active,
         \A m \in M : \E q \in Parties : MessageInv(q, m, M, d)
  PROVE  Heard(s) \in Nat /\ Heard(s) < Len(s.root)
<1> DEFINE S == {0} \cup {Len(m.chain) : m \in s.read}
           top == Len(s.root) - 1
<1>1. s \in Session /\ Len(s.root) \in Nat /\ Len(s.root) > 0 /\ Len(s.root) % 2 = Turn(p)
  BY RootFacts
<1>2. top \in Nat /\ 0 \in 0 .. top
  BY <1>1
<1>3. ASSUME NEW m \in s.read PROVE Len(m.chain) \in 0 .. top
  <2>1. m \in M /\ m.from = Peer(p) /\ Len(m.chain) <= Len(s.root)
    BY DEF SessionInv, Spent, Under
  <2>2. MessageInv(Peer(p), m, M, d)
    BY <2>1 DEF MessageInv
  <2>3. Len(m.chain) % 2 = Turn(Peer(p)) /\ Len(m.chain) \in Nat
    BY <2>2, LineFacts DEF MessageInv
  <2>4. Len(m.chain) # Len(s.root)
    BY <1>1, <2>3, PeerFacts
  <2> QED BY <1>1, <2>1, <2>3, <2>4
<1>4. S \in SUBSET (0 .. top) /\ S # {}
  BY <1>2, <1>3
<1>5. Max(S) \in S
  <2> HIDE DEF S, top
  <2> QED BY <1>2, <1>4, MaxFacts
<1>6. Max(S) \in 0 .. top
  BY <1>4, <1>5
<1>7. Heard(s) = Max(S)
  BY DEF Heard
<1> HIDE DEF S
<1> QED BY <1>1, <1>6, <1>7

(* What an active session encrypts.                                          *)
LEMMA MessageFromInv ==
  ASSUME NEW p \in Parties, NEW s, NEW M, NEW d \in Nat, SessionInv(p, s, M, d), s.active,
         \A m \in M : \E q \in Parties : MessageInv(q, m, M, d),
         encrypted \in Nat
  PROVE  /\ MessageInv(p, MessageFrom(p, s), M, d)
         /\ MessageFrom(p, s).from = p /\ MessageFrom(p, s).chain = s.root
         /\ MessageFrom(p, s).index = s.index
<1> DEFINE m == MessageFrom(p, s)
<1>1. /\ s \in Session /\ Len(s.root) \in Nat /\ Len(s.root) > 0 /\ Len(s.root) % 2 = Turn(p)
      /\ s.root \in Chain /\ Shared(s) = Len(s.root) - 1
  BY RootFacts
<1>2. Heard(s) \in Nat /\ Heard(s) < Len(s.root)
  BY HeardFacts
<1>3. /\ m.from = p /\ m.chain = s.root /\ m.index = s.index /\ m.prekey = (s.chains = <<>>)
      /\ m.heard = Heard(s)
  BY DEF MessageFrom
<1>4. m \in Message
  BY <1>1, <1>2, SessionFacts DEF MessageFrom, Message
<1> HIDE DEF m
<1>5. m.prekey <=> Len(m.chain) = 1
  <2>1. Len(s.chains) \in Nat /\ DOMAIN s.chains = 1 .. Len(s.chains) /\ s.chains \in Seq(ReceiverChain)
    BY <1>1, SessionFacts
  <2>2. Turn(p) \in {0, 1}
    BY PeerFacts
  <2>3. CASE s.chains = <<>>
    <3>1. Len(s.chains) = 0 /\ Len(s.chains) < MaxChains
      BY <2>3, Limits
    <3>2. 0 = Len(s.root) - Turn(p)
      BY <1>1, <2>2, <3>1 DEF SessionInv, Chains
    <3> DEFINE l == Len(s.root)
    <3>4. l \in Nat /\ l > 0 /\ l - Turn(p) = 0
      BY <1>1, <3>2
    <3> HIDE DEF l
    <3>5. l = 1
      BY <2>2, <3>4
    <3>3. Len(s.root) = 1
      BY <3>5 DEF l
    <3> QED BY <1>3, <2>3, <3>3
  <2>4. CASE s.chains # <<>>
    <3>1. Len(s.chains) # 0
      BY <2>1, <2>4
    <3>2. Len(s.chains) \in DOMAIN s.chains
      BY <2>1, <3>1
    <3>3. Shared(s) > 0
      <4> DEFINE k == Len(s.chains)
      <4>1. Len(s.chains[k].chain) = Shared(s) - 2 * (k - k) /\ Len(s.chains[k].chain) > 0
        BY <3>2 DEF SessionInv, Chains
      <4>2. k - k = 0 /\ Shared(s) \in Int
        BY <1>1, <2>1
      <4> QED BY <4>1, <4>2
    <3> DEFINE l == Len(s.root)
    <3>5. l \in Nat /\ l - 1 > 0
      BY <1>1, <3>3
    <3> HIDE DEF l
    <3>6. l # 1
      BY <3>5
    <3>4. Len(s.root) # 1
      BY <3>6 DEF l
    <3> QED BY <1>3, <2>4, <3>4
  <2> QED BY <2>3, <2>4
<1>6. CameFrom(Peer(p), m.chain, Len(m.chain) - 1, M) /\ Line(m.chain, d)
  BY <1>1, <1>3 DEF SessionInv, Root
<1> QED BY <1>1, <1>2, <1>3, <1>4, <1>5, <1>6 DEF MessageInv, m

-----------------------------------------------------------------------------
(* The steps.                                                                *)

(* What one end does leaves the other end as it was.                         *)
LEMMA OtherEnd ==
  ASSUME NEW p, NEW s, NEW t, NEW D, NEW M, NEW N, NEW d \in Nat, NEW e \in Nat,
         PartyInv(p, s, t, D, M, d), M \subseteq N, d <= e,
         \A m \in N : m.from = p => m \in M
  PROVE  PartyInv(p, s, t, D, N, e)
<1>1. s # NoSession => SessionInv(p, s, N, e)
  BY SessionStays DEF PartyInv
<1>2. t # NoSession => SessionInv(p, t, N, e)
  BY SessionStays DEF PartyInv
<1>3. \A m \in D : MessageInv(p, m, N, e)
  BY MessageStays DEF PartyInv
<1>4. Ahead(p, s, N \cup D) /\ Ahead(p, t, N) /\ Once(p, N \cup D)
  BY DEF PartyInv, Ahead, Once
<1> QED BY <1>1, <1>2, <1>3, <1>4 DEF PartyInv

LEMMA OneEnd ==
  ASSUME IInv, NEW p \in Parties,
         session' \in [Parties -> Session \cup {NoSession}],
         disk' \in [Parties -> Session \cup {NoSession}],
         drafts' \in [Parties -> SUBSET Message],
         \A q \in Parties \ {p} :
           session'[q] = session[q] /\ disk'[q] = disk[q] /\ drafts'[q] = drafts[q],
         drawn' \in 0 .. MaxKeys, drawn <= drawn', encrypted' \in 0 .. MaxMessages,
         sent \subseteq sent', \A m \in sent' \ sent : MessageInv(p, m, sent', drawn'),
         PartyInv(p, session'[p], disk'[p], drafts'[p], sent', drawn')
  PROVE  IInv'
<1>1. drawn \in Nat /\ drawn' \in Nat
  BY BoundsAssumption DEF IInv
<1>2. ASSUME NEW q \in Parties
      PROVE  PartyInv(q, session'[q], disk'[q], drafts'[q], sent', drawn')
  <2>1. CASE q = p
    BY <2>1
  <2>2. CASE q # p
    <3>1. PartyInv(q, session[q], disk[q], drafts[q], sent, drawn)
      BY DEF IInv
    <3>2. \A m \in sent' : m.from = q => m \in sent
      BY <2>2 DEF MessageInv
    <3>3. PartyInv(q, session[q], disk[q], drafts[q], sent', drawn')
      BY <1>1, <3>1, <3>2, OtherEnd
    <3> QED BY <2>2, <3>3
  <2> QED BY <2>1, <2>2
<1>3. ASSUME NEW m \in sent' PROVE \E q \in Parties : MessageInv(q, m, sent', drawn')
  <2>1. CASE m \in sent
    <3>1. PICK q \in Parties : MessageInv(q, m, sent, drawn)
      BY <2>1 DEF IInv
    <3>2. MessageInv(q, m, sent', drawn')
      BY <1>1, <3>1, MessageStays
    <3> QED BY <3>2
  <2>2. CASE m \notin sent
    BY <2>2
  <2> QED BY <2>1, <2>2
<1> QED BY <1>2, <1>3 DEF IInv

LEMMA IInvFacts ==
  ASSUME IInv, NEW p \in Parties
  PROVE  /\ session[p] \in Session \cup {NoSession} /\ disk[p] \in Session \cup {NoSession}
         /\ drafts[p] \in SUBSET Message
         /\ sent \in SUBSET Message
         /\ drawn \in Nat /\ drawn <= MaxKeys /\ drawn \in 0 .. MaxKeys
         /\ encrypted \in Nat /\ encrypted \in 0 .. MaxMessages
         /\ session[p] # NoSession => SessionInv(p, session[p], sent, drawn)
         /\ disk[p] # NoSession => SessionInv(p, disk[p], sent, drawn)
         /\ \A m \in drafts[p] : MessageInv(p, m, sent, drawn) /\ m.from = p
         /\ Ahead(p, session[p], sent \cup drafts[p])
         /\ Ahead(p, disk[p], sent)
         /\ Once(p, sent \cup drafts[p])
         /\ \A m \in sent : \E q \in Parties : MessageInv(q, m, sent, drawn)
         /\ \A m \in sent : m.from \in Parties /\ MessageInv(m.from, m, sent, drawn)
<1>1. PartyInv(p, session[p], disk[p], drafts[p], sent, drawn)
  BY DEF IInv
<1>2. \A m \in sent : m.from \in Parties /\ MessageInv(m.from, m, sent, drawn)
  BY DEF IInv, MessageInv
<1>3. sent \in SUBSET Message
  BY <1>2 DEF MessageInv
<1>4. drawn \in Nat /\ drawn <= MaxKeys /\ encrypted \in Nat
  BY BoundsAssumption DEF IInv
<1>5. \A m \in drafts[p] : MessageInv(p, m, sent, drawn) /\ m.from = p
  BY <1>1 DEF PartyInv, MessageInv
<1> QED BY <1>1, <1>2, <1>3, <1>4, <1>5 DEF IInv, PartyInv

LEMMA InitIInv == Init => IInv
<1> SUFFICES ASSUME Init PROVE IInv
  OBVIOUS
<1>1. 0 \in 0 .. MaxKeys /\ 0 \in 0 .. MaxMessages
  BY BoundsAssumption
<1>2. \A p \in Parties : session[p] = NoSession /\ disk[p] = NoSession /\ drafts[p] = {}
  BY DEF Init
<1>3. \A p \in Parties : PartyInv(p, session[p], disk[p], drafts[p], sent, drawn)
  BY <1>2 DEF Init, PartyInv, Ahead, Once
<1> QED BY <1>1, <1>3 DEF Init, IInv

LEMMA OutboundStep == IInv /\ create_outbound => IInv'
<1> SUFFICES ASSUME IInv, create_outbound PROVE IInv'
  OBVIOUS
<1> DEFINE p == Alice
           s == Outbound(drawn)
<1>1. p \in Parties
  BY DEF Parties
<1>2. /\ session[p] = NoSession /\ drawn < MaxKeys /\ session' = [session EXCEPT ![p] = s]
      /\ drawn' = drawn + 1 /\ UNCHANGED <<drafts, disk, sent, encrypted>>
  BY DEF create_outbound
<1>3. drawn \in Nat /\ drawn + 1 \in Nat /\ drawn <= drawn + 1 /\ drawn + 1 \in 0 .. MaxKeys
  <2>1. drawn \in Nat
    BY <1>1, IInvFacts
  <2> QED BY <1>2, <2>1, BoundsAssumption
<1>4. SessionInv(p, s, sent, drawn + 1)
  BY <1>2, <1>3, OutboundInv
<1> HIDE DEF s
<1>5. s \in Session
  BY <1>4 DEF SessionInv, SessionOK
<1>6. \A m \in sent \cup drafts[p] : m.from # p
  BY <1>1, <1>2, IInvFacts DEF Ahead
<1>7. disk[p] # NoSession => SessionInv(p, disk[p], sent, drawn + 1)
  BY <1>1, <1>3, IInvFacts, SessionStays
<1>8. \A m \in drafts[p] : MessageInv(p, m, sent, drawn + 1)
  BY <1>1, <1>3, IInvFacts, MessageStays
<1>9. PartyInv(p, s, disk[p], drafts[p], sent, drawn + 1)
  BY <1>4, <1>6, <1>7, <1>8 DEF PartyInv, Ahead, Once
<1>10. /\ session' \in [Parties -> Session \cup {NoSession}]
       /\ disk' \in [Parties -> Session \cup {NoSession}] /\ drafts' \in [Parties -> SUBSET Message]
       /\ session'[p] = s /\ \A q \in Parties \ {p} : session'[q] = session[q]
  BY <1>1, <1>2, <1>5 DEF IInv
<1>11. encrypted' \in 0 .. MaxMessages
  BY <1>2 DEF IInv
<1> HIDE DEF p
<1> QED BY <1>1, <1>2, <1>3, <1>9, <1>10, <1>11, OneEnd

LEMMA InboundKept ==
  ASSUME IInv, NEW m \in To(Bob), create_inbound(m)
  PROVE  LET s == Decrypted(Inbound(m), m)
         IN  SessionInv(Bob, s, sent, drawn) /\ s \in Session
<1>1. Bob \in Parties /\ Peer(Bob) = Alice /\ m.prekey
  BY PartiesAssumption DEF Parties, Peer, create_inbound
<1>2. m \in sent /\ MessageInv(Alice, m, sent, drawn) /\ sent \in SUBSET Message
  <2>1. m \in sent /\ m.from = Alice
    BY <1>1 DEF To
  <2>2. sent \in SUBSET Message /\ \A n \in sent : MessageInv(n.from, n, sent, drawn)
    BY <1>1, IInvFacts
  <2> QED BY <2>1, <2>2
<1>3. SessionInv(Bob, Decrypted(Inbound(m), m), sent, drawn)
  BY <1>1, <1>2, IInvFacts, InboundInv
<1> QED BY <1>3 DEF SessionInv, SessionOK

LEMMA InboundStep ==
  ASSUME IInv, NEW m \in To(Bob), create_inbound(m)
  PROVE  IInv'
<1> DEFINE p == Bob
           s == Decrypted(Inbound(m), m)
<1>1. p \in Parties /\ Peer(p) = Alice
  BY PartiesAssumption DEF Parties, Peer
<1>2. /\ session[p] = NoSession /\ m.prekey /\ session' = [session EXCEPT ![p] = s]
      /\ UNCHANGED <<drafts, disk, sent, drawn, encrypted>>
  BY DEF create_inbound
<1>3. SessionInv(p, s, sent, drawn) /\ s \in Session
  BY InboundKept
<1> HIDE DEF s
<1>4. \A n \in sent \cup drafts[p] : n.from # p
  BY <1>1, <1>2, IInvFacts DEF Ahead
<1>5. PartyInv(p, s, disk[p], drafts[p], sent, drawn)
  <2>1. PartyInv(p, session[p], disk[p], drafts[p], sent, drawn)
    BY <1>1 DEF IInv
  <2> QED BY <1>3, <1>4, <2>1 DEF PartyInv, Ahead
<1>6. /\ session' \in [Parties -> Session \cup {NoSession}]
      /\ disk' \in [Parties -> Session \cup {NoSession}] /\ drafts' \in [Parties -> SUBSET Message]
      /\ session'[p] = s /\ \A q \in Parties \ {p} : session'[q] = session[q]
      /\ drawn' \in 0 .. MaxKeys /\ encrypted' \in 0 .. MaxMessages
  BY <1>1, <1>2, <1>3 DEF IInv
<1>7. drawn <= drawn'
  <2>1. drawn \in Nat
    BY <1>1, IInvFacts
  <2> QED BY <1>2, <2>1
<1> HIDE DEF p
<1> QED BY <1>1, <1>2, <1>5, <1>6, <1>7, OneEnd

(* A session that grew from one that was ahead is ahead, if its last key is  *)
(* its own and newer than the messages or it sends from where it was.        *)
LEMMA AheadGrows ==
  ASSUME NEW p, NEW s, NEW t, NEW M, NEW d \in Nat,
         Ahead(p, s, M), s \in Session, t \in Session, t # NoSession,
         \A m \in M : m.from = p => m \in Message /\ Line(m.chain, d),
         Under(s.root, t.root),
         \/ ~ Line(t.root, d)
         \/ ~ t.active
         \/ t.root = s.root /\ s.active /\ t.index \in {s.index, s.index + 1}
  PROVE  Ahead(p, t, M)
<1> SUFFICES ASSUME NEW m \in M, m.from = p
             PROVE  Under(m.chain, t.root) /\ (t.active /\ m.chain = t.root => m.index < t.index)
  BY DEF Ahead
<1>1. m.chain \in Chain /\ m.index \in Nat /\ Line(m.chain, d) /\ Under(m.chain, s.root)
      /\ (s.active /\ m.chain = s.root => m.index < s.index)
  BY DEF Ahead, Message
<1>2. Under(m.chain, t.root)
  BY <1>1, SessionFacts, UnderTrans
<1>3. s.index \in Nat
  BY SessionFacts
<1>4. CASE ~ Line(t.root, d)
  BY <1>1, <1>2, <1>4
<1>5. CASE ~ t.active
  BY <1>2, <1>5
<1>6. CASE t.root = s.root /\ s.active /\ t.index \in {s.index, s.index + 1}
  <2>1. m.chain = t.root => m.index < s.index
    BY <1>1, <1>6
  <2>2. m.index < s.index => m.index < t.index
    BY <1>1, <1>3, <1>6
  <2> QED BY <1>2, <2>1, <2>2
<1> QED BY <1>4, <1>5, <1>6

(* What a session that encrypts adds to its drafts.                          *)
LEMMA EncryptEnd ==
  ASSUME IInv, NEW p \in Parties, NEW s, NEW e \in Nat, drawn <= e,
         SessionInv(p, s, sent, e), s.active,
         Ahead(p, s, sent \cup drafts[p]),
         \A m \in sent \cup drafts[p] : m.from = p /\ m.chain = s.root => m.index < s.index
  PROVE  LET t == [s EXCEPT !.index = @ + 1]
             m == MessageFrom(p, s)
         IN  /\ PartyInv(p, t, disk[p], drafts[p] \cup {m}, sent, e)
             /\ t \in Session /\ m \in Message
<1> DEFINE t == [s EXCEPT !.index = @ + 1]
           m == MessageFrom(p, s)
           D == drafts[p] \cup {m}
<1>1. /\ SessionInv(p, t, sent, e) /\ t \in Session
      /\ t.root = s.root /\ t.active /\ t.index = s.index + 1
  <2>1. sent \in SUBSET Message
    BY IInvFacts
  <2> QED BY <2>1, IndexInv
<1>2. \A n \in sent : MessageInv(n.from, n, sent, e) /\ n.from \in Parties
  <2>1. drawn \in Nat /\ \A n \in sent : MessageInv(n.from, n, sent, drawn) /\ n.from \in Parties
    BY IInvFacts
  <2> QED BY <2>1, MessageStays
<1>3. MessageInv(p, m, sent, e) /\ m.from = p /\ m.chain = s.root /\ m.index = s.index
  <2>1. encrypted \in Nat /\ \A n \in sent : \E q \in Parties : MessageInv(q, n, sent, e)
    BY <1>2, IInvFacts
  <2> QED BY <2>1, MessageFromInv
<1> HIDE DEF t, m
<1>4. s \in Session /\ t # NoSession /\ s.root \in Chain /\ s.index \in Nat
  BY <1>1, SessionFacts, NoSessionAssumption DEF SessionInv, SessionOK
<1>5. disk[p] # NoSession => SessionInv(p, disk[p], sent, e)
  <2>1. drawn \in Nat /\ (disk[p] # NoSession => SessionInv(p, disk[p], sent, drawn))
    BY IInvFacts
  <2> QED BY <2>1, SessionStays
<1>6. \A n \in D : MessageInv(p, n, sent, e)
  <2>1. drawn \in Nat /\ \A n \in drafts[p] : MessageInv(p, n, sent, drawn)
    BY IInvFacts
  <2> QED BY <1>3, <2>1, MessageStays
<1>7. \A n \in sent \cup drafts[p] : n.from = p => n.index \in Nat /\ n # m /\ Under(n.chain, s.root)
                               /\ (n.chain = s.root => n.index < s.index)
  <2> TAKE n \in sent \cup drafts[p]
  <2> HAVE n.from = p
  <2>1. n \in Message
    BY IInvFacts
  <2>2. n.index \in Nat
    BY <2>1 DEF Message
  <2>3. Under(n.chain, s.root) /\ (n.chain = s.root => n.index < s.index)
    BY DEF Ahead
  <2>4. ~ (s.index < s.index)
    BY <1>4
  <2> QED BY <1>3, <2>2, <2>3, <2>4
<1>8. Ahead(p, t, sent \cup D)
  <2> SUFFICES ASSUME NEW n \in sent \cup D, n.from = p
               PROVE  Under(n.chain, s.root) /\ (n.chain = s.root => n.index < s.index + 1)
    BY <1>1, <1>4 DEF Ahead
  <2>1. CASE n = m
    BY <1>3, <1>4, <2>1 DEF Under, Chain
  <2>2. CASE n # m
    <3>1. n \in sent \cup drafts[p]
      BY <2>2
    <3>2. n.index \in Nat /\ Under(n.chain, s.root) /\ (n.chain = s.root => n.index < s.index)
      BY <1>7, <3>1
    <3> QED BY <1>4, <3>2
  <2> QED BY <2>1, <2>2
<1>9. Once(p, sent \cup D)
  <2> SUFFICES ASSUME NEW n \in sent \cup D, NEW o \in sent \cup D, n.from = p, o.from = p,
                      n.chain = o.chain, n.index = o.index
               PROVE  n = o
    BY DEF Once
  <2>1. \A x \in sent \cup drafts[p] : x.from = p => ~ (x.chain = m.chain /\ x.index = m.index)
    <3> TAKE x \in sent \cup drafts[p]
    <3> HAVE x.from = p
    <3>1. x.index \in Nat /\ (x.chain = s.root => x.index < s.index)
      BY <1>7
    <3> QED BY <1>3, <1>4, <3>1
  <2>2. CASE n \in sent \cup drafts[p] /\ o \in sent \cup drafts[p]
    BY <2>2, IInvFacts DEF Once
  <2> QED BY <2>1, <2>2
<1>10. Ahead(p, disk[p], sent)
  BY IInvFacts
<1>11. m \in Message
  BY <1>3 DEF MessageInv
<1> QED BY <1>1, <1>5, <1>6, <1>8, <1>9, <1>10, <1>11 DEF PartyInv, t, m

LEMMA EncryptStep ==
  ASSUME IInv, NEW p \in Parties, encrypt(p)
  PROVE  IInv'
<1> DEFINE s == IF session[p].active THEN session[p] ELSE Activated(session[p], drawn)
           t == [s EXCEPT !.index = @ + 1]
           m == MessageFrom(p, s)
           D == drafts[p] \cup {m}
<1>1. /\ session[p] # NoSession /\ encrypted < MaxMessages
      /\ session[p].active \/ drawn < MaxKeys
      /\ drafts' = [drafts EXCEPT ![p] = D] /\ session' = [session EXCEPT ![p] = t]
      /\ drawn' = IF session[p].active THEN drawn ELSE drawn + 1
      /\ encrypted' = encrypted + 1
      /\ UNCHANGED <<disk, sent>>
  BY DEF encrypt
<1>2. /\ drawn \in Nat /\ encrypted \in Nat /\ sent \in SUBSET Message
      /\ SessionInv(p, session[p], sent, drawn) /\ Ahead(p, session[p], sent \cup drafts[p])
      /\ drafts[p] \in SUBSET Message /\ drawn <= MaxKeys
  BY <1>1, IInvFacts
<1>3. encrypted' \in 0 .. MaxMessages
  BY <1>1, <1>2, BoundsAssumption
<1>4. session[p] \in Session
  BY <1>2 DEF SessionInv, SessionOK
<1>5. \A n \in sent \cup drafts[p] : n.from = p => n \in Message /\ Line(n.chain, drawn)
  BY <1>2, IInvFacts DEF MessageInv
<1>6. /\ drawn' \in Nat /\ drawn <= drawn' /\ drawn' \in 0 .. MaxKeys
      /\ SessionInv(p, s, sent, drawn') /\ s.active
      /\ Ahead(p, s, sent \cup drafts[p])
      /\ \A n \in sent \cup drafts[p] : n.from = p /\ n.chain = s.root => n.index < s.index
  <2>1. CASE session[p].active
    <3>1. s = session[p] /\ drawn' = drawn
      BY <1>1, <2>1
    <3>2. drawn <= drawn /\ drawn \in 0 .. MaxKeys
      BY <1>2, BoundsAssumption
    <3> HIDE DEF s
    <3> QED BY <1>2, <2>1, <3>1, <3>2 DEF Ahead
  <2>2. CASE ~ session[p].active
    <3>1. s = Activated(session[p], drawn) /\ drawn' = drawn + 1 /\ drawn < MaxKeys
      BY <1>1, <2>2
    <3> HIDE DEF s
    <3>2. /\ SessionInv(p, s, sent, drawn + 1)
          /\ s.active /\ Under(session[p].root, s.root) /\ ~ Line(s.root, drawn)
      BY <1>2, <2>2, <3>1, ActivatedInv
    <3>3. s \in Session /\ s # NoSession
      BY <3>2, NoSessionAssumption DEF SessionInv, SessionOK
    <3>4. Ahead(p, s, sent \cup drafts[p])
      BY <1>2, <1>4, <1>5, <3>2, <3>3, AheadGrows
    <3>5. drawn + 1 \in Nat /\ drawn <= drawn + 1 /\ drawn + 1 \in 0 .. MaxKeys
      BY <1>2, <3>1, BoundsAssumption
    <3> QED BY <3>1, <3>2, <3>4, <3>5 DEF Ahead
  <2> QED BY <2>1, <2>2
<1> HIDE DEF s
<1>7. PartyInv(p, t, disk[p], D, sent, drawn') /\ t \in Session /\ m \in Message
  BY <1>6, EncryptEnd
<1> HIDE DEF t, m
<1>8. D \in SUBSET Message
  BY <1>2, <1>7
<1> HIDE DEF D
<1>9. /\ session' \in [Parties -> Session \cup {NoSession}]
      /\ disk' \in [Parties -> Session \cup {NoSession}] /\ drafts' \in [Parties -> SUBSET Message]
      /\ session'[p] = t /\ drafts'[p] = D
      /\ \A q \in Parties \ {p} : session'[q] = session[q] /\ drafts'[q] = drafts[q]
  BY <1>1, <1>7, <1>8 DEF IInv
<1> QED BY <1>1, <1>3, <1>6, <1>7, <1>9, OneEnd

(* A step that replaces one session by another that is ahead of what was     *)
(* sent.                                                                     *)
LEMMA SessionStep ==
  ASSUME IInv, NEW p \in Parties, NEW s,
         session' = [session EXCEPT ![p] = s],
         UNCHANGED <<drafts, disk, sent, encrypted>>,
         drawn' \in 0 .. MaxKeys, drawn <= drawn',
         s \in Session, SessionInv(p, s, sent, drawn'), Ahead(p, s, sent \cup drafts[p])
  PROVE  IInv'
<1>1. drawn \in Nat /\ drawn' \in Nat
  <2>1. drawn \in Nat
    BY IInvFacts
  <2>2. drawn' \in Nat
    BY BoundsAssumption
  <2> QED BY <2>1, <2>2
<1>2. disk[p] # NoSession => SessionInv(p, disk[p], sent, drawn')
  <2>1. disk[p] # NoSession => SessionInv(p, disk[p], sent, drawn)
    BY IInvFacts
  <2> QED BY <1>1, <2>1, SessionStays
<1>3. \A m \in drafts[p] : MessageInv(p, m, sent, drawn')
  <2>1. \A m \in drafts[p] : MessageInv(p, m, sent, drawn)
    BY IInvFacts
  <2> QED BY <1>1, <2>1, MessageStays
<1>4. Ahead(p, disk[p], sent) /\ Once(p, sent \cup drafts[p])
  BY IInvFacts
<1>5. PartyInv(p, s, disk[p], drafts[p], sent, drawn')
  BY <1>2, <1>3, <1>4 DEF PartyInv
<1>6. /\ session' \in [Parties -> Session \cup {NoSession}]
      /\ disk' \in [Parties -> Session \cup {NoSession}] /\ drafts' \in [Parties -> SUBSET Message]
      /\ session'[p] = s /\ \A q \in Parties \ {p} : session'[q] = session[q]
      /\ encrypted' \in 0 .. MaxMessages
  BY DEF IInv
<1> QED BY <1>5, <1>6, OneEnd

(* What a session decrypts is its peer's, and leaves it in order.            *)
LEMMA DecryptedInv ==
  ASSUME IInv, NEW p \in Parties, NEW m \in To(p) \cup {StrayMessage(p)},
         session[p] # NoSession, Decrypts(session[p], m)
  PROVE  LET s == session[p]
             t == Decrypted(s, m)
         IN  /\ m \in sent /\ m.from = Peer(p)
             /\ SessionInv(p, t, sent, drawn) /\ t \in Session /\ Under(s.root, t.root)
             /\ t.active => t.root = s.root /\ s.active /\ t.index = s.index
<1> DEFINE s == session[p]
           t == Decrypted(s, m)
<1>1. /\ drawn \in Nat /\ sent \in SUBSET Message
      /\ SessionInv(p, s, sent, drawn) /\ s.root \in Chain
  BY IInvFacts, RootFacts
<1>2. m \in sent /\ m.from = Peer(p)
  <2>1. m # StrayMessage(p)
    BY <1>1, StrayRefused
  <2> QED BY <2>1 DEF To
<1>3. CASE Found(s, m) # {}
  <2>1. /\ SessionInv(p, t, sent, drawn) /\ t \in Session
        /\ t.root = s.root /\ t.active = s.active /\ t.index = s.index
    BY <1>1, <1>2, <1>3, ReadInv
  <2> HIDE DEF t
  <2>2. Under(s.root, s.root)
    BY <1>1 DEF Under, Chain
  <2> QED BY <1>2, <2>1, <2>2 DEF t
<1>4. CASE Found(s, m) = {}
  <2>1. MessageInv(Peer(p), m, sent, drawn)
    <3>1. \A n \in sent : MessageInv(n.from, n, sent, drawn)
      BY IInvFacts
    <3> QED BY <1>2, <3>1
  <2>2. SessionInv(p, t, sent, drawn) /\ t \in Session /\ Under(s.root, t.root) /\ ~t.active
    BY <1>1, <1>2, <1>4, <2>1, TurnInv
  <2> QED BY <1>2, <2>2
<1> QED BY <1>3, <1>4

LEMMA DecryptStep ==
  ASSUME IInv, NEW p \in Parties, NEW m \in To(p) \cup {StrayMessage(p)}, decrypt(p, m)
  PROVE  IInv'
<1> DEFINE s == session[p]
<1>1. s # NoSession /\ UNCHANGED <<drafts, disk, sent, encrypted>>
  BY DEF decrypt
<1>2. /\ drawn \in Nat /\ sent \in SUBSET Message /\ drawn \in 0 .. MaxKeys
      /\ SessionInv(p, s, sent, drawn) /\ Ahead(p, s, sent \cup drafts[p])
      /\ drafts[p] \in SUBSET Message
  BY <1>1, IInvFacts
<1>3. s \in Session /\ s.root \in Chain /\ s.index \in Nat
  BY <1>2, SessionFacts DEF SessionInv, SessionOK
<1>4. \A n \in sent \cup drafts[p] : n.from = p => n \in Message /\ Line(n.chain, drawn)
  BY <1>2, IInvFacts DEF MessageInv
<1>5. drawn <= drawn
  BY <1>2
<1>6. CASE Decrypts(s, m) /\ session' = [session EXCEPT ![p] = Decrypted(@, m)] /\ UNCHANGED drawn
  <2> DEFINE t == Decrypted(s, m)
  <2>2. session' = [session EXCEPT ![p] = t]
    BY <1>6
  <2>3. SessionInv(p, t, sent, drawn) /\ t \in Session /\ Under(s.root, t.root)
        /\ (t.active => t.root = s.root /\ s.active /\ t.index = s.index)
    BY <1>1, <1>6, DecryptedInv
  <2> HIDE DEF t
  <2>4. t # NoSession
    BY <2>3, NoSessionAssumption
  <2> HIDE DEF s
  <2>5. Ahead(p, t, sent \cup drafts[p])
    BY <1>2, <1>3, <1>4, <2>3, <2>4, AheadGrows
  <2>6. drawn' = drawn
    BY <1>6
  <2> QED BY <1>1, <1>2, <1>5, <2>2, <2>3, <2>5, <2>6, SessionStep
<1>7. CASE ~Decrypts(s, m) /\ Mutates(s, m) /\ drawn < MaxKeys
           /\ session' = [session EXCEPT ![p] = Activated(@, drawn)] /\ drawn' = drawn + 1
  <2> DEFINE t == Activated(s, drawn)
  <2>1. session' = [session EXCEPT ![p] = t]
    BY <1>7
  <2>2. ~s.active /\ drawn < MaxKeys
    BY <1>7 DEF Mutates
  <2>3. SessionInv(p, t, sent, drawn + 1) /\ Under(s.root, t.root) /\ ~ Line(t.root, drawn)
    BY <1>2, <2>2, ActivatedInv
  <2> HIDE DEF t
  <2>4. t \in Session /\ t # NoSession
    BY <2>3, NoSessionAssumption DEF SessionInv, SessionOK
  <2> HIDE DEF s
  <2>5. Ahead(p, t, sent \cup drafts[p])
    BY <1>2, <1>3, <1>4, <2>3, <2>4, AheadGrows
  <2>6. drawn' = drawn + 1 /\ drawn <= drawn' /\ drawn' \in 0 .. MaxKeys
    BY <1>2, <1>7, BoundsAssumption
  <2> QED BY <1>1, <2>1, <2>3, <2>4, <2>5, <2>6, SessionStep
<1>8. CASE UNCHANGED <<session, drawn>>
  <2>1. session' = [session EXCEPT ![p] = s]
    BY <1>8 DEF IInv
  <2>2. drawn' = drawn
    BY <1>8
  <2> HIDE DEF s
  <2> QED BY <1>1, <1>2, <1>3, <1>5, <2>1, <2>2, SessionStep
<1> QED BY <1>6, <1>7, <1>8 DEF decrypt

LEMMA PickleStep ==
  ASSUME IInv, NEW p \in Parties, session_pickle(p)
  PROVE  IInv'
<1> DEFINE s == session[p]
           N == sent \cup drafts[p]
<1>1. /\ s # NoSession
      /\ disk' = [disk EXCEPT ![p] = s] /\ sent' = N
      /\ drafts' = [drafts EXCEPT ![p] = {}]
      /\ UNCHANGED <<session, drawn, encrypted>>
  BY DEF session_pickle
<1>2. /\ drawn \in Nat /\ drawn \in 0 .. MaxKeys
      /\ SessionInv(p, s, sent, drawn) /\ Ahead(p, s, N) /\ Once(p, N)
      /\ s \in Session \cup {NoSession}
      /\ \A m \in drafts[p] : MessageInv(p, m, sent, drawn)
  BY <1>1, IInvFacts
<1>3. drawn <= drawn /\ sent \subseteq N
  BY <1>2
<1> HIDE DEF N, s
<1>4. SessionInv(p, s, N, drawn)
  BY <1>2, <1>3, SessionStays
<1>5. PartyInv(p, s, s, {}, N, drawn)
  <2>1. N \cup {} = N
    OBVIOUS
  <2> QED BY <1>2, <1>4, <2>1 DEF PartyInv
<1>6. \A m \in sent' \ sent : MessageInv(p, m, N, drawn)
  <2>1. \A m \in sent' \ sent : m \in drafts[p]
    BY <1>1 DEF N
  <2> QED BY <1>2, <1>3, <2>1, MessageStays
<1>7. /\ session' \in [Parties -> Session \cup {NoSession}]
      /\ disk' \in [Parties -> Session \cup {NoSession}] /\ drafts' \in [Parties -> SUBSET Message]
      /\ session'[p] = s /\ disk'[p] = s /\ drafts'[p] = {}
      /\ \A q \in Parties \ {p} :
           session'[q] = session[q] /\ disk'[q] = disk[q] /\ drafts'[q] = drafts[q]
      /\ encrypted' \in 0 .. MaxMessages /\ drawn' = drawn
  BY <1>1, <1>2 DEF IInv, s
<1> QED BY <1>1, <1>2, <1>3, <1>5, <1>6, <1>7, OneEnd

LEMMA UnpickleStep ==
  ASSUME IInv, NEW p \in Parties, session_unpickle(p)
  PROVE  IInv'
<1>1. /\ session' = [session EXCEPT ![p] = disk[p]]
      /\ drafts' = [drafts EXCEPT ![p] = {}]
      /\ UNCHANGED <<disk, sent, drawn, encrypted>>
  BY DEF session_unpickle
<1>2. /\ drawn \in Nat /\ drawn \in 0 .. MaxKeys /\ disk[p] \in Session \cup {NoSession}
      /\ (disk[p] # NoSession => SessionInv(p, disk[p], sent, drawn))
      /\ Ahead(p, disk[p], sent) /\ Once(p, sent \cup drafts[p])
  BY IInvFacts
<1>3. drawn <= drawn
  BY <1>2
<1>4. PartyInv(p, disk[p], disk[p], {}, sent, drawn)
  <2>1. sent \cup {} = sent /\ Once(p, sent)
    BY <1>2 DEF Once
  <2> QED BY <1>2, <2>1 DEF PartyInv
<1>5. /\ session' \in [Parties -> Session \cup {NoSession}]
      /\ disk' \in [Parties -> Session \cup {NoSession}] /\ drafts' \in [Parties -> SUBSET Message]
      /\ session'[p] = disk[p] /\ disk'[p] = disk[p] /\ drafts'[p] = {}
      /\ \A q \in Parties \ {p} :
           session'[q] = session[q] /\ disk'[q] = disk[q] /\ drafts'[q] = drafts[q]
      /\ encrypted' \in 0 .. MaxMessages /\ drawn' = drawn /\ sent' = sent
  BY <1>1, <1>2 DEF IInv
<1> QED BY <1>2, <1>3, <1>4, <1>5, OneEnd

(* The inductive invariant of the two ends.                                  *)
THEOREM OlmIInv == Spec => []IInv
<1>1. Init => IInv
  BY InitIInv
<1>2. IInv /\ [Next]_vars => IInv'
  <2> SUFFICES ASSUME IInv, [Next]_vars PROVE IInv'
    OBVIOUS
  <2>1. CASE create_outbound
    BY <2>1, OutboundStep
  <2>2. ASSUME NEW m \in To(Bob), create_inbound(m) PROVE IInv'
    BY <2>2, InboundStep
  <2>3. ASSUME NEW p \in Parties, encrypt(p) PROVE IInv'
    BY <2>3, EncryptStep
  <2>4. ASSUME NEW p \in Parties, NEW m \in To(p) \cup {StrayMessage(p)}, decrypt(p, m) PROVE IInv'
    BY <2>4, DecryptStep
  <2>5. ASSUME NEW p \in Parties, session_pickle(p) PROVE IInv'
    BY <2>5, PickleStep
  <2>6. ASSUME NEW p \in Parties, session_unpickle(p) PROVE IInv'
    BY <2>6, UnpickleStep
  <2>7. CASE UNCHANGED vars
    BY <2>7 DEF vars, IInv
  <2> QED BY <2>1, <2>2, <2>3, <2>4, <2>5, <2>6, <2>7 DEF Next
<1> QED BY <1>1, <1>2, PTL DEF Spec

-----------------------------------------------------------------------------
(* What the two ends promise.                                                *)

(* Sessions and messages keep to their types, and the stores to their limits.*)
THEOREM OlmTypeOK == Spec => []TypeOK
<1>1. IInv => TypeOK
  <2> SUFFICES ASSUME IInv PROVE TypeOK
    OBVIOUS
  <2>1. ASSUME NEW p \in Parties
        PROVE  /\ \A s \in {session[p], disk[p]} : s = NoSession \/ SessionOK(s)
               /\ drafts[p] \subseteq Message
    <3>1. /\ session[p] # NoSession => SessionOK(session[p])
          /\ disk[p] # NoSession => SessionOK(disk[p])
      BY IInvFacts DEF SessionInv
    <3>2. drafts[p] \in SUBSET Message
      BY IInvFacts
    <3> QED BY <3>1, <3>2
  <2>2. sent \subseteq Message
    BY DEF IInv, MessageInv
  <2> QED BY <2>1, <2>2 DEF TypeOK, IInv
<1> QED BY <1>1, OlmIInv, PTL

(* The length of a chain tells whose it is.                                  *)
LEMMA TurnTells ==
  ASSUME NEW p \in Parties, NEW q \in Parties
  PROVE  p = q <=> Turn(p) = Turn(q)
BY PartiesAssumption DEF Parties, Turn

(* No message key protects two plaintexts, over any number of crashes: an    *)
(* end that goes on from its pickle has sent nothing at or after its index.  *)
THEOREM OlmMessageKeyOnce == Spec => []MessageKeyOnce
<1>1. IInv => MessageKeyOnce
  <2> SUFFICES ASSUME IInv, NEW m \in sent, NEW n \in sent, m.chain = n.chain, m.index = n.index
               PROVE  m = n
    BY DEF MessageKeyOnce
  <2>1. /\ m.from \in Parties /\ MessageInv(m.from, m, sent, drawn)
        /\ n.from \in Parties /\ MessageInv(n.from, n, sent, drawn)
    BY DEF IInv, MessageInv
  <2>2. m.from = n.from
    BY <2>1, TurnTells DEF MessageInv
  <2>3. Once(m.from, sent \cup drafts[m.from])
    BY <2>1, IInvFacts
  <2> QED BY <2>2, <2>3 DEF Once
<1> QED BY <1>1, OlmIInv, PTL

LEMMA AppendLonger ==
  ASSUME NEW c \in Chain, NEW k, NEW b \in Chain, Len(b) <= Len(c)
  PROVE  Append(c, k) # b
<1>1. c \in Seq(Key \cup {k}) /\ Len(c) \in Nat /\ Len(b) \in Nat
  BY DEF Chain
<1>2. Len(Append(c, k)) = Len(c) + 1
  BY <1>1
<1>3. Len(Append(c, k)) # Len(b)
  BY <1>1, <1>2
<1> QED BY <1>3, Zenon

(* A message that was read is refused ever after.                            *)
THEOREM OlmReadOnce == Spec => []ReadOnce
<1>1. IInv => ReadOnce
  <2> SUFFICES ASSUME IInv, NEW p \in Parties, session[p] # NoSession, NEW m \in session[p].read
               PROVE  ~Decrypts(session[p], m)
    BY DEF ReadOnce
  <2> DEFINE s == session[p]
  <2>1. SessionInv(p, s, sent, drawn) /\ sent \in SUBSET Message
    BY IInvFacts
  <2> HIDE DEF s
  <2>2. /\ m \in Message /\ m.chain \in Chain /\ m.index \in Nat /\ Under(m.chain, s.root)
        /\ \A n \in DOMAIN s.chains : s.chains[n].chain = m.chain =>
             m.index < s.chains[n].next /\ m.index \notin s.chains[n].skipped
    BY <2>1 DEF SessionInv, Spent, Message, s
  <2>3. s \in Session /\ s.root \in Chain /\ DOMAIN s.chains = 1 .. Len(s.chains)
    BY <2>1, RootFacts, SessionFacts
  <2>4. CASE Found(s, m) # {}
    <3>1. PICK n \in Found(s, m) : TRUE
      BY <2>4
    <3>2. n \in DOMAIN s.chains
      BY <2>3, <3>1 DEF Found
    <3>3. ~ Reads(s.chains[n], m)
      BY <2>2, <3>2 DEF Reads
    <3> QED BY <2>4, <3>3 DEF Decrypts, s
  <2>5. CASE Found(s, m) = {}
    <3>1. Append(s.root, Last(m.chain)) # m.chain
      BY <2>2, <2>3, AppendLonger DEF Under
    <3> QED BY <2>5, <3>1 DEF Decrypts, Reads, NextChain, NewChain, s
  <2> QED BY <2>4, <2>5
<1> QED BY <1>1, OlmIInv, PTL

(* When Alice leaves off the pre-key part she has read an answer of Bob's,   *)
(* and what Bob sent is behind his pickle.                                   *)
THEOREM OlmNormalMeansEstablished == Spec => []NormalMeansEstablished
<1>1. IInv => NormalMeansEstablished
  <2> SUFFICES ASSUME IInv, NEW m \in sent, m.from = Alice, ~m.prekey
               PROVE  disk[Bob] # NoSession
    BY DEF NormalMeansEstablished
  <2>1. Alice \in Parties /\ Bob \in Parties /\ Peer(Alice) = Bob
    BY DEF Parties, Peer
  <2>2. MessageInv(Alice, m, sent, drawn)
    BY DEF IInv, MessageInv
  <2>3. Len(m.chain) \in Nat /\ Len(m.chain) # 1
    BY <2>2, LineFacts DEF MessageInv
  <2>4. Len(m.chain) - 1 # 0
    BY <2>3
  <2>5. PICK n \in sent : n.from = Bob
    BY <2>1, <2>2, <2>4 DEF MessageInv, CameFrom
  <2>6. Ahead(Bob, disk[Bob], sent)
    BY <2>1, IInvFacts
  <2> QED BY <2>5, <2>6 DEF Ahead
<1> QED BY <1>1, OlmIInv, PTL

(* What both ends have sent lies on one line of ratchet keys.                *)
LEMMA OnDisk ==
  ASSUME IInv, NEW m \in sent
  PROVE  /\ m.from \in Parties /\ MessageInv(m.from, m, sent, drawn) /\ m.chain \in Chain
         /\ disk[m.from] # NoSession
         /\ SessionInv(m.from, disk[m.from], sent, drawn)
         /\ disk[m.from].root \in Chain /\ Under(m.chain, disk[m.from].root)
<1>1. m.from \in Parties /\ MessageInv(m.from, m, sent, drawn)
  BY DEF IInv, MessageInv
<1>2. disk[m.from] # NoSession /\ Under(m.chain, disk[m.from].root)
  BY <1>1, IInvFacts DEF Ahead
<1>3. SessionInv(m.from, disk[m.from], sent, drawn)
  BY <1>1, <1>2, IInvFacts
<1> QED BY <1>1, <1>2, <1>3, RootFacts, LineFacts DEF MessageInv

(* The root of a session and the pickled root of its peer.                   *)
LEMMA RootsOnLine ==
  ASSUME IInv, NEW p \in Parties, NEW s, SessionInv(p, s, sent, drawn), Ahead(p, s, sent),
         disk[Peer(p)] # NoSession
  PROVE  Under(s.root, disk[Peer(p)].root) \/ Under(disk[Peer(p)].root, s.root)
<1> DEFINE q == Peer(p)
           t == disk[q]
<1>1. q \in Parties
  BY PeerFacts
<1>2. drawn \in Nat /\ SessionInv(q, t, sent, drawn) /\ Ahead(q, t, sent)
  BY <1>1, IInvFacts
<1> HIDE DEF t
<1>3. Root(p, s, sent, drawn) /\ Root(q, t, sent, drawn)
  BY <1>2 DEF SessionInv
<1>4. \A m \in sent : m.from = p => Under(m.chain, s.root)
  BY DEF Ahead
<1>5. \A m \in sent : m.from = q => Under(m.chain, t.root)
  BY <1>2 DEF Ahead
<1>6. Under(s.root, t.root) \/ Under(t.root, s.root)
  BY <1>2, <1>3, <1>4, <1>5, OneLine
<1> QED BY <1>6 DEF t

LEMMA Comparable ==
  ASSUME NEW a \in Chain, NEW b \in Chain, NEW c \in Chain, Under(a, c), Under(b, c)
  PROVE  Under(a, b) \/ Under(b, a)
<1>1. Len(a) \in Nat /\ Len(b) \in Nat
  BY DEF Chain
<1>2. Len(a) <= Len(b) \/ Len(b) <= Len(a)
  BY <1>1
<1> QED BY <1>2, UnderBoth

(* The ratchets never part, are drawn in turns, and each answer goes out on  *)
(* a newer ratchet than any its sender has read from.                        *)
THEOREM OlmOneConversation == Spec => []OneConversation
<1>1. IInv => OneConversation
  <2> SUFFICES ASSUME IInv, NEW m \in sent, NEW n \in sent
               PROVE  /\ IsPrefix(m.chain, n.chain) \/ IsPrefix(n.chain, m.chain)
                      /\ (m.from = n.from) <=> (Len(m.chain) % 2 = Len(n.chain) % 2)
                      /\ Len(m.chain) > m.heard
    BY DEF OneConversation
  <2> DEFINE p == m.from
             q == n.from
             s == disk[p]
             t == disk[q]
  <2>1. /\ p \in Parties /\ MessageInv(p, m, sent, drawn) /\ m.chain \in Chain
        /\ s # NoSession /\ SessionInv(p, s, sent, drawn)
        /\ s.root \in Chain /\ Under(m.chain, s.root)
    BY OnDisk
  <2>2. /\ q \in Parties /\ MessageInv(q, n, sent, drawn) /\ n.chain \in Chain
        /\ t # NoSession /\ SessionInv(q, t, sent, drawn)
        /\ t.root \in Chain /\ Under(n.chain, t.root)
    BY OnDisk
  <2>3. Under(s.root, t.root) \/ Under(t.root, s.root)
    <3>1. CASE p = q
      BY <2>1, <3>1 DEF Under, Chain
    <3>2. CASE p # q
      <4>1. q = Peer(p)
        BY <2>1, <2>2, <3>2 DEF Parties, Peer
      <4>2. Ahead(p, s, sent)
        BY <2>1, IInvFacts
      <4> QED BY <2>1, <2>2, <4>1, <4>2, RootsOnLine
    <3> QED BY <3>1, <3>2
  <2> HIDE DEF s, t
  <2>4. Under(m.chain, n.chain) \/ Under(n.chain, m.chain)
    <3>1. CASE Under(s.root, t.root)
      <4>1. Under(m.chain, t.root)
        BY <2>1, <2>2, <3>1, UnderTrans
      <4> QED BY <2>1, <2>2, <4>1, Comparable
    <3>2. CASE Under(t.root, s.root)
      <4>1. Under(n.chain, s.root)
        BY <2>1, <2>2, <3>2, UnderTrans
      <4> QED BY <2>1, <2>2, <4>1, Comparable
    <3> QED BY <2>3, <3>1, <3>2
  <2>5. IsPrefix(m.chain, n.chain) \/ IsPrefix(n.chain, m.chain)
    BY <2>1, <2>2, <2>4, UnderPrefix
  <2>6. Len(m.chain) % 2 = Turn(p) /\ Len(n.chain) % 2 = Turn(q)
    BY <2>1, <2>2 DEF MessageInv
  <2>7. Len(m.chain) > m.heard
    <3>1. Len(m.chain) \in Nat /\ m.heard \in Nat /\ m.heard < Len(m.chain)
      BY <2>1, LineFacts DEF MessageInv, Message
    <3> QED BY <3>1
  <2> QED BY <2>1, <2>2, <2>5, <2>6, <2>7, TurnTells
<1> QED BY <1>1, OlmIInv, PTL

-----------------------------------------------------------------------------
(* What was sent can be read, unless it was given up.                        *)

LEMMA UnderLine ==
  ASSUME NEW c \in Chain, NEW r, NEW d, Line(r, d), Under(c, r), Len(c) > 0
  PROVE  Line(c, d)
<1>1. r \in Chain /\ Len(r) \in Nat /\ Len(c) \in Nat /\ c # <<>>
  BY LineFacts DEF Chain
<1>2. \A i \in 1 .. Len(c) : i \in 1 .. Len(r) /\ c[i] = r[i]
  BY <1>1 DEF Under
<1> QED BY <1>1, <1>2 DEF Line

LEMMA OtherTurn ==
  ASSUME NEW n \in Nat, NEW b \in {0, 1}, (n + 1) % 2 = 1 - b
  PROVE  n % 2 = b
OBVIOUS

LEMMA Half ==
  ASSUME NEW a \in Nat, NEW b \in Nat, b <= a, a % 2 = b % 2
  PROVE  \E k \in Nat : b = a - 2 * k
<1>1. (a - b) % 2 = 0
  OBVIOUS
<1>2. a - b = 2 * ((a - b) \div 2) /\ (a - b) \div 2 \in Nat
  BY <1>1
<1> QED BY <1>2

(* On a chain it knows a session reads all but what it has read or given up. *)
LEMMA KnownReadable ==
  ASSUME NEW p \in Parties, NEW s, NEW M, NEW d \in Nat, SessionInv(p, s, M, d),
         NEW m \in Message, m \notin s.read,
         \A r \in s.read : r.chain = m.chain /\ r.index = m.index => r = m,
         NEW n \in DOMAIN s.chains, s.chains[n].chain = m.chain
  PROVE  Reads(s.chains[n], m) \/ GivenUp(s, m)
<1> DEFINE c == s.chains[n]
           R == {r \in s.read : r.chain = m.chain}
           S == {0} \cup {r.index + 1 : r \in R}
<1>1. s \in Session
  BY RootFacts
<1>2. /\ c.next \in Nat /\ c.chain = m.chain
      /\ \A r \in s.read : r \in Message /\ r.index \in Nat
      /\ m.index \in Nat
  BY <1>1, SessionFacts DEF Message
<1>3. \A r \in R : r.index < c.next
  BY DEF SessionInv, Spent
<1>4. PICK last \in R : last.index + 1 = c.next
  BY DEF SessionInv, Kept
<1>5. \A i \in 0 .. (c.next - 1) :
        \/ i \in c.skipped
        \/ \E r \in s.read : r.chain = m.chain /\ r.index = i
        \/ i + MaxSkipped < c.next
  BY <1>2 DEF SessionInv, Kept
<1>6. FirstUnseen(s, m.chain) = c.next
  <2>1. S \in SUBSET (0 .. c.next) /\ S # {} /\ c.next \in S
    <3>1. \A r \in R : r.index + 1 \in 0 .. c.next
      BY <1>2, <1>3
    <3> QED BY <1>2, <1>4, <3>1
  <2> DEFINE next == c.next
  <2>2. next \in Nat /\ S \in SUBSET (0 .. next) /\ next \in S /\ S # {}
    BY <1>2, <2>1
  <2> HIDE DEF S, next
  <2>3. Max(S) \in S /\ Max(S) \in Nat /\ next <= Max(S)
    BY <2>2, MaxFacts
  <2>4. Max(S) \in 0 .. next
    BY <2>2, <2>3
  <2>5. Max(S) = next
    BY <2>2, <2>3, <2>4
  <2>6. FirstUnseen(s, m.chain) = Max(S)
    BY DEF FirstUnseen, S
  <2> QED BY <2>5, <2>6 DEF next
<1> HIDE DEF c, R
<1>7. CASE m.index < c.next
  <2>1. m.index \in 0 .. (c.next - 1)
    BY <1>2, <1>7
  <2>2. ~ \E r \in s.read : r.chain = m.chain /\ r.index = m.index
    OBVIOUS
  <2>3. m.index \in c.skipped \/ m.index + MaxSkipped < c.next
    BY <1>5, <2>1, <2>2
  <2> QED BY <1>2, <1>6, <1>7, <2>3 DEF Reads, GivenUp, c
<1>8. CASE ~ (m.index < c.next)
  <2>1. m.index - c.next <= MaxGap \/ m.index > c.next + MaxGap
    BY <1>2, Limits
  <2> QED BY <1>2, <1>6, <1>8, <2>1 DEF Reads, GivenUp, c
<1> QED BY <1>7, <1>8

(* MaxChains chains that are longer, each of them read from.                 *)
LEMMA Displaced ==
  ASSUME NEW p \in Parties, NEW s, NEW M, NEW d \in Nat, SessionInv(p, s, M, d),
         NEW m, Len(s.chains) = MaxChains,
         \A n \in DOMAIN s.chains : Len(s.chains[n].chain) > Len(m.chain)
  PROVE  GivenUp(s, m)
<1> DEFINE R == {r \in s.read : Len(r.chain) > Len(m.chain)}
           C == {r.chain : r \in R}
           f == [r \in R |-> r.chain]
           g == [n \in 1 .. MaxChains |-> s.chains[n].chain]
<1>1. s \in Session /\ DOMAIN s.chains = 1 .. MaxChains
  BY RootFacts, SessionFacts
<1>2. IsFiniteSet(R)
  <2>1. IsFiniteSet(s.read) /\ R \in SUBSET s.read
    BY DEF SessionInv, Spent
  <2> HIDE DEF R
  <2> QED BY <2>1, FS_Subset
<1>3. IsFiniteSet(C)
  <2>1. f \in Surjection(R, C)
    BY DEF Surjection
  <2> HIDE DEF f, C, R
  <2> QED BY <1>2, <2>1, FS_Surjection
<1>4. g \in [1 .. MaxChains -> C]
  <2> SUFFICES ASSUME NEW n \in 1 .. MaxChains PROVE s.chains[n].chain \in C
    OBVIOUS
  <2>1. PICK r \in s.read : r.chain = s.chains[n].chain
    BY <1>1 DEF SessionInv, Kept
  <2>2. r \in R
    BY <1>1, <2>1
  <2> QED BY <2>1, <2>2
<1>5. \A n, k \in 1 .. MaxChains : g[n] = g[k] => n = k
  BY <1>1 DEF SessionInv, SessionOK
<1>6. g \in Injection(1 .. MaxChains, C)
  BY <1>4, <1>5 DEF Injection, IsInjective
<1>7. Cardinality(1 .. MaxChains) = MaxChains
  BY Limits, FS_Interval
<1>8. Cardinality(1 .. MaxChains) <= Cardinality(C)
  <2> HIDE DEF C, g
  <2> QED BY <1>3, <1>6, FS_Injection
<1>9. Cardinality(C) \in Nat
  <2> HIDE DEF C
  <2> QED BY <1>3, FS_CardinalityType
<1>10. Cardinality(C) >= MaxChains
  BY <1>7, <1>8, <1>9, Limits
<1> QED BY <1>10 DEF GivenUp

(* Of the peer's turns on its root a session has the last ones.              *)
LEMMA LastTurns ==
  ASSUME NEW p \in Parties, NEW s, NEW M, NEW d \in Nat, SessionInv(p, s, M, d),
         NEW m, MessageInv(Peer(p), m, M, d), Under(m.chain, s.root),
         \A n \in DOMAIN s.chains : s.chains[n].chain # m.chain
  PROVE  GivenUp(s, m)
<1> DEFINE l == Len(m.chain)
           k == Len(s.chains)
           a == Shared(s)
           b == Turn(p)
<1>1. /\ s \in Session /\ s.root \in Chain /\ Len(s.root) \in Nat /\ Len(s.root) > 0
      /\ s.active => Len(s.root) % 2 = b /\ a = Len(s.root) - 1
      /\ ~s.active => Len(s.root) % 2 # b /\ a = Len(s.root)
  BY RootFacts
<1>2. /\ k \in Nat /\ k <= MaxChains /\ DOMAIN s.chains = 1 .. k
      /\ \A n \in DOMAIN s.chains : s.chains[n].chain \in Chain
  BY <1>1, SessionFacts DEF SessionInv, SessionOK
<1>3. m.chain \in Chain /\ l \in Nat /\ l > 0 /\ l % 2 = Turn(Peer(p)) /\ l <= Len(s.root)
  BY LineFacts DEF MessageInv, Under
<1>4. /\ \A n \in DOMAIN s.chains : /\ Under(s.chains[n].chain, s.root)
                                    /\ Len(s.chains[n].chain) = a - 2 * (k - n)
      /\ k < MaxChains => 2 * k = a + 1 - b
  BY DEF SessionInv, Chains
<1>5. b \in {0, 1} /\ Turn(Peer(p)) = 1 - b
  BY PeerFacts
<1>6. \A n \in DOMAIN s.chains : Len(s.chains[n].chain) # l
  <2> SUFFICES ASSUME NEW n \in DOMAIN s.chains, Len(s.chains[n].chain) = Len(m.chain) PROVE FALSE
    OBVIOUS
  <2>1. Under(s.chains[n].chain, s.root) /\ s.chains[n].chain \in Chain
    BY <1>2, <1>4
  <2>2. Len(m.chain) <= Len(m.chain)
    BY <1>3
  <2>3. Under(s.chains[n].chain, m.chain)
    BY <1>1, <1>3, <2>1, <2>2, UnderBoth
  <2> QED BY <1>3, <2>1, <2>3, UnderEqual
<1> DEFINE root == Len(s.root)
<1>7. /\ root \in Nat /\ root > 0 /\ l <= root
      /\ s.active => root % 2 = b /\ a = root - 1
      /\ ~s.active => root % 2 # b /\ a = root
  BY <1>1, <1>3
<1>8. l \in Nat /\ l > 0 /\ l % 2 = 1 - b
  BY <1>3, <1>5
<1> HIDE DEF l, k, a, b, root
<1>9. a \in Nat /\ l <= a /\ a % 2 = l % 2
  <2>1. CASE s.active
    <3>1. root % 2 # l % 2
      BY <1>5, <1>7, <1>8, <2>1
    <3>2. l < root
      BY <1>7, <1>8, <3>1
    <3>3. root - 1 \in Nat /\ (root - 1 + 1) % 2 = 1 - ((root - 1) % 2) /\ root - 1 + 1 = root
      BY <1>7, Parity
    <3>4. (root - 1) % 2 = l % 2
      BY <1>5, <1>7, <1>8, <2>1, <3>3
    <3> QED BY <1>7, <1>8, <2>1, <3>2, <3>3, <3>4
  <2>2. CASE ~s.active
    <3>1. root % 2 \in {0, 1}
      BY <1>7, Parity
    <3> QED BY <1>5, <1>7, <1>8, <2>2, <3>1
  <2> QED BY <2>1, <2>2
<1>10. PICK j \in Nat : l = a - 2 * j
  BY <1>8, <1>9, Half
<1>11. j >= k
  <2> SUFFICES ASSUME j < k PROVE FALSE
    BY <1>2
  <2> DEFINE n == k - j
  <2>1. n \in DOMAIN s.chains /\ k - n = j
    BY <1>2
  <2>2. Len(s.chains[n].chain) = a - 2 * j
    BY <1>4, <2>1
  <2> QED BY <1>6, <1>10, <2>1, <2>2
<1>12. k = MaxChains
  <2> SUFFICES ASSUME k # MaxChains PROVE FALSE
    OBVIOUS
  <2>1. k < MaxChains
    BY <1>2, Limits
  <2>2. 2 * k = a + 1 - b
    BY <1>4, <2>1
  <2>3. l <= a - 2 * k
    BY <1>2, <1>9, <1>10, <1>11
  <2>4. l <= b - 1
    BY <1>5, <1>8, <1>9, <1>2, <2>2, <2>3
  <2> QED BY <1>5, <1>8, <2>4
<1>13. ASSUME NEW n \in DOMAIN s.chains PROVE Len(s.chains[n].chain) > l
  <2>1. n \in Nat /\ n >= 1 /\ k - n < j
    BY <1>2, <1>11
  <2>2. Len(s.chains[n].chain) = a - 2 * (k - n)
    BY <1>4
  <2> QED BY <1>2, <1>9, <1>10, <2>1, <2>2
<1> QED BY <1>12, <1>13, Displaced DEF k, l

(* Every message either end has sent and the other has not read can still be *)
(* read there, in any order and after any crash, unless it was given up for  *)
(* the limits.                                                               *)
THEOREM OlmUnreadStaysReadable == Spec => []UnreadStaysReadable
<1>1. IInv => UnreadStaysReadable
  <2> SUFFICES ASSUME IInv, NEW p \in Parties, session[p] # NoSession,
                      NEW m \in To(p) \ session[p].read
               PROVE  Decrypts(session[p], m) \/ GivenUp(session[p], m)
    BY DEF UnreadStaysReadable
  <2> DEFINE s == session[p]
             q == Peer(p)
             d == drawn
  <2>1. q \in Parties /\ m \in sent /\ m.from = q /\ m \notin s.read
    BY PeerFacts DEF To
  <2>2. d \in Nat /\ SessionInv(p, s, sent, d) /\ Ahead(p, s, sent \cup drafts[p])
    BY IInvFacts
  <2> HIDE DEF s
  <2>3. /\ MessageInv(q, m, sent, d) /\ m \in Message /\ m.chain \in Chain /\ m.index \in Nat
        /\ disk[q] # NoSession /\ disk[q].root \in Chain /\ Under(m.chain, disk[q].root)
    BY <2>1, OnDisk DEF MessageInv, Message
  <2>4. s \in Session /\ s.root \in Chain /\ Line(s.root, d) /\ DOMAIN s.chains = 1 .. Len(s.chains)
    BY <2>2, RootFacts, SessionFacts
  <2>5. Ahead(p, s, sent)
    BY <2>2 DEF Ahead
  <2>6. Under(m.chain, s.root) \/ Under(s.root, m.chain)
    <3>1. Under(s.root, disk[q].root) \/ Under(disk[q].root, s.root)
      BY <2>2, <2>3, <2>5, RootsOnLine
    <3>2. CASE Under(s.root, disk[q].root)
      BY <2>3, <2>4, <3>2, Comparable
    <3>3. CASE Under(disk[q].root, s.root)
      BY <2>3, <2>4, <3>3, UnderTrans
    <3> QED BY <3>1, <3>2, <3>3
  <2>7. \A r \in s.read : r.chain = m.chain /\ r.index = m.index => r = m
    <3>1. Once(q, sent \cup drafts[q])
      BY <2>1, IInvFacts
    <3>2. \A r \in s.read : r \in sent /\ r.from = q
      BY <2>2 DEF SessionInv, Spent
    <3> QED BY <2>1, <3>1, <3>2 DEF Once
  <2>8. ASSUME NEW n \in Found(s, m) PROVE n \in DOMAIN s.chains /\ s.chains[n].chain = m.chain
    <3> DEFINE c == s.chains[n].chain
    <3>1. n \in DOMAIN s.chains /\ Last(c) = Last(m.chain)
      BY <2>4 DEF Found
    <3>2. c \in Chain /\ Under(c, s.root) /\ Len(c) > 0
      BY <2>2, <2>4, <3>1, SessionFacts DEF SessionInv, Chains
    <3> HIDE DEF c
    <3>3. Line(c, d)
      BY <2>4, <3>2, UnderLine
    <3>4. Line(m.chain, d)
      BY <2>3 DEF MessageInv
    <3>5. Under(c, m.chain) \/ Under(m.chain, c)
      <4>1. CASE Under(m.chain, s.root)
        BY <2>3, <2>4, <3>2, <4>1, Comparable
      <4>2. CASE Under(s.root, m.chain)
        BY <2>3, <2>4, <3>2, <4>2, UnderTrans
      <4> QED BY <2>6, <4>1, <4>2
    <3>6. c = m.chain
      BY <3>1, <3>3, <3>4, <3>5, LastTells
    <3> QED BY <3>1, <3>6 DEF c
  <2>9. CASE Found(s, m) # {}
    <3>1. \A n \in Found(s, m) : Reads(s.chains[n], m) \/ GivenUp(s, m)
      BY <2>1, <2>2, <2>3, <2>7, <2>8, KnownReadable
    <3> QED BY <2>9, <3>1 DEF Decrypts, s
  <2>10. CASE Found(s, m) = {} /\ Under(m.chain, s.root)
    <3>1. \A n \in DOMAIN s.chains : s.chains[n].chain # m.chain
      BY <2>4, <2>10 DEF Found
    <3>2. GivenUp(s, m)
      BY <2>2, <2>3, <2>10, <3>1, LastTurns
    <3> QED BY <3>2 DEF s
  <2>11. CASE Found(s, m) = {} /\ Under(s.root, m.chain) /\ ~Under(m.chain, s.root)
    <3> DEFINE l == Len(m.chain)
               k == Len(s.root)
    <3>1. k \in Nat /\ k > 0 /\ l \in Nat /\ l > 0 /\ k < l
      <4>1. k \in Nat /\ k > 0 /\ l \in Nat /\ l > 0 /\ k <= l
        BY <2>3, <2>4, <2>11, LineFacts DEF MessageInv, Under
      <4>2. k # l
        BY <2>3, <2>4, <2>11, UnderEqual DEF Under
      <4> QED BY <4>1, <4>2
    <3>2. k = l - 1
      <4>1. l - 1 # 0
        <5> HIDE DEF k, l
        <5> QED BY <3>1
      <4>2. CameFrom(p, m.chain, l - 1, sent)
        BY <2>3, PeerFacts DEF MessageInv
      <4>3. PICK x \in sent : x.from = p /\ Len(x.chain) = l - 1
        BY <4>1, <4>2 DEF CameFrom
      <4>4. Len(x.chain) <= k
        BY <2>5, <4>3 DEF Ahead, Under
      <4> QED BY <3>1, <4>3, <4>4
    <3>3. s.active
      <4>1. l % 2 = Turn(q)
        BY <2>3 DEF MessageInv
      <4>2. l = k + 1 /\ (k + 1) % 2 = 1 - (k % 2) /\ k % 2 \in {0, 1}
        <5> HIDE DEF k, l
        <5>1. l = k + 1
          BY <3>1, <3>2
        <5> QED BY <3>1, <5>1, Parity
      <4>3. k % 2 = Turn(p)
        <5>1. Turn(p) \in {0, 1} /\ Turn(q) = 1 - Turn(p)
          BY PeerFacts
        <5> HIDE DEF k, l
        <5>2. (k + 1) % 2 = Turn(q)
          BY <4>1, <4>2
        <5>3. (k + 1) % 2 = 1 - Turn(p) /\ k \in Nat /\ Turn(p) \in {0, 1}
          BY <3>1, <5>1, <5>2
        <5> QED BY <5>3, OtherTurn
      <4> QED BY <2>2, <4>3 DEF SessionInv, Root
    <3>4. Append(s.root, Last(m.chain)) = m.chain
      <4>1. m.chain \in Seq(Key) /\ s.root \in Seq(Key) /\ l = k + 1
        BY <2>3, <2>4, <3>1, <3>2 DEF Chain
      <4>2. \A i \in 1 .. k : s.root[i] = m.chain[i]
        BY <2>11 DEF Under
      <4>3. m.chain[l] \in Key /\ Last(m.chain) = m.chain[l]
        BY <3>1, <4>1 DEF Last
      <4> QED BY <3>1, <4>1, <4>2, <4>3
    <3>5. FirstUnseen(s, m.chain) = 0
      <4>1. \A r \in s.read : r.chain # m.chain
        BY <2>2, <2>11 DEF SessionInv, Spent
      <4> DEFINE S == {0} \cup {r.index + 1 : r \in {x \in s.read : x.chain = m.chain}}
      <4>2. S = {0}
        BY <4>1
      <4>3. Max({0}) = 0
        BY {0} \in SUBSET (0 .. 0), MaxFacts
      <4> QED BY <4>2, <4>3 DEF FirstUnseen
    <3>6. Reads(NextChain(s, m), m) \/ GivenUp(s, m)
      <4>1. NextChain(s, m).chain = m.chain /\ NextChain(s, m).next = 0
        BY <3>4 DEF NextChain, NewChain
      <4>2. ~ (m.index < 0) /\ (m.index - 0 <= MaxGap \/ m.index > 0 + MaxGap)
        BY <2>3, Limits
      <4> QED BY <3>5, <4>1, <4>2 DEF Reads, GivenUp
    <3> QED BY <2>11, <3>3, <3>6 DEF Decrypts, s
  <2> QED BY <2>6, <2>9, <2>10, <2>11
<1> QED BY <1>1, OlmIInv, PTL

-----------------------------------------------------------------------------
(* The two ends see the conversation of OlmPromise.                          *)

(* A draft answers what its end has read: it leaves with a pickle that has   *)
(* it too.                                                                   *)
DraftsAnswer ==
  \A p \in Parties : \A m \in drafts[p] : Promise!Answers(m, ReadBy(session[p]))

LEMMA AnswersMore ==
  ASSUME NEW m, NEW S, NEW T, Promise!Answers(m, S), S \subseteq T
  PROVE  Promise!Answers(m, T)
BY DEF Promise!Answers

(* The longest chain a session heard of is one it has read from.             *)
LEMMA HeardIsRead ==
  ASSUME NEW p \in Parties, NEW s, NEW M, NEW d \in Nat, SessionInv(p, s, M, d)
  PROVE  Heard(s) = 0 \/ \E r \in s.read : Len(r.chain) = Heard(s)
<1> DEFINE S == {0} \cup {Len(m.chain) : m \in s.read}
           top == Len(s.root)
<1>0. s \in Session /\ top \in Nat
  BY RootFacts
<1>1. s \in Session /\ top \in Nat /\ 0 \in 0 .. top
  BY <1>0
<1>2. \A m \in s.read : Len(m.chain) \in 0 .. top
  <2> TAKE m \in s.read
  <2>1. m \in Message /\ Len(m.chain) <= Len(s.root)
    BY <1>1, SessionFacts DEF SessionInv, Spent, Under
  <2>2. Len(m.chain) \in Nat
    BY <2>1 DEF Message, Chain
  <2> QED BY <1>1, <2>1, <2>2
<1>3. S \in SUBSET (0 .. top) /\ S # {}
  BY <1>1, <1>2
<1>4. Max(S) \in S
  <2> HIDE DEF S, top
  <2> QED BY <1>1, <1>3, MaxFacts
<1> QED BY <1>4 DEF Heard

(* So a message answers what its session has read when it is encrypted.      *)
LEMMA MessageAnswers ==
  ASSUME NEW p \in Parties, NEW t, NEW M, NEW d \in Nat, SessionInv(p, t, M, d),
         NEW s, s.read = t.read, s.chains = t.chains
  PROVE  Promise!Answers(MessageFrom(p, s), t.read)
<1> DEFINE m == MessageFrom(p, s)
<1>1. m.heard = Heard(t) /\ m.prekey = (t.chains = <<>>)
  BY DEF MessageFrom, Heard
<1>2. t.chains = <<>> \/ t.read # {}
  <2> SUFFICES ASSUME t.chains # <<>> PROVE t.read # {}
    OBVIOUS
  <2>1. t.chains \in Seq(ReceiverChain)
    BY RootFacts, SessionFacts
  <2>2. 1 \in DOMAIN t.chains
    BY <2>1
  <2> QED BY <2>2 DEF SessionInv, Kept
<1>3. m.heard = 0 \/ \E r \in t.read : Len(r.chain) = m.heard
  BY <1>1, HeardIsRead
<1> QED BY <1>1, <1>2, <1>3 DEF Promise!Answers

(* What decryption reads, and what it leaves of what was read before.        *)
LEMMA DecryptReads ==
  ASSUME IInv, NEW p \in Parties, NEW m \in To(p) \cup {StrayMessage(p)}, decrypt(p, m)
  PROVE  /\ session[p] # NoSession
         /\ \/ /\ m \in sent /\ m.from = Peer(p) /\ Decrypts(session[p], m)
               /\ session' = [session EXCEPT ![p] = Decrypted(@, m)]
               /\ session'[p] # NoSession /\ session'[p].read = session[p].read \cup {m}
            \/ \E s : /\ session' = [session EXCEPT ![p] = s]
                      /\ s # NoSession /\ s.read = session[p].read
         /\ UNCHANGED <<drafts, disk, sent>>
<1> DEFINE s == session[p]
<1>1. SessionInv(p, s, sent, drawn) /\ s \in Session /\ s # NoSession
  BY IInvFacts DEF decrypt, SessionInv, SessionOK
<1>2. session \in [Parties -> Session \cup {NoSession}]
  BY DEF IInv
<1>3. NoSession \notin Session
  BY NoSessionAssumption
<1>4. CASE Decrypts(s, m)
  <2>1. m \in sent /\ m.from = Peer(p)
    BY <1>1, <1>4, StrayRefused DEF To
  <2>2. session' = [session EXCEPT ![p] = Decrypted(@, m)]
    BY <1>4 DEF decrypt
  <2>3. Decrypted(s, m).read = s.read \cup {m}
    BY <1>1 DEF Decrypted, Session
  <2>4. session'[p] = Decrypted(s, m)
    BY <1>2, <2>2
  <2>5. Decrypted(s, m) \in Session
    BY <1>1, <1>4, DecryptedInv
  <2>6. session'[p] # NoSession
    BY <2>4, <2>5, <1>3
  <2> QED BY <1>1, <1>4, <2>1, <2>2, <2>3, <2>4, <2>6 DEF decrypt
<1>5. CASE ~ Decrypts(s, m)
  <2>1. CASE Mutates(s, m)
    <3>1. session' = [session EXCEPT ![p] = Activated(s, drawn)]
      BY <1>5, <2>1 DEF decrypt
    <3>2. Activated(s, drawn).read = s.read
      BY <1>1 DEF Activated, Session
    <3>3. Activated(s, drawn) # NoSession
      <4>1. ~s.active /\ drawn < MaxKeys /\ drawn \in Nat /\ sent \in SUBSET Message
        BY <1>5, <2>1, IInvFacts DEF decrypt, Mutates
      <4>2. Activated(s, drawn) \in Session
        BY <1>1, <4>1, ActivatedInv DEF SessionInv, SessionOK
      <4> QED BY <1>3, <4>2
    <3> QED BY <1>1, <3>1, <3>2, <3>3 DEF decrypt
  <2>2. CASE ~ Mutates(s, m)
    <3>1. session' = [session EXCEPT ![p] = s]
      BY <1>2, <1>5, <2>2 DEF decrypt
    <3> QED BY <1>1, <3>1 DEF decrypt
  <2> QED BY <2>1, <2>2
<1> QED BY <1>4, <1>5

LEMMA EncryptReads ==
  ASSUME IInv, NEW p \in Parties, encrypt(p)
  PROVE  \E t, m : /\ session[p] # NoSession /\ t # NoSession
                   /\ session' = [session EXCEPT ![p] = t] /\ t.read = session[p].read
                   /\ drafts' = [drafts EXCEPT ![p] = @ \cup {m}]
                   /\ Promise!Answers(m, session[p].read)
                   /\ UNCHANGED <<disk, sent>>
<1> DEFINE s == IF session[p].active THEN session[p] ELSE Activated(session[p], drawn)
           t == [s EXCEPT !.index = @ + 1]
           m == MessageFrom(p, s)
<1>1. /\ session[p] # NoSession /\ session' = [session EXCEPT ![p] = t]
      /\ drafts' = [drafts EXCEPT ![p] = @ \cup {m}] /\ UNCHANGED <<disk, sent>>
      /\ session[p].active \/ drawn < MaxKeys
  BY DEF encrypt
<1>2. /\ SessionInv(p, session[p], sent, drawn) /\ session[p] \in Session
      /\ drawn \in Nat /\ sent \in SUBSET Message
  BY <1>1, IInvFacts, RootFacts
<1>3. s \in Session /\ s.read = session[p].read /\ s.chains = session[p].chains
  <2>1. CASE session[p].active
    BY <1>2, <2>1
  <2>2. CASE ~session[p].active
    <3>1. s = Activated(session[p], drawn) /\ drawn < MaxKeys
      BY <1>1, <2>2
    <3> HIDE DEF s
    <3>2. /\ SessionInv(p, s, sent, drawn + 1)
          /\ s.read = session[p].read /\ s.chains = session[p].chains
      BY <1>2, <2>2, <3>1, ActivatedInv
    <3>3. s \in Session
      BY <3>2 DEF SessionInv, SessionOK
    <3> QED BY <3>2, <3>3
  <2> QED BY <2>1, <2>2
<1> HIDE DEF s
<1>4. t \in Session /\ t.read = s.read
  BY <1>3 DEF Session
<1>5. t # NoSession
  BY <1>4, NoSessionAssumption
<1>6. Promise!Answers(m, session[p].read)
  BY <1>2, <1>3, MessageAnswers
<1> HIDE DEF t, m
<1> QED BY <1>1, <1>3, <1>4, <1>5, <1>6

LEMMA DraftsStep == IInv /\ DraftsAnswer /\ [Next]_vars => DraftsAnswer'
<1> SUFFICES ASSUME IInv, DraftsAnswer, [Next]_vars PROVE DraftsAnswer'
  OBVIOUS
<1>1. /\ session \in [Parties -> Session \cup {NoSession}]
      /\ drafts \in [Parties -> SUBSET Message]
      /\ Alice \in Parties /\ Bob \in Parties
  BY DEF IInv, Parties
<1>2. ASSUME drafts' = drafts,
             \A q \in Parties : ReadBy(session[q]) \subseteq ReadBy(session'[q])
      PROVE  DraftsAnswer'
  BY <1>2, AnswersMore DEF DraftsAnswer
<1>3. CASE create_outbound
  <2>1. /\ session' = [session EXCEPT ![Alice] = Outbound(drawn)] /\ session[Alice] = NoSession
        /\ drafts' = drafts
    BY <1>3 DEF create_outbound
  <2>2. \A q \in Parties : ReadBy(session[q]) \subseteq ReadBy(session'[q])
    BY <1>1, <2>1 DEF ReadBy
  <2> QED BY <1>2, <2>1, <2>2
<1>4. ASSUME NEW m \in To(Bob), create_inbound(m) PROVE DraftsAnswer'
  <2> DEFINE t == Decrypted(Inbound(m), m)
  <2>1. /\ session' = [session EXCEPT ![Bob] = t] /\ session[Bob] = NoSession
        /\ drafts' = drafts
    BY <1>4 DEF create_inbound
  <2> HIDE DEF t
  <2>2. \A q \in Parties : ReadBy(session[q]) \subseteq ReadBy(session'[q])
    BY <1>1, <2>1 DEF ReadBy
  <2> QED BY <1>2, <2>1, <2>2
<1>5. ASSUME NEW p \in Parties, encrypt(p) PROVE DraftsAnswer'
  <2>1. PICK t, m : /\ session[p] # NoSession /\ t # NoSession
                    /\ session' = [session EXCEPT ![p] = t] /\ t.read = session[p].read
                    /\ drafts' = [drafts EXCEPT ![p] = @ \cup {m}]
                    /\ Promise!Answers(m, session[p].read)
    BY <1>5, EncryptReads
  <2>2. \A q \in Parties : ReadBy(session'[q]) = ReadBy(session[q])
    BY <1>1, <2>1 DEF ReadBy
  <2>3. \A q \in Parties : \A n \in drafts'[q] :
          n \in drafts[q] \/ (q = p /\ n = m /\ ReadBy(session[q]) = session[p].read)
    BY <1>1, <2>1 DEF ReadBy
  <2> QED BY <2>1, <2>2, <2>3 DEF DraftsAnswer
<1>6. ASSUME NEW p \in Parties, NEW m \in To(p) \cup {StrayMessage(p)}, decrypt(p, m)
      PROVE  DraftsAnswer'
  <2>1. /\ session[p] # NoSession /\ drafts' = drafts
        /\ session'[p] # NoSession /\ session[p].read \subseteq session'[p].read
        /\ \A q \in Parties \ {p} : session'[q] = session[q]
    BY <1>1, <1>6, DecryptReads
  <2>2. \A q \in Parties : ReadBy(session[q]) \subseteq ReadBy(session'[q])
    BY <2>1 DEF ReadBy
  <2> QED BY <1>2, <2>1, <2>2
<1>7. ASSUME NEW p \in Parties, session_pickle(p) PROVE DraftsAnswer'
  BY <1>1, <1>7 DEF session_pickle, DraftsAnswer
<1>8. ASSUME NEW p \in Parties, session_unpickle(p) PROVE DraftsAnswer'
  BY <1>1, <1>8 DEF session_unpickle, DraftsAnswer
<1>9. CASE UNCHANGED vars
  BY <1>9 DEF vars, DraftsAnswer
<1> QED BY <1>3, <1>4, <1>5, <1>6, <1>7, <1>8, <1>9 DEF Next

(* Every end reads what the other sent, and each message once; what it       *)
(* wrote leaves with a pickle that has all it answers, under keys of its     *)
(* own; and an end that dies forgets what it read since, and nothing else.   *)
THEOREM OlmImplementsPromise == Spec => ImplementsPromise
<1> DEFINE Seen == [p \in Parties |-> ReadBy(session[p])]
           Saved == [p \in Parties |-> ReadBy(disk[p])]
<1>1. Init => Promise!Init
  BY DEF Init, Promise!Init, ReadBy
<1>2. IInv /\ DraftsAnswer /\ ReadOnce /\ MessageKeyOnce' /\ [Next]_vars
        => [Promise!Next]_(Promise!vars)
  <2> SUFFICES ASSUME IInv, DraftsAnswer, ReadOnce, MessageKeyOnce', [Next]_vars
               PROVE  Promise!Next \/ UNCHANGED Promise!vars
    OBVIOUS
  <2>1. /\ session \in [Parties -> Session \cup {NoSession}]
        /\ disk \in [Parties -> Session \cup {NoSession}]
        /\ drafts \in [Parties -> SUBSET Message]
        /\ Alice \in Parties /\ Bob \in Parties
    BY DEF IInv, Parties
  <2>2. ASSUME sent' = sent, disk' = disk,
               \A q \in Parties : ReadBy(session'[q]) = ReadBy(session[q])
        PROVE  UNCHANGED Promise!vars
    BY <2>2 DEF Promise!vars
  <2>3. ASSUME NEW p \in Parties, NEW m \in sent, m.from # p, m \notin ReadBy(session[p]),
               sent' = sent, disk' = disk,
               ReadBy(session'[p]) = ReadBy(session[p]) \cup {m},
               \A q \in Parties \ {p} : session'[q] = session[q]
        PROVE  Promise!Next
    <3>1. Seen' = [Seen EXCEPT ![p] = @ \cup {m}] /\ Seen[p] = ReadBy(session[p])
      BY <2>3
    <3>2. Promise!Read(p, m)
      BY <2>3, <3>1 DEF Promise!Read
    <3> QED BY <3>2 DEF Promise!Next
  <2>4. CASE create_outbound
    <3>1. /\ session' = [session EXCEPT ![Alice] = Outbound(drawn)] /\ session[Alice] = NoSession
          /\ sent' = sent /\ disk' = disk
      BY <2>4 DEF create_outbound
    <3>2. \A q \in Parties : ReadBy(session'[q]) = ReadBy(session[q])
      BY <2>1, <3>1 DEF ReadBy, Outbound
    <3> QED BY <2>2, <3>1, <3>2
  <2>5. ASSUME NEW m \in To(Bob), create_inbound(m) PROVE Promise!Next
    <3> DEFINE t == Decrypted(Inbound(m), m)
    <3>1. /\ session' = [session EXCEPT ![Bob] = t] /\ session[Bob] = NoSession
          /\ m.prekey /\ sent' = sent /\ disk' = disk /\ drawn' = drawn
      BY <2>5 DEF create_inbound
    <3>2. m \in sent /\ m.from = Alice /\ m.from # Bob
      BY PartiesAssumption DEF To, Peer
    <3>3. t \in Session
      BY <2>5, InboundKept
    <3>4. t.read = {m}
      BY DEF Decrypted, Inbound
    <3> HIDE DEF t
    <3>5. ReadBy(session[Bob]) = {} /\ ReadBy(session'[Bob]) = {m}
      BY <2>1, <3>1, <3>3, <3>4, NoSessionAssumption DEF ReadBy
    <3> QED BY <2>1, <2>3, <3>1, <3>2, <3>5
  <2>6. ASSUME NEW p \in Parties, encrypt(p) PROVE UNCHANGED Promise!vars
    <3>1. PICK t, m : /\ session[p] # NoSession /\ t # NoSession
                      /\ session' = [session EXCEPT ![p] = t] /\ t.read = session[p].read
                      /\ UNCHANGED <<disk, sent>>
      BY <2>6, EncryptReads
    <3>2. \A q \in Parties : ReadBy(session'[q]) = ReadBy(session[q])
      BY <2>1, <3>1 DEF ReadBy
    <3> QED BY <2>2, <3>1, <3>2
  <2>7. ASSUME NEW p \in Parties, NEW m \in To(p) \cup {StrayMessage(p)}, decrypt(p, m)
        PROVE  Promise!Next \/ UNCHANGED Promise!vars
    <3>1. /\ session[p] # NoSession
          /\ \/ /\ m \in sent /\ m.from = Peer(p) /\ Decrypts(session[p], m)
                /\ session' = [session EXCEPT ![p] = Decrypted(@, m)]
                /\ session'[p] # NoSession /\ session'[p].read = session[p].read \cup {m}
             \/ \E s : /\ session' = [session EXCEPT ![p] = s]
                       /\ s # NoSession /\ s.read = session[p].read
          /\ UNCHANGED <<drafts, disk, sent>>
      BY <2>7, DecryptReads
    <3>2. CASE /\ m \in sent /\ m.from = Peer(p) /\ Decrypts(session[p], m)
               /\ session' = [session EXCEPT ![p] = Decrypted(@, m)]
               /\ session'[p] # NoSession /\ session'[p].read = session[p].read \cup {m}
      <4>1. m \notin session[p].read
        BY <3>1, <3>2 DEF ReadOnce
      <4>2. m.from # p
        BY <3>2, PeerFacts
      <4>3. \A q \in Parties \ {p} : session'[q] = session[q]
        BY <2>1, <3>2
      <4>4. ReadBy(session[p]) = session[p].read /\ ReadBy(session'[p]) = session[p].read \cup {m}
        BY <3>1, <3>2 DEF ReadBy
      <4> QED BY <2>3, <3>1, <3>2, <4>1, <4>2, <4>3, <4>4
    <3>3. CASE \E s : /\ session' = [session EXCEPT ![p] = s]
                      /\ s # NoSession /\ s.read = session[p].read
      <4>1. \A q \in Parties : ReadBy(session'[q]) = ReadBy(session[q])
        BY <2>1, <3>1, <3>3 DEF ReadBy
      <4> QED BY <2>2, <3>1, <4>1
    <3> QED BY <3>1, <3>2, <3>3
  <2>8. ASSUME NEW p \in Parties, session_pickle(p) PROVE Promise!Next
    <3>1. /\ disk' = [disk EXCEPT ![p] = session[p]] /\ sent' = sent \cup drafts[p]
          /\ session' = session
      BY <2>8 DEF session_pickle
    <3>2. Saved' = [Saved EXCEPT ![p] = Seen[p]] /\ Seen' = Seen
      BY <2>1, <3>1
    <3>3. \A m \in sent' \ sent : m \in drafts[p]
      BY <3>1
    <3>4. \A m \in drafts[p] : m.from = p /\ Promise!Answers(m, Seen[p])
      BY IInvFacts DEF DraftsAnswer
    <3>5. \A m, n \in sent' : m.chain = n.chain /\ m.index = n.index => m = n
      BY DEF MessageKeyOnce
    <3>6. sent \subseteq sent'
      BY <3>1
    <3>7. Promise!Pickle(p)
      BY <3>2, <3>3, <3>4, <3>5, <3>6 DEF Promise!Pickle
    <3> QED BY <3>7 DEF Promise!Next
  <2>9. ASSUME NEW p \in Parties, session_unpickle(p) PROVE Promise!Next
    <3>1. session' = [session EXCEPT ![p] = disk[p]] /\ sent' = sent /\ disk' = disk
      BY <2>9 DEF session_unpickle
    <3>2. Seen' = [Seen EXCEPT ![p] = Saved[p]] /\ Saved' = Saved
      BY <2>1, <3>1
    <3>3. Promise!Restart(p)
      BY <3>1, <3>2 DEF Promise!Restart
    <3> QED BY <3>3 DEF Promise!Next
  <2>10. CASE UNCHANGED vars
    BY <2>10 DEF vars, Promise!vars
  <2> QED BY <2>4, <2>5, <2>6, <2>7, <2>8, <2>9, <2>10 DEF Next
<1>3. Spec => []DraftsAnswer
  <2>1. Init => DraftsAnswer
    BY DEF Init, DraftsAnswer
  <2> QED BY <2>1, DraftsStep, OlmIInv, PTL DEF Spec
<1> QED
  BY <1>1, <1>2, <1>3, OlmIInv, OlmReadOnce, OlmMessageKeyOnce, PTL
  DEF Spec, ImplementsPromise, Promise!Spec
=============================================================================
