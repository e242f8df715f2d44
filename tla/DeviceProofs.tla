----------------------------- MODULE DeviceProofs -----------------------------
(***************************************************************************)
(* Theorems about Device: what a client that follows the documented        *)
(* routine never loses or repeats, wherever it crashes, for any store      *)
(* limit and any number of keys, messages and crashes.  The argument is    *)
(* about two copies of the account, memory and disk: each is in order      *)
(* towards what the homeserver and the peers have seen (Store), and memory *)
(* is ahead of the disk only by the keys drawn since (Ahead) and by one    *)
(* rotation (MemoryFallback), and the homeserver's fallback key lags       *)
(* behind the disk's by the rotations that were lost (DiskFallback).       *)
(***************************************************************************)
EXTENDS Device, FiniteSetTheorems, TLAPS

AccountFacts == INSTANCE AccountProofs

(* One copy a of the account, when f keys were drawn, those in u uploaded    *)
(* and those in out handed out as fallback keys.                             *)
Ids(a, f, u) ==
  /\ \A k \in a.private : k.id < a.nextKeyId /\ k.key < f
  /\ \A j, k \in a.private : (j.id = k.id \/ j.key = k.key) => j = k
  /\ \A k \in u : k.id < a.nextKeyId
  /\ \A j \in u, k \in a.private : j.id = k.id => j = k

Fallbacks(a, f, u, out) ==
  /\ \A k \in {a.fallback, a.previous} : k # NoKey => k < f
  /\ \A k \in a.private \cup u : k.key \notin {a.fallback, a.previous}
  /\ \A k \in a.private \cup u : k.key \notin out

Store(a, f, u, out) ==
  /\ a \in Acc!AccountState
  /\ IsFiniteSet(a.private)
  /\ a.unpublished \subseteq a.private
  /\ a.private \ a.unpublished \subseteq u
  /\ Ids(a, f, u)
  /\ Fallbacks(a, f, u, out)

(* Where an uploaded key can be: in the copy, with a peer that claimed it or *)
(* a session that used it, or displaced by younger keys.                     *)
Gone(a, k) == k.id + MaxOneTimeKeys < a.nextKeyId
Found(a, u, ms) == \A k \in u : k \in a.private \/ (\E m \in ms : m.key = k.key) \/ Gone(a, k)
Kept(a, u, S) == \A k \in u : k \in a.private \/ (\E s \in S : s.msg.key = k.key) \/ Gone(a, k)

(* No one-time key of the copy has opened a session of S.                    *)
Spent(a, S) == \A s \in S, k \in a.private : ~ s.msg.fallback => s.msg.key # k.key

OneEach(S) == \A s, t \in S : (s.msg.key = t.msg.key /\ ~ s.msg.fallback) => s = t

(* What the outside has seen is older than the next key to be drawn.         *)
Seen(f, u, ms, out) ==
  /\ f \in 0 .. MaxFresh
  /\ u \subseteq Acc!OneTimeKey
  /\ \A k \in u : k.key < f
  /\ \A j, k \in u : j.id = k.id => j = k
  /\ \A m \in ms : /\ m \in Message /\ m.key < f
                  /\ IF m.fallback THEN m.key \in out ELSE \E k \in u : k.key = m.key
  /\ \A x \in out : x \in Nat /\ x < f

HandedOut == {m.key : m \in {x \in sent : x.fallback}} \cup ({server.fallback} \ {NoKey})

Outside ==
  /\ Seen(fresh, uploaded, sent, HandedOut)
  /\ server \in [oneTime : SUBSET uploaded, fallback : Nat \cup {NoKey}]
  /\ crashes \in 0 .. MaxCrashes
  /\ lost \in Nat /\ lost <= crashes
  /\ \A s \in sessions \cup saved : s \in Session /\ s.msg \in sent

(* Memory is ahead of the disk by what was generated since.                  *)
Ahead ==
  /\ disk.nextKeyId <= account.nextKeyId
  /\ pc # "made" => account.nextKeyId = disk.nextKeyId
  /\ \A k \in account.private : k.id < disk.nextKeyId => k \in disk.private
  /\ pc = "accepted" => account.unpublished \subseteq uploaded

(* The fallback key of the homeserver lags behind the pickle's by the        *)
(* rotations that were lost, and by the one on its way to it.                *)
Lags(current, before) ==
  /\ lost = 0 => server.fallback \in {NoKey, current}
  /\ lost = 1 => server.fallback \in {NoKey, before}

DiskFallback ==
  IF returned = NoKey \/ returned # disk.fallback
  THEN Lags(disk.fallback, disk.previous)
  ELSE IF server.fallback = returned
       THEN lost = 0
       ELSE lost = 0 => server.fallback \in {NoKey, disk.previous}

SameFallback == account.fallback = disk.fallback /\ account.previous = disk.previous

MemoryFallback ==
  /\ pc # "made" => SameFallback
  /\ pc \in {"idle", "marked"} => returned = NoKey
  /\ pc \in {"saved", "accepted"} /\ returned # NoKey => returned = disk.fallback
  /\ pc = "accepted" /\ returned # NoKey => server.fallback = returned
  /\ pc = "made" => \/ returned = NoKey /\ SameFallback
                    \/ /\ returned # NoKey /\ returned = account.fallback
                       /\ account.previous = disk.fallback
                       /\ returned \notin {disk.fallback, server.fallback}

OnDisk ==
  /\ Store(disk, fresh, uploaded, HandedOut)
  /\ Found(disk, uploaded, sent)
  /\ accountFirst => OneEach(saved) /\ Spent(disk, saved)
  /\ ~ accountFirst => Kept(disk, uploaded, saved)
  /\ DiskFallback

InMemory ==
  /\ pc \in {"idle", "made", "saved", "accepted", "marked"}
  /\ Store(account, fresh, uploaded, HandedOut)
  /\ Found(account, uploaded, sent)
  /\ accountFirst => OneEach(sessions \cup saved) /\ Spent(account, sessions \cup saved)
  /\ ~ accountFirst => Kept(account, uploaded, sessions \cup saved)
  /\ Ahead
  /\ MemoryFallback

Down == account = Acc!NewAccount /\ pc = "idle" /\ sessions = {} /\ returned = NoKey

IInv ==
  /\ up \in BOOLEAN /\ accountFirst \in BOOLEAN
  /\ Outside
  /\ OnDisk
  /\ up => InMemory
  /\ ~ up => Down

-----------------------------------------------------------------------------
(* The account's operators, on a copy that is in order.                      *)

(* The facts of AccountProofs, for the account of a device.                  *)
LEMMA GeneratedFields ==
  ASSUME NEW a \in Acc!AccountState, NEW n \in Nat, NEW f \in Nat
  PROVE  LET drawn == Acc!Drawn(a, n, f)
             pool == a.private \cup drawn
             g == Acc!Generated(a, n, f)
         IN  /\ drawn \subseteq Acc!OneTimeKey /\ IsFiniteSet(drawn)
             /\ \A k \in drawn : /\ a.nextKeyId <= k.id /\ k.id < a.nextKeyId + n
                                 /\ f <= k.key /\ k.key < f + n
             /\ \A j, k \in drawn : (j.id = k.id \/ j.key = k.key) => j = k
             /\ g \in Acc!AccountState
             /\ g.private = Acc!Newest(pool)
             /\ g.unpublished = (a.unpublished \cup drawn) \cap g.private
             /\ g.nextKeyId = a.nextKeyId + n
             /\ g.fallback = a.fallback /\ g.previous = a.previous
<1>1. /\ Acc!OneTimeKey = AccountFacts!OneTimeKey
      /\ Acc!AccountState = AccountFacts!AccountState
      /\ Acc!Drawn(a, n, f) = AccountFacts!Drawn(a, n, f)
  BY DEF Acc!OneTimeKey, AccountFacts!OneTimeKey, Acc!Drawn, AccountFacts!Drawn,
         Acc!AccountState, AccountFacts!AccountState
<1>2. AccountFacts!LimitAssumption /\ AccountFacts!BoundAssumption /\ AccountFacts!NoKeyAssumption
  BY StoreAssumption DEF AccountFacts!LimitAssumption, AccountFacts!BoundAssumption, AccountFacts!NoKeyAssumption
<1>3. \A S : AccountFacts!IsFiniteSet(S) = IsFiniteSet(S)
  BY DEF AccountFacts!IsFiniteSet, IsFiniteSet
<1> DEFINE drawn == Acc!Drawn(a, n, f)
           kept == Acc!Newest(a.private \cup drawn)
           pending == (a.unpublished \cup drawn) \cap kept
<1>4. /\ drawn \subseteq Acc!OneTimeKey /\ IsFiniteSet(drawn)
      /\ \A k \in drawn : /\ a.nextKeyId <= k.id /\ k.id < a.nextKeyId + n
                          /\ f <= k.key /\ k.key < f + n
      /\ \A j, k \in drawn : (j.id = k.id \/ j.key = k.key) => j = k
  BY <1>1, <1>2, <1>3, AccountFacts!DrawnFacts
<1>5. Acc!Generated(a, n, f) =
        [a EXCEPT !.private = kept, !.unpublished = pending, !.nextKeyId = a.nextKeyId + n]
  BY DEF Acc!Generated
<1>6. kept \in SUBSET Acc!OneTimeKey /\ pending \in SUBSET Acc!OneTimeKey /\ a.nextKeyId + n \in Nat
  BY <1>4 DEF Acc!Newest, Acc!AccountState
<1> HIDE DEF drawn, kept, pending
<1>7. LET g == Acc!Generated(a, n, f)
      IN  /\ g \in Acc!AccountState
          /\ g.private = kept /\ g.unpublished = pending
          /\ g.nextKeyId = a.nextKeyId + n
          /\ g.fallback = a.fallback /\ g.previous = a.previous
  BY <1>5, <1>6 DEF Acc!AccountState
<1> QED BY <1>4, <1>7 DEF drawn, kept, pending

(* A key that Newest drops has MaxOneTimeKeys younger ones above it, and as  *)
(* many ids between its own and the next.                                    *)
LEMMA DroppedIsGone ==
  ASSUME NEW S \in SUBSET Acc!OneTimeKey, IsFiniteSet(S), NEW next \in Nat,
         \A j, k \in S : j.id = k.id => j = k, \A k \in S : k.id < next,
         NEW k \in S, k \notin Acc!Newest(S)
  PROVE  k.id + MaxOneTimeKeys < next
<1> DEFINE younger == {j \in S : j.id > k.id}
           id == [j \in younger |-> j.id]
           above == (k.id + 1) .. (next - 1)
<1>1. k.id \in Nat /\ k.id < next
  BY DEF Acc!OneTimeKey
<1>2. IsFiniteSet(younger) /\ Cardinality(younger) \in Nat
  <2>1. younger \in SUBSET S
    OBVIOUS
  <2>2. IsFiniteSet(younger)
    BY <2>1, FS_Subset
  <2> QED BY <2>2, FS_CardinalityType
<1>3. Cardinality(younger) >= MaxOneTimeKeys
  <2>1. Acc!Cardinality(younger) = Cardinality(younger)
    BY DEF Acc!Cardinality, Cardinality
  <2>2. ~ (Acc!Cardinality(younger) < MaxOneTimeKeys)
    BY DEF Acc!Newest
  <2> QED BY <1>2, <2>1, <2>2, StoreAssumption
<1>4. id \in Injection(younger, above)
  BY <1>1 DEF Injection, IsInjective, Acc!OneTimeKey
<1>5. IsFiniteSet(above) /\ Cardinality(above) = next - 1 - k.id
  <2> DEFINE low == k.id + 1
             high == next - 1
  <2>1. low \in Int /\ high \in Int
    BY <1>1
  <2> HIDE DEF low, high
  <2>2. IsFiniteSet(low .. high) /\ Cardinality(low .. high) = IF low > high THEN 0 ELSE high - low + 1
    BY <2>1, FS_Interval
  <2> QED BY <1>1, <2>2 DEF low, high
<1>6. Cardinality(younger) <= Cardinality(above)
  BY <1>4, <1>5, FS_Injection
<1> QED BY <1>1, <1>2, <1>3, <1>5, <1>6, StoreAssumption

(* Generating keeps a copy in order, and a key that leaves it is gone.       *)
LEMMA GeneratedStore ==
  ASSUME NEW a, NEW f, NEW u, NEW ms, NEW out, NEW n \in Nat,
         Store(a, f, u, out), Seen(f, u, ms, out)
  PROVE  LET g == Acc!Generated(a, n, f)
         IN  /\ Store(g, f + n, u, out)
             /\ g.nextKeyId = a.nextKeyId + n
             /\ g.fallback = a.fallback /\ g.previous = a.previous
             /\ \A k \in a.private : k \in g.private \/ Gone(g, k)
             /\ \A k \in g.private : k \in a.private \/ (a.nextKeyId <= k.id /\ f <= k.key)
<1> DEFINE drawn == Acc!Drawn(a, n, f)
           pool == a.private \cup drawn
           g == Acc!Generated(a, n, f)
<1>1. a \in Acc!AccountState /\ IsFiniteSet(a.private) /\ f \in Nat
  BY StoreAssumption DEF Store, Seen
<1>2. /\ a.private \subseteq Acc!OneTimeKey /\ a.nextKeyId \in Nat
      /\ a.fallback \in Nat \cup {NoKey} /\ a.previous \in Nat \cup {NoKey}
      /\ u \subseteq Acc!OneTimeKey
  BY <1>1 DEF Acc!AccountState, Seen
<1>3. /\ drawn \subseteq Acc!OneTimeKey /\ IsFiniteSet(drawn)
      /\ \A k \in drawn : /\ a.nextKeyId <= k.id /\ k.id < a.nextKeyId + n
                          /\ f <= k.key /\ k.key < f + n
      /\ \A j, k \in drawn : (j.id = k.id \/ j.key = k.key) => j = k
      /\ g \in Acc!AccountState
      /\ g.private = Acc!Newest(pool)
      /\ g.unpublished = (a.unpublished \cup drawn) \cap g.private
      /\ g.nextKeyId = a.nextKeyId + n
      /\ g.fallback = a.fallback /\ g.previous = a.previous
  BY <1>1, GeneratedFields
<1> HIDE DEF g, drawn
<1>4. /\ pool \subseteq Acc!OneTimeKey /\ IsFiniteSet(pool)
      /\ \A k \in pool : k.id < a.nextKeyId + n /\ k.key < f + n
  <2>1. IsFiniteSet(pool)
    BY <1>1, <1>3, FS_Union
  <2>2. pool \subseteq Acc!OneTimeKey
    BY <1>2, <1>3
  <2>3. ASSUME NEW k \in a.private PROVE k.id < a.nextKeyId + n /\ k.key < f + n
    BY <1>1, <1>2 DEF Store, Ids, Acc!OneTimeKey
  <2> QED BY <1>3, <2>1, <2>2, <2>3
<1>5. \A j, k \in pool : (j.id = k.id \/ j.key = k.key) => j = k
  BY <1>1, <1>2, <1>3 DEF Store, Ids, Acc!OneTimeKey
<1>6. g.private \subseteq pool
  BY <1>3 DEF Acc!Newest
<1>7. \A k \in a.private : k \in g.private \/ Gone(g, k)
  <2> SUFFICES ASSUME NEW k \in a.private, k \notin g.private PROVE Gone(g, k)
    OBVIOUS
  <2>1. k \in pool /\ k \notin Acc!Newest(pool) /\ a.nextKeyId + n \in Nat
    BY <1>2, <1>3
  <2> HIDE DEF pool
  <2>2. k.id + MaxOneTimeKeys < a.nextKeyId + n
    BY <1>4, <1>5, <2>1, DroppedIsGone
  <2> QED BY <1>3, <2>2 DEF Gone
<1>8. Ids(g, f + n, u)
  <2>1. \A k \in u : k.id < a.nextKeyId + n
    BY <1>2 DEF Store, Ids, Acc!OneTimeKey
  <2>2. \A j \in u, k \in pool : j.id = k.id => j = k
    BY <1>2, <1>3 DEF Store, Ids, Acc!OneTimeKey
  <2> HIDE DEF pool
  <2> QED BY <1>3, <1>4, <1>5, <1>6, <2>1, <2>2 DEF Ids
<1>9. Fallbacks(g, f + n, u, out)
  <2>1. \A k \in {a.fallback, a.previous} : k # NoKey => k < f + n
    BY <1>1, <1>2 DEF Store, Fallbacks
  <2>2. \A k \in pool \cup u : k.key \notin {a.fallback, a.previous}
    BY <1>1, <1>2, <1>3, StoreAssumption DEF Store, Fallbacks, Acc!OneTimeKey
  <2>3. \A k \in pool \cup u : k.key \notin out
    BY <1>1, <1>2, <1>3 DEF Store, Fallbacks, Seen, Acc!OneTimeKey
  <2> HIDE DEF pool
  <2> QED BY <1>3, <1>6, <2>1, <2>2, <2>3 DEF Fallbacks
<1>10. IsFiniteSet(g.private)
  BY <1>4, <1>6, FS_Subset
<1>11. g.unpublished \subseteq g.private /\ g.private \ g.unpublished \subseteq u
  BY <1>3, <1>6 DEF Store
<1>12. Store(g, f + n, u, out)
  BY <1>3, <1>8, <1>9, <1>10, <1>11 DEF Store
<1> QED BY <1>3, <1>6, <1>7, <1>12 DEF g

(* A later draw, and a rotation to it.                                       *)
LEMMA RotatedStore ==
  ASSUME NEW a, NEW f, NEW u, NEW ms, NEW out, Store(a, f, u, out), Seen(f, u, ms, out)
  PROVE  LET r == Acc!Rotated(a, f)
         IN  /\ Store(r, f + 1, u, out) /\ f # NoKey
             /\ r.private = a.private /\ r.nextKeyId = a.nextKeyId
             /\ r.fallback = f /\ r.previous = a.fallback
<1> DEFINE r == Acc!Rotated(a, f)
<1>1. a \in Acc!AccountState /\ f \in Nat /\ f # NoKey
  BY StoreAssumption DEF Store, Seen
<1>2. /\ r \in Acc!AccountState
      /\ r.private = a.private /\ r.unpublished = a.unpublished /\ r.nextKeyId = a.nextKeyId
      /\ r.fallback = f /\ r.previous = a.fallback
  BY <1>1 DEF Acc!Rotated, Acc!AccountState
<1> HIDE DEF r
<1>3. a.private \subseteq Acc!OneTimeKey /\ a.fallback \in Nat \cup {NoKey} /\ u \subseteq Acc!OneTimeKey
  BY <1>1 DEF Acc!AccountState, Seen
<1>4. Ids(r, f + 1, u)
  BY <1>1, <1>2, <1>3 DEF Store, Ids, Acc!OneTimeKey
<1>5. Fallbacks(r, f + 1, u, out)
  BY <1>1, <1>2, <1>3 DEF Store, Ids, Fallbacks, Seen, Acc!OneTimeKey
<1>6. Store(r, f + 1, u, out)
  BY <1>2, <1>4, <1>5 DEF Store
<1> QED BY <1>1, <1>2, <1>6 DEF r

LEMMA LaterStore ==
  ASSUME NEW a, NEW f \in Nat, NEW u, NEW out, NEW g \in Nat, f <= g, Store(a, f, u, out)
  PROVE  Store(a, g, u, out)
<1>1. a \in Acc!AccountState
  BY DEF Store
<1>2. Ids(a, g, u) /\ Fallbacks(a, g, u, out)
  BY <1>1 DEF Store, Ids, Fallbacks, Acc!AccountState, Acc!OneTimeKey
<1> QED BY <1>2 DEF Store

LEMMA PublishedStore ==
  ASSUME NEW a, NEW f, NEW u, NEW out, Store(a, f, u, out), a.unpublished \subseteq u
  PROVE  LET p == Acc!Published(a)
         IN  /\ Store(p, f, u, out)
             /\ p.private = a.private /\ p.nextKeyId = a.nextKeyId
             /\ p.fallback = a.fallback /\ p.previous = a.previous
             /\ p.unpublished = {}
<1> DEFINE p == Acc!Published(a)
<1>1. a \in Acc!AccountState
  BY DEF Store
<1>2. /\ p \in Acc!AccountState
      /\ p.private = a.private /\ p.unpublished = {} /\ p.nextKeyId = a.nextKeyId
      /\ p.fallback = a.fallback /\ p.previous = a.previous
  BY <1>1 DEF Acc!Published, Acc!AccountState
<1> HIDE DEF p
<1>3. Ids(p, f, u) /\ Fallbacks(p, f, u, out)
  BY <1>2 DEF Store, Ids, Fallbacks
<1>4. p.private \ p.unpublished \subseteq u
  BY <1>2 DEF Store
<1>5. Store(p, f, u, out)
  BY <1>2, <1>3, <1>4 DEF Store
<1> QED BY <1>2, <1>5 DEF p

LEMMA ConsumedStore ==
  ASSUME NEW a, NEW f, NEW u, NEW out, NEW key, Store(a, f, u, out)
  PROVE  LET c == Acc!Consumed(a, key)
         IN  /\ Store(c, f, u, out)
             /\ c.private = {k \in a.private : k.key # key}
             /\ c.unpublished \subseteq a.unpublished
             /\ c.nextKeyId = a.nextKeyId
             /\ c.fallback = a.fallback /\ c.previous = a.previous
<1> DEFINE c == Acc!Consumed(a, key)
<1>1. a \in Acc!AccountState
  BY DEF Store
<1>2. /\ c \in Acc!AccountState
      /\ c.private = {k \in a.private : k.key # key}
      /\ c.unpublished = {k \in a.unpublished : k.key # key}
      /\ c.nextKeyId = a.nextKeyId
      /\ c.fallback = a.fallback /\ c.previous = a.previous
  BY <1>1 DEF Acc!Consumed, Acc!AccountState
<1> HIDE DEF c
<1>3. Ids(c, f, u) /\ Fallbacks(c, f, u, out)
  BY <1>2 DEF Store, Ids, Fallbacks
<1>4. /\ c.unpublished \subseteq c.private
      /\ c.private \ c.unpublished \subseteq u
      /\ c.private \subseteq a.private
  BY <1>2 DEF Store
<1>5. IsFiniteSet(c.private)
  BY <1>4, FS_Subset DEF Store
<1>6. Store(c, f, u, out)
  BY <1>2, <1>3, <1>4, <1>5 DEF Store
<1> QED BY <1>2, <1>6 DEF c

(* An upload of keys that the copy has.                                      *)
LEMMA UploadedStore ==
  ASSUME NEW a, NEW f, NEW u, NEW out, NEW new, Store(a, f, u, out), new \subseteq a.private
  PROVE  Store(a, f, u \cup new, out)
<1>1. Ids(a, f, u \cup new)
  BY DEF Store, Ids
<1>2. Fallbacks(a, f, u \cup new, out)
  BY DEF Store, Fallbacks
<1> QED BY <1>1, <1>2 DEF Store

(* One of the copy's fallback keys is handed out.                            *)
LEMMA OfferedStore ==
  ASSUME NEW a, NEW f, NEW u, NEW out, NEW new, Store(a, f, u, out),
         new \subseteq {a.fallback, a.previous}
  PROVE  Store(a, f, u, out \cup new)
<1>1. Fallbacks(a, f, u, out \cup new)
  BY DEF Store, Fallbacks
<1> QED BY <1>1 DEF Store

-----------------------------------------------------------------------------
(* Steps.                                                                    *)

LEMMA InitIInv == Init => IInv
<1> SUFFICES ASSUME Init PROVE IInv
  OBVIOUS
<1>1. /\ account = Acc!NewAccount /\ fresh = 0 /\ up = TRUE /\ pc = "idle" /\ returned = NoKey
      /\ sessions = {} /\ saved = {} /\ uploaded = {} /\ sent = {} /\ crashes = 0
      /\ disk = Acc!NewAccount /\ lost = 0
      /\ server = [oneTime |-> {}, fallback |-> NoKey]
      /\ accountFirst \in BOOLEAN
  BY DEF Init, Acc!Init, Acc!account_new
<1>2. /\ Acc!NewAccount \in Acc!AccountState
      /\ Acc!NewAccount.private = {} /\ Acc!NewAccount.unpublished = {} /\ Acc!NewAccount.nextKeyId = 0
      /\ Acc!NewAccount.fallback = NoKey /\ Acc!NewAccount.previous = NoKey
  BY DEF Acc!NewAccount, Acc!AccountState
<1>3. Store(Acc!NewAccount, 0, {}, {}) /\ HandedOut = {}
  BY <1>1, <1>2, FS_EmptySet DEF Store, Ids, Fallbacks, HandedOut
<1>4. Seen(0, {}, {}, {})
  BY StoreAssumption DEF Seen
<1>5. Outside
  BY <1>1, <1>3, <1>4, DeviceBoundAssumption DEF Outside
<1>6. OnDisk
  BY <1>1, <1>2, <1>3 DEF OnDisk, Found, OneEach, Spent, Kept, DiskFallback, Lags
<1>7. InMemory
  BY <1>1, <1>2, <1>3 DEF InMemory, Found, OneEach, Spent, Kept, Ahead, MemoryFallback, SameFallback
<1> QED BY <1>1, <1>5, <1>6, <1>7 DEF IInv

(* What a step of the client leaves alone.                                   *)
LEMMA OutsideKept ==
  ASSUME Outside, fresh' \in 0 .. MaxFresh, fresh <= fresh',
         UNCHANGED <<server, uploaded, sent, lost, crashes>>,
         sessions' \cup saved' \subseteq sessions \cup saved
  PROVE  Outside'
<1>1. fresh \in Nat /\ fresh' \in Nat
  BY StoreAssumption DEF Outside, Seen
<1>2. Seen(fresh', uploaded, sent, HandedOut)
  BY <1>1 DEF Outside, Seen, Acc!OneTimeKey, Message
<1> QED BY <1>2 DEF Outside, HandedOut

LEMMA DiskKept ==
  ASSUME Outside, OnDisk, fresh' \in 0 .. MaxFresh, fresh <= fresh',
         UNCHANGED <<accountFirst, disk, saved, server, uploaded, sent>>, DiskFallback'
  PROVE  OnDisk'
<1>1. fresh \in Nat /\ fresh' \in Nat
  BY StoreAssumption DEF Outside, Seen
<1>2. Store(disk, fresh', uploaded, HandedOut)
  BY <1>1, LaterStore DEF OnDisk
<1> QED BY <1>2 DEF OnDisk, HandedOut

LEMMA GenerateStep ==
  ASSUME IInv, NEW n \in 1 .. MaxBatch, Generate(n)
  PROVE  IInv'
<1>1. /\ up /\ pc = "idle" /\ pc' = "made" /\ fresh + n <= MaxFresh
      /\ account' = Acc!Generated(account, n, fresh) /\ fresh' = fresh + n
      /\ UNCHANGED <<accountFirst, up, returned, sessions, disk, saved, server, uploaded, sent, lost, crashes>>
  BY DEF Generate, Acc!generate_one_time_keys, peerVars
<1>2. n \in Nat /\ fresh \in Nat /\ fresh' \in 0 .. MaxFresh /\ fresh <= fresh'
  BY <1>1, StoreAssumption DEF IInv, Outside, Seen
<1>3. Outside' /\ OnDisk' /\ HandedOut' = HandedOut
  <2>1. DiskFallback'
    BY <1>1 DEF IInv, OnDisk, DiskFallback, Lags
  <2> QED BY <1>1, <1>2, <2>1, OutsideKept, DiskKept DEF IInv, HandedOut
<1>4. InMemory
  BY <1>1 DEF IInv
<1> DEFINE g == account'
<1>5. /\ Store(g, fresh', uploaded, HandedOut)
      /\ g.nextKeyId = account.nextKeyId + n
      /\ g.fallback = account.fallback /\ g.previous = account.previous
      /\ \A k \in account.private : k \in g.private \/ Gone(g, k)
      /\ \A k \in g.private : k \in account.private \/ (account.nextKeyId <= k.id /\ fresh <= k.key)
  <2>1. Store(account, fresh, uploaded, HandedOut) /\ Seen(fresh, uploaded, sent, HandedOut)
    BY <1>4 DEF IInv, Outside, InMemory
  <2>2. /\ Store(g, fresh + n, uploaded, HandedOut)
        /\ g.nextKeyId = account.nextKeyId + n
        /\ g.fallback = account.fallback /\ g.previous = account.previous
        /\ \A k \in account.private : k \in g.private \/ Gone(g, k)
        /\ \A k \in g.private : k \in account.private \/ (account.nextKeyId <= k.id /\ fresh <= k.key)
    <3> DEFINE h == HandedOut
    <3>1. Store(account, fresh, uploaded, h) /\ Seen(fresh, uploaded, sent, h)
      BY <2>1
    <3> HIDE DEF h
    <3>2. LET x == Acc!Generated(account, n, fresh)
          IN  /\ Store(x, fresh + n, uploaded, h)
              /\ x.nextKeyId = account.nextKeyId + n
              /\ x.fallback = account.fallback /\ x.previous = account.previous
              /\ \A k \in account.private : k \in x.private \/ Gone(x, k)
              /\ \A k \in x.private : k \in account.private \/ (account.nextKeyId <= k.id /\ fresh <= k.key)
      BY <1>2, <3>1, GeneratedStore
    <3> QED BY <1>1, <3>2 DEF h
  <2> QED BY <1>1, <2>2
<1>6. /\ account.nextKeyId \in Nat /\ disk.nextKeyId \in Nat
      /\ uploaded \subseteq Acc!OneTimeKey /\ g.private \subseteq Acc!OneTimeKey
  BY <1>4, <1>5 DEF InMemory, IInv, OnDisk, Store, Acc!AccountState, Outside, Seen
<1>7. \A k \in uploaded : Gone(account, k) => Gone(g, k)
  BY <1>2, <1>5, <1>6, StoreAssumption DEF Gone, Acc!OneTimeKey
<1>8. Found(g, uploaded, sent) /\ (~ accountFirst => Kept(g, uploaded, sessions \cup saved))
  BY <1>4, <1>5, <1>7 DEF InMemory, Found, Kept
<1>9. accountFirst => Spent(g, sessions \cup saved)
  <2>1. \A s \in sessions \cup saved : s.msg.key \in Nat /\ s.msg.key < fresh
    BY DEF IInv, Outside, Seen, Message
  <2> QED BY <1>2, <1>4, <1>5, <1>6, <2>1 DEF InMemory, Spent, Acc!OneTimeKey
<1>10. Ahead'
  BY <1>1, <1>2, <1>4, <1>5, <1>6 DEF InMemory, Ahead, Acc!OneTimeKey
<1>11. MemoryFallback'
  BY <1>1, <1>4, <1>5 DEF InMemory, MemoryFallback, SameFallback
<1>12. InMemory'
  BY <1>1, <1>3, <1>4, <1>5, <1>8, <1>9, <1>10, <1>11 DEF InMemory
<1> QED BY <1>1, <1>3, <1>12 DEF IInv

LEMMA RotateStep ==
  ASSUME IInv, Rotate
  PROVE  IInv'
<1>1. /\ up /\ pc = "idle" /\ pc' = "made" /\ fresh < MaxFresh
      /\ account' = Acc!Rotated(account, fresh) /\ fresh' = fresh + 1
      /\ returned' = account'.fallback
      /\ UNCHANGED <<accountFirst, up, sessions, disk, saved, server, uploaded, sent, lost, crashes>>
  BY DEF Rotate, Acc!fallback_key, peerVars
<1>2. fresh \in Nat /\ fresh' \in 0 .. MaxFresh /\ fresh <= fresh'
  BY <1>1, StoreAssumption DEF IInv, Outside, Seen
<1>4. InMemory
  BY <1>1 DEF IInv
<1> DEFINE r == account'
<1>5. /\ Store(r, fresh', uploaded, HandedOut) /\ fresh # NoKey
      /\ r.private = account.private /\ r.nextKeyId = account.nextKeyId
      /\ r.fallback = fresh /\ r.previous = account.fallback
  BY <1>1, <1>4, RotatedStore DEF IInv, Outside, InMemory
<1>9. fresh \notin {disk.fallback, server.fallback}
  <2>1. disk.fallback # NoKey => disk.fallback < fresh
    BY DEF IInv, OnDisk, Store, Fallbacks
  <2>2. server.fallback # NoKey => server.fallback < fresh
    BY DEF IInv, Outside, Seen, HandedOut
  <2> QED BY <1>2, <1>5, <2>1, <2>2
<1>3. Outside' /\ OnDisk' /\ HandedOut' = HandedOut
  <2>1. returned = NoKey
    BY <1>1, <1>4 DEF InMemory, MemoryFallback
  <2>2. DiskFallback'
    BY <1>1, <1>5, <1>9, <2>1 DEF IInv, OnDisk, DiskFallback, Lags
  <2> QED BY <1>1, <1>2, <2>2, OutsideKept, DiskKept DEF IInv, HandedOut
<1>6. /\ Found(r, uploaded, sent)
      /\ ~ accountFirst => Kept(r, uploaded, sessions \cup saved)
      /\ accountFirst => Spent(r, sessions \cup saved)
  BY <1>4, <1>5 DEF InMemory, Found, Kept, Spent, Gone
<1>7. Ahead' /\ MemoryFallback'
  BY <1>1, <1>4, <1>5, <1>9 DEF InMemory, Ahead, MemoryFallback, SameFallback
<1>8. InMemory'
  BY <1>1, <1>3, <1>4, <1>5, <1>6, <1>7 DEF InMemory
<1> QED BY <1>1, <1>3, <1>8 DEF IInv

LEMMA SaveAccountStep ==
  ASSUME IInv, SaveAccount
  PROVE  IInv'
<1>1. /\ up
      /\ accountFirst \/ sessions \subseteq saved
      /\ disk' = account
      /\ pc' = CASE pc = "made" -> "saved" [] pc = "marked" -> "idle" [] OTHER -> pc
      /\ UNCHANGED <<accountFirst, account, fresh, up, returned, sessions, saved, server, uploaded, sent, lost, crashes>>
  BY DEF SaveAccount, accountVars, peerVars
<1>2. InMemory /\ OnDisk /\ fresh \in 0 .. MaxFresh
  BY <1>1 DEF IInv, Outside, Seen
<1>3. Outside' /\ HandedOut' = HandedOut
  BY <1>1, <1>2, StoreAssumption, OutsideKept DEF IInv, HandedOut
<1>4. disk' = account
  BY <1>1
<1>5. accountFirst => OneEach(saved) /\ Spent(account, saved)
  BY <1>2 DEF InMemory, OneEach, Spent
<1>6. ~ accountFirst => Kept(account, uploaded, saved)
  <2>1. ~ accountFirst => sessions \cup saved = saved
    BY <1>1
  <2> QED BY <1>2, <2>1 DEF InMemory
<1>7. DiskFallback'
  BY <1>1, <1>2, <1>4 DEF InMemory, MemoryFallback, SameFallback, OnDisk, DiskFallback, Lags
<1>8. OnDisk'
  BY <1>1, <1>2, <1>3, <1>4, <1>5, <1>6, <1>7 DEF InMemory, OnDisk
<1>9. account.nextKeyId \in Nat
  BY <1>2 DEF InMemory, Store, Acc!AccountState
<1>10. Ahead'
  BY <1>1, <1>2, <1>4, <1>9 DEF InMemory, Ahead
<1>11. MemoryFallback'
  BY <1>1, <1>2, <1>4 DEF InMemory, MemoryFallback, SameFallback, OnDisk, DiskFallback
<1>12. InMemory'
  BY <1>1, <1>2, <1>3, <1>10, <1>11 DEF InMemory
<1> QED BY <1>1, <1>3, <1>8, <1>12 DEF IInv

(* What is uploaded is on disk: the routine pickled after the last draw.     *)
LEMMA PendingIsOnDisk ==
  ASSUME IInv, up, pc # "made"
  PROVE  account.private \subseteq disk.private
<1>1. InMemory
  BY DEF IInv
<1> QED BY <1>1 DEF InMemory, Ahead, Store, Ids

LEMMA UploadStep ==
  ASSUME IInv, NEW answered \in BOOLEAN, Upload(answered)
  PROVE  IInv'
<1> DEFINE new == account.unpublished
<1>1. /\ up /\ pc = "saved" /\ pc' = IF answered THEN "accepted" ELSE pc
      /\ server' = [oneTime |-> server.oneTime \cup new,
                    fallback |-> IF returned = NoKey THEN server.fallback ELSE returned]
      /\ uploaded' = uploaded \cup new
      /\ lost' = IF returned = NoKey THEN lost ELSE 0
      /\ UNCHANGED <<accountFirst, account, fresh, up, returned, sessions, disk, saved, sent, crashes>>
  BY DEF Upload, Acc!one_time_keys, accountVars
<1>2. InMemory /\ OnDisk /\ Outside
  BY <1>1 DEF IInv
<1>3. new \subseteq account.private /\ new \subseteq disk.private
  BY <1>1, <1>2, PendingIsOnDisk DEF InMemory, Store
<1> DEFINE offered == {returned} \ {NoKey}
<1>6. /\ server'.oneTime = server.oneTime \cup new
      /\ server'.fallback = IF returned = NoKey THEN server.fallback ELSE returned
      /\ returned # NoKey => returned = disk.fallback
      /\ SameFallback
  BY <1>1, <1>2 DEF InMemory, MemoryFallback
<1>7. returned \in Nat \cup {NoKey} /\ (returned # NoKey => returned < fresh)
  BY <1>2, <1>6 DEF OnDisk, Store, Fallbacks, Acc!AccountState
<1>14. HandedOut' \subseteq HandedOut \cup offered
  BY <1>1, <1>6 DEF HandedOut
<1>4. Store(account, fresh, uploaded', HandedOut') /\ Store(disk, fresh, uploaded', HandedOut')
  <2>1. offered \subseteq {account.fallback, account.previous} /\ offered \subseteq {disk.fallback, disk.previous}
    BY <1>6 DEF SameFallback
  <2> HIDE DEF new, offered
  <2>2. /\ Store(account, fresh, uploaded', HandedOut \cup offered)
        /\ Store(disk, fresh, uploaded', HandedOut \cup offered)
    BY <1>1, <1>2, <1>3, <2>1, UploadedStore, OfferedStore DEF InMemory, OnDisk
  <2> QED BY <1>14, <2>2 DEF Store, Fallbacks
<1>5. Seen(fresh, uploaded', sent, HandedOut')
  <2>1. new \subseteq Acc!OneTimeKey
    BY <1>2 DEF InMemory, Store, Acc!AccountState
  <2>2. \A k \in uploaded' : k.key < fresh
    BY <1>1, <1>2, <1>3 DEF InMemory, Store, Ids, Outside, Seen
  <2>3. \A j, k \in uploaded' : j.id = k.id => j = k
    BY <1>1, <1>2, <1>3 DEF InMemory, Store, Ids, Outside, Seen
  <2>4. \A x \in HandedOut' : x \in Nat /\ x < fresh
    BY <1>2, <1>7, <1>14 DEF Outside, Seen
  <2>5. \A m \in sent : m.fallback => m.key \in HandedOut'
    BY <1>1 DEF HandedOut
  <2> QED BY <1>1, <1>2, <2>1, <2>2, <2>3, <2>4, <2>5 DEF Outside, Seen
<1>8. Outside'
  BY <1>1, <1>2, <1>5, <1>7 DEF Outside
<1>9. DiskFallback'
  BY <1>1, <1>2, <1>6 DEF OnDisk, DiskFallback, Lags
<1>10. OnDisk'
  BY <1>1, <1>2, <1>3, <1>4, <1>9 DEF OnDisk, Found, Kept
<1>11. MemoryFallback'
  BY <1>1, <1>2, <1>6 DEF InMemory, MemoryFallback, SameFallback
<1>12. Ahead'
  BY <1>1, <1>2 DEF InMemory, Ahead
<1>13. InMemory'
  BY <1>1, <1>2, <1>3, <1>4, <1>11, <1>12 DEF InMemory, Found, Kept
<1> QED BY <1>1, <1>8, <1>10, <1>13 DEF IInv

LEMMA MarkPublishedStep ==
  ASSUME IInv, MarkPublished
  PROVE  IInv'
<1>1. /\ up /\ pc = "accepted" /\ pc' = "marked" /\ returned' = NoKey
      /\ account' = Acc!Published(account) /\ fresh' = fresh
      /\ UNCHANGED <<accountFirst, up, sessions, disk, saved, server, uploaded, sent, lost, crashes>>
  BY DEF MarkPublished, Acc!mark_published, peerVars
<1>2. InMemory /\ fresh \in 0 .. MaxFresh
  BY <1>1 DEF IInv, Outside, Seen
<1>3. Outside' /\ OnDisk' /\ HandedOut' = HandedOut
  <2>1. DiskFallback'
    BY <1>1, <1>2 DEF IInv, OnDisk, DiskFallback, InMemory, MemoryFallback, Lags
  <2> QED BY <1>1, <1>2, <2>1, StoreAssumption, OutsideKept, DiskKept DEF IInv, HandedOut
<1> DEFINE p == account'
<1>4. /\ Store(p, fresh, uploaded, HandedOut)
      /\ p.private = account.private /\ p.nextKeyId = account.nextKeyId
      /\ p.fallback = account.fallback /\ p.previous = account.previous
  BY <1>1, <1>2, PublishedStore DEF InMemory, Ahead
<1>5. /\ Found(p, uploaded, sent)
      /\ ~ accountFirst => Kept(p, uploaded, sessions \cup saved)
      /\ accountFirst => Spent(p, sessions \cup saved)
  BY <1>2, <1>4 DEF InMemory, Found, Kept, Spent, Gone
<1>6. Ahead' /\ MemoryFallback'
  BY <1>1, <1>2, <1>4 DEF InMemory, Ahead, MemoryFallback, SameFallback
<1>7. InMemory'
  BY <1>1, <1>2, <1>3, <1>4, <1>5, <1>6 DEF InMemory
<1> QED BY <1>1, <1>3, <1>7 DEF IInv

(* Account first: a one-time key opens a session only while no other session *)
(* used it, since those would have taken it from memory.                     *)
LEMMA ReceiveStep ==
  ASSUME IInv, NEW m \in sent, Receive(m)
  PROVE  IInv'
<1> DEFINE new == [msg |-> m, era |-> crashes]
           S == sessions \cup saved
<1>1. /\ up /\ m.key \in Acc!Secrets(account)
      /\ account' = Acc!Consumed(account, m.key) /\ fresh' = fresh
      /\ sessions' = sessions \cup {new}
      /\ UNCHANGED <<accountFirst, up, pc, returned, disk, saved, server, uploaded, sent, lost, crashes>>
  BY DEF Receive, Acc!create_inbound, Acc!Opens, peerVars
<1>2. InMemory /\ Outside /\ fresh \in 0 .. MaxFresh
  BY <1>1 DEF IInv, Outside, Seen
<1>3. new \in Session /\ new.msg = m
  BY <1>2 DEF Outside, Seen, Session
<1> HIDE DEF new
<1>4. Outside' /\ HandedOut' = HandedOut
  BY <1>1, <1>2, <1>3 DEF Outside, HandedOut
<1>5. OnDisk'
  <2>1. DiskFallback'
    BY <1>1 DEF IInv, OnDisk, DiskFallback, Lags
  <2> QED BY <1>1, <1>2, <2>1, StoreAssumption, DiskKept DEF IInv
<1> DEFINE c == account'
<1>6. /\ Store(c, fresh, uploaded, HandedOut)
      /\ c.private = {k \in account.private : k.key # m.key}
      /\ c.unpublished \subseteq account.unpublished
      /\ c.nextKeyId = account.nextKeyId
      /\ c.fallback = account.fallback /\ c.previous = account.previous
  BY <1>1, <1>2, ConsumedStore DEF InMemory
<1>7. Found(c, uploaded, sent)
  BY <1>2, <1>6 DEF InMemory, Found, Gone
<1>8. ~ accountFirst => Kept(c, uploaded, S \cup {new})
  BY <1>2, <1>3, <1>6 DEF InMemory, Kept, Gone
<1>9. accountFirst => Spent(c, S \cup {new})
  BY <1>2, <1>3, <1>6 DEF InMemory, Spent
<1>10. accountFirst => OneEach(S \cup {new})
  <2> SUFFICES ASSUME accountFirst PROVE OneEach(S \cup {new})
    OBVIOUS
  <2>1. OneEach(S) /\ Spent(account, S)
    BY <1>2 DEF InMemory
  <2>2. ASSUME NEW x \in sent, ~ x.fallback, x.key = m.key
        PROVE  \E k \in account.private : k.key = m.key
    <3>1. PICK k \in uploaded : k.key = m.key
      BY <1>2, <2>2 DEF Outside, Seen
    <3>2. m.key \notin {account.fallback, account.previous}
      BY <1>2, <3>1 DEF InMemory, Store, Fallbacks
    <3> QED BY <1>1, <3>2 DEF Acc!Secrets
  <2>3. ASSUME NEW s \in S, s.msg.key = m.key, ~ s.msg.fallback \/ ~ m.fallback
        PROVE  FALSE
    <3>1. s.msg \in sent
      BY <1>2 DEF Outside
    <3>2. PICK k \in account.private : k.key = m.key
      BY <2>2, <2>3, <3>1
    <3>3. CASE ~ s.msg.fallback
      BY <2>1, <2>3, <3>2, <3>3 DEF Spent
    <3>4. CASE s.msg.fallback
      BY <1>2, <2>3, <3>1, <3>2, <3>4 DEF InMemory, Store, Fallbacks, Outside, Seen
    <3> QED BY <3>3, <3>4
  <2> QED BY <1>3, <2>1, <2>3 DEF OneEach
<1>11. Ahead' /\ MemoryFallback'
  BY <1>1, <1>2, <1>6 DEF InMemory, Ahead, MemoryFallback, SameFallback
<1>12. sessions' \cup saved' = S \cup {new}
  BY <1>1
<1> HIDE DEF S
<1>13. InMemory'
  BY <1>1, <1>2, <1>4, <1>6, <1>7, <1>8, <1>9, <1>10, <1>11, <1>12 DEF InMemory
<1> QED BY <1>1, <1>4, <1>5, <1>13 DEF IInv

LEMMA SaveSessionStep ==
  ASSUME IInv, NEW s \in sessions, SaveSession(s)
  PROVE  IInv'
<1>1. /\ up /\ saved' = saved \cup {s}
      /\ accountFirst => disk = account
      /\ UNCHANGED <<accountFirst, account, fresh, up, pc, returned, sessions, disk, server, uploaded, sent, lost, crashes>>
  BY DEF SaveSession, accountVars, clientVars, peerVars
<1>2. InMemory /\ OnDisk /\ fresh \in 0 .. MaxFresh
  BY <1>1 DEF IInv, Outside, Seen
<1>3. sessions' \cup saved' = sessions \cup saved
  BY <1>1
<1>4. Outside' /\ HandedOut' = HandedOut
  BY <1>1, <1>2, <1>3, StoreAssumption, OutsideKept DEF IInv, HandedOut
<1>5. accountFirst => OneEach(saved') /\ Spent(disk, saved')
  BY <1>1, <1>2 DEF InMemory, OneEach, Spent
<1>6. ~ accountFirst => Kept(disk, uploaded, saved')
  BY <1>1, <1>2 DEF OnDisk, Kept
<1>7. DiskFallback' /\ Ahead' /\ MemoryFallback'
  BY <1>1, <1>2 DEF OnDisk, InMemory, DiskFallback, Lags, Ahead, MemoryFallback, SameFallback
<1>8. OnDisk'
  BY <1>1, <1>2, <1>4, <1>5, <1>6, <1>7 DEF OnDisk
<1>9. InMemory'
  BY <1>1, <1>2, <1>3, <1>4, <1>7 DEF InMemory
<1> QED BY <1>1, <1>4, <1>8, <1>9 DEF IInv

(* A key that was on its way to the homeserver is lost with the process.     *)
LEMMA CrashStep ==
  ASSUME IInv, Crash
  PROVE  IInv'
<1>1. /\ up /\ up' = FALSE /\ account' = Acc!NewAccount /\ pc' = "idle" /\ returned' = NoKey /\ sessions' = {}
      /\ crashes < MaxCrashes /\ crashes' = crashes + 1
      /\ lost' = IF returned = disk.fallback /\ returned \notin {NoKey, server.fallback}
                 THEN lost + 1 ELSE lost
      /\ UNCHANGED <<accountFirst, fresh, disk, saved, server, uploaded, sent>>
  BY DEF Crash, peerVars
<1>2. fresh \in 0 .. MaxFresh /\ fresh <= fresh' /\ lost \in Nat
  BY <1>1, StoreAssumption DEF IInv, Outside, Seen
<1>3. Outside'
  BY <1>1, DeviceBoundAssumption DEF IInv, Outside, HandedOut
<1>4. DiskFallback'
  BY <1>1, <1>2 DEF IInv, OnDisk, DiskFallback, Lags
<1>5. OnDisk'
  BY <1>1, <1>2, <1>4, DiskKept DEF IInv
<1> QED BY <1>1, <1>3, <1>5 DEF IInv, Down

(* A restart makes the two copies one.                                       *)
LEMMA RestartStep ==
  ASSUME IInv, Restart
  PROVE  IInv'
<1>1. /\ ~ up /\ up' = TRUE /\ account' = disk
      /\ pc' = IF disk.unpublished # {} THEN "saved" ELSE "idle"
      /\ UNCHANGED <<accountFirst, fresh, returned, sessions, disk, saved, server, uploaded, sent, lost, crashes>>
  BY DEF Restart, RestartAt, peerVars
<1>2. sessions = {} /\ returned = NoKey /\ OnDisk /\ fresh \in 0 .. MaxFresh /\ fresh <= fresh'
  BY <1>1, StoreAssumption DEF IInv, Down, Outside, Seen
<1>3. Outside' /\ OnDisk' /\ HandedOut' = HandedOut
  <2>1. DiskFallback'
    BY <1>1, <1>2 DEF OnDisk, DiskFallback, Lags
  <2> QED BY <1>1, <1>2, <2>1, OutsideKept, DiskKept DEF IInv, HandedOut
<1>4. sessions' \cup saved' = saved
  BY <1>1, <1>2
<1>5. pc' \in {"idle", "saved"}
  BY <1>1
<1>6. MemoryFallback'
  BY <1>1, <1>2, <1>5 DEF MemoryFallback, SameFallback
<1>7. disk.nextKeyId \in Nat
  BY <1>2 DEF OnDisk, Store, Acc!AccountState
<1>8. Ahead'
  BY <1>1, <1>7 DEF Ahead
<1>9. InMemory'
  BY <1>1, <1>2, <1>3, <1>4, <1>6, <1>8 DEF OnDisk, InMemory
<1> QED BY <1>1, <1>3, <1>9 DEF IInv

LEMMA ClaimStep ==
  ASSUME IInv, NEW n \in 1 .. MaxMessages, Claim(n)
  PROVE  IInv'
<1>1. UNCHANGED <<accountFirst, account, fresh, up, pc, returned, sessions, disk, saved, uploaded, lost, crashes>>
  BY DEF Claim, accountVars, clientVars
<1>2. Outside /\ OnDisk
  BY DEF IInv
<1>3. PICK m : /\ sent' = sent \cup {m} /\ m.n = n
               /\ m \in [n : {n}, key : Nat, fallback : BOOLEAN]
               /\ server' \in [oneTime : SUBSET uploaded, fallback : Nat \cup {NoKey}]
               /\ server'.fallback = server.fallback
               /\ m.fallback => m.key = server.fallback /\ server.fallback # NoKey
               /\ ~ m.fallback => \E k \in uploaded : k.key = m.key
  <2>1. CASE \E k \in server.oneTime :
               /\ server' = [server EXCEPT !.oneTime = @ \ {k}]
               /\ sent' = sent \cup {[n |-> n, key |-> k.key, fallback |-> FALSE]}
    <3>1. PICK k \in server.oneTime :
               /\ server' = [server EXCEPT !.oneTime = @ \ {k}]
               /\ sent' = sent \cup {[n |-> n, key |-> k.key, fallback |-> FALSE]}
      BY <2>1
    <3>2. k \in uploaded /\ k.key \in Nat
      BY <1>2, <3>1 DEF Outside, Seen, Acc!OneTimeKey
    <3>3. /\ server' \in [oneTime : SUBSET uploaded, fallback : Nat \cup {NoKey}]
          /\ server'.fallback = server.fallback
      BY <1>2, <3>1 DEF Outside
    <3> DEFINE c == [n |-> n, key |-> k.key, fallback |-> FALSE]
    <3>4. c.n = n /\ c.key = k.key /\ c.fallback = FALSE /\ c \in [n : {n}, key : Nat, fallback : BOOLEAN]
      BY <3>2
    <3>5. sent' = sent \cup {c}
      BY <3>1
    <3> HIDE DEF c
    <3> QED BY <3>2, <3>3, <3>4, <3>5
  <2>2. CASE /\ server.fallback # NoKey /\ UNCHANGED server
             /\ sent' = sent \cup {[n |-> n, key |-> server.fallback, fallback |-> TRUE]}
    <3> DEFINE c == [n |-> n, key |-> server.fallback, fallback |-> TRUE]
    <3>1. server.fallback \in Nat
      BY <1>2, <2>2 DEF Outside
    <3>2. c.n = n /\ c.key = server.fallback /\ c.fallback = TRUE /\ c \in [n : {n}, key : Nat, fallback : BOOLEAN]
      BY <3>1
    <3>3. sent' = sent \cup {c} /\ server' = server
      BY <2>2
    <3> HIDE DEF c
    <3> QED BY <1>2, <2>2, <3>2, <3>3 DEF Outside
  <2> QED BY <2>1, <2>2 DEF Claim
<1>4. HandedOut' = HandedOut
  BY <1>3 DEF HandedOut
<1>6. Seen(fresh, uploaded, sent', HandedOut)
  <2>1. m.fallback => m.key \in HandedOut
    BY <1>3 DEF HandedOut
  <2>2. m.key < fresh
    BY <1>2, <1>3, <2>1 DEF Outside, Seen
  <2>3. m \in Message
    BY <1>2, <1>3, <2>2, StoreAssumption, DeviceBoundAssumption DEF Message, Outside, Seen
  <2> QED BY <1>2, <1>3, <2>1, <2>2, <2>3 DEF Outside, Seen
<1>7. Outside'
  BY <1>1, <1>2, <1>3, <1>4, <1>6 DEF Outside
<1>8. DiskFallback'
  BY <1>1, <1>2, <1>3 DEF OnDisk, DiskFallback, Lags
<1>9. OnDisk'
  BY <1>1, <1>2, <1>3, <1>4, <1>8 DEF OnDisk, Found
<1>10. ASSUME up PROVE InMemory'
  <2>1. InMemory
    BY <1>10 DEF IInv
  <2>2. Ahead' /\ MemoryFallback'
    BY <1>1, <1>3, <2>1 DEF InMemory, Ahead, MemoryFallback, SameFallback
  <2> QED BY <1>1, <1>3, <1>4, <2>1, <2>2 DEF InMemory, Found
<1>11. ~ up => Down'
  BY <1>1 DEF IInv, Down
<1> QED BY <1>1, <1>7, <1>9, <1>10, <1>11 DEF IInv

LEMMA NextIInv == IInv /\ [Next]_vars => IInv'
<1> SUFFICES ASSUME IInv, [Next]_vars PROVE IInv'
  OBVIOUS
<1>1. CASE UNCHANGED vars
  BY <1>1 DEF vars, accountVars, clientVars, peerVars, IInv, Outside, OnDisk, InMemory, Down,
              HandedOut, DiskFallback, Lags, MemoryFallback, SameFallback, Ahead
<1>2. CASE Rotate \/ SaveAccount \/ MarkPublished \/ Crash \/ Restart
  BY <1>2, RotateStep, SaveAccountStep, MarkPublishedStep, CrashStep, RestartStep
<1>3. ASSUME NEW n \in 1 .. MaxBatch, Generate(n) PROVE IInv'
  BY <1>3, GenerateStep
<1>4. ASSUME NEW answered \in BOOLEAN, Upload(answered) PROVE IInv'
  BY <1>4, UploadStep
<1>5. ASSUME NEW m \in sent, Receive(m) PROVE IInv'
  BY <1>5, ReceiveStep
<1>6. ASSUME NEW s \in sessions, SaveSession(s) PROVE IInv'
  BY <1>6, SaveSessionStep
<1>7. ASSUME NEW n \in 1 .. MaxMessages, Claim(n) PROVE IInv'
  BY <1>7, ClaimStep
<1> QED BY <1>1, <1>2, <1>3, <1>4, <1>5, <1>6, <1>7 DEF Next

-----------------------------------------------------------------------------
(* The invariant itself.                                                     *)
THEOREM DeviceInvariant == Spec => []IInv
BY InitIInv, NextIInv, PTL DEF Spec

(* The types of Device; a fallback key waiting for its upload is the         *)
(* account's current one (mxc_account_fallback_key).                         *)
THEOREM DeviceTypeOK == Spec => []TypeOK
<1>1. IInv => TypeOK
  <2> SUFFICES ASSUME IInv PROVE TypeOK
    OBVIOUS
  <2>1. Outside /\ OnDisk /\ disk \in Acc!AccountState
    BY DEF IInv, OnDisk, Store
  <2>2. sessions \cup saved \subseteq Session /\ sent \subseteq Message
    BY <2>1 DEF Outside, Seen
  <2>3. \A k \in Nat : k < fresh => k \in 0 .. MaxFresh
    BY <2>1, StoreAssumption DEF Outside, Seen
  <2>4. server.fallback \in (0 .. MaxFresh) \cup {NoKey} /\ lost \in 0 .. MaxCrashes
    BY <2>1, <2>3, DeviceBoundAssumption DEF Outside, Seen, HandedOut
  <2>5. CASE up
    <3>1. InMemory /\ account \in Acc!AccountState
      BY <2>5 DEF IInv, InMemory, Store
    <3>2. returned # NoKey => returned = account.fallback
      BY <3>1 DEF InMemory, MemoryFallback, SameFallback
    <3>3. returned \in (0 .. MaxFresh) \cup {NoKey}
      BY <2>3, <3>1, <3>2 DEF InMemory, Store, Fallbacks, Acc!AccountState
    <3> QED BY <2>1, <2>2, <2>4, <2>5, <3>1, <3>2, <3>3 DEF TypeOK, InMemory
  <2>6. CASE ~ up
    <3>1. Acc!NewAccount \in Acc!AccountState
      BY DEF Acc!NewAccount, Acc!AccountState
    <3>2. account = Acc!NewAccount /\ pc = "idle" /\ sessions = {} /\ returned = NoKey
      BY <2>6 DEF IInv, Down
    <3> QED BY <2>1, <2>2, <2>4, <2>6, <3>1, <3>2 DEF TypeOK, IInv
  <2> QED BY <2>5, <2>6 DEF IInv
<1> QED BY <1>1, DeviceInvariant, PTL

(* A public key the homeserver may still hand out has its secret in the      *)
(* pickle (lib.rs:94 with 142), wherever the client crashed.                 *)
THEOREM DeviceNoOrphanedKey == Spec => []NoOrphanedKey
<1>1. IInv => NoOrphanedKey
  BY DEF IInv, Outside, OnDisk, Found, NoOrphanedKey, Gone, Evicted
<1> QED BY <1>1, DeviceInvariant, PTL

(* The fallback key the homeserver hands out is in the pickle, as the        *)
(* current or the previous one (lib.rs:128), unless the client rotated       *)
(* again after the public half of a rotation died with its process.          *)
THEOREM DeviceFallbackReachable == Spec => []FallbackReachable
<1>1. IInv => FallbackReachable
  BY DEF IInv, OnDisk, DiskFallback, Lags, FallbackReachable
<1> QED BY <1>1, DeviceInvariant, PTL

(* No id is uploaded with two keys, though restarts take the counter back to *)
(* the pickle's (lib.rs:151).                                                *)
THEOREM DeviceIdsNeverReused == Spec => []IdsNeverReused
<1>1. IInv => IdsNeverReused
  BY DEF IInv, Outside, Seen, IdsNeverReused
<1> QED BY <1>1, DeviceInvariant, PTL

(* mxc_account_mark_published marks no key that was not uploaded.            *)
THEOREM DevicePublishedWasUploaded == Spec => []PublishedWasUploaded
<1>1. IInv => PublishedWasUploaded
  BY DEF IInv, OnDisk, InMemory, Store, Down, Acc!NewAccount, PublishedWasUploaded
<1> QED BY <1>1, DeviceInvariant, PTL

(* With the account pickled first, at most one session per one-time key      *)
(* reaches the disk (lib.rs:191 with 142 and 233).                           *)
THEOREM DeviceOneDurableSession == Spec => []OneDurableSession
<1>1. IInv => OneDurableSession
  BY DEF IInv, OnDisk, OneEach, OneDurableSession
<1> QED BY <1>1, DeviceInvariant, PTL

(* With the session pickled first, a used key leaves the pickle only when    *)
(* its session is on disk or younger keys displaced it.                      *)
THEOREM DeviceNoSessionLost == Spec => []NoSessionLost
<1>1. IInv => NoSessionLost
  BY DEF IInv, OnDisk, Kept, NoSessionLost, Gone, Evicted
<1> QED BY <1>1, DeviceInvariant, PTL

=============================================================================
