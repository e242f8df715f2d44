---------------------------- MODULE AccountProofs ----------------------------
(***************************************************************************)
(* Theorems about Account.tla for every store limit and every bound.       *)
(***************************************************************************)
EXTENDS Account, FiniteSetTheorems, WellFoundedInduction, TLAPS

(* What the invariants need besides themselves: ids and keys in use are      *)
(* older than the counters they are drawn from, and the store is finite.     *)
Older ==
  /\ \A k \in account.private : k.id < account.nextKeyId /\ k.key < fresh
  /\ account.fallback # NoKey => account.fallback < fresh
  /\ account.previous # NoKey => account.previous < fresh
  /\ \A o \in opened : o < fresh

IInv ==
  /\ TypeOK
  /\ IsFiniteSet(account.private)
  /\ Older
  /\ PendingHasSecret
  /\ OneTime
  /\ KeysDistinct

-----------------------------------------------------------------------------
(* The operators.                                                            *)

LEMMA DrawnFacts ==
  ASSUME NEW a \in AccountState, NEW n \in Nat, NEW f \in Nat
  PROVE  /\ Drawn(a, n, f) \subseteq OneTimeKey
         /\ IsFiniteSet(Drawn(a, n, f))
         /\ \A k \in Drawn(a, n, f) :
              /\ a.nextKeyId <= k.id /\ k.id < a.nextKeyId + n
              /\ f <= k.key /\ k.key < f + n
         /\ \A j, k \in Drawn(a, n, f) : (j.id = k.id \/ j.key = k.key) => j = k
<1>1. a.nextKeyId \in Nat
  BY DEF AccountState
<1>2. IsFiniteSet(0 .. (n - 1))
  BY FS_Interval
<1>3. IsFiniteSet(Drawn(a, n, f))
  <2> DEFINE g == [k \in Drawn(a, n, f) |-> k.key - f]
  <2>1. g \in Injection(Drawn(a, n, f), 0 .. (n - 1))
    BY <1>1 DEF Drawn, Injection, IsInjective
  <2>2. QED BY <1>2, <2>1, FS_Injection
<1>4. QED BY <1>1, <1>3 DEF Drawn, OneTimeKey

LEMMA NewestSubset == ASSUME NEW S PROVE Newest(S) \subseteq S
BY DEF Newest

LEMMA GeneratedFacts ==
  ASSUME NEW a \in AccountState, NEW n \in Nat, NEW f \in Nat
  PROVE  LET pool == a.private \cup Drawn(a, n, f)
             g == Generated(a, n, f)
         IN  /\ g \in AccountState
             /\ g.private = Newest(pool)
             /\ g.private \subseteq pool
             /\ g.unpublished \subseteq g.private
             /\ g.nextKeyId = a.nextKeyId + n
             /\ g.fallback = a.fallback /\ g.previous = a.previous
             /\ g.fallbackPublished = a.fallbackPublished
<1> DEFINE pool == a.private \cup Drawn(a, n, f)
<1>1. pool \subseteq OneTimeKey /\ a.unpublished \subseteq OneTimeKey
  BY DrawnFacts DEF AccountState
<1>2. Newest(pool) \subseteq pool
  BY NewestSubset
<1> DEFINE kept == Newest(pool)
           pending == (a.unpublished \cup Drawn(a, n, f)) \cap kept
           next == a.nextKeyId + n
<1>3. kept \in SUBSET OneTimeKey /\ pending \in SUBSET OneTimeKey
  BY <1>1, <1>2
<1>4. Generated(a, n, f) = [a EXCEPT !.private = kept, !.unpublished = pending,
                                     !.nextKeyId = next]
  BY DEF Generated
<1>5. pending \subseteq kept /\ next \in Nat
  BY DEF AccountState
<1> HIDE DEF kept, pending, next
<1>6. /\ Generated(a, n, f) \in AccountState
      /\ Generated(a, n, f).private = kept
      /\ Generated(a, n, f).unpublished = pending
      /\ Generated(a, n, f).nextKeyId = next
      /\ Generated(a, n, f).fallback = a.fallback
      /\ Generated(a, n, f).previous = a.previous
      /\ Generated(a, n, f).fallbackPublished = a.fallbackPublished
  BY <1>3, <1>4, <1>5 DEF AccountState
<1>7. QED
  BY <1>2, <1>5, <1>6 DEF kept, next

(* A pool whose ids are distinct keeps at most MaxOneTimeKeys entries: the   *)
(* number of younger entries tells the kept ones apart.                      *)
LEMMA NewestWithinLimit ==
  ASSUME NEW S \in SUBSET OneTimeKey, IsFiniteSet(S),
         \A j, k \in S : j.id = k.id => j = k
  PROVE  Cardinality(Newest(S)) <= MaxOneTimeKeys
<1> DEFINE younger(k) == {j \in S : j.id > k.id}
           rank == [k \in Newest(S) |-> Cardinality(younger(k))]
<1>1. \A k \in S : IsFiniteSet(younger(k)) /\ Cardinality(younger(k)) \in Nat
  <2> TAKE k \in S
  <2>1. IsFiniteSet(younger(k))
    BY FS_Subset, younger(k) \in SUBSET S
  <2>2. QED BY <2>1, FS_CardinalityType
<1>2. rank \in [Newest(S) -> 0 .. (MaxOneTimeKeys - 1)]
  BY <1>1, LimitAssumption DEF Newest
<1>3. \A j, k \in Newest(S) : rank[j] = rank[k] => j = k
  <2>1. ASSUME NEW j \in Newest(S), NEW k \in Newest(S), j.id > k.id
        PROVE  rank[j] # rank[k]
    <3>1. j \in S /\ k \in S /\ younger(j) \in SUBSET younger(k) /\ j \in younger(k)
      BY <2>1 DEF Newest, OneTimeKey
    <3>2. j \notin younger(j)
      BY <3>1 DEF OneTimeKey
    <3>3. Cardinality(younger(j)) # Cardinality(younger(k))
      BY <1>1, <3>1, <3>2, FS_Subset
    <3>4. QED BY <3>3
  <2>2. SUFFICES ASSUME NEW j \in Newest(S), NEW k \in Newest(S), j # k
                 PROVE  rank[j] # rank[k]
    OBVIOUS
  <2>3. j.id > k.id \/ k.id > j.id
    BY <2>2 DEF Newest, OneTimeKey
  <2>4. QED BY <2>1, <2>3
<1>4. rank \in Injection(Newest(S), 0 .. (MaxOneTimeKeys - 1))
  BY <1>2, <1>3 DEF Injection, IsInjective
<1>5. IsFiniteSet(0 .. (MaxOneTimeKeys - 1))
      /\ Cardinality(0 .. (MaxOneTimeKeys - 1)) = MaxOneTimeKeys
  BY FS_Interval, LimitAssumption
<1>6. QED BY <1>4, <1>5, FS_Injection

LEMMA NatOrder == IsWellFoundedOn({ss \in Nat \X Nat : ss[1] < ss[2]}, Nat)
BY NatLessThanWellFounded DEF OpToRel

LEMMA Least ==
  ASSUME NEW S \in SUBSET Nat, S # {}
  PROVE  \E x \in S : \A y \in S : x <= y
<1> DEFINE R == {ss \in Nat \X Nat : ss[1] < ss[2]}
<1>1. IsWellFoundedOn(R, Nat)
  BY NatOrder
<1>2. \A a, b \in Nat : <<a, b>> \in R <=> a < b
  OBVIOUS
<1> HIDE DEF R
<1>3. PICK x \in S : \A y \in S : ~ (<<y, x>> \in R)
  BY <1>1, WFMin
<1>4. \A y \in S : x <= y
  <2> TAKE y \in S
  <2>1. x \in Nat /\ y \in Nat /\ ~ (y < x)
    BY <1>2, <1>3
  <2> QED BY <2>1
<1> QED BY <1>4

(* Of the entries that are dropped one has the highest id: all above it      *)
(* stay, and there are enough of them to drop it.                            *)
LEMMA DroppedForYounger ==
  ASSUME NEW S \in SUBSET OneTimeKey, IsFiniteSet(S), NEW next \in Nat,
         \A k \in S : k.id < next,
         NEW k \in S, k \notin Newest(S)
  PROVE  Cardinality({j \in Newest(S) : j.id > k.id}) >= MaxOneTimeKeys
<1> DEFINE dropped == S \ Newest(S)
           below == {next - d.id : d \in dropped}
<1>1. \A d \in S : d.id \in Nat /\ d.id < next
  BY DEF OneTimeKey
<1>2. \A d \in dropped : next - d.id \in Nat /\ next - d.id \in below
  BY <1>1
<1>3. below \in SUBSET Nat /\ below # {}
  BY <1>2
<1>4. PICK t \in below : \A u \in below : t <= u
  <2> HIDE DEF below
  <2> QED BY <1>3, Least
<1>5. PICK d \in dropped : t = next - d.id
  BY <1>4
<1>6. \A e \in dropped : e.id <= d.id
  <2> TAKE e \in dropped
  <2>1. /\ e.id \in Nat /\ d.id \in Nat
        /\ next - d.id <= next - e.id
    BY <1>1, <1>2, <1>4, <1>5
  <2> QED BY <2>1
<1> DEFINE younger == {j \in S : j.id > d.id}
           stay == {j \in Newest(S) : j.id > k.id}
<1>7. k.id <= d.id
  BY <1>6
<1>8. younger \in SUBSET stay
  <2> SUFFICES ASSUME NEW j \in younger PROVE j \in Newest(S) /\ j.id > k.id
    OBVIOUS
  <2>1. j.id \in Nat /\ d.id \in Nat /\ k.id \in Nat /\ j.id > d.id
    BY <1>1
  <2>2. j \notin dropped
    BY <1>6, <2>1
  <2> QED BY <1>7, <2>1, <2>2
<1>9. IsFiniteSet(stay) /\ IsFiniteSet(younger)
  <2>1. stay \in SUBSET S /\ younger \in SUBSET S
    BY NewestSubset
  <2> QED BY <2>1, FS_Subset
<1>10. /\ Cardinality(younger) \in Nat /\ Cardinality(stay) \in Nat
       /\ Cardinality(younger) <= Cardinality(stay)
  BY <1>8, <1>9, FS_CardinalityType, FS_Subset
<1>11. ~ (Cardinality(younger) < MaxOneTimeKeys)
  BY <1>5 DEF Newest
<1> QED BY <1>10, <1>11, LimitAssumption

LEMMA ConsumedFacts ==
  ASSUME NEW a \in AccountState, NEW key
  PROVE  LET c == Consumed(a, key)
         IN  /\ c \in AccountState
             /\ c.private = {k \in a.private : k.key # key}
             /\ c.unpublished = {k \in a.unpublished : k.key # key}
             /\ c.nextKeyId = a.nextKeyId
             /\ c.fallback = a.fallback /\ c.previous = a.previous
             /\ c.fallbackPublished = a.fallbackPublished
BY DEF Consumed, AccountState

LEMMA RotatedFacts ==
  ASSUME NEW a \in AccountState, NEW key \in Nat
  PROVE  LET r == Rotated(a, key)
         IN  /\ r \in AccountState
             /\ r.private = a.private /\ r.unpublished = a.unpublished
             /\ r.nextKeyId = a.nextKeyId
             /\ r.fallback = key /\ r.previous = a.fallback
             /\ r.fallbackPublished = FALSE
BY DEF Rotated, AccountState

LEMMA PublishedFacts ==
  ASSUME NEW a \in AccountState
  PROVE  LET p == Published(a)
         IN  /\ p \in AccountState
             /\ p.private = a.private /\ p.unpublished = {}
             /\ p.nextKeyId = a.nextKeyId
             /\ p.fallback = a.fallback /\ p.previous = a.previous
             /\ p.fallbackPublished = (a.fallback # NoKey)
BY DEF Published, AccountState

-----------------------------------------------------------------------------
(* One step.                                                                 *)

LEMMA InitIInv == Init => IInv
<1> SUFFICES ASSUME Init PROVE IInv
  OBVIOUS
<1>1. account = NewAccount /\ fresh = 0 /\ opened = {}
  BY DEF Init, account_new
<1>2. NewAccount \in AccountState
  BY DEF NewAccount, AccountState
<1>3. QED
  BY <1>1, <1>2, FS_EmptySet, BoundAssumption
  DEF IInv, TypeOK, Older, PendingHasSecret, OneTime, KeysDistinct, NewAccount

LEMMA GenerateKeepsIInv ==
  ASSUME IInv, NEW n \in 0 .. MaxBatch, generate_one_time_keys(n)
  PROVE  IInv' /\ WithinLimit'
<1> DEFINE drawn == Drawn(account, n, fresh)
           pool == account.private \cup drawn
<1>1. account \in AccountState /\ n \in Nat /\ fresh \in Nat /\ fresh <= MaxFresh
  BY BoundAssumption DEF IInv, TypeOK
<1>2. /\ account' \in AccountState
      /\ account'.private = Newest(pool) /\ account'.private \subseteq pool
      /\ account'.unpublished \subseteq account'.private
      /\ account'.nextKeyId = account.nextKeyId + n
      /\ account'.fallback = account.fallback
      /\ account'.previous = account.previous
      /\ account'.fallbackPublished = account.fallbackPublished
  BY <1>1, GeneratedFacts DEF generate_one_time_keys
<1>3. fresh' = fresh + n /\ fresh' <= MaxFresh /\ opened' = opened
  BY DEF generate_one_time_keys
<1>4. /\ drawn \subseteq OneTimeKey /\ IsFiniteSet(drawn)
      /\ \A k \in drawn : /\ account.nextKeyId <= k.id /\ k.id < account.nextKeyId + n
                          /\ fresh <= k.key /\ k.key < fresh + n
      /\ \A j, k \in drawn : (j.id = k.id \/ j.key = k.key) => j = k
  BY <1>1, DrawnFacts
<1>5. /\ account.private \subseteq OneTimeKey /\ account.nextKeyId \in Nat
      /\ account.fallback \in Nat \cup {NoKey} /\ account.previous \in Nat \cup {NoKey}
  BY <1>1 DEF AccountState
<1>6. pool \subseteq OneTimeKey /\ IsFiniteSet(pool)
  BY <1>4, <1>5, FS_Union DEF IInv
<1>7. \A j, k \in pool : (j.id = k.id \/ j.key = k.key) => j = k
  BY <1>1, <1>4, <1>5 DEF IInv, KeysDistinct, Older, OneTimeKey
<1>8. IsFiniteSet(account'.private)
  BY <1>2, <1>6, FS_Subset
<1>9. TypeOK'
  BY <1>1, <1>2, <1>3, BoundAssumption DEF IInv, TypeOK
<1>10. Older'
  <2>1. \A k \in pool : k.id < account.nextKeyId + n /\ k.key < fresh + n
    BY <1>1, <1>4, <1>5 DEF IInv, Older, OneTimeKey
  <2>2. \A o \in opened : o < fresh + n
    BY <1>1 DEF IInv, Older, TypeOK
  <2>3. /\ account.fallback # NoKey => account.fallback < fresh + n
        /\ account.previous # NoKey => account.previous < fresh + n
    BY <1>1, <1>5 DEF IInv, Older
  <2> HIDE DEF pool, drawn
  <2>4. QED
    BY <1>2, <1>3, <2>1, <2>2, <2>3 DEF Older
<1>11. PendingHasSecret'
  BY <1>2 DEF PendingHasSecret
<1>12. OneTime'
  <2>1. \A k \in pool : k.key \notin opened
    BY <1>1, <1>4, <1>5 DEF IInv, OneTime, Older, OneTimeKey
  <2>2. QED BY <1>2, <1>3, <2>1 DEF OneTime
<1>13. KeysDistinct'
  <2>1. \A k \in pool : k.key \notin {account.fallback, account.previous}
    BY <1>1, <1>4, <1>5, NoKeyAssumption DEF IInv, KeysDistinct, Older, OneTimeKey
  <2>2. QED BY <1>2, <1>7, <2>1 DEF IInv, KeysDistinct
<1>14. WithinLimit'
  BY <1>2, <1>6, <1>7, NewestWithinLimit DEF WithinLimit
<1>15. QED
  BY <1>8, <1>9, <1>10, <1>11, <1>12, <1>13, <1>14 DEF IInv

LEMMA MarkPublishedKeepsIInv ==
  ASSUME IInv, mark_published
  PROVE  IInv' /\ account'.private = account.private
<1>1. account \in AccountState
  BY DEF IInv, TypeOK
<1>2. /\ account' \in AccountState
      /\ account'.private = account.private /\ account'.unpublished = {}
      /\ account'.nextKeyId = account.nextKeyId
      /\ account'.fallback = account.fallback
      /\ account'.previous = account.previous
      /\ account'.fallbackPublished = (account.fallback # NoKey)
      /\ fresh' = fresh /\ opened' = opened
  BY <1>1, PublishedFacts DEF mark_published
<1>3. TypeOK'
  BY <1>2 DEF IInv, TypeOK
<1>4. QED
  BY <1>2, <1>3 DEF IInv, Older, PendingHasSecret, OneTime, KeysDistinct

LEMMA FallbackKeepsIInv ==
  ASSUME IInv, fallback_key
  PROVE  IInv' /\ account'.private = account.private
<1>1. account \in AccountState /\ fresh \in Nat /\ fresh < MaxFresh
  BY BoundAssumption DEF IInv, TypeOK, fallback_key
<1>2. /\ account' \in AccountState
      /\ account'.private = account.private
      /\ account'.unpublished = account.unpublished
      /\ account'.nextKeyId = account.nextKeyId
      /\ account'.fallback = fresh /\ account'.previous = account.fallback
      /\ account'.fallbackPublished = FALSE
      /\ fresh' = fresh + 1 /\ opened' = opened
  BY <1>1, RotatedFacts DEF fallback_key
<1>3. /\ account.private \subseteq OneTimeKey
      /\ account.fallback \in Nat \cup {NoKey}
      /\ opened \subseteq Nat
  BY <1>1, BoundAssumption DEF AccountState, IInv, TypeOK
<1>4. TypeOK'
  BY <1>1, <1>2, NoKeyAssumption, BoundAssumption DEF IInv, TypeOK
<1>5. Older'
  BY <1>1, <1>2, <1>3 DEF IInv, Older, OneTimeKey
<1>6. KeysDistinct'
  BY <1>1, <1>2, <1>3, NoKeyAssumption DEF IInv, Older, KeysDistinct, OneTimeKey
<1>7. QED
  BY <1>2, <1>4, <1>5, <1>6 DEF IInv, PendingHasSecret, OneTime

LEMMA InboundKeepsIInv ==
  ASSUME IInv, NEW m \in PreKeyMessage, create_inbound(m)
  PROVE  IInv' /\ account'.private \subseteq account.private
<1>1. account \in AccountState /\ m.key \in 0 .. MaxFresh
  BY DEF IInv, TypeOK, PreKeyMessage
<1>2. CASE Opens(account, m)
  <2>1. account' = Consumed(account, m.key) /\ opened' = opened \cup {m.key}
        /\ fresh' = fresh
    BY <1>2 DEF create_inbound
  <2>2. /\ account' \in AccountState
        /\ account'.private = {k \in account.private : k.key # m.key}
        /\ account'.unpublished = {k \in account.unpublished : k.key # m.key}
        /\ account'.nextKeyId = account.nextKeyId
        /\ account'.fallback = account.fallback
        /\ account'.previous = account.previous
        /\ account'.fallbackPublished = account.fallbackPublished
    BY <1>1, <2>1, ConsumedFacts
  <2>3. m.key < fresh
    BY <1>2 DEF Opens, Secrets, IInv, Older
  <2>4. IsFiniteSet(account'.private)
    BY <2>2, FS_Subset DEF IInv
  <2>5. TypeOK'
    BY <1>1, <2>1, <2>2 DEF IInv, TypeOK
  <2>6. QED
    BY <2>1, <2>2, <2>3, <2>4, <2>5
    DEF IInv, Older, PendingHasSecret, OneTime, KeysDistinct
<1>3. CASE ~Opens(account, m)
  <2>1. account' = account /\ opened' = opened /\ fresh' = fresh
    BY <1>3 DEF create_inbound
  <2>2. QED
    BY <2>1 DEF IInv, TypeOK, Older, PendingHasSecret, OneTime, KeysDistinct
<1>4. QED BY <1>2, <1>3

(* Every step keeps the invariant, and only a generation can add to the      *)
(* store.                                                                    *)
LEMMA NextIInv == IInv /\ WithinLimit /\ [Next]_vars => IInv' /\ WithinLimit'
<1> SUFFICES ASSUME IInv, WithinLimit, [Next]_vars
             PROVE  IInv' /\ WithinLimit'
  OBVIOUS
<1>1. ASSUME IInv', account'.private \subseteq account.private
      PROVE  WithinLimit'
  <2>1. Cardinality(account'.private) <= Cardinality(account.private)
    BY <1>1, FS_Subset DEF IInv
  <2>2. Cardinality(account'.private) \in Nat /\ Cardinality(account.private) \in Nat
    BY <1>1, FS_CardinalityType DEF IInv
  <2>3. QED BY <2>1, <2>2, LimitAssumption DEF WithinLimit
<1>2. ASSUME NEW n \in 0 .. MaxBatch, generate_one_time_keys(n)
      PROVE  IInv' /\ WithinLimit'
  BY <1>2, GenerateKeepsIInv
<1>3. CASE mark_published
  BY <1>1, <1>3, MarkPublishedKeepsIInv
<1>4. CASE fallback_key
  BY <1>1, <1>4, FallbackKeepsIInv
<1>5. ASSUME NEW m \in PreKeyMessage, create_inbound(m)
      PROVE  IInv' /\ WithinLimit'
  BY <1>1, <1>5, InboundKeepsIInv
<1>6. CASE UNCHANGED vars
  BY <1>6 DEF vars, IInv, TypeOK, Older, PendingHasSecret, OneTime, KeysDistinct,
              WithinLimit
<1>7. QED BY <1>2, <1>3, <1>4, <1>5, <1>6 DEF Next

-----------------------------------------------------------------------------
(* The account's invariants hold for every limit of the store, every number *)
(* of draws and every batch size: what is offered for upload has its secret *)
(* half (lib.rs:94), a used key is gone for good (lib.rs:191), lookups are   *)
(* unambiguous, and the store stays within its limit (lib.rs:91).            *)
THEOREM AccountInvariants == Spec => []IInv /\ []WithinLimit
<1>1. Init => WithinLimit
  BY FS_EmptySet, LimitAssumption DEF Init, account_new, NewAccount, WithinLimit
<1>2. QED BY <1>1, InitIInv, NextIInv, PTL DEF Spec

(* The state keeps its type.                                                 *)
THEOREM AccountTypeOK == Spec => []TypeOK
<1>1. IInv => TypeOK
  BY DEF IInv
<1>2. QED BY <1>1, AccountInvariants, PTL

(* A one-time key that opened a session (lib.rs:191) is never held again.    *)
THEOREM AccountOneTime == Spec => []OneTime
<1>1. IInv => OneTime
  BY DEF IInv
<1>2. QED BY <1>1, AccountInvariants, PTL

(* Every key offered for upload (lib.rs:94) has its secret half.             *)
THEOREM AccountPendingHasSecret == Spec => []PendingHasSecret
<1>1. IInv => PendingHasSecret
  BY DEF IInv
<1>2. QED BY <1>1, AccountInvariants, PTL

(* Ids and keys name each other uniquely, and no one-time key is a fallback  *)
(* key.                                                                      *)
THEOREM AccountKeysDistinct == Spec => []KeysDistinct
<1>1. IInv => KeysDistinct
  BY DEF IInv
<1>2. QED BY <1>1, AccountInvariants, PTL

(* The store never exceeds its limit, whatever batches lib.rs:91 asks for.   *)
THEOREM AccountWithinLimit == Spec => []WithinLimit
BY AccountInvariants, PTL

(* A fallback key (lib.rs:128) answers until the second rotation after it.   *)
THEOREM AccountFallbackOutlivesOneRotation == Spec => FallbackOutlivesOneRotation
<1>1. IInv /\ [Next]_vars =>
        [account.fallback # NoKey => account.fallback \in Secrets(account')]_vars
  <2> SUFFICES ASSUME IInv, Next, account.fallback # NoKey
               PROVE  account.fallback \in Secrets(account')
    OBVIOUS
  <2>1. account \in AccountState /\ fresh \in Nat
    BY DEF IInv, TypeOK
  <2>2. account'.fallback = account.fallback \/ account'.previous = account.fallback
    <3>1. ASSUME NEW n \in 0 .. MaxBatch, generate_one_time_keys(n)
          PROVE  account'.fallback = account.fallback
      <4>1. n \in Nat
        BY BoundAssumption
      <4>2. QED BY <2>1, <3>1, <4>1, GeneratedFacts DEF generate_one_time_keys
    <3>2. CASE mark_published
      BY <2>1, <3>2, PublishedFacts DEF mark_published
    <3>3. CASE fallback_key
      BY <2>1, <3>3, RotatedFacts DEF fallback_key
    <3>4. ASSUME NEW m \in PreKeyMessage, create_inbound(m)
          PROVE  account'.fallback = account.fallback
      BY <2>1, <3>4, ConsumedFacts DEF create_inbound
    <3>5. QED BY <3>1, <3>2, <3>3, <3>4 DEF Next
  <2>3. QED BY <2>2 DEF Secrets
<1>2. QED
  BY <1>1, AccountInvariants, PTL DEF Spec, FallbackOutlivesOneRotation

(* A one-time key leaves the store by opening a session (lib.rs:191), or for *)
(* as many younger keys as the store holds (lib.rs:91), whatever the limit,  *)
(* the batches and the messages that are refused in between.                 *)
THEOREM AccountLeavesForReason == Spec => LeavesForReason
<1> DEFINE Reason(k) ==
             \/ k.key \in opened' \ opened
             \/ Cardinality({j \in account'.private : j.id > k.id}) >= MaxOneTimeKeys
<1>1. IInv /\ [Next]_vars => [\A k \in account.private \ account'.private : Reason(k)]_vars
  <2> SUFFICES ASSUME IInv, Next, NEW k \in account.private, k \notin account'.private
               PROVE  Reason(k)
    OBVIOUS
  <2>1. account \in AccountState /\ fresh \in Nat
    BY DEF IInv, TypeOK
  <2>2. ASSUME NEW n \in 0 .. MaxBatch, generate_one_time_keys(n)
        PROVE  Reason(k)
    <3> DEFINE drawn == Drawn(account, n, fresh)
               pool == account.private \cup drawn
               next == account.nextKeyId + n
    <3>1. n \in Nat
      BY BoundAssumption
    <3>2. account'.private = Newest(pool)
      BY <2>1, <2>2, <3>1, GeneratedFacts DEF generate_one_time_keys
    <3>3. /\ account.private \subseteq OneTimeKey /\ account.nextKeyId \in Nat
          /\ drawn \subseteq OneTimeKey /\ IsFiniteSet(drawn)
          /\ \A j \in drawn : j.id < next
      BY <2>1, <3>1, DrawnFacts DEF AccountState
    <3>4. \A j \in account.private : j.id < next
      <4> TAKE j \in account.private
      <4>1. j.id \in Nat /\ j.id < account.nextKeyId
        BY <3>3 DEF IInv, Older, OneTimeKey
      <4> QED BY <3>1, <3>3, <4>1
    <3> HIDE DEF drawn
    <3>5. /\ pool \in SUBSET OneTimeKey /\ IsFiniteSet(pool) /\ next \in Nat
          /\ \A j \in pool : j.id < next
      <4>1. IsFiniteSet(pool)
        BY <3>3, FS_Union DEF IInv
      <4>2. next \in Nat
        BY <3>1, <3>3
      <4> HIDE DEF next
      <4>3. pool \in SUBSET OneTimeKey /\ \A j \in pool : j.id < next
        BY <3>3, <3>4
      <4> QED BY <4>1, <4>2, <4>3
    <3>6. k \in pool /\ k \notin Newest(pool)
      BY <3>2
    <3> HIDE DEF pool, next
    <3>7. Cardinality({j \in Newest(pool) : j.id > k.id}) >= MaxOneTimeKeys
      BY <3>5, <3>6, DroppedForYounger
    <3> QED BY <3>2, <3>7
  <2>3. CASE mark_published
    BY <2>1, <2>3, PublishedFacts DEF mark_published
  <2>4. CASE fallback_key
    BY <2>1, <2>4, RotatedFacts DEF fallback_key
  <2>5. ASSUME NEW m \in PreKeyMessage, create_inbound(m)
        PROVE  Reason(k)
    <3>1. Opens(account, m) /\ account' = Consumed(account, m.key)
      BY <2>5 DEF create_inbound
    <3>2. k.key = m.key
      BY <2>1, <3>1, ConsumedFacts
    <3>3. k.key \in opened' /\ k.key \notin opened
      BY <2>5, <3>1, <3>2 DEF create_inbound, IInv, OneTime
    <3> QED BY <3>3
  <2> QED BY <2>2, <2>3, <2>4, <2>5 DEF Next
<1>2. QED
  BY <1>1, AccountInvariants, PTL DEF Spec, LeavesForReason

-----------------------------------------------------------------------------
(* The refinement of AccountPromise.                                         *)

KeysOf(S) == {k.key : k \in S}

(* Ids and keys are counted apart, but tell the same age.                    *)
SameAge(S) == \A j, k \in S : j.id < k.id <=> j.key < k.key

Ordered == SameAge(account.private)

LEMMA PoolFacts ==
  ASSUME IInv, Ordered, NEW n \in Nat
  PROVE  LET pool == account.private \cup Drawn(account, n, fresh)
         IN  /\ pool \in SUBSET OneTimeKey /\ IsFiniteSet(pool)
             /\ SameAge(pool)
             /\ \A j, k \in pool : (j.id = k.id \/ j.key = k.key) => j = k
             /\ \A k \in pool : /\ k.id < account.nextKeyId + n
                                /\ k.key \notin {account.fallback, account.previous}
<1> DEFINE drawn == Drawn(account, n, fresh)
           pool == account.private \cup drawn
           next == account.nextKeyId
<1>1. account \in AccountState /\ fresh \in Nat
  BY BoundAssumption DEF IInv, TypeOK
<1>2. /\ account.private \subseteq OneTimeKey /\ next \in Nat
      /\ account.fallback \in Nat \cup {NoKey} /\ account.previous \in Nat \cup {NoKey}
  BY <1>1 DEF AccountState
<1>3. /\ drawn \subseteq OneTimeKey /\ IsFiniteSet(drawn)
      /\ \A k \in drawn : next <= k.id /\ k.id < next + n /\ fresh <= k.key /\ k.key < fresh + n
      /\ \A j, k \in drawn : (j.id = k.id \/ j.key = k.key) => j = k
  BY <1>1, DrawnFacts
<1>4. \A k \in account.private : k.id \in Nat /\ k.key \in Nat /\ k.id < next /\ k.key < fresh
  BY <1>2 DEF IInv, Older, OneTimeKey
<1>5. \A k \in drawn : k.id \in Nat /\ k.key \in Nat
  BY <1>3 DEF OneTimeKey
<1>6. SameAge(drawn)
  <2>1. \A k \in drawn : k.id - next = k.key - fresh
    BY <1>1, <1>2 DEF Drawn
  <2> HIDE DEF drawn, next
  <2>2. \A k \in drawn : k.id \in Nat /\ k.key \in Nat /\ k.id - next = k.key - fresh
    BY <1>5, <2>1
  <2> QED BY <1>1, <1>2, <2>2 DEF SameAge
<1> HIDE DEF drawn
<1>7. pool \in SUBSET OneTimeKey /\ IsFiniteSet(pool)
  BY <1>2, <1>3, FS_Union DEF IInv
<1> HIDE DEF next
<1>8. SameAge(pool)
  BY <1>1, <1>2, <1>3, <1>4, <1>5, <1>6 DEF SameAge, Ordered
<1>9. \A j, k \in pool : (j.id = k.id \/ j.key = k.key) => j = k
  BY <1>1, <1>2, <1>3, <1>4, <1>5 DEF IInv, KeysDistinct
<1>10. \A k \in pool : k.id < next + n
  BY <1>2, <1>3, <1>4, <1>5
<1>11. \A k \in pool : k.key \notin {account.fallback, account.previous}
  BY <1>1, <1>2, <1>3, <1>4, <1>5, NoKeyAssumption DEF IInv, KeysDistinct, Older
<1> QED BY <1>7, <1>8, <1>9, <1>10, <1>11 DEF next, drawn

LEMMA OrderedInit == Init => Ordered
BY DEF Init, account_new, NewAccount, Ordered, SameAge

LEMMA OrderedStep == IInv /\ Ordered /\ [Next]_vars => Ordered'
<1> SUFFICES ASSUME IInv, Ordered, [Next]_vars PROVE Ordered'
  OBVIOUS
<1>1. account \in AccountState /\ fresh \in Nat
  BY BoundAssumption DEF IInv, TypeOK
<1>2. ASSUME NEW n \in 0 .. MaxBatch, generate_one_time_keys(n)
      PROVE  Ordered'
  <2>1. n \in Nat
    BY BoundAssumption
  <2>2. account'.private \subseteq account.private \cup Drawn(account, n, fresh)
    BY <1>1, <1>2, <2>1, GeneratedFacts DEF generate_one_time_keys
  <2> QED BY <2>1, <2>2, PoolFacts DEF Ordered, SameAge
<1>3. CASE mark_published
  BY <1>1, <1>3, PublishedFacts DEF mark_published, Ordered
<1>4. CASE fallback_key
  BY <1>1, <1>4, RotatedFacts DEF fallback_key, Ordered
<1>5. ASSUME NEW m \in PreKeyMessage, create_inbound(m)
      PROVE  Ordered'
  <2>1. account'.private \subseteq account.private
    BY <1>1, <1>5, ConsumedFacts DEF create_inbound
  <2> QED BY <2>1 DEF Ordered, SameAge
<1>6. CASE UNCHANGED vars
  BY <1>6 DEF vars, Ordered
<1> QED BY <1>2, <1>3, <1>4, <1>5, <1>6 DEF Next

(* What Newest drops is older than all it keeps.                             *)
LEMMA DroppedOlder ==
  ASSUME NEW S \in SUBSET OneTimeKey, IsFiniteSet(S),
         \A j, k \in S : j.id = k.id => j = k,
         NEW k \in S, k \notin Newest(S), NEW j \in Newest(S)
  PROVE  k.id < j.id
<1>1. j \in S /\ j # k /\ j.id \in Nat /\ k.id \in Nat /\ j.id # k.id
  BY DEF Newest, OneTimeKey
<1>2. SUFFICES ASSUME j.id < k.id PROVE FALSE
  BY <1>1
<1> DEFINE above(e) == {i \in S : i.id > e.id}
<1>3. above(k) \in SUBSET above(j)
  BY <1>1, <1>2 DEF OneTimeKey
<1>4. IsFiniteSet(above(j)) /\ IsFiniteSet(above(k))
  <2>1. above(j) \in SUBSET S /\ above(k) \in SUBSET S
    OBVIOUS
  <2> QED BY <2>1, FS_Subset
<1>5. /\ Cardinality(above(k)) <= Cardinality(above(j))
      /\ Cardinality(above(k)) \in Nat /\ Cardinality(above(j)) \in Nat
  BY <1>3, <1>4, FS_Subset, FS_CardinalityType
<1>6. Cardinality(above(j)) < MaxOneTimeKeys /\ ~ (Cardinality(above(k)) < MaxOneTimeKeys)
  BY DEF Newest
<1> QED BY <1>5, <1>6, LimitAssumption

(* As many keys as entries.                                                  *)
LEMMA KeysCounted ==
  ASSUME NEW S, IsFiniteSet(S), \A j, k \in S : j.key = k.key => j = k
  PROVE  IsFiniteSet(KeysOf(S)) /\ Cardinality(KeysOf(S)) = Cardinality(S)
<1> DEFINE f == [k \in S |-> k.key]
<1>1. f \in Bijection(S, KeysOf(S))
  BY DEF Bijection, Injection, IsInjective, Surjection, KeysOf
<1>2. ExistsBijection(S, KeysOf(S))
  BY <1>1 DEF ExistsBijection
<1> QED BY <1>2, FS_Bijection

LEMMA SameCount == ASSUME NEW S PROVE Promise!Cardinality(S) = Cardinality(S)
BY Zenon DEF Cardinality, IsFiniteSet, Promise!Cardinality, Promise!IsFiniteSet

LEMMA GeneratePromise ==
  ASSUME IInv, WithinLimit', Ordered, NEW n \in 0 .. MaxBatch, generate_one_time_keys(n)
  PROVE  Promise!Generate
<1> DEFINE drawn == Drawn(account, n, fresh)
           pool == account.private \cup drawn
           kept == Newest(pool)
           new == fresh .. (fresh' - 1)
           live == KeysOf(account.private)
           displaced == (live \cup new) \ KeysOf(kept)
           next == account.nextKeyId + n
<1>1. account \in AccountState /\ fresh \in Nat /\ n \in Nat /\ fresh' = fresh + n /\ opened' = opened
  BY BoundAssumption DEF IInv, TypeOK, generate_one_time_keys
<1>2. /\ account'.private = kept
      /\ account'.unpublished = (account.unpublished \cup drawn) \cap kept
      /\ account'.fallback = account.fallback /\ account'.previous = account.previous
      /\ account'.fallbackPublished = account.fallbackPublished
  <2>1. account' = Generated(account, n, fresh)
    BY DEF generate_one_time_keys
  <2>2. account'.unpublished = (account.unpublished \cup drawn) \cap kept
    BY <1>1, <2>1 DEF Generated, AccountState
  <2> QED BY <1>1, <2>1, <2>2, GeneratedFacts
<1>3. /\ pool \in SUBSET OneTimeKey /\ IsFiniteSet(pool) /\ SameAge(pool)
      /\ \A j, k \in pool : (j.id = k.id \/ j.key = k.key) => j = k
      /\ \A k \in pool : k.id < next /\ k.key \notin {account.fallback, account.previous}
  BY <1>1, PoolFacts
<1>4. KeysOf(drawn) = new
  <2>1. ASSUME NEW x \in KeysOf(drawn) PROVE x \in new
    <3>1. PICK i \in 0 .. (n - 1) : x = fresh + i
      BY DEF KeysOf, Drawn
    <3> QED BY <1>1, <3>1
  <2>2. ASSUME NEW x \in new PROVE x \in KeysOf(drawn)
    <3>1. x - fresh \in 0 .. (n - 1) /\ fresh + (x - fresh) = x
      BY <1>1
    <3>2. [id |-> account.nextKeyId + (x - fresh), key |-> fresh + (x - fresh)] \in drawn
      BY <3>1 DEF Drawn
    <3> QED BY <3>1, <3>2 DEF KeysOf
  <2> QED BY <2>1, <2>2
<1>5. kept \subseteq pool /\ next \in Nat
  BY <1>1, NewestSubset DEF AccountState
<1> HIDE DEF drawn, kept, next
<1>6. live \cup new = KeysOf(pool)
  BY <1>4 DEF KeysOf
<1>7. displaced = KeysOf(pool \ kept)
  BY <1>3, <1>5, <1>6 DEF KeysOf
<1>8. KeysOf(kept) \subseteq live \cup new
  BY <1>5, <1>6 DEF KeysOf
<1>9. IsFiniteSet(kept) /\ Cardinality(kept) \in Nat /\ Cardinality(KeysOf(kept)) = Cardinality(kept)
  <2>1. IsFiniteSet(kept)
    BY <1>3, <1>5, FS_Subset
  <2> QED BY <1>3, <1>5, <2>1, KeysCounted, FS_CardinalityType
<1>10. Cardinality(kept) <= MaxOneTimeKeys
  BY <1>2 DEF WithinLimit
<1>11. ASSUME NEW x \in displaced
       PROVE  Cardinality(KeysOf(kept)) = MaxOneTimeKeys /\ \A y \in KeysOf(kept) : x < y
  <2>1. PICK k \in pool : k \notin kept /\ x = k.key
    BY <1>7 DEF KeysOf
  <2>2. Cardinality({j \in kept : j.id > k.id}) >= MaxOneTimeKeys
    BY <1>3, <1>5, <2>1, DroppedForYounger DEF kept
  <2>3. /\ Cardinality({j \in kept : j.id > k.id}) <= Cardinality(kept)
        /\ Cardinality({j \in kept : j.id > k.id}) \in Nat
    <3>1. {j \in kept : j.id > k.id} \in SUBSET kept
      OBVIOUS
    <3> QED BY <1>9, <3>1, FS_Subset, FS_CardinalityType
  <2>4. Cardinality(kept) = MaxOneTimeKeys
    BY <1>9, <1>10, <2>2, <2>3, LimitAssumption
  <2>5. \A j \in kept : k.id < j.id
    BY <1>3, <2>1, DroppedOlder DEF kept
  <2>6. \A j \in kept : k.key < j.key
    BY <1>3, <1>5, <2>1, <2>5 DEF SameAge
  <2> QED BY <1>9, <2>1, <2>4, <2>6 DEF KeysOf
<1> DEFINE waiting == KeysOf(account.unpublished)
           extra == UnpublishedFallback(account)
<1>12. KeysOf(account'.unpublished) = (waiting \cup new) \ displaced
  <2>1. account.unpublished \subseteq account.private
    BY DEF IInv, PendingHasSecret
  <2>2. KeysOf((account.unpublished \cup drawn) \cap kept) = KeysOf(account.unpublished \cup drawn) \ KeysOf(pool \ kept)
    BY <1>3, <1>5, <2>1 DEF KeysOf
  <2>3. KeysOf(account.unpublished \cup drawn) = waiting \cup new
    BY <1>4 DEF KeysOf
  <2> QED BY <1>2, <1>7, <2>2, <2>3
<1>13. UnpublishedFallback(account') = extra
  BY <1>2 DEF UnpublishedFallback
<1>14. extra \cap displaced = {}
  BY <1>3, <1>7 DEF UnpublishedFallback, KeysOf
<1>15. KeysOf(account'.unpublished) \cup UnpublishedFallback(account')
         = ((waiting \cup extra) \cup new) \ displaced
  BY <1>12, <1>13, <1>14
<1>16. fresh' >= fresh
  BY <1>1
<1>17. Promise!Cardinality(KeysOf(kept)) = Cardinality(KeysOf(kept))
  BY SameCount
<1>18. KeysOf(account'.private) = KeysOf(kept)
  BY <1>2
<1> HIDE DEF displaced, new, waiting, extra, live
<1> QED
  BY <1>1, <1>2, <1>8, <1>9, <1>10, <1>11, <1>15, <1>16, <1>17, <1>18
  DEF Promise!Generate, KeysOf, displaced, new, waiting, extra, live

LEMMA RotatePromise ==
  ASSUME IInv, fallback_key
  PROVE  Promise!Rotate
<1>1. account \in AccountState /\ fresh \in Nat
  BY BoundAssumption DEF IInv, TypeOK
<1>2. /\ account'.private = account.private /\ account'.unpublished = account.unpublished
      /\ account'.fallback = fresh /\ account'.previous = account.fallback
      /\ account'.fallbackPublished = FALSE
      /\ fresh' = fresh + 1 /\ opened' = opened
  BY <1>1, RotatedFacts DEF fallback_key
<1>3. UnpublishedFallback(account') = {fresh}
  BY <1>1, <1>2, NoKeyAssumption DEF UnpublishedFallback
<1>4. account.fallback \notin KeysOf(account.unpublished)
  BY DEF IInv, PendingHasSecret, KeysDistinct, KeysOf
<1>5. UnpublishedFallback(account) \subseteq {account.fallback}
  BY DEF UnpublishedFallback
<1>6. KeysOf(account.unpublished) \cup UnpublishedFallback(account')
        = ((KeysOf(account.unpublished) \cup UnpublishedFallback(account)) \ {account.fallback}) \cup {fresh}
  BY <1>3, <1>4, <1>5
<1> QED BY <1>2, <1>6 DEF Promise!Rotate, KeysOf

LEMMA OpenPromise ==
  ASSUME IInv, NEW m \in PreKeyMessage, create_inbound(m)
  PROVE  Promise!Next \/ UNCHANGED vars
<1>1. account \in AccountState
  BY DEF IInv, TypeOK
<1>2. CASE ~Opens(account, m)
  BY <1>2 DEF create_inbound, vars
<1>3. CASE Opens(account, m)
  <2>1. /\ account'.private = {k \in account.private : k.key # m.key}
        /\ account'.unpublished = {k \in account.unpublished : k.key # m.key}
        /\ account'.fallback = account.fallback /\ account'.previous = account.previous
        /\ account'.fallbackPublished = account.fallbackPublished
        /\ opened' = opened \cup {m.key} /\ fresh' = fresh
    BY <1>1, <1>3, ConsumedFacts DEF create_inbound
  <2>2. /\ KeysOf(account'.private) = KeysOf(account.private) \ {m.key}
        /\ KeysOf(account'.unpublished) = KeysOf(account.unpublished) \ {m.key}
    BY <2>1 DEF KeysOf
  <2>3. UnpublishedFallback(account') = UnpublishedFallback(account)
    BY <2>1 DEF UnpublishedFallback
  <2>4. CASE m.key \in KeysOf(account.private)
    <3>1. m.key \notin UnpublishedFallback(account)
      BY <2>4 DEF UnpublishedFallback, IInv, KeysDistinct, KeysOf
    <3>2. KeysOf(account'.unpublished) \cup UnpublishedFallback(account')
            = (KeysOf(account.unpublished) \cup UnpublishedFallback(account)) \ {m.key}
      BY <2>2, <2>3, <3>1
    <3>3. Promise!OpenOneTime(m.key)
      BY <2>1, <2>2, <2>4, <3>2 DEF Promise!OpenOneTime, KeysOf
    <3> QED BY <2>4, <3>3 DEF Promise!Next, KeysOf
  <2>5. CASE m.key \notin KeysOf(account.private)
    <3>1. m.key \in {account.fallback, account.previous} \ {NoKey}
      BY <1>3, <2>5 DEF Opens, Secrets, KeysOf
    <3>2. m.key \notin KeysOf(account.unpublished)
      BY <2>5 DEF IInv, PendingHasSecret, KeysOf
    <3>3. /\ KeysOf(account'.private) = KeysOf(account.private)
          /\ KeysOf(account'.unpublished) = KeysOf(account.unpublished)
      BY <2>2, <2>5, <3>2
    <3>4. Promise!OpenFallback(m.key)
      BY <2>1, <2>3, <3>1, <3>3 DEF Promise!OpenFallback, KeysOf
    <3> QED BY <3>1, <3>4 DEF Promise!Next
  <2> QED BY <2>4, <2>5
<1> QED BY <1>2, <1>3

(* Every call on an account (lib.rs:61-139, 173-206) is one of the abstract  *)
(* steps or changes nothing its owner sees: for any store limit and any      *)
(* calls the account keeps the promise of AccountPromise.                    *)
THEOREM AccountImplementsPromise == Spec => ImplementsPromise
<1>1. Init => Promise!Init
  BY DEF Init, account_new, NewAccount, Promise!Init, UnpublishedFallback
<1>2. IInv /\ WithinLimit' /\ Ordered /\ [Next]_vars => [Promise!Next]_(Promise!vars)
  <2> SUFFICES ASSUME IInv, WithinLimit', Ordered, [Next]_vars
               PROVE  Promise!Next \/ UNCHANGED Promise!vars
    OBVIOUS
  <2>1. ASSUME NEW n \in 0 .. MaxBatch, generate_one_time_keys(n)
        PROVE  Promise!Next
    BY <2>1, GeneratePromise DEF Promise!Next
  <2>2. CASE mark_published
    <3>1. account \in AccountState
      BY DEF IInv, TypeOK
    <3>2. /\ account'.private = account.private /\ account'.unpublished = {}
          /\ account'.fallback = account.fallback /\ account'.previous = account.previous
          /\ account'.fallbackPublished = (account.fallback # NoKey)
          /\ fresh' = fresh /\ opened' = opened
      BY <2>2, <3>1, PublishedFacts DEF mark_published
    <3>3. UnpublishedFallback(account') = {}
      BY <3>2 DEF UnpublishedFallback
    <3> QED BY <3>2, <3>3 DEF Promise!Next, Promise!Publish
  <2>3. CASE fallback_key
    BY <2>3, RotatePromise DEF Promise!Next
  <2>4. UNCHANGED vars => UNCHANGED Promise!vars
    BY DEF vars, Promise!vars, UnpublishedFallback
  <2>5. ASSUME NEW m \in PreKeyMessage, create_inbound(m)
        PROVE  Promise!Next \/ UNCHANGED Promise!vars
    BY <2>4, <2>5, OpenPromise
  <2> QED BY <2>1, <2>2, <2>3, <2>4, <2>5 DEF Next
<1>3. Spec => []Ordered
  BY OrderedInit, OrderedStep, AccountInvariants, PTL DEF Spec
<1> QED
  BY <1>1, <1>2, <1>3, AccountInvariants, PTL DEF Spec, ImplementsPromise, Promise!Spec

=============================================================================
