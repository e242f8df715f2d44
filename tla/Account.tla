------------------------------- MODULE Account -------------------------------
(***************************************************************************)
(* One live Olm account handle: the operations of src/rust/src/lib.rs      *)
(* (mxc_account_*, mxc_olm_create_inbound) over the key store of           *)
(* vodozemac's Account.  A Curve25519 key pair is the number of the draw   *)
(* that made it; its public half, its secret half and its identity are     *)
(* that one number.  Signing and the long-term identity keys change no     *)
(* state and are left out.                                                 *)
(***************************************************************************)
EXTENDS Naturals, FiniteSets

CONSTANTS
  MaxOneTimeKeys,   \* vodozemac's OneTimeKeys::MAX_ONE_TIME_KEYS
  MaxFresh,         \* bound: key pairs drawn in a behaviour
  MaxBatch,         \* bound: the largest n passed to generate
  NoKey             \* the fallback slot is None

ASSUME LimitAssumption == MaxOneTimeKeys \in Nat \ {0}
ASSUME BoundAssumption == MaxFresh \in Nat /\ MaxBatch \in Nat
ASSUME NoKeyAssumption == NoKey \notin Nat

VARIABLES
  account,   \* the boxed Account behind the external pointer
  fresh,     \* how many key pairs the random generator has produced
  opened     \* history: keys with which an inbound session was opened

vars == <<account, fresh, opened>>

(***************************************************************************)
(* The key store.  private and unpublished are maps from key id to key,    *)
(* kept as sets of pairs.                                                  *)
(***************************************************************************)
OneTimeKey == [id : Nat, key : Nat]

AccountState ==
  [private : SUBSET OneTimeKey, unpublished : SUBSET OneTimeKey,
   nextKeyId : Nat,
   fallback : Nat \cup {NoKey}, fallbackPublished : BOOLEAN,
   previous : Nat \cup {NoKey}]

NewAccount ==
  [private |-> {}, unpublished |-> {}, nextKeyId |-> 0,
   fallback |-> NoKey, fallbackPublished |-> FALSE, previous |-> NoKey]

(* The n keys drawn after the first f, under the account's next n ids.      *)
Drawn(a, n, f) == {[id |-> a.nextKeyId + i, key |-> f + i] : i \in 0 .. (n - 1)}

(* Inserting into a full store first discards the entry with the lowest id. *)
(* New ids are the highest, so the MaxOneTimeKeys newest entries stay.      *)
Newest(pool) ==
  {k \in pool : Cardinality({j \in pool : j.id > k.id}) < MaxOneTimeKeys}

GeneratedPendingStays(a, n, f) ==
  [a EXCEPT !.private = Newest(@ \cup Drawn(a, n, f)),
            !.unpublished = @ \cup Drawn(a, n, f),
            !.nextKeyId = @ + n]

Generated(a, n, f) ==
  LET kept == Newest(a.private \cup Drawn(a, n, f))
  IN  [a EXCEPT !.private = kept,
                !.unpublished = (a.unpublished \cup Drawn(a, n, f)) \cap kept,
                !.nextKeyId = a.nextKeyId + n]

(* mark_keys_as_published: whatever is pending, the fallback key included.  *)
Published(a) ==
  [a EXCEPT !.unpublished = {},
            !.fallbackPublished = (a.fallback # NoKey)]

(* generate_fallback_key: the current key moves to the previous slot        *)
(* (RotatedStillPublished: the flag of the key before stays;                 *)
(* RotatedForgetful: the key before it is not kept.)                         *)
RotatedStillPublished(a, key) ==
  [a EXCEPT !.previous = a.fallback, !.fallback = key]

RotatedForgetful(a, key) ==
  [a EXCEPT !.fallback = key, !.fallbackPublished = FALSE]

Rotated(a, key) ==
  [a EXCEPT !.previous = a.fallback, !.fallback = key,
            !.fallbackPublished = FALSE]

(* fallback_key(): the current fallback key while it is unpublished.        *)
UnpublishedFallback(a) ==
  {k \in {a.fallback} : k # NoKey /\ ~a.fallbackPublished}

(* remove_secret_key: from every map; fallback keys are not touched.        *)
ConsumedPendingOnly(a, key) ==
  [a EXCEPT !.unpublished = {k \in @ : k.key # key}]

Consumed(a, key) ==
  [a EXCEPT !.private = {k \in @ : k.key # key},
            !.unpublished = {k \in @ : k.key # key}]

(* find_one_time_key: the keys whose secret half the account can find.      *)
Secrets(a) ==
  {k.key : k \in a.private} \cup ({a.fallback, a.previous} \ {NoKey})

(***************************************************************************)
(* A pre-key message names the key it was built with.  Whether its sender  *)
(* is the one the caller expects and whether it decrypts under the shared  *)
(* secret are properties of the bytes received.                            *)
(***************************************************************************)
PreKeyMessage == [key : 0 .. MaxFresh, sameIdentity : BOOLEAN, decrypts : BOOLEAN]

Opens(a, m) == m.sameIdentity /\ m.key \in Secrets(a) /\ m.decrypts

(* The abstract view: keys alone, and the fallback key is one to upload like *)
(* any other.                                                                *)
Promise ==
  INSTANCE AccountPromise WITH
    Limit <- MaxOneTimeKeys, None <- NoKey,
    made <- fresh,
    live <- {k.key : k \in account.private},
    pending <- {k.key : k \in account.unpublished} \cup UnpublishedFallback(account),
    current <- account.fallback, previous <- account.previous,
    used <- opened

-----------------------------------------------------------------------------

account_new == account = NewAccount

Init ==
  /\ account_new
  /\ fresh = 0
  /\ opened = {}

generate_one_time_keys(n) ==
  /\ fresh + n <= MaxFresh
  /\ account' = Generated(account, n, fresh)
  /\ fresh' = fresh + n
  /\ UNCHANGED opened

(* The named list read for upload.                                          *)
one_time_keys == account.unpublished

mark_published ==
  /\ account' = Published(account)
  /\ UNCHANGED <<fresh, opened>>

(* Generates, then returns the key just generated.                          *)
fallback_key ==
  /\ fresh < MaxFresh
  /\ account' = Rotated(account, fresh)
  /\ fresh' = fresh + 1
  /\ UNCHANGED opened

(* Every check comes before the one mutation: a rejected message leaves the *)
(* account as it was.                                                       *)
create_inbound_consume_first(m) ==
  /\ account' = Consumed(account, m.key)
  /\ opened' = opened \cup {k \in {m.key} : Opens(account, m)}
  /\ UNCHANGED fresh

create_inbound(m) ==
  /\ account' = IF Opens(account, m) THEN Consumed(account, m.key) ELSE account
  /\ opened' = opened \cup {k \in {m.key} : Opens(account, m)}
  /\ UNCHANGED fresh

Next ==
  \/ \E n \in 0 .. MaxBatch : generate_one_time_keys(n)
  \/ mark_published
  \/ fallback_key
  \/ \E m \in PreKeyMessage : create_inbound(m)

Spec == Init /\ [][Next]_vars

-----------------------------------------------------------------------------

(* The store, the counter and the history have their types, and the         *)
(* published flag and the previous slot exist only with a current fallback  *)
(* key (mxc_account_fallback_key, mxc_account_mark_published).              *)
TypeOK ==
  /\ account \in AccountState
  /\ account.fallback = NoKey =>
        ~account.fallbackPublished /\ account.previous = NoKey
  /\ fresh \in 0 .. MaxFresh
  /\ opened \subseteq 0 .. MaxFresh

(* Every key mxc_account_one_time_keys offers for upload still has its      *)
(* secret half: neither eviction by a later batch (lib.rs:91) nor an        *)
(* inbound session (lib.rs:191) may leave a public key behind.              *)
PendingHasSecret == account.unpublished \subseteq account.private

(* A one-time key that has opened a session is never held again, so no      *)
(* later message, repeated or delayed, can open a second one with it.       *)
OneTime == \A k \in account.private : k.key \notin opened

(* One id names one key, one key has one id, and no one-time key doubles as *)
(* a fallback key: lookups by public key are unambiguous.                   *)
KeysDistinct ==
  /\ \A j, k \in account.private : (j.id = k.id \/ j.key = k.key) => j = k
  /\ \A k \in account.private : k.key \notin {account.fallback, account.previous}
  /\ account.fallback # NoKey => account.fallback # account.previous

(* The store never holds more than its limit.                               *)
WithinLimit == Cardinality(account.private) <= MaxOneTimeKeys

(* A one-time key leaves the store only by opening a session, or because    *)
(* the store is full of younger keys: a rejected pre-key message uses       *)
(* nothing up, and a batch never discards a key younger than one it keeps.  *)
LeavesForReason ==
  [][\A k \in account.private \ account'.private :
        \/ k.key \in opened' \ opened
        \/ Cardinality({j \in account'.private : j.id > k.id}) >= MaxOneTimeKeys]_vars

(* A fallback key answers any number of pre-key messages and outlives the   *)
(* next rotation: it is gone only at the second rotation after it was made. *)
FallbackOutlivesOneRotation ==
  [][(account.fallback # NoKey) =>
        account.fallback \in Secrets(account')]_vars

(* Seen through its methods the account is what AccountPromise says: ids     *)
(* that are counted apart from keys, two maps and a flag come to an order of *)
(* keys by age, those that are live and those that wait for upload, a new    *)
(* fallback key always among them.                                           *)
ImplementsPromise == Promise!Spec

=============================================================================
