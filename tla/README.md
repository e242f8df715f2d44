# Verification of mx.crypto

TLA+ modules, TLC configurations and TLAPS proofs for the R package mx.crypto:
Matrix end-to-end encryption for R, a thin R layer over a Rust crate (`src/src/rust/src`)
that wraps vodozemac, and roxido (`src/src/rust/roxido`, `roxido_macro`), the
package's own bridge between R and Rust. Paths below are relative to the
repository, which is checked out under `src/`; line numbers are those of the commit
beside this directory, and `PROJECT.json` maps every definition to its lines.

## 1. The system

### Components, their state and their operations

| Component | State | Operations | What is hard |
|---|---|---|---|
| Olm account (`src/rust/src/lib.rs` 58-157, `R/account.R`) | a box behind an external pointer: key store, pending batch, key-id counter, current and previous fallback key | new, generate one-time keys, list, mark published, fallback key, pickle, unpickle; consumption by an inbound session | eviction in the middle of a batch, marking what was not uploaded, rotation twice before an upload, restored counters |
| Olm session (161-248, `R/olm.R`) | double ratchet, receiver chains, skipped keys | create outbound and inbound, encrypt, decrypt, pickle, unpickle | late, repeated, foreign messages; limits of the stores; a ratchet restored from an older pickle |
| Megolm outbound session (252-298, `R/megolm.R`) | ratchet and its index | new, info, encrypt, pickle, unpickle | an index used twice after a restart from an old pickle, which the package does not tell clients to avoid; u32 read as R's signed integer |
| Megolm inbound session (302-367) | initial and latest ratchet | new, import, info, export, decrypt, pickle, unpickle | decryption in any order moves the latest ratchet, also for refused messages |
| SAS handle (`sas.rs`, `R/sas.R`) | ephemeral secret until taken, then the established secret | new, public, establish, bytes, mac, verify_mac, commitment | one use of the ephemeral secret on every path; tags reflected or delivered to another verification; handles saved with a workspace |
| Verification helpers (`R/verify.R`, lib.rs 371-386) | none; the caller keeps the verified keys | verify device keys, verify one-time key | responses mixing fields of several devices, users and times |
| Cross-signing (`R/cross-signing.R`) | the account's Ed25519 key, constant | five pass-through wrappers | - |
| External pointers (`roxido/src/lib.rs` 2192-2391) | address, tag, finalizers of a handle; the box | encode, reencode, decode by value and by reference, free, address, set_address, register_finalizer | order of finalizers, revived handles, unserialized handles |
| Call wrapper and `Pc` (`roxido_macro` 457-494, `roxido` 356-402, 873-964, 2070-2124, 2637-2732) | R's protect stack, the counter beside it, a second counter while a closure fills a list | protect, drop, fill lists, call R, `stop!`, catch, `Rf_error` | a collection at every allocation, two counters popping one stack, three ways out of a frame |
| Argument conversions (`roxido` 607-634, 982-1124, `roxido_macro` 118-398, the R wrappers) | none | `as.integer`, scalar check, `i32`, `usize`, `u8`, `bool`, `f64`, `str` | NA, rounding, saturation |
| R containers (`roxido` 91-205, 541-818, 1207-2190) | the R object and the typed views of it; the counter of an `RListMap` | casts and casts back, get and set, coerce, names, dim, dimnames, class and other attributes, transpose, lookup by name, `make_map`, `exhaustive` | views are bare casts; subscripts that become one number; R's own errors jump over Rust frames |
| Build (`tools/configure.R`, `src/Makevars.in`, `src/rust/build.rs`, `roxido_macro` 429-453, `cleanup`) | `roxido.txt`, `registration.rs`, cargo's memory of `R_CARGO_RUN_COUNTER`, the library, the vendored crates | configure, two cargo runs, copy, tidy, clean, cleanup | stopping, failing and editing between the two runs |
| Process shims (`shims.c`, `r_init_shim.c`) | none | abort and exit as R errors | - |

The parts meet in few places. Every exported function passes the R wrapper, the
roxido wrapper and an external pointer before it reaches a session or account.
An inbound Olm session consumes a key of the account. A Megolm session key
travels in Olm messages, a SAS tag authenticates keys that the verification
helpers then trust. Nothing is persistent by itself: a pickle is a string, and the client
decides when to write it. The package is single-threaded; what interleaves is R's
collector and finalizers with a call, processes with their crashes, and peers
and the homeserver with all of it.

### What makes each component correct

* Account: what is offered for upload can be answered for; a one-time key opens
  one session and leaves the store only by use or eviction; no step makes the
  current fallback key unusable.
* Account on a device: one-time keys the homeserver hands out survive crashes, a fallback
  key survives a rotation, ids are not reused, nothing is marked published unseen, and publication ends.
* Olm session: no message key protects two plaintexts or is read twice, the two
  ends stay on one line of ratchets, and only the limits give a message up.
* Megolm: as long as the sender is not taken back behind what left it, an index identifies
  a message and a shared key reads everything after it, whatever the receivers did in between;
  saving before sending is enough for it. A copy of a session reads what the original key reads,
  no more and no less.
* SAS: an ephemeral key enters one exchange; an accepted tag is the peer's or,
  reflected, one's own.
* Verification: the keys a session is opened with were signed by one device, as
  the user and device that was asked for.
* External pointers: no stale or twice freed box, and no leak.
* Wrapper: the protect stack is balanced, nothing used was collected, a panic
  leaves nothing behind `Rf_error`, numbers arrive unaltered.
* Containers: a view is of an object that R's accessors for it take, subscripts go to
  the cell they name, and a method that checks refuses what R would refuse with a long jump.
* Build: a library registers its own functions, from the vendored crates.

## 2. Modules

Each component module declares CONSTANTS with named assumptions, its VARIABLES,
one action per operation and `Spec`; its `MC` module and `.cfg` give TLC an
instance; its `Proofs` module holds the theorems. Operators with a longer name of
a mapped one (`GeneratedPendingStays`, `free_uncleared`) are plausible faulty
versions of it. They are not part of any specification: with each in place of the
original, TLC finds the named property violated, so the property is one the code could break.

**Account** - one account handle. `account` is the record vodozemac keeps (`private`,
`unpublished`, `nextKeyId`, `fallback`, `previous`, `fallbackPublished`); key
pairs are numbers drawn from `fresh`. Actions carry the names of the Rust
functions. `create_inbound` covers all answers: wrong identity key, unknown key,
ciphertext that does not decrypt, success. **AccountPromise** is the abstract specification: keys in the order they
were made, those that are live, those that wait for upload, the current and the previous fallback key. No ids, no maps, no
flag; `ImplementsPromise` relates the two.

**Device** - composes `Account` (INSTANCE) with the disk, the homeserver and
peers. The publishing routine is the one of `R/account.R` and
`inst/integration/e2e_demo.R`: generate or rotate, pickle, upload, mark, pickle;
`pc` says where it stands. The process may die between any two steps, an
upload's answer may be lost, messages are delivered late, repeatedly or never. The
documentation says to pickle after every change (`R/account.R` 112-115,
`R/olm.R` 72) and leaves open whether account or session is written first after
an inbound session. `accountFirst` is that choice, made once. `disk` is the account's pickle and nothing else. The public
half of a fallback key is what `mxc_account_fallback_key` returned (`returned`), and it dies with the process: no
other function returns it, and no page asks the client to write it down. A restarted client publishes the one-time keys
still pending; for a fallback key it can only rotate again. `lost` is history: how many rotations
are in the pickle, since the key the homeserver has, whose public half died that way.

**Olm** - both ends of a session. A chain is the sequence of ratchet keys that led
to it, so equal keys and equal histories are the same thing. `session_pickle`
writes the session and lets drafts leave: saving before sending is the
documented discipline (`R/olm.R` 72). `session_unpickle` is a crash followed by a
restore. `decrypt` has the refused message that still activates a ratchet. **OlmPromise** is the abstract
specification: what was sent, what each end has read, what it had read when it last pickled; no ratchets, no chains. An end
reads what the other sent, each message once; its messages leave with a pickle, each under a key of its own and answering only what
that pickle has read; an end that dies goes back to it. `ImplementsPromise` relates the two.

**MegolmKeys** - what both ends of a Megolm session share: the session keys that went out,
and the index as R reads it (`as i32`, with NA at 2^31).

**MegolmOutbound** - one sender: ratchet index, pickle, drafts, messages sent. The package says when to pickle an inbound
session or an account, and nothing of the kind of an outbound one (`R/megolm.R` 42-53); the demo pickles none. So both
clients are in: `saveFirst`, chosen once, is whether the ratchet is saved before a session key or a message leaves; one that
does not save first may send, save and die in any order. `rewound` is history: whether a restart took the ratchet back behind a message or key that had
left. The properties are for `Forward`: clients that save first, and of the others those that were not taken back.

**MegolmInbound** - handles of any number of receivers; exported keys and pickles go
from one to another, and `origin` is history, the session key a copy descends from. Decryption is translated with the choice between initial and
latest ratchet and modular index arithmetic. **MegolmPromise** is the abstract
specification: a session is a first known index, and reads a message exactly when
its index is not below. The two are related by `ImplementsPromise`. **Room** composes sender and receivers: both
extend `MegolmKeys`, a step is one of the sender's or of a receiver's, sharing a key is a joint step, and
receivers are handed only what the sender sent (late, repeatedly, in any order or never).

**Sas** - handles of several processes that are given any key, of peers, of
strangers, of low order or malformed, and any tag, with restarts in between.

**ExternalPtr** - handles, boxes, R-level and C finalizers, serialization.

**Verify** - a homeserver that answers with any mixture of signed objects, the two
helpers, and the session opened with what they returned.

**Arguments** - pure operators: the wrapper's coercion, the attribute's check,
RScalar's reading as each plain type the attribute knows. **RoxidoCall** extends it with the
call itself: argument, body, protect stack, collections, return, panic, R's own errors. `pc` is the
call's `Pc` and the objects Rust refers to through it. A body makes objects, puts them in lists (`set`,
`set_unchecked` for strings that are not protected), fills lists by closures with a `Pc` of their own
(`set_with_pc`, `MakeInClosure`, `FillAndDrop`, `FillAndLoop`), and calls R functions (`eval`, with a value or
an error). The collector keeps what is protected and all inside it, and of the rest what it likes.

**Views** - pure operators: which views an R object has (`as_vector`, `is_matrix`, `enumerate`, ...)
and which checks the attribute generates for each type of parameter it compiles. **Containers** extends it
with a body at work: `views` are the views it holds, each derived from the one before, `object` what they look
at. Using a view ends those derived from it, as the borrow checker enforces. Any view can be taken for an object again (`as_robject`) and have
attributes set, which R checks and roxido does not (`set_attribute`, with what R makes of it in `Attributed`). An R object is its mode, cells, dim, names,
whether it has dimnames, and class. An operation answers "ok", "err" (roxido refuses) or "rerror" (R does, by a long jump, and the body is over).

**Build** - files and flags of a source tree through configure, make, edits,
failures and interruptions. Sources are sets of lines (function and number of
arguments). cargo is modelled from what the repository asks of it:
`rerun-if-env-changed` and recompilation of what changed.

## 3. Runs

| Run | What it asks | Instance |
|---|---|---|
| account | `PendingHasSecret`, `OneTime`, `LeavesForReason`, `ImplementsPromise` | store of 2, batches to 3, 6 draws: a batch can overrun the store while keys are pending, published or used |
| device | safety through crashes (`NoOrphanedKey`, `FallbackReachable`, `IdsNeverReused`, `PublishedWasUploaded`), what each order of pickles guarantees (`OneDurableSession`, `NoSessionLost`), and `PendingGetsPublished`, `MessageGetsSession` | store of 2, 3 draws, 2 messages, 2 crashes (so that two rotations can be lost), both orders |
| olm | `MessageKeyOnce`, `ReadOnce`, `OneConversation`, `UnreadStaysReadable`, `NormalMeansEstablished`, `ImplementsPromise` | 5 messages, 5 ratchet keys; 1 receiver chain, 2 skipped keys, gap of 2 instead of 5, 40, 2000, so that each limit is passed |
| room | `SharedKeyReads` (sender and receivers together), `IndexIdentifiesMessage`, `KeyCoversLaterMessages` (sender, both kinds of client), `SessionStartsAtSharedKey`, `ImplementsPromise` (receivers) | 2 receivers, 2 plaintexts (one whose draft died with its process may be encrypted again), indices 0 to 3, index modulo 4: two positive, one NA, one negative in R; 2 shared keys |
| sas | `EphemeralUsedOnce`, `AcceptedTagFromPeer` | 2 processes, 3 handles, 3 key pairs, 3 tags; handles of one process, keys and texts symmetric (no liveness, so symmetry is sound) |
| external_ptr | `BorrowsAreLive`, `GivenBackOnce`, `DroppedGetsFreed` | 2 handles, 3 boxes: a handle can be emptied and filled again |
| verify | `SessionKeysVouched` | 2 users, 3 devices, an object in two versions, keys of low order and malformed, each field replaced or missing |
| roxido_call | `StackBalanced`, `NothingDangles`, `PanicAbandonsNothing`, `NumberSurvives` | 4 objects, all of which may be protected: enough for a list, what a closure makes for it, and a call's expression and value; symmetric objects (no liveness); 2-bit bytes, 4-bit integers, doubles exact to 8, 5-bit usize, every argument mode |
| containers | `ViewFits`, `AddressExact`, `TransposeExact`, `ChecksComeFirst`, `ExhaustiveExact` | vectors of every mode, matrices and arrays with unequal, single and empty extents, lists with distinct, repeated and no names, matrices and arrays of a list, a factor, a data frame, what is no vector; 2 views at a time, 1 cell written; attributes set one at a time (`MaxAttributes`), extents to make an array of a matrix and a matrix of the rest (`Dims`) |
| build | `RegistrationExact`, `VendoredOnly` | four sources: a function gains an argument, goes, or does not compile |
| verify_malformed, verify_low_order | the two findings below | as verify |

The type invariants (`TypeOK`, in Olm with the limits of the stores) are proved (section 4) and in no run; TLC has checked
them on the same instances. Build has none beyond its records.
Deadlock is off in device (the client may be done), external_ptr (everything may be collected) and containers (a call
that was refused is over). The bounds are named constants:
`MaxFresh`, `MaxMessages`, `MaxKeys`, `MaxCrashes`, `MaxBatch`, `MaxIndex`, `MaxTags`,
`MaxViews`, `MaxWritten`, `MaxAttributes`, `MaxRank`, `Indices`, `Extents`, `Dims`, `ProtectLimit`, `MaxLocals`. Where a property speaks of a limit the instance lies on
both sides of it. Where a property is proved too, the bound does not matter.

What the runs say beyond "passes":

* `OneDurableSession` holds only with the account pickled first, `NoSessionLost`
  only with the session first: a client must choose between a pre-key message
  readable twice after a crash and one readable never. The documentation does not
  mention the choice.
* `RegistrationExact` excludes changes between the two cargo runs of a build that
  was stopped halfway (`suspect`). cargo sees the counter at 1 again and does not run
  `build.rs`, which would empty `roxido.txt`; the lines of both versions are
  registered then.
* `VendoredOnly` holds because make removes `vendor` and leaves `.cargo`: a
  second make without configure fails instead of fetching crates.
* `NumberSurvives` rests on the wrappers' `as.integer`. RScalar's own
  reading lets doubles through that become NA or saturate
  (`roxido/src/lib.rs` 997, 1034); the mutant that passes arguments bare shows it.
* A message of another session tried on an inbound session that has not answered
  yet is refused and still draws a ratchet key (`Olm!Mutates`; see the disagreements below). `UnreadStaysReadable`
  and `OneConversation` show that it does no harm.
* `FallbackReachable` is what two slots for fallback keys can give. A process that dies between pickling a rotation and
  uploading it leaves a key the pickle can answer for and nobody can publish, in the current slot; the key the homeserver hands out is in the
  previous one. The client's next rotation, the only way to a key it can publish, displaces that one: until the new key
  is uploaded, pre-key messages on the old one cannot be opened. The property excludes that (one lost
  rotation and one waiting for upload) and two lost rotations, and holds through everything else.
* `MessageGetsSession` is about the message itself: its session is on disk, or its key was evicted, or the homeserver handed the
  key out a second time after a repeated upload and the other message was read.
* Nothing in the package asks for a pickle before a Megolm key or message leaves. `IndexIdentifiesMessage` and `KeyCoversLaterMessages` show
  that saving first is enough, and that without it nothing but a restart from a pickle behind what left
  breaks them. Such a restart does: the restored session encrypts another message under an index already used. Only `R/megolm.R` 125, the advice to
  use the index against replays, depends on it.
* `SharedKeyReads` needs the sender not to go back behind a key, and the receivers'
  latest ratchet to start again from the initial one. Each alone keeps its own promise; the property is of both.
* `StackBalanced` and `NothingDangles` hold because a closure's `Pc` lies above the call's on the stack. The type of `set_with_pc`
  does not force it: a closure may protect with the `Pc` it captures, and then the drop of the local one pops
  the wrong entry (`MakeInClosureAnyPc`, with which TLC finds a collected object in use). The bodies are taken not to.
* `set_loop_with_pc` makes its `Pc` before the loop and drops it after, so all elements are protected at once. Its comment
  (`roxido/src/lib.rs` 2104-2107) says it avoids overflowing R's protect stack, which only `set_with_pc` does.
* `AddressExact` is about subscripts in range. Only the cell number is checked (`roxido/src/lib.rs` 1752, 1884): a row number too
  large answers from the next column, and an array with more or fewer subscripts than extents ignores or omits some.
* `ChecksComeFirst` lists the calls that end in an R error, which skips Rust destructors. Four leave the look to R: `get_dimnames`, whose result
  is called an `RVector<char>` and is a list (1840, 1962); `set_attribute` and `set_class`; `to_f64` and the like on a list with
  extents, which R may refuse; and setting a string with a NUL in it. The others are about extents: an
  array whose extents were dropped (`to_vector_mut`) or removed, and a matrix with fewer or more than two by now, on `set_dimnames` and `transpose`;
  and a list with more dimnames than the matrix has extents. Everything else is refused by roxido first.
* `ViewFits` says nothing of extents: `to_vector_mut` drops them under an array, and a body can set other ones under a matrix.
* With repeated names `get_by_key` answers with the first element and `make_map` with the last, and `exhaustive` never passes. For a list with
  names `ExhaustiveExact` says that it never lets an unread element through, and passes with distinct names once all were read. A list without
  names it lets through at once, against its comment (see below).

### Findings

* `verify_malformed`: `mxc_verify_device_keys` documents an error for malformed base64
  (`R/verify.R` 57-61) and returns a signed, malformed Curve25519 key as verified.
* `verify_low_order`: a verified one-time key is documented as ready for session
  creation (`R/verify.R` 221-222, 259-261); one of low order is accepted and
  `mxc_olm_create_outbound` refuses it. Both fail closed at session creation.

Two more places where the text says something else than the code, shown by runs and theorems about the code itself:

* `RListMap::exhaustive` is documented to "check if every element in the R list has been used" (roxido 2017). Its counter counts
  names (2148-2166), so a list without names passes with no element used. `ExhaustiveExact` states it, the run containers has such a list,
  and `ContainersExhaustiveExact` proves it for every list.
* `vignettes/security-audit.md` 41-43 and 357-358 say that ciphertext that is refused mutates no state in part. One under a ratchet key the session
  does not know activates an inactive sending ratchet all the same, before it is found not to decrypt (lib.rs 229, the second
  disjunct of `Olm!decrypt`), and the activation stays. The run olm takes that step, and its properties show that it does the conversation no harm.
  For Megolm the latest ratchet moves in the same way (`MegolmInbound!decrypt`), which `ImplementsPromise` shows to be invisible.

### Fairness

* `Device!Fairness`: weak fairness of each client step (save, upload with an answer,
  mark, restart, receive and save per message). The client is a script that runs to
  its end and is started again when it dies; an upload is repeated until it is
  answered. Crashes, generation, rotation and the peers get none. Crashes are bounded by
  `MaxCrashes`: a process that always dies publishes nothing. Receiving is fair per message
  because a client goes through its inbox.
* `ExternalPtr!Fairness`: weak fairness of `free` and `RunHook`: R runs the finalizers of what
  it has found unreachable. Nothing else is assumed of the collector.

All other specifications are safety only.

## 4. Proofs

All theorems are for every value of the constants, under the named assumptions of
the modules. Each proof has the same shape: `Init => IInv`, one lemma per action or group of
actions for `IInv /\ [Next]_vars => IInv'`, and `IInv` implies the property.

* **AccountProofs** - `AccountTypeOK`, `AccountOneTime`, `AccountPendingHasSecret`,
  `AccountKeysDistinct`, `AccountWithinLimit`, `AccountLeavesForReason`, `AccountFallbackOutlivesOneRotation`, and
  `AccountImplementsPromise`, the refinement of AccountPromise. The invariant adds that ids and
  keys in use are older than the counters they come from (`Older`) and that the
  store is finite: without the first a new key could collide with an old or used
  one, without the second "the newest N" has no size. `NewestWithinLimit` is the
  lemma on the cardinality of what eviction leaves, `DroppedForYounger` its converse: of the dropped entries one has the highest id,
  everything above it stays, and that is already a full store. For the refinement ids and draws, which are counted apart, must
  tell the same age (`Ordered`); then what is dropped by id is what is oldest (`DroppedOlder`), and a draw is as good as an id.
  Assumes a positive limit.
* **MegolmProofs** - sender: `MegolmIndexIdentifiesMessage`, `MegolmKeyCoversLaterMessages`. As long as the ratchet was not taken back,
  it is ahead of all drafts and messages and not behind a shared key; with `saveFirst` so is the pickle, and no
  restart can take it back. Assumes that the u32 index does not wrap
  (`IndexBoundAssumption`); the cast to R's integer is proved injective. Receivers: `MegolmSessionStartsAtSharedKey`, and
  `MegolmImplementsPromise`, the refinement. Every travelling copy is the shared key it descends from, `latest` never lies before
  `initial`; `AdvanceArrives` shows that the modular distance is the plain one while the index does not wrap.
  Both: every step of `Room` is a step or a stutter of the sender and of the receivers, so `Room!Spec` implies both
  specifications and inherits their theorems (`RoomIndexIdentifiesMessage`, `RoomImplementsPromise`); `RoomSharedKeyReads` joins
  "a shared key is not beyond the message" with "read exactly when not beyond".
* **SasProofs** - `SasEphemeralUsedOnce`, `SasAcceptedTagFromPeer`, `SasSecretIsFinal`. One handle
  per key pair (`DrawnOnce`), and every secret was computed by its owner
  (`SecretsComputed`); Diffie-Hellman is the unordered pair of its keys.
* **OlmProofs** - `OlmTypeOK`, `OlmMessageKeyOnce`, `OlmReadOnce`, `OlmOneConversation`, `OlmNormalMeansEstablished`,
  `OlmUnreadStaysReadable`, and `OlmImplementsPromise`, the refinement of OlmPromise, for any limits of the stores and any number of messages, ratchet keys, losses, crashes and refused messages. The
  invariant is about each end, its session, its pickle and its drafts (`PartyInv`). Ratchet keys of a root are drawn in turns and
  in order (`Root`, `Line`), and what a session has of its peer came with a message that was sent (`CameFrom`). Its
  receiver chains are the peer's last turns without a gap (`Chains`). A message key that was read with is gone from its chain (`Spent`), one
  behind a chain that was not is kept or too old (`Kept`). Session and pickle are ahead of everything sent, the session of its drafts as
  well (`Ahead`): that is what saving before sending buys, and why an end that goes on from a pickle uses no key
  twice. Since both ends are ahead of all messages, any two roots lie on one line (`RootsOnLine`), which gives `OneConversation`; for
  `UnreadStaysReadable` a missing chain is shown to be followed by `MaxChains` newer ones (`LastTurns`, `Displaced`) and a
  missing key to be `MaxSkipped` behind (`KnownReadable`). For the refinement a draft answers what its session has
  read (`DraftsAnswer`): the chain a session heard of last is one it read from (`HeardIsRead`), and one that has a receiver chain has
  read from it (`Kept`). With `OlmReadOnce` a step that decrypts is one that reads something new. Assumes positive limits, two parties, and that `NoSession` and `Stray` are nothing else.
* **VerifyProofs** - `VerifySessionKeysVouched`. What is held between the calls was
  vouched for by one statement, the one-time key by the keys it will be used with.
* **RoxidoProofs** - the roxido layer.
  RoxidoCall: `RoxidoTypeOK`, `RoxidoStackBalanced`, `RoxidoNothingDangles`, `RoxidoPanicAbandonsNothing`, for any
  number of objects, protections and closures. The invariant (`Protection`) is the discipline of the two counters: the stack is the
  caller's entry, what `pc` counts, what the closure's `Pc` counts, in this order, and each reference of a `Pc` lies
  below the top of its own part. So popping by count removes no entry another `Pc` relies on. `StackAlive` and `HeapClosed` say
  what a collection leaves, `AllocatedKeeps`, `PlacedKeeps` and `UnwoundKeeps` are the lemmas on allocation, filling and the ways out.
  `RoxidoNumberSurvives`: what is read passed the check and is what the wrapper passed on (`Looked`), and the lemmas `CoercedSurvives`,
  `ByteSurvives` and `TruthSurvives` are about coercion, check and reading of any value. Assumes widths in R's
  and Rust's order, doubles at most 2048 apart (`WidthAssumption`; 64-bit integers over 53-bit doubles), and values R has (`IsRValue`).
  ExternalPtr: `ExternalPtrBorrowsAreLive`, `ExternalPtrGivenBackOnce`, `ExternalPtrTypeOK`. A box not yet
  allocated has no history, and no two handles share one (`SoleOwner`).
  Build: `BuildRegistrationExact`, `BuildVendoredOnly`, for any sources and any sequence of edits, builds, failures and
  interruptions. `BuildInv` says at each step of make what `roxido.txt` and the registration hold, and what of it cargo's memory of the
  counter still matches; `VendorInv` that the library was compiled with the vendored crates in place.
* **DeviceProofs** - `DeviceNoOrphanedKey`, `DeviceFallbackReachable`, `DeviceIdsNeverReused`,
  `DevicePublishedWasUploaded`, `DeviceOneDurableSession`, `DeviceNoSessionLost`, `DeviceTypeOK`, for any store limit and
  any number of keys, messages and crashes. There are two copies of the account and one predicate (`Store`) for both: a
  copy's keys are older than the counters, none shares an id with another uploaded key, and its fallback keys
  open no one-time message. Memory is ahead of the disk by what was drawn since the last pickle (`Ahead`: hence what
  is uploaded is on disk) and by one rotation at most (`MemoryFallback`). For the fallback keys the invariant counts lost
  rotations: with none, the homeserver's key is one of the pickle's two, and with one it is the older. The lemma `DroppedIsGone` counts the ids above a
  key that eviction drops, so that "displaced" can be read off the counter. A restart makes the copies one, which
  is all that recovery needs. The facts on batches come from AccountProofs by INSTANCE.
* **ContainersProofs** - `ContainersTypeOK`, `ContainersViewFits`, `ContainersAddressExact`, `ContainersTransposeExact`,
  `ContainersChecksComeFirst`, `ContainersExhaustiveExact`, for objects of any extents and rank, chains of views and
  lists. `Fits` is what a view's type promises of the object, its mode, its one cell, its list; every operation, attributes included, is shown to
  keep it for the views that stay in use (`LikeFits`, `ShapeFits`, `EnumeratedFits`). For
  addresses, `MixedRadix` is the fact about numbers written with a different base in each place: with digits in range the sum of digit times running
  product stays below the product of the bases, and division and remainder give each digit back. `transpose` is `OneMoreDigit` and
  `Quotient`, once in each direction (`FilledExact`). The counter of an RListMap is the number of names less the
  elements asked for (`MapCounts`).

`KeysDistinct`, `WithinLimit`, `FallbackOutlivesOneRotation` and `SecretIsFinal` are proved and not in a
run of their own; TLC has checked them on the same instances.

Every invariant and action property of every passing run is a theorem. Model-checked only is the liveness: `PendingGetsPublished`,
`MessageGetsSession` and `DroppedGetsFreed`, since TLAPS proves neither liveness under fairness nor ENABLED; and the two
findings, which are counterexamples. No module is RECURSIVE. The recursive functions there are, running products and sums
over subscripts in Views and Containers, are reasoned about for every length without an induction theorem: the least length
at which a statement fails would follow one at which it holds (`Upwards`).

## 5. What is abstracted and what is left out

* Cryptography is symbolic: a key pair is a value, a signature or tag names its
  maker and content, a shared secret is the pair of keys. vodozemac, R, cargo, make
  and the homeserver are modelled from how the code uses them and marked external.
* A pickle is the state it was made from. A wrong pickle key or a damaged blob makes
  `unpickle` fail before there is a handle, which leaves the state as it was.
* The `verified` flag that vodozemac keeps on inbound group sessions is left out:
  no function exposes it. The u32 message index never wraps in a model.
* `&str` parameters read `NA_character_` as the text "NA". What a string contains matters to no
  property, so `Arguments` has no separate value for it.
* List arguments to `as.integer`. What a double becomes when a vector is coerced: `Coerce` changes the mode and keeps the cells, and for a list
  takes both outcomes, R's error and success, whatever is in it.
* The package itself uses few of the containers, and scalars, strings and lists only to build results. Views and Containers
  therefore take any object of a dozen shapes and a body that does with it, in any order the borrow checker admits, what they model: every cast of
  `RObject` and of the typed views, `as_robject` back, `to_f64` and the like, get and set of a cell, names, dim and dimnames, class
  and other attributes, transpose, the lookups by name and `RListMap`. Outside are the unsafe methods (`transmute`, the unchecked ones), slices, iterators and `slice_mut`,
  `clone` and the getters of attributes (they give other objects), one-dimensional arrays, strings that are not valid UTF-8,
  and R sessions that turn warnings into errors.
* External pointers: `set_address` (roxido 2350-2352), `register_finalizer` (2358-2366) and the unsafe `decode_ref_static` and `decode_mut_static` (2313-2342).
  The package calls none of them; the properties of `ExternalPtr` are about bodies that do not either.
* Handles are decoded without a look at their tag except in `sas.rs`. Passing the wrong kind is
  undefined behaviour, listed as a hazard and outside every model.
* Cross-signing wrappers and the shims have no state. `rbindings` is generated.
* Build: Windows' `--target` variant, `ROXIDO_R_FUNC_DIR`, a missing `R_PACKAGE_NAME`, files added after configure.

## 6. Plan

Done, in this order: Account, Device, MegolmOutbound, MegolmInbound with its promise, Sas, ExternalPtr,
Verify, Olm, RoxidoCall with Arguments, Build; Room; lists, closures and calls in RoxidoCall; Views and Containers; the eight proof
modules, with a theorem for every safety property; AccountPromise and OlmPromise.

To do, most important first:

1. An Olm session below `Room`, which takes the messages that carry a session key as delivered.
2. The SAS commitment flow of the protocol around `Sas` (`mxc_sas_commitment`,
   `sas.rs` 77-85): what the order of commitment and key protects.
3. A client that catches R's error in `create_inbound` and goes on: `Device` has the error that ends the client
   (`Receive`, then `Crash`).
4. `Device` between two crashes as a refinement of AccountPromise.
