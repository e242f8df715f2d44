------------------------------ MODULE ExternalPtr ------------------------------
(***************************************************************************)
(* How a Rust value lives behind an R handle                               *)
(* (src/rust/roxido/src/lib.rs 2192-2391): boxed, leaked to an R external  *)
(* pointer, borrowed by calls, and given back either to Rust or to the     *)
(* finalizer that R's garbage collector runs.  Handles are dropped, saved  *)
(* and loaded, and finalized in orders of R's choosing; an R-level         *)
(* finalizer may take hold of a dying handle once more.                    *)
(***************************************************************************)
EXTENDS Naturals, FiniteSets

CONSTANTS
  Pointers,    \* R external pointer objects
  Boxes,       \* heap allocations, each made at most once
  Null,        \* the null address
  NoPointer    \* an object not yet made, or collected

ASSUME ValuesAssumption == Null \notin Boxes

VARIABLES
  pointer,     \* the external pointers
  allocated,   \* boxes ever allocated
  freed,       \* how often each box was freed by a finalizer
  returned     \* how often each box was moved back to Rust

pointerVars == <<pointer, allocated, freed, returned>>

(* managed is the "@" attribute; finalizers counts the C finalizers still   *)
(* registered; hooked says that R code registered one of its own.           *)
ExternalPointer ==
  [address : Boxes \cup {Null}, managed : BOOLEAN, finalizers : Nat,
   reachable : BOOLEAN, hooked : BOOLEAN]

Exists(p) == pointer[p] # NoPointer

(* What a call can be given: R code holds the handle.                       *)
Held(p) == Exists(p) /\ pointer[p].reachable

InUse(b) == freed[b] = 0 /\ returned[b] = 0

PointerInit ==
  /\ pointer = [p \in Pointers |-> NoPointer]
  /\ allocated = {}
  /\ freed = [b \in Boxes |-> 0]
  /\ returned = [b \in Boxes |-> 0]

Made(p, address, managed, finalizers) ==
  /\ ~Exists(p)
  /\ pointer' = [pointer EXCEPT ![p] =
       [address |-> address, managed |-> managed, finalizers |-> finalizers,
        reachable |-> TRUE, hooked |-> FALSE]]

(* encode is encode_full with managed = TRUE.                               *)
encode_full(p, managed) ==
  /\ \E b \in Boxes \ allocated :
       allocated' = allocated \cup {b} /\ Made(p, b, managed, IF managed THEN 1 ELSE 0)
  /\ UNCHANGED <<freed, returned>>

(* Saved and loaded: the attributes survive, address and finalizers do not. *)
Unserialize(p, saved) ==
  /\ Held(saved)
  /\ Made(p, Null, pointer[saved].managed, 0)
  /\ UNCHANGED <<allocated, freed, returned>>

(* Only a null pointer is given a new value.                                *)
reencode_unregistered(p) ==
  /\ Held(p)
  /\ pointer[p].address = Null
  /\ \E b \in Boxes \ allocated :
       allocated' = allocated \cup {b} /\ pointer' = [pointer EXCEPT ![p].address = b]
  /\ UNCHANGED <<freed, returned>>

reencode(p) ==
  /\ Held(p)
  /\ pointer[p].address = Null
  /\ \E b \in Boxes \ allocated :
       /\ allocated' = allocated \cup {b}
       /\ pointer' = [pointer EXCEPT
            ![p].address = b,
            ![p].finalizers = IF pointer[p].managed THEN @ + 1 ELSE @]
  /\ UNCHANGED <<freed, returned>>

(* By value only from a pointer that R does not manage, and only once.      *)
decode_val_uncleared(p) ==
  /\ Held(p)
  /\ ~pointer[p].managed
  /\ pointer[p].address # Null
  /\ returned' = [returned EXCEPT ![pointer[p].address] = @ + 1]
  /\ UNCHANGED <<pointer, allocated, freed>>

decode_val(p) ==
  /\ Held(p)
  /\ ~pointer[p].managed
  /\ pointer[p].address # Null
  /\ returned' = [returned EXCEPT ![pointer[p].address] = @ + 1]
  /\ pointer' = [pointer EXCEPT ![p].address = Null]
  /\ UNCHANGED <<allocated, freed>>

(* reg.finalizer: R code asks to be shown the handle before it goes.        *)
Hook(p) ==
  /\ Held(p)
  /\ pointer' = [pointer EXCEPT ![p].hooked = TRUE]
  /\ UNCHANGED <<allocated, freed, returned>>

Drop(p) ==
  /\ Held(p)
  /\ pointer' = [pointer EXCEPT ![p].reachable = FALSE]
  /\ UNCHANGED <<allocated, freed, returned>>

(* The R-level finalizer runs, before or after the C one, and may keep the  *)
(* handle.                                                                  *)
RunHook(p) ==
  /\ Exists(p) /\ ~Held(p)
  /\ pointer[p].hooked
  /\ \E kept \in BOOLEAN :
       pointer' = [pointer EXCEPT ![p].hooked = FALSE, ![p].reachable = kept]
  /\ UNCHANGED <<allocated, freed, returned>>

(* free::<T>: the registration is spent; a null pointer is left alone.      *)
free_uncleared(p) ==
  /\ Exists(p) /\ ~Held(p)
  /\ pointer[p].finalizers > 0
  /\ pointer' = [pointer EXCEPT ![p].finalizers = @ - 1]
  /\ freed' = IF pointer[p].address = Null THEN freed
              ELSE [freed EXCEPT ![pointer[p].address] = @ + 1]
  /\ UNCHANGED <<allocated, returned>>

free(p) ==
  /\ Exists(p) /\ ~Held(p)
  /\ pointer[p].finalizers > 0
  /\ pointer' = [pointer EXCEPT ![p].address = Null, ![p].finalizers = @ - 1]
  /\ freed' = IF pointer[p].address = Null THEN freed
              ELSE [freed EXCEPT ![pointer[p].address] = @ + 1]
  /\ UNCHANGED <<allocated, returned>>

(* R takes the object itself back once nothing is left to run.              *)
Collect(p) ==
  /\ Exists(p) /\ ~Held(p)
  /\ pointer[p].finalizers = 0 /\ ~pointer[p].hooked
  /\ pointer' = [pointer EXCEPT ![p] = NoPointer]
  /\ UNCHANGED <<allocated, freed, returned>>

PointerNext ==
  \E p \in Pointers :
    \/ \E managed \in BOOLEAN : encode_full(p, managed)
    \/ \E saved \in Pointers : Unserialize(p, saved)
    \/ reencode(p)
    \/ decode_val(p)
    \/ Hook(p)
    \/ Drop(p)
    \/ RunHook(p)
    \/ free(p)
    \/ Collect(p)

PointerSpec == PointerInit /\ [][PointerNext]_pointerVars

(* The garbage collector comes back to a dying handle until it is gone.     *)
Fairness == \A p \in Pointers : WF_pointerVars(free(p)) /\ WF_pointerVars(RunHook(p))

FairSpec == PointerSpec /\ Fairness

-----------------------------------------------------------------------------

(* Types; and a managed value always has a finalizer waiting for it.        *)
PointerTypeOK ==
  /\ pointer \in [Pointers -> ExternalPointer \cup {NoPointer}]
  /\ allocated \subseteq Boxes
  /\ freed \in [Boxes -> Nat]
  /\ returned \in [Boxes -> Nat]
  /\ \A p \in Pointers :
       Exists(p) /\ pointer[p].managed /\ pointer[p].address # Null =>
         pointer[p].finalizers > 0

(* What decode_ref and decode_mut hand to Rust is null, and refused, or a   *)
(* box in use that no other handle can reach, whichever finalizers ran and  *)
(* whoever kept a dying handle.                                             *)
BorrowsAreLive ==
  /\ \A p \in Pointers : Exists(p) /\ pointer[p].address # Null =>
       pointer[p].address \in allocated /\ InUse(pointer[p].address)
  /\ \A p, q \in Pointers :
       Exists(p) /\ Exists(q) /\ pointer[p].address = pointer[q].address =>
         p = q \/ pointer[p].address = Null

(* A box goes once: freed by the collector or moved back to Rust, not both  *)
(* and neither twice.                                                       *)
GivenBackOnce == \A b \in Boxes : freed[b] + returned[b] <= 1

(* No managed value outlives its handle: R drops the handle, and the box is *)
(* freed unless R code takes the handle back; it is never collected with    *)
(* its box still in use.                                                    *)
DroppedGetsFreed ==
  \A p \in Pointers, b \in Boxes :
    Exists(p) /\ ~Held(p) /\ pointer[p].managed /\ pointer[p].address = b
      ~> freed[b] = 1 \/ (Held(p) /\ pointer[p].address = b)

=============================================================================
