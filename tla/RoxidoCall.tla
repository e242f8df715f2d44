------------------------------- MODULE RoxidoCall -------------------------------
(***************************************************************************)
(* One .Call into a function with the roxido attribute                     *)
(* (src/rust/roxido_macro/src/lib.rs 457-494) and the protection counters  *)
(* of its body (Pc, src/rust/roxido/src/lib.rs 356-402): R's protect       *)
(* stack, R's collector, which may run at every allocation, lists the body *)
(* fills, with a Pc of their own for each closure (2088-2135), calls back   *)
(* into R (873-886), and the three ways out of the Rust frame: a value, a   *)
(* panic turned into an R error, and an R error raised by R itself while   *)
(* Rust is on the stack.  Every call takes a handle, which passes           *)
(* unchecked, and one more argument, which is coerced, checked and read as *)
(* Arguments says before the body runs.                                    *)
(***************************************************************************)
EXTENDS Naturals, Sequences, SequencesExt, FiniteSets, Arguments

CONSTANTS
  Objects,        \* R objects a call can allocate
  Argument,       \* an R object the caller passes, protected by the caller
  NULL,           \* R's NULL, which is never collected
  RValues,        \* what an R program may pass: records of Arguments
  NoValue,        \* no argument is being looked at
  ProtectLimit,   \* bound: entries a call puts on R's protect stack
  MaxLocals       \* bound: Rust values a call owns at a time

Known == Objects \cup {Argument}

ASSUME BoundsAssumption == ProtectLimit \in Nat /\ MaxLocals \in Nat
ASSUME RValuesAssumption == \A v \in RValues : IsRValue(v)
ASSUME ObjectsAssumption == Argument \notin Objects /\ NULL \notin Known

VARIABLES
  phase,       \* where the call stands
  argument,    \* the argument: its kind, what R meant and what was passed on
  received,    \* what the body gets of it
  stack,       \* R's protect stack, from the caller's last entry up
  pc,          \* the call's Pc: its counter and the objects Rust refers to through it
  local,       \* the Pc of the closure that fills a list, and that list
  heap,        \* the objects R has not collected
  inside,      \* the objects each object holds: elements of lists and calls
  result,      \* the value to return, or the text of the error
  locals,      \* Rust values owned by the frames of the call
  payload,     \* is a panic payload alive
  abandoned    \* history: Rust values alive when the wrapper called Rf_error

vars == <<phase, argument, received, stack, pc, local, heap, inside, result, locals, payload, abandoned>>
parameter == <<argument, received>>
rust == <<locals, payload, abandoned>>

CallerStack == <<Argument>>

(* Pc::__private_new and Pc::default.                                       *)
NewPc == [counter |-> 0, held |-> {}]
NoList == [counter |-> 0, held |-> {}, list |-> NULL]
Empty == [x \in Known |-> {}]

Init ==
  /\ phase = "idle"
  /\ argument = NoValue /\ received = NoValue
  /\ stack = CallerStack /\ pc = NewPc /\ local = NoList
  /\ heap = {Argument} /\ inside = Empty /\ result = NULL
  /\ locals = 0 /\ payload = FALSE /\ abandoned = 0

(* R coerces the argument; the Rust wrapper makes pc.                       *)
Enter(kind, v) ==
  /\ phase = "idle"
  /\ Callable(kind, v)
  /\ argument' = [kind |-> kind, meant |-> v, passed |-> Passed(kind, v)]
  /\ phase' = "arguments"
  /\ pc' = [NewPc EXCEPT !.held = {Argument}]
  /\ UNCHANGED <<received, stack, local, heap, inside, result, rust>>

(* The collector may run: it keeps what is protected, all that is inside     *)
(* what it keeps, and of the rest what it likes.                             *)
Collected(kept) ==
  /\ kept \subseteq heap
  /\ ToSet(stack) \cap heap \subseteq kept
  /\ \A x \in kept : inside[x] \subseteq kept

Allocated(o, parts) ==
  /\ o \notin heap
  /\ \E kept \in SUBSET heap : Collected(kept) /\ heap' = kept \cup {o}
  /\ inside' = [inside EXCEPT ![o] = parts]

Counted(p, o) == [p EXCEPT !.counter = @ + 1, !.held = @ \cup ({o} \ {NULL})]

(* An R API function that allocates, and Pc::protect of what it returns     *)
(* (protect_uncounted: without the increment of the counter;                *)
(* protect_skipped: without protect).                                        *)
protect_uncounted(o, parts) ==
  /\ Len(stack) <= ProtectLimit
  /\ Allocated(o, parts)
  /\ stack' = Append(stack, o)
  /\ pc' = [pc EXCEPT !.held = @ \cup {o}]
protect_skipped(o, parts) ==
  /\ Allocated(o, parts)
  /\ pc' = [pc EXCEPT !.held = @ \cup {o}]
  /\ UNCHANGED stack
protect(o, parts) ==
  /\ Len(stack) <= ProtectLimit
  /\ Allocated(o, parts)
  /\ stack' = Append(stack, o)
  /\ pc' = Counted(pc, o)

(* The generated statements: the argument is checked and read; a scalar     *)
(* that is no string is coerced to one, which allocates.                    *)
Read ==
  /\ received' = Received(argument.kind, argument.passed)
  /\ phase' = "read"
  /\ UNCHANGED argument

ReadArgument ==
  /\ phase = "arguments"
  /\ Accepts(argument.kind, argument.passed)
  /\ ~Coerced(argument.kind, argument.passed)
  /\ Read
  /\ UNCHANGED <<stack, pc, local, heap, inside, result, rust>>

CoerceArgument(o) ==
  /\ phase = "arguments"
  /\ Accepts(argument.kind, argument.passed)
  /\ Coerced(argument.kind, argument.passed)
  /\ protect(o, {})
  /\ Read
  /\ UNCHANGED <<local, result, rust>>

(* The body starts; what it does with the number is not followed further.   *)
Body ==
  /\ phase = "read" /\ phase' = "body"
  /\ argument' = NoValue /\ received' = NoValue
  /\ UNCHANGED <<stack, pc, local, heap, inside, result, rust>>

(* The body makes an R object.                                              *)
Make(o) ==
  /\ phase = "body"
  /\ protect(o, {})
  /\ UNCHANGED <<phase, parameter, local, result, rust>>

-----------------------------------------------------------------------------
(* Lists and vectors of strings of the call's own.                           *)

Containers(p) == p.held \cap Objects

(* A string that is not protected but put in its vector at once.            *)
set_unchecked(l, o) ==
  /\ phase = "body" /\ l \in Containers(pc)
  /\ o \notin heap
  /\ \E kept \in SUBSET heap : Collected(kept) /\ heap' = kept \cup {o}
  /\ inside' = [inside EXCEPT ![o] = {}, ![l] = @ \cup {o}]
  /\ UNCHANGED <<phase, parameter, stack, pc, local, result, rust>>

(* An element takes an empty place or that of another.                      *)
Placed(l, o) ==
  \E rest \in {inside[l]} \cup {inside[l] \ {x} : x \in inside[l]} :
    inside' = [inside EXCEPT ![l] = rest \cup {o}]

set(l, o) ==
  /\ phase = "body" /\ l \in Containers(pc) /\ o \in pc.held \ {l}
  /\ Placed(l, o)
  /\ UNCHANGED <<phase, parameter, stack, pc, local, heap, result, rust>>

(* set_with_pc and set_loop_with_pc make a Pc for their closure.  Nothing    *)
(* keeps the closure from protecting with the call's Pc instead              *)
(* (MakeInClosureAnyPc); it is taken not to.                                 *)
set_with_pc(l) ==
  /\ phase = "body" /\ l \in Containers(pc)
  /\ phase' = "closure"
  /\ local' = [NoList EXCEPT !.list = l]
  /\ UNCHANGED <<parameter, stack, pc, heap, inside, result, rust>>

MakeInClosureAnyPc(o) ==
  /\ phase = "closure"
  /\ Len(stack) <= ProtectLimit
  /\ Allocated(o, {})
  /\ stack' = Append(stack, o)
  /\ \/ local' = Counted(local, o) /\ UNCHANGED pc
     \/ pc' = Counted(pc, o) /\ UNCHANGED local
  /\ UNCHANGED <<phase, parameter, result, rust>>
MakeInClosure(o) ==
  /\ phase = "closure"
  /\ Len(stack) <= ProtectLimit
  /\ Allocated(o, {})
  /\ stack' = Append(stack, o)
  /\ local' = Counted(local, o)
  /\ UNCHANGED <<phase, parameter, pc, result, rust>>

(* The closure's value goes into the list; then the local Pc is dropped, or  *)
(* the loop goes on with it.                                                 *)
FillAndDrop(o) ==
  /\ phase = "closure" /\ o \in local.held
  /\ Placed(local.list, o)
  /\ phase' = "body"
  /\ stack' = SubSeq(stack, 1, Len(stack) - local.counter)
  /\ local' = NoList
  /\ UNCHANGED <<parameter, pc, heap, result, rust>>

FillAndLoop(o) ==
  /\ phase = "closure" /\ o \in local.held
  /\ Placed(local.list, o)
  /\ local' = [local EXCEPT !.held = {}]
  /\ UNCHANGED <<phase, parameter, stack, pc, heap, result, rust>>

-----------------------------------------------------------------------------
(* RFunction: a call of an R function on something Rust refers to.           *)

eval(e, x) ==
  /\ phase = "body" /\ x \in pc.held
  /\ protect(e, {x})
  /\ phase' = "evaluating"
  /\ UNCHANGED <<parameter, local, result, rust>>

(* R_tryEval gives a new value, or NULL beside an error, which stays inside. *)
EvalValue(o) ==
  /\ phase = "evaluating"
  /\ protect(o, {})
  /\ phase' = "body"
  /\ UNCHANGED <<parameter, local, result, rust>>

EvalError ==
  /\ phase = "evaluating"
  /\ Len(stack) <= ProtectLimit
  /\ stack' = Append(stack, NULL)
  /\ pc' = Counted(pc, NULL)
  /\ \E kept \in SUBSET heap : Collected(kept) /\ heap' = kept
  /\ phase' = "body"
  /\ UNCHANGED <<parameter, local, inside, result, rust>>

-----------------------------------------------------------------------------
(* Out of the body.                                                          *)

(* Rust values come and go.                                                 *)
Own ==
  /\ phase = "body"
  /\ locals' \in {locals + 1, locals - 1} \cap (0 .. MaxLocals)
  /\ UNCHANGED <<phase, parameter, stack, pc, local, heap, inside, result, payload, abandoned>>

(* The frames of the closure end: their values are dropped, a local Pc       *)
(* before pc, and Rf_unprotect pops the top of the stack (UnwoundPcKept:      *)
(* pc is not dropped).                                                       *)
UnwoundPcKept ==
  /\ local' = NoList /\ pc' = NewPc /\ locals' = 0
  /\ UNCHANGED stack
Unwound ==
  /\ stack' = SubSeq(stack, 1, Len(stack) - local.counter - pc.counter)
  /\ local' = NoList /\ pc' = NewPc /\ locals' = 0

(* The closure ends: its value is converted while pc is alive, then pc and  *)
(* the locals are dropped, and the SEXP is returned.                        *)
Return ==
  /\ phase = "body"
  /\ result' \in pc.held
  /\ Unwound
  /\ phase' = "returned"
  /\ UNCHANGED <<parameter, heap, inside, payload, abandoned>>

(* R takes the value over; what it drops is free for the next call.         *)
Deliver ==
  /\ phase = "returned"
  /\ phase' = "idle"
  /\ result' = NULL
  /\ heap' = {Argument} /\ inside' = Empty
  /\ UNCHANGED <<parameter, stack, pc, local, rust>>

(* stop! or any other panic, caught by catch_unwind after the destructors:  *)
(* an argument that does not pass, or anything in the body.                 *)
Panicked ==
  /\ Unwound
  /\ payload' = TRUE
  /\ phase' = "caught"
  /\ argument' = NoValue /\ received' = NoValue
  /\ UNCHANGED <<heap, inside, result, abandoned>>

RefuseArgument ==
  /\ phase = "arguments"
  /\ ~Accepts(argument.kind, argument.passed)
  /\ Panicked

Panic ==
  /\ phase \in {"body", "closure"}
  /\ Panicked

(* The message is copied to an R object, nothing being protected any more.  *)
Message(o) ==
  /\ phase = "caught"
  /\ Allocated(o, {})
  /\ result' = o
  /\ phase' = "message"
  /\ UNCHANGED <<parameter, stack, pc, local, rust>>

(* A long jump to R's top level, which cuts the protect stack back to where *)
(* the call began.                                                          *)
LongJump ==
  /\ phase' = "idle"
  /\ argument' = NoValue /\ received' = NoValue
  /\ stack' = CallerStack /\ pc' = NewPc /\ local' = NoList
  /\ heap' = {Argument} /\ inside' = Empty /\ result' = NULL
  /\ locals' = 0 /\ payload' = FALSE

(* drop(result), then Rf_error: the text is in the R object by now          *)
(* (RfErrorUndropped: without the drop).                                     *)
RfErrorUndropped ==
  /\ phase = "message"
  /\ LongJump
  /\ abandoned' = abandoned + locals + (IF payload THEN 1 ELSE 0)
RfError ==
  /\ phase = "message"
  /\ LongJump
  /\ abandoned' = abandoned + locals

(* R itself raises an error inside an API call: memory or the protect stack *)
(* is exhausted.  Rust destructors do not run; nothing in the code promises *)
(* that they would.                                                         *)
RAllocationError ==
  /\ phase \in {"arguments", "body", "closure", "evaluating", "caught"}
  /\ LongJump
  /\ UNCHANGED abandoned

Next ==
  \/ \E kind \in Kinds, v \in RValues : Enter(kind, v)
  \/ ReadArgument
  \/ RefuseArgument
  \/ Body
  \/ \E o \in Objects :
       \/ CoerceArgument(o) \/ Make(o) \/ MakeInClosure(o) \/ EvalValue(o) \/ Message(o)
       \/ FillAndDrop(o) \/ FillAndLoop(o) \/ set_with_pc(o)
       \/ \E l \in Objects : set_unchecked(l, o)
       \/ \E x \in Known : set(o, x) \/ eval(o, x)
  \/ EvalError
  \/ Own
  \/ Return
  \/ Deliver
  \/ Panic
  \/ RfError
  \/ RAllocationError

Spec == Init /\ [][Next]_vars

-----------------------------------------------------------------------------

Phases == {"idle", "arguments", "read", "body", "closure", "evaluating", "returned", "caught", "message"}

(* Types; a Pc, its references and Rust values live only as long as the     *)
(* body, a local Pc as long as its closure.                                 *)
TypeOK ==
  /\ phase \in Phases
  /\ stack \in Seq(Known \cup {NULL})
  /\ pc \in [counter : Nat, held : SUBSET Known]
  /\ local \in [counter : Nat, held : SUBSET Known, list : Objects \cup {NULL}]
  /\ heap \in SUBSET Known /\ inside \in [Known -> SUBSET Known]
  /\ result \in Known \cup {NULL}
  /\ locals \in 0 .. MaxLocals /\ payload \in BOOLEAN /\ abandoned \in Nat
  /\ phase \in {"idle", "returned", "caught", "message"} => pc = NewPc /\ locals = 0
  /\ phase = "closure" \/ local = NoList

(* Whichever way the body ends, its frames leave R's protect stack exactly  *)
(* as the caller had it: nothing of the call's, and nothing of the caller's *)
(* missing, whether or not closures with a Pc of their own ran in between.   *)
StackBalanced ==
  phase \in {"idle", "arguments", "returned", "caught", "message"} => stack = CallerStack

(* No collection takes an object that Rust still refers to, nor anything    *)
(* inside it, nor the value or the error text on its way out, when nothing  *)
(* is protected any more.                                                    *)
NothingDangles ==
  /\ pc.held \cup local.held \subseteq heap
  /\ \A x \in heap : inside[x] \subseteq heap
  /\ phase \in {"returned", "message"} => result \in heap

(* "On panic, Rf_error() long jumps, but this is safe because catch_unwind  *)
(* has already run all Rust destructors" (roxido_macro/src/lib.rs 455-456): *)
(* no Rust value is alive when the wrapper jumps.                           *)
PanicAbandonsNothing == abandoned = 0

(* The number the body works with is the one the R program wrote, cut to a  *)
(* whole one as as.integer does: no NA, no wrapped, rounded or saturated    *)
(* number comes through, though RScalar's own checks let some pass.  A byte *)
(* and a truth value, read with no coercion before, are what was written.   *)
NumberSurvives ==
  phase = "read" =>
    LET kind == argument.kind
        n    == argument.meant.halves
    IN  /\ argument.meant.length = 1
        /\ kind \in {"i32", "usize"} => received = Truncated(n) /\ received # IntMin
        /\ kind = "u8" => 2 * received = n
        /\ kind = "bool" => ~Missing(argument.meant) /\ (received <=> n # 0)

=============================================================================
