------------------------------ MODULE RoxidoProofs ------------------------------
(***************************************************************************)
(* Proofs about the roxido layer.  RoxidoCall: for calls of any depth, any *)
(* number of objects and any order of collections and closures, the        *)
(* protection counters and R's stack agree, and the number a body gets is  *)
(* the one the R program wrote.  ExternalPtr: for any number of handles    *)
(* and boxes, whatever R drops, saves, finalizes or revives, Rust is       *)
(* handed a live box or null, and no box is given back twice.  Build: for  *)
(* any sources, the registration compiled in is that of the functions, and *)
(* packages with vendored crates use no others.                            *)
(***************************************************************************)
EXTENDS RoxidoCall, ExternalPtr, Build, TLAPS

(* The discipline of the two counters: the stack is the caller's entry, then *)
(* what the call's Pc counts, then what the closure's Pc counts, and each    *)
(* reference of a Pc lies in the part below the top of that Pc's own part.   *)
Protection ==
  /\ Len(stack) = 1 + pc.counter + local.counter
  /\ stack[1] = Argument
  /\ \A x \in pc.held : \E i \in 1 .. 1 + pc.counter : stack[i] = x
  /\ \A x \in local.held : \E i \in 1 .. Len(stack) : stack[i] = x

StackAlive == \A i \in 1 .. Len(stack) : stack[i] \in heap \cup {NULL}
HeapClosed == \A x \in heap : inside[x] \subseteq heap

Phased ==
  /\ phase = "arguments" => pc.counter = 0
  /\ phase = "closure" => local.list \in pc.held
  /\ phase \in {"returned", "message"} => result \in heap
  /\ abandoned = 0

Inv == TypeOK /\ Protection /\ StackAlive /\ HeapClosed /\ Phased

-----------------------------------------------------------------------------

(* What Rust refers to is in the heap.                                       *)
LEMMA HeldAlive ==
  ASSUME Inv
  PROVE  pc.held \subseteq heap /\ local.held \subseteq heap
<1>1. \A x \in pc.held \cup local.held : x \in heap
  <2> SUFFICES ASSUME NEW x \in pc.held \cup local.held PROVE x \in heap
    OBVIOUS
  <2>1. x \in Known /\ x # NULL
    BY ObjectsAssumption DEF Inv, TypeOK
  <2>2. pc.counter \in Nat /\ local.counter \in Nat
    BY DEF Inv, TypeOK
  <2>3. PICK i \in 1 .. Len(stack) : stack[i] = x
    BY <2>2 DEF Inv, Protection
  <2> QED BY <2>1, <2>3 DEF Inv, StackAlive
<1> QED BY <1>1

(* Whatever the collector does, the protect stack stays alive and the heap   *)
(* closed; so with a new object that holds nothing but what is referred to.  *)
LEMMA CollectedKeeps ==
  ASSUME Inv, NEW kept \in SUBSET heap, Collected(kept)
  PROVE  /\ \A i \in 1 .. Len(stack) : stack[i] \in kept \cup {NULL}
         /\ \A x \in kept : inside[x] \subseteq kept
         /\ pc.held \subseteq kept /\ local.held \subseteq kept
<1>1. \A i \in 1 .. Len(stack) : stack[i] \in kept \cup {NULL}
  <2> SUFFICES ASSUME NEW i \in 1 .. Len(stack) PROVE stack[i] \in kept \cup {NULL}
    OBVIOUS
  <2>1. stack[i] \in heap \cup {NULL}
    BY DEF Inv, StackAlive
  <2>2. stack[i] \in ToSet(stack)
    BY DEF ToSet, Inv, TypeOK
  <2> QED BY <2>1, <2>2 DEF Collected
<1>2. \A x \in kept : inside[x] \subseteq kept
  BY DEF Collected
<1>3. \A x \in pc.held \cup local.held : x \in kept
  <2> SUFFICES ASSUME NEW x \in pc.held \cup local.held PROVE x \in kept
    OBVIOUS
  <2>1. x # NULL
    BY ObjectsAssumption DEF Inv, TypeOK
  <2>2. PICK i \in 1 .. Len(stack) : stack[i] = x
    <3>1. pc.counter \in Nat /\ local.counter \in Nat
      BY DEF Inv, TypeOK
    <3> QED BY <3>1 DEF Inv, Protection
  <2> QED BY <1>1, <2>1, <2>2
<1> QED BY <1>1, <1>2, <1>3

LEMMA AllocatedKeeps ==
  ASSUME Inv, NEW o \in Objects, NEW parts \in SUBSET pc.held, Allocated(o, parts)
  PROVE  /\ heap' \in SUBSET Known /\ inside' \in [Known -> SUBSET Known]
         /\ o \in heap'
         /\ \A i \in 1 .. Len(stack) : stack[i] \in heap' \cup {NULL}
         /\ HeapClosed'
<1>1. PICK kept \in SUBSET heap : Collected(kept) /\ heap' = kept \cup {o}
  BY DEF Allocated
<1>2. /\ \A i \in 1 .. Len(stack) : stack[i] \in kept \cup {NULL}
      /\ \A x \in kept : inside[x] \subseteq kept
      /\ pc.held \subseteq kept
  BY <1>1, CollectedKeeps
<1>3. heap \subseteq Known /\ inside \in [Known -> SUBSET Known] /\ pc.held \subseteq Known
  BY DEF Inv, TypeOK
<1>4. inside' = [inside EXCEPT ![o] = parts] /\ o \in Known
  BY DEF Allocated, Known
<1>5. inside' \in [Known -> SUBSET Known]
  BY <1>3, <1>4
<1>6. \A x \in heap' : inside'[x] \subseteq heap'
  BY <1>1, <1>2, <1>3, <1>4
<1> QED BY <1>1, <1>2, <1>3, <1>4, <1>5, <1>6 DEF HeapClosed

(* An allocation protected by the call's Pc.                                 *)
LEMMA ProtectKeeps ==
  ASSUME Inv, phase # "closure", NEW o \in Objects, NEW parts \in SUBSET pc.held,
         protect(o, parts), local' = local
  PROVE  /\ stack' \in Seq(Known \cup {NULL})
         /\ pc' \in [counter : Nat, held : SUBSET Known]
         /\ heap' \in SUBSET Known /\ inside' \in [Known -> SUBSET Known]
         /\ Protection' /\ StackAlive' /\ HeapClosed'
<1>1. /\ heap' \in SUBSET Known /\ inside' \in [Known -> SUBSET Known]
      /\ o \in heap'
      /\ \A i \in 1 .. Len(stack) : stack[i] \in heap' \cup {NULL}
      /\ HeapClosed'
  BY AllocatedKeeps DEF protect
<1>2. /\ stack \in Seq(Known \cup {NULL}) /\ o \in Known \cup {NULL}
      /\ pc \in [counter : Nat, held : SUBSET Known]
      /\ local = NoList
  BY DEF Inv, TypeOK, Known
<1>3. stack' = Append(stack, o) /\ pc' = [pc EXCEPT !.counter = @ + 1, !.held = @ \cup {o}]
  BY ObjectsAssumption DEF protect, Counted, Known
<1>4. /\ stack' \in Seq(Known \cup {NULL}) /\ Len(stack') = Len(stack) + 1
      /\ stack'[Len(stack) + 1] = o
      /\ \A i \in 1 .. Len(stack) : stack'[i] = stack[i]
  BY <1>2, <1>3
<1>5. pc' \in [counter : Nat, held : SUBSET Known] /\ pc'.counter = pc.counter + 1 /\ pc'.held = pc.held \cup {o}
  <2>1. pc'.counter = pc.counter + 1 /\ pc'.held = pc.held \cup {o}
    BY <1>2, <1>3
  <2>2. pc' = [counter |-> pc.counter + 1, held |-> pc.held \cup {o}]
    BY <1>2, <1>3
  <2>3. pc.counter + 1 \in Nat /\ pc.held \cup {o} \in SUBSET Known
    BY <1>2 DEF Known
  <2> QED BY <2>1, <2>2, <2>3
<1>6. Len(stack) = 1 + pc.counter /\ stack[1] = Argument /\ local.counter = 0 /\ local.held = {}
  BY <1>2 DEF Inv, Protection, NoList
<1>7. Protection'
  <2>1. Len(stack') = 1 + pc'.counter + local'.counter /\ stack'[1] = Argument
    BY <1>2, <1>4, <1>5, <1>6
  <2>2. ASSUME NEW x \in pc'.held PROVE \E i \in 1 .. 1 + pc'.counter : stack'[i] = x
    <3>1. CASE x = o
      BY <3>1, <1>2, <1>4, <1>5, <1>6
    <3>2. CASE x \in pc.held
      <4>1. PICK i \in 1 .. 1 + pc.counter : stack[i] = x
        BY <3>2 DEF Inv, Protection
      <4> QED BY <4>1, <1>2, <1>4, <1>5, <1>6
    <3> QED BY <1>5, <2>2, <3>1, <3>2
  <2> QED BY <1>6, <2>1, <2>2 DEF Protection
<1>8. StackAlive'
  BY <1>1, <1>2, <1>4 DEF StackAlive
<1> QED BY <1>1, <1>4, <1>5, <1>7, <1>8

(* Rf_unprotect.                                                             *)
LEMMA PoppedStack ==
  ASSUME stack \in Seq(Known \cup {NULL}), NEW n \in 1 .. Len(stack), stack' = SubSeq(stack, 1, n)
  PROVE  /\ stack' \in Seq(Known \cup {NULL}) /\ Len(stack') = n
         /\ \A i \in 1 .. n : stack'[i] = stack[i]
OBVIOUS

(* The frames end: the caller's entry is left.                               *)
LEMMA UnwoundKeeps ==
  ASSUME Inv, Unwound
  PROVE  /\ stack' = CallerStack /\ stack' \in Seq(Known \cup {NULL})
         /\ pc' = NewPc /\ local' = NoList /\ locals' \in 0 .. MaxLocals
         /\ Protection' /\ Argument \in heap
<1>1. /\ stack \in Seq(Known \cup {NULL}) /\ pc.counter \in Nat /\ local.counter \in Nat
      /\ Len(stack) = 1 + pc.counter + local.counter /\ stack[1] = Argument
  BY DEF Inv, TypeOK, Protection
<1>2. stack' = SubSeq(stack, 1, 1)
  BY <1>1 DEF Unwound
<1>3. stack' \in Seq(Known \cup {NULL}) /\ Len(stack') = 1 /\ stack'[1] = Argument
  BY <1>1, <1>2, PoppedStack
<1>4. pc' = NewPc /\ local' = NoList /\ locals' \in 0 .. MaxLocals
  BY BoundsAssumption DEF Unwound
<1>5. Argument \in heap
  BY <1>1, ObjectsAssumption DEF Inv, StackAlive, Known
<1> QED BY <1>3, <1>4, <1>5 DEF Protection, NewPc, NoList, CallerStack

(* What a call starts with has its types.                                    *)
LEMMA StartTyped ==
  /\ CallerStack \in Seq(Known \cup {NULL})
  /\ NewPc \in [counter : Nat, held : SUBSET Known]
  /\ NoList \in [counter : Nat, held : SUBSET Known, list : Objects \cup {NULL}]
  /\ Empty \in [Known -> SUBSET Known] /\ {Argument} \in SUBSET Known
  /\ 0 \in 0 .. MaxLocals
<1>1. Argument \in Known
  BY DEF Known
<1>2. CallerStack \in Seq(Known \cup {NULL})
  BY <1>1 DEF CallerStack
<1>3. NewPc \in [counter : Nat, held : SUBSET Known]
  BY DEF NewPc
<1>4. NoList \in [counter : Nat, held : SUBSET Known, list : Objects \cup {NULL}]
  BY DEF NoList
<1>5. Empty \in [Known -> SUBSET Known]
  BY DEF Empty
<1> QED BY <1>1, <1>2, <1>3, <1>4, <1>5, BoundsAssumption

(* A long jump: back to where the call began.                                *)
LEMMA LongJumpKeeps ==
  ASSUME LongJump, abandoned' = 0
  PROVE  Inv'
<1>1. stack' = <<Argument>> /\ pc' = NewPc /\ local' = NoList /\ heap' = {Argument} /\ inside' = Empty
  BY DEF LongJump, CallerStack
<1>2. TypeOK'
  BY <1>1, StartTyped DEF LongJump, TypeOK, Phases
<1>3. Protection' /\ StackAlive' /\ HeapClosed' /\ Phased'
  BY <1>1 DEF LongJump, Protection, StackAlive, HeapClosed, Phased, NewPc, NoList, Empty, Known
<1> QED BY <1>2, <1>3 DEF Inv

(* An element put into a list of the call's own keeps the heap closed.       *)
LEMMA PlacedKeeps ==
  ASSUME Inv, NEW l \in Objects, l \in heap, NEW o \in heap, Placed(l, o)
  PROVE  /\ inside' \in [Known -> SUBSET Known]
         /\ \A x \in heap : inside'[x] \subseteq heap
<1>1. PICK rest \in {inside[l]} \cup {inside[l] \ {x} : x \in inside[l]} :
        inside' = [inside EXCEPT ![l] = rest \cup {o}]
  BY DEF Placed
<1>2. inside \in [Known -> SUBSET Known] /\ heap \subseteq Known /\ l \in Known
  BY DEF Inv, TypeOK, Known
<1>3. rest \subseteq inside[l] /\ inside[l] \subseteq heap
  BY <1>1, <1>2 DEF Inv, HeapClosed
<1>4. rest \cup {o} \subseteq heap
  BY <1>3
<1>5. inside' \in [Known -> SUBSET Known]
  BY <1>1, <1>2, <1>4
<1>6. \A x \in heap : inside'[x] \subseteq heap
  BY <1>1, <1>2, <1>4 DEF Inv, HeapClosed
<1> QED BY <1>5, <1>6

-----------------------------------------------------------------------------

LEMMA InvInit == Init => Inv
<1> SUFFICES ASSUME Init PROVE Inv
  OBVIOUS
<1>1. TypeOK
  BY StartTyped DEF Init, TypeOK, Phases
<1>2. Protection /\ StackAlive /\ HeapClosed /\ Phased
  BY DEF Init, Protection, StackAlive, HeapClosed, Phased, CallerStack, NewPc, NoList, Empty, Known
<1> QED BY <1>1, <1>2 DEF Inv

(* Entering and reading the argument.                                        *)
LEMMA ArgumentSteps ==
  ASSUME Inv,
         \/ \E kind \in Kinds, v \in RValues : Enter(kind, v)
         \/ ReadArgument \/ Body \/ \E o \in Objects : CoerceArgument(o)
  PROVE  Inv'
<1>1. CASE \E kind \in Kinds, v \in RValues : Enter(kind, v)
  <2>1. /\ phase = "idle" /\ phase' = "arguments" /\ pc' = [NewPc EXCEPT !.held = {Argument}]
        /\ UNCHANGED <<received, stack, local, heap, inside, result, rust>>
    BY <1>1 DEF Enter
  <2>2. pc = NewPc /\ local = NoList
    BY <2>1 DEF Inv, TypeOK
  <2>3. pc' = [counter |-> 0, held |-> {Argument}]
    BY <2>1 DEF NewPc
  <2>4. TypeOK'
    BY <2>1, <2>2, <2>3 DEF Inv, TypeOK, Phases, rust, Known
  <2>5. Protection'
    BY <2>1, <2>2, <2>3 DEF Inv, Protection, NewPc, NoList
  <2> QED BY <2>1, <2>3, <2>4, <2>5 DEF Inv, StackAlive, HeapClosed, Phased, rust
<1>2. CASE ReadArgument
  BY <1>2 DEF ReadArgument, Read, Inv, TypeOK, Phases, Protection, StackAlive, HeapClosed, Phased, rust
<1>3. CASE Body
  BY <1>3 DEF Body, Inv, TypeOK, Phases, Protection, StackAlive, HeapClosed, Phased, rust
<1>4. ASSUME NEW o \in Objects, CoerceArgument(o) PROVE Inv'
  <2>1. /\ phase = "arguments" /\ phase' = "read" /\ protect(o, {})
        /\ UNCHANGED <<local, result, locals, payload, abandoned>>
    BY <1>4 DEF CoerceArgument, Read, rust
  <2>2. /\ stack' \in Seq(Known \cup {NULL}) /\ pc' \in [counter : Nat, held : SUBSET Known]
        /\ heap' \in SUBSET Known /\ inside' \in [Known -> SUBSET Known]
        /\ Protection' /\ StackAlive' /\ HeapClosed'
    BY <2>1, ProtectKeeps
  <2>3. TypeOK'
    BY <2>1, <2>2 DEF Inv, TypeOK, Phases
  <2> QED BY <2>1, <2>2, <2>3 DEF Inv, Phased
<1> QED BY <1>1, <1>2, <1>3, <1>4

(* What the body makes, with the call's Pc.                                  *)
LEMMA BodySteps ==
  ASSUME Inv, NEW o \in Objects,
         Make(o) \/ EvalValue(o) \/ \E x \in Known : eval(o, x)
  PROVE  Inv'
<1>1. PICK parts \in SUBSET pc.held :
        /\ protect(o, parts) /\ phase \in {"body", "evaluating"} /\ phase' \in {"body", "evaluating"}
        /\ UNCHANGED <<local, result, locals, payload, abandoned>>
  <2>1. CASE Make(o)
    BY <2>1 DEF Make, rust
  <2>2. CASE EvalValue(o)
    BY <2>2 DEF EvalValue, rust
  <2>3. CASE \E x \in Known : eval(o, x)
    <3>1. PICK x \in pc.held : eval(o, x)
      BY <2>3 DEF eval
    <3> QED BY <3>1 DEF eval, rust
  <2> QED BY <2>1, <2>2, <2>3
<1>2. /\ stack' \in Seq(Known \cup {NULL}) /\ pc' \in [counter : Nat, held : SUBSET Known]
      /\ heap' \in SUBSET Known /\ inside' \in [Known -> SUBSET Known]
      /\ Protection' /\ StackAlive' /\ HeapClosed'
  BY <1>1, ProtectKeeps
<1>3. TypeOK'
  BY <1>1, <1>2 DEF Inv, TypeOK, Phases
<1> QED BY <1>1, <1>2, <1>3 DEF Inv, Phased

(* An R function that fails leaves NULL on the stack, counted all the same.  *)
LEMMA EvalErrorStep ==
  ASSUME Inv, EvalError
  PROVE  Inv'
<1>1. /\ phase = "evaluating" /\ phase' = "body" /\ local = NoList
      /\ stack' = Append(stack, NULL)
      /\ UNCHANGED <<local, inside, result, locals, payload, abandoned>>
  BY DEF EvalError, Inv, TypeOK, rust
<1>2. PICK kept \in SUBSET heap : Collected(kept) /\ heap' = kept
  BY DEF EvalError
<1>3. /\ \A i \in 1 .. Len(stack) : stack[i] \in heap' \cup {NULL}
      /\ HeapClosed'
  BY <1>1, <1>2, CollectedKeeps DEF HeapClosed
<1>4. stack \in Seq(Known \cup {NULL}) /\ pc \in [counter : Nat, held : SUBSET Known]
  BY DEF Inv, TypeOK
<1>5. /\ stack' \in Seq(Known \cup {NULL}) /\ Len(stack') = Len(stack) + 1
      /\ stack'[Len(stack) + 1] = NULL
      /\ \A i \in 1 .. Len(stack) : stack'[i] = stack[i]
  BY <1>1, <1>4
<1>6. pc' = [counter |-> pc.counter + 1, held |-> pc.held]
  <2>1. pc' = [pc EXCEPT !.counter = @ + 1, !.held = @ \cup {}]
    BY DEF EvalError, Counted
  <2> QED BY <1>4, <2>1
<1>7. pc' \in [counter : Nat, held : SUBSET Known]
  BY <1>4, <1>6
<1>8. TypeOK'
  BY <1>1, <1>2, <1>5, <1>7 DEF Inv, TypeOK, Phases
<1>9. Protection'
  BY <1>1, <1>4, <1>5, <1>6 DEF Inv, Protection, NoList
<1>10. StackAlive'
  BY <1>3, <1>4, <1>5 DEF StackAlive
<1> QED BY <1>1, <1>3, <1>8, <1>9, <1>10 DEF Inv, Phased

(* Filling lists with no closure.                                            *)
LEMMA SetSteps ==
  ASSUME Inv, NEW l \in Objects,
         \/ \E o \in Objects : set_unchecked(l, o)
         \/ \E x \in Known : set(l, x)
         \/ set_with_pc(l)
  PROVE  Inv'
<1>1. ASSUME NEW o \in Objects, set_unchecked(l, o) PROVE Inv'
  <2>1. /\ phase = "body" /\ l \in pc.held /\ o \notin heap
        /\ inside' = [inside EXCEPT ![o] = {}, ![l] = @ \cup {o}]
        /\ UNCHANGED <<phase, stack, pc, local, result, locals, payload, abandoned>>
    BY <1>1 DEF set_unchecked, Containers, rust
  <2>2. PICK kept \in SUBSET heap : Collected(kept) /\ heap' = kept \cup {o}
    BY <1>1 DEF set_unchecked
  <2>3. /\ \A i \in 1 .. Len(stack) : stack[i] \in kept \cup {NULL}
        /\ \A x \in kept : inside[x] \subseteq kept
        /\ l \in kept
    BY <2>1, <2>2, CollectedKeeps
  <2>4. inside \in [Known -> SUBSET Known] /\ heap \subseteq Known /\ l \in Known /\ o \in Known /\ l # o
    BY <2>1, <2>2, <2>3 DEF Inv, TypeOK, Known
  <2>5. inside'[l] = inside[l] \cup {o} /\ inside'[o] = {} /\ \A x \in Known \ {l, o} : inside'[x] = inside[x]
    BY <2>1, <2>4
  <2>6. inside' \in [Known -> SUBSET Known]
    BY <2>1, <2>4
  <2>7. HeapClosed'
    <3>1. ASSUME NEW x \in heap' PROVE inside'[x] \subseteq heap'
      BY <3>1, <2>2, <2>3, <2>4, <2>5
    <3> QED BY <3>1 DEF HeapClosed
  <2>8. TypeOK'
    BY <2>1, <2>2, <2>4, <2>6 DEF Inv, TypeOK
  <2> QED BY <2>1, <2>2, <2>3, <2>7, <2>8 DEF Inv, Protection, StackAlive, Phased
<1>2. ASSUME NEW x \in Known, set(l, x) PROVE Inv'
  <2>1. /\ l \in heap /\ x \in heap /\ Placed(l, x)
        /\ UNCHANGED <<phase, stack, pc, local, heap, result, locals, payload, abandoned>>
    BY <1>2, HeldAlive DEF set, Containers, rust
  <2>2. /\ inside' \in [Known -> SUBSET Known]
        /\ \A y \in heap : inside'[y] \subseteq heap
    BY <2>1, PlacedKeeps
  <2> QED BY <2>1, <2>2 DEF Inv, TypeOK, Protection, StackAlive, HeapClosed, Phased
<1>3. CASE set_with_pc(l)
  <2>1. /\ phase = "body" /\ phase' = "closure" /\ local = NoList /\ l \in pc.held
        /\ UNCHANGED <<stack, pc, heap, inside, result, locals, payload, abandoned>>
    BY <1>3 DEF set_with_pc, Containers, rust, Inv, TypeOK
  <2>2. local' = [counter |-> 0, held |-> {}, list |-> l]
    BY <1>3 DEF set_with_pc, NoList
  <2>3. TypeOK'
    BY <2>1, <2>2 DEF Inv, TypeOK, Phases
  <2> QED BY <2>1, <2>2, <2>3 DEF Inv, Protection, StackAlive, HeapClosed, Phased, NoList
<1> QED BY <1>1, <1>2, <1>3

(* Inside a closure with a Pc of its own.                                    *)
LEMMA ClosureSteps ==
  ASSUME Inv, NEW o \in Objects,
         MakeInClosure(o) \/ FillAndDrop(o) \/ FillAndLoop(o)
  PROVE  Inv'
<1>1. /\ phase = "closure" /\ local.list \in pc.held /\ local.list \in Objects \cup {NULL}
      /\ local \in [counter : Nat, held : SUBSET Known, list : Objects \cup {NULL}]
      /\ pc \in [counter : Nat, held : SUBSET Known]
      /\ stack \in Seq(Known \cup {NULL})
      /\ Len(stack) = 1 + pc.counter + local.counter /\ stack[1] = Argument
  BY DEF MakeInClosure, FillAndDrop, FillAndLoop, Inv, TypeOK, Phased, Protection
<1>2. local.list \in Objects /\ local.list \in heap
  BY <1>1, HeldAlive, ObjectsAssumption
<1>3. CASE MakeInClosure(o)
  <2>1. /\ Allocated(o, {}) /\ stack' = Append(stack, o)
        /\ UNCHANGED <<phase, pc, result, locals, payload, abandoned>>
    BY <1>3 DEF MakeInClosure, rust
  <2>2. /\ heap' \in SUBSET Known /\ inside' \in [Known -> SUBSET Known]
        /\ o \in heap'
        /\ \A i \in 1 .. Len(stack) : stack[i] \in heap' \cup {NULL}
        /\ HeapClosed'
    BY <2>1, AllocatedKeeps
  <2>3. /\ stack' \in Seq(Known \cup {NULL}) /\ Len(stack') = Len(stack) + 1
        /\ stack'[Len(stack) + 1] = o
        /\ \A i \in 1 .. Len(stack) : stack'[i] = stack[i]
    <3>1. stack \in Seq(Known \cup {NULL}) /\ o \in Known \cup {NULL}
      BY <1>1 DEF Known
    <3>2. stack' = Append(stack, o)
      BY <2>1
    <3> QED BY <3>1, <3>2
  <2>4. local' = [counter |-> local.counter + 1, held |-> local.held \cup {o}, list |-> local.list]
    <3>1. local' = [local EXCEPT !.counter = @ + 1, !.held = @ \cup {o}]
      BY <1>3, ObjectsAssumption DEF MakeInClosure, Counted, Known
    <3> QED BY <1>1, <3>1
  <2>5. TypeOK'
    BY <1>1, <2>1, <2>2, <2>3, <2>4 DEF Inv, TypeOK, Known
  <2>6. Protection'
    <3>1. Len(stack') = 1 + pc'.counter + local'.counter /\ stack'[1] = Argument
      <4>1. pc.counter \in Nat /\ local.counter \in Nat /\ pc' = pc /\ local'.counter = local.counter + 1
        BY <1>1, <2>1, <2>4
      <4>2. Len(stack) = 1 + pc.counter + local.counter /\ 1 \in 1 .. Len(stack)
        BY <1>1, <4>1
      <4>3. stack'[1] = Argument
        BY <1>1, <2>3, <4>2
      <4>4. Len(stack') = 1 + pc'.counter + local'.counter
        BY <2>3, <4>1, <4>2
      <4> QED BY <4>3, <4>4
    <3>2. \A x \in pc'.held : \E i \in 1 .. 1 + pc'.counter : stack'[i] = x
      BY <1>1, <2>1, <2>3 DEF Inv, Protection
    <3>3. ASSUME NEW x \in local'.held PROVE \E i \in 1 .. Len(stack') : stack'[i] = x
      <4>1. CASE x = o
        BY <4>1, <1>1, <2>3
      <4>2. CASE x \in local.held
        <5>1. PICK i \in 1 .. Len(stack) : stack[i] = x
          BY <4>2 DEF Inv, Protection
        <5> QED BY <5>1, <1>1, <2>3
      <4> QED BY <3>3, <4>1, <4>2, <2>4
    <3> QED BY <3>1, <3>2, <3>3 DEF Protection
  <2>7. StackAlive'
    BY <1>1, <2>2, <2>3 DEF StackAlive
  <2> QED BY <1>1, <2>1, <2>2, <2>4, <2>5, <2>6, <2>7 DEF Inv, Phased
<1>4. CASE FillAndDrop(o)
  <2>1. /\ o \in heap /\ Placed(local.list, o) /\ phase' = "body" /\ local' = NoList
        /\ stack' = SubSeq(stack, 1, Len(stack) - local.counter)
        /\ UNCHANGED <<pc, heap, result, locals, payload, abandoned>>
    BY <1>4, HeldAlive DEF FillAndDrop, rust
  <2>2. /\ inside' \in [Known -> SUBSET Known]
        /\ \A y \in heap : inside'[y] \subseteq heap
    BY <1>2, <2>1, PlacedKeeps
  <2>3. Len(stack) - local.counter = 1 + pc.counter /\ 1 + pc.counter \in 1 .. Len(stack)
    BY <1>1
  <2>4. /\ stack' \in Seq(Known \cup {NULL}) /\ Len(stack') = 1 + pc.counter
        /\ \A i \in 1 .. 1 + pc.counter : stack'[i] = stack[i]
    BY <1>1, <2>1, <2>3, PoppedStack
  <2>5. TypeOK'
    BY <1>1, <2>1, <2>2, <2>4, StartTyped DEF Inv, TypeOK, Phases
  <2>6. Protection'
    BY <1>1, <2>1, <2>3, <2>4 DEF Inv, Protection, NoList
  <2>7. StackAlive'
    BY <1>1, <2>1, <2>3, <2>4 DEF Inv, StackAlive
  <2> QED BY <2>1, <2>2, <2>5, <2>6, <2>7 DEF Inv, HeapClosed, Phased
<1>5. CASE FillAndLoop(o)
  <2>1. /\ o \in heap /\ Placed(local.list, o)
        /\ UNCHANGED <<phase, stack, pc, heap, result, locals, payload, abandoned>>
    BY <1>5, HeldAlive DEF FillAndLoop, rust
  <2>2. /\ inside' \in [Known -> SUBSET Known]
        /\ \A y \in heap : inside'[y] \subseteq heap
    BY <1>2, <2>1, PlacedKeeps
  <2>3. local' = [counter |-> local.counter, held |-> {}, list |-> local.list]
    BY <1>1, <1>5 DEF FillAndLoop
  <2>4. TypeOK'
    BY <1>1, <2>1, <2>2, <2>3 DEF Inv, TypeOK
  <2>5. Protection'
    BY <1>1, <2>1, <2>3 DEF Inv, Protection
  <2> QED BY <2>1, <2>2, <2>3, <2>4, <2>5 DEF Inv, StackAlive, HeapClosed, Phased
<1> QED BY <1>3, <1>4, <1>5

(* Out of the body, and back to R.                                           *)
LEMMA ExitSteps ==
  ASSUME Inv,
         \/ Own \/ Return \/ Deliver \/ RefuseArgument \/ Panic
         \/ \E o \in Objects : Message(o)
         \/ RfError \/ RAllocationError
  PROVE  Inv'
<1>1. CASE Own
  <2>1. locals' \in 0 .. MaxLocals /\ UNCHANGED <<phase, stack, pc, local, heap, inside, result, payload, abandoned>>
    BY <1>1 DEF Own
  <2> QED BY <1>1, <2>1 DEF Own, Inv, TypeOK, Protection, StackAlive, HeapClosed, Phased
<1>2. CASE Return
  <2>1. /\ Unwound /\ phase' = "returned" /\ result' \in pc.held /\ result' \in heap
        /\ UNCHANGED <<heap, inside, payload, abandoned>>
    BY <1>2, HeldAlive DEF Return
  <2>2. /\ stack' = CallerStack /\ stack' \in Seq(Known \cup {NULL})
        /\ pc' = NewPc /\ local' = NoList /\ locals' \in 0 .. MaxLocals /\ locals' = 0
        /\ Protection' /\ Argument \in heap
    BY <2>1, UnwoundKeeps DEF Unwound
  <2>3. TypeOK'
    BY <2>1, <2>2, StartTyped DEF Inv, TypeOK, Phases
  <2> QED BY <2>1, <2>2, <2>3 DEF Inv, StackAlive, HeapClosed, Phased, CallerStack
<1>3. CASE Deliver
  <2>1. /\ phase' = "idle" /\ result' = NULL /\ heap' = {Argument} /\ inside' = Empty
        /\ pc = NewPc /\ local = NoList
        /\ UNCHANGED <<stack, pc, local, locals, payload, abandoned>>
    BY <1>3 DEF Deliver, rust, Inv, TypeOK
  <2>2. TypeOK' /\ Protection'
    BY <1>3, <2>1, StartTyped DEF Deliver, Inv, TypeOK, Phases, Protection
  <2>3. StackAlive'
    <3>1. Len(stack) = 1 + pc.counter + local.counter /\ stack[1] = Argument
      BY DEF Inv, Protection
    <3>2. pc.counter = 0 /\ local.counter = 0
      BY <2>1 DEF NewPc, NoList
    <3>3. Len(stack) = 1
      BY <3>1, <3>2
    <3>4. stack' = stack /\ heap' = {Argument}
      BY <2>1
    <3>5. \A i \in 1 .. Len(stack) : i = 1
      BY <3>3
    <3>6. \A i \in 1 .. Len(stack) : stack[i] \in {Argument}
      BY <3>1, <3>5
    <3> QED BY <3>4, <3>6 DEF StackAlive
  <2>4. HeapClosed'
    BY <2>1 DEF HeapClosed, Empty, Known
  <2> QED BY <2>1, <2>2, <2>3, <2>4 DEF Inv, Phased
<1>4. CASE Panicked
  <2>1. /\ Unwound /\ phase' = "caught" /\ payload' = TRUE
        /\ UNCHANGED <<heap, inside, result, abandoned>>
    BY <1>4 DEF Panicked
  <2>2. /\ stack' = CallerStack /\ stack' \in Seq(Known \cup {NULL})
        /\ pc' = NewPc /\ local' = NoList /\ locals' \in 0 .. MaxLocals /\ locals' = 0
        /\ Protection' /\ Argument \in heap
    BY <2>1, UnwoundKeeps DEF Unwound
  <2>3. TypeOK'
    BY <2>1, <2>2, StartTyped DEF Inv, TypeOK, Phases
  <2> QED BY <2>1, <2>2, <2>3 DEF Inv, StackAlive, HeapClosed, Phased, CallerStack
<1>5. ASSUME NEW o \in Objects, Message(o) PROVE Inv'
  <2>1. /\ Allocated(o, {}) /\ phase = "caught" /\ phase' = "message" /\ result' = o
        /\ UNCHANGED <<stack, pc, local, locals, payload, abandoned>>
    BY <1>5 DEF Message, rust
  <2>2. /\ heap' \in SUBSET Known /\ inside' \in [Known -> SUBSET Known]
        /\ o \in heap'
        /\ \A i \in 1 .. Len(stack) : stack[i] \in heap' \cup {NULL}
        /\ HeapClosed'
    BY <2>1, AllocatedKeeps
  <2>3. TypeOK'
    BY <2>1, <2>2 DEF Inv, TypeOK, Phases, Known
  <2> QED BY <2>1, <2>2, <2>3 DEF Inv, Protection, StackAlive, Phased
<1>6. CASE RfError
  <2>1. LongJump /\ abandoned' = 0
    BY <1>6 DEF RfError, Inv, TypeOK, Phased
  <2> QED BY <2>1, LongJumpKeeps
<1>7. CASE RAllocationError
  <2>1. LongJump /\ abandoned' = 0
    BY <1>7 DEF RAllocationError, Inv, Phased
  <2> QED BY <2>1, LongJumpKeeps
<1> QED BY <1>1, <1>2, <1>3, <1>4, <1>5, <1>6, <1>7 DEF RefuseArgument, Panic

LEMMA InvStep == Inv /\ [Next]_vars => Inv'
<1> SUFFICES ASSUME Inv, [Next]_vars PROVE Inv'
  OBVIOUS
<1>1. CASE UNCHANGED vars
  BY <1>1 DEF vars, Inv, TypeOK, Protection, StackAlive, HeapClosed, Phased
<1>2. CASE Next
  <2>1. CASE \/ \E kind \in Kinds, v \in RValues : Enter(kind, v)
             \/ ReadArgument \/ Body \/ \E o \in Objects : CoerceArgument(o)
    BY <2>1, ArgumentSteps
  <2>2. CASE \E o \in Objects : Make(o) \/ EvalValue(o) \/ \E x \in Known : eval(o, x)
    BY <2>2, BodySteps
  <2>3. CASE EvalError
    BY <2>3, EvalErrorStep
  <2>4. CASE \E l \in Objects :
               \/ \E o \in Objects : set_unchecked(l, o)
               \/ \E x \in Known : set(l, x)
               \/ set_with_pc(l)
    BY <2>4, SetSteps
  <2>5. CASE \E o \in Objects : MakeInClosure(o) \/ FillAndDrop(o) \/ FillAndLoop(o)
    BY <2>5, ClosureSteps
  <2>6. CASE \/ Own \/ Return \/ Deliver \/ RefuseArgument \/ Panic
             \/ \E o \in Objects : Message(o)
             \/ RfError \/ RAllocationError
    BY <2>6, ExitSteps
  <2> QED BY <1>2, <2>1, <2>2, <2>3, <2>4, <2>5, <2>6 DEF Next
<1> QED BY <1>1, <1>2

(* The counters and R's stack agree in every state of every call.            *)
THEOREM RoxidoInvariant == Spec => []Inv
<1> QED BY InvInit, InvStep, PTL DEF Spec

(* Types, and the spans a Pc, its references and Rust values live for.       *)
THEOREM RoxidoTypeOK == Spec => []TypeOK
<1>1. Inv => TypeOK
  BY DEF Inv
<1> QED BY <1>1, RoxidoInvariant, PTL

(* For calls of any depth, whichever way they end, R's protect stack is left *)
(* as the caller had it.                                                      *)
THEOREM RoxidoStackBalanced == Spec => []StackBalanced
<1>1. Inv => StackBalanced
  <2> SUFFICES ASSUME Inv, phase \in {"idle", "arguments", "returned", "caught", "message"}
               PROVE  stack = CallerStack
    BY DEF StackBalanced
  <2>1. pc.counter = 0 /\ local.counter = 0
    BY DEF Inv, TypeOK, Phased, NewPc, NoList
  <2>2. stack \in Seq(Known \cup {NULL}) /\ Len(stack) = 1 /\ stack[1] = Argument
    BY <2>1 DEF Inv, TypeOK, Protection
  <2> QED BY <2>2 DEF CallerStack
<1> QED BY <1>1, RoxidoInvariant, PTL

(* Whatever the collector takes and whenever, nothing that Rust refers to or *)
(* returns is taken, nor anything inside it.                                  *)
THEOREM RoxidoNothingDangles == Spec => []NothingDangles
<1>1. Inv => NothingDangles
  BY HeldAlive DEF NothingDangles, Inv, HeapClosed, Phased
<1> QED BY <1>1, RoxidoInvariant, PTL

(* The wrapper never jumps over a Rust value.                                *)
THEOREM RoxidoPanicAbandonsNothing == Spec => []PanicAbandonsNothing
<1>1. Inv => PanicAbandonsNothing
  BY DEF PanicAbandonsNothing, Inv, Phased
<1> QED BY <1>1, RoxidoInvariant, PTL

-----------------------------------------------------------------------------
(* The argument of a call.                                                   *)

(* Up to Exact a double is the number itself.                                *)
LEMMA ExactDouble ==
  ASSUME NEW z \in Nat, z <= Exact
  PROVE  AsDouble(z) = z
<1> DEFINE S == {p \in Gaps : z <= Exact * p}
           gap == Min(S)
<1>1. Exact \in Nat /\ 1 \in S
  BY WidthAssumption DEF Gaps
<1>2. \A p \in S : p \in Nat /\ 1 <= p
  BY DEF Gaps
<1> HIDE DEF S
<1>3. gap \in S /\ gap <= 1
  <2>1. \E x \in S : \A y \in S : x <= y
    BY <1>1, <1>2
  <2> QED BY <1>1, <2>1 DEF Min
<1>4. gap = 1
  BY <1>2, <1>3
<1>5. z \div 1 = z /\ z % 1 = 0
  OBVIOUS
<1> HIDE DEF gap
<1>6. AsDouble(z) = gap * (IF 2 * (z % gap) > gap \/ (2 * (z % gap) = gap /\ (z \div gap) % 2 = 1)
                           THEN (z \div gap) + 1 ELSE z \div gap)
  BY DEF AsDouble, gap, S
<1> QED BY <1>4, <1>5, <1>6

(* A double cast to a byte is a byte.                                        *)
LEMMA SaturatedByte ==
  ASSUME NEW d \in Int \cup {NaN, Inf}
  PROVE  Saturated(d, ByteMax) \in 0 .. ByteMax
<1>1. ByteMax \in Nat
  BY WidthAssumption
<1>2. ASSUME NEW x \in Int, NEW y \in Int
      PROVE  /\ Min({x, y}) = (IF x <= y THEN x ELSE y)
             /\ Max({x, y}) = (IF x >= y THEN x ELSE y)
  <2>1. \A m \in Int : (m \in {x, y} /\ \A n \in {x, y} : m <= n) => m = (IF x <= y THEN x ELSE y)
    OBVIOUS
  <2>2. \A m \in Int : (m \in {x, y} /\ \A n \in {x, y} : m >= n) => m = (IF x >= y THEN x ELSE y)
    OBVIOUS
  <2> QED BY <2>1, <2>2 DEF Min, Max
<1>3. ASSUME d \in Int PROVE Truncated(d) \in Int
  BY <1>3 DEF Truncated
<1>4. CASE d = NaN
  BY <1>1, <1>4 DEF Saturated
<1>5. CASE d # NaN /\ d = Inf
  BY <1>1, <1>5 DEF Saturated
<1>6. CASE d # NaN /\ d # Inf
  <2>1. Saturated(d, ByteMax) = Max({0, Min({Truncated(d), ByteMax})})
    BY <1>6 DEF Saturated
  <2> DEFINE t == Truncated(d)
  <2>2. t \in Int
    BY <1>3, <1>6
  <2> HIDE DEF t
  <2>3. Min({t, ByteMax}) \in Int /\ Min({t, ByteMax}) <= ByteMax
    BY <1>1, <1>2, <2>2
  <2> DEFINE m == Min({t, ByteMax})
  <2>4. m \in Int /\ m <= ByteMax /\ Saturated(d, ByteMax) = Max({0, m})
    BY <2>1, <2>3 DEF t
  <2> HIDE DEF m
  <2>5. Max({0, m}) = (IF 0 >= m THEN 0 ELSE m)
    BY <1>2, <2>4
  <2> QED BY <1>1, <2>4, <2>5
<1> QED BY <1>4, <1>5, <1>6

(* What passes the wrapper's coercion and the check as an integer is the     *)
(* whole part of what was meant.                                             *)
LEMMA CoercedSurvives ==
  ASSUME NEW kind \in {"i32", "usize"}, NEW v, IsRValue(v), Accepts(kind, Passed(kind, v))
  PROVE  /\ v.length = 1
         /\ Received(kind, Passed(kind, v)) = Truncated(v.halves)
         /\ Received(kind, Passed(kind, v)) # IntMin
<1> DEFINE w == AsInteger(v)
<1>1. /\ Passed(kind, v) = w
      /\ IntMax \in Nat /\ IntMin \in Int /\ IntMin < 0 /\ IntMin = -IntMax - 1
  <2>1. Passed(kind, v) = AsInteger(v)
    BY DEF Passed
  <2>2. IntMax \in Nat /\ IntMin = -IntMax - 1
    BY WidthAssumption DEF IntMin
  <2> QED BY <2>1, <2>2
<1>2. w.mode = "integer" /\ w.length = v.length
  BY DEF AsInteger, NAInteger, RValue, IsRValue
<1>3. v.length = 1 /\ w.length = 1
  BY <1>1, <1>2 DEF Accepts, as_scalar
<1>4. \E n \in Int : w.halves = 2 * n /\ (n # IntMin => n = Truncated(v.halves))
  <2>1. CASE v.mode = "integer"
    <3>1. PICK n \in IntMin .. IntMax : v.halves = 2 * n
      BY <1>3, <2>1 DEF IsRValue
    <3>2. w.halves = v.halves
      BY <2>1 DEF AsInteger, IsRValue, RValue
    <3>3. n = Truncated(v.halves)
      BY <1>1, <3>1 DEF Truncated
    <3> QED BY <1>1, <3>1, <3>2, <3>3
  <2>2. CASE v.mode # "integer" /\ w = NAInteger
    BY <1>1, <2>2 DEF NAInteger, RValue
  <2>3. CASE v.mode # "integer" /\ w # NAInteger
    <3>1. w = RValue("integer", 1, 2 * Truncated(v.halves)) /\ v.halves \notin Special
      BY <1>3, <2>3 DEF AsInteger
    <3>2. v.halves \in Int
      BY <1>3, <3>1 DEF IsRValue, Special
    <3>3. Truncated(v.halves) \in Int
      BY <3>2 DEF Truncated
    <3> QED BY <3>1, <3>3 DEF RValue
  <2> QED BY <2>1, <2>2, <2>3
<1>5. PICK n \in Int : w.halves = 2 * n /\ (n # IntMin => n = Truncated(v.halves))
  BY <1>4
<1> HIDE DEF w
<1>6. (2 * n) \div 2 = n
  OBVIOUS
<1>7. CASE kind = "i32"
  <2>1. w.halves # 2 * IntMin
    BY <1>1, <1>2, <1>7 DEF Accepts, AcceptsI32
  <2>2. Received(kind, w) = n
    BY <1>2, <1>5, <1>6, <1>7 DEF Received, I32
  <2> QED BY <1>1, <1>3, <1>5, <2>1, <2>2
<1>8. CASE kind = "usize"
  <2>1. w.halves \in 0 .. 2 * SizeMax
    BY <1>1, <1>2, <1>8 DEF Accepts, AcceptsUnsigned
  <2>2. Received(kind, w) = n
    BY <1>2, <1>5, <1>6, <1>8 DEF Received, Unsigned
  <2>3. n >= 0
    BY <1>5, <2>1, WidthAssumption
  <2> QED BY <1>1, <1>3, <1>5, <2>2, <2>3
<1> QED BY <1>7, <1>8

(* A byte that passes the check is what was passed.                          *)
LEMMA ByteSurvives ==
  ASSUME NEW v, IsRValue(v), Accepts("u8", v)
  PROVE  2 * Received("u8", v) = v.halves
<1>1. v.length = 1 /\ AcceptsUnsigned(v, ByteMax) /\ Received("u8", v) = Unsigned(v, ByteMax)
  BY DEF Accepts, as_scalar, Received
<1>2. CASE v.mode = "double"
  <2> DEFINE s == Saturated(v.halves, ByteMax)
  <2>1. s \in 0 .. ByteMax
    BY <1>1, <1>2, SaturatedByte DEF IsRValue
  <2>2. Received("u8", v) = s /\ 2 * AsDouble(s) = v.halves
    BY <1>1, <1>2 DEF AcceptsUnsigned, Unsigned
  <2> HIDE DEF s
  <2>3. s \in Nat /\ s <= Exact
    BY <2>1, WidthAssumption
  <2>4. AsDouble(s) = s
    BY <2>3, ExactDouble
  <2> QED BY <2>2, <2>4
<1>3. CASE v.mode # "double"
  <2>1. \E i \in Int : v.halves = 2 * i
    BY <1>1, <1>3, WidthAssumption DEF AcceptsUnsigned, IsRValue, IntMin
  <2>2. \A i \in Int : (2 * i) \div 2 = i
    OBVIOUS
  <2>3. Received("u8", v) = v.halves \div 2
    BY <1>1, <1>3 DEF Unsigned
  <2> QED BY <2>1, <2>2, <2>3
<1> QED BY <1>2, <1>3

(* A truth value that passes the check is none that is missing.               *)
LEMMA TruthSurvives ==
  ASSUME NEW v, IsRValue(v), Accepts("bool", v)
  PROVE  ~Missing(v) /\ (Received("bool", v) <=> v.halves # 0)
<1>1. v.length = 1 /\ AcceptsBool(v) /\ Received("bool", v) = (v.halves # 0)
  BY DEF Accepts, as_scalar, Received
<1>2. CASE v.mode \in {"integer", "logical"}
  <2>1. v.halves \in Int /\ v.halves # 2 * IntMin
    BY <1>1, <1>2, WidthAssumption DEF AcceptsBool, IsRValue, IntMin
  <2> QED BY <1>1, <1>2, <2>1, SpecialAssumption DEF Missing, Special
<1>3. CASE v.mode = "double"
  BY <1>1, <1>3 DEF AcceptsBool, Missing
<1>4. CASE v.mode = "raw"
  <2>1. v.halves \in Int
    BY <1>1, <1>4, WidthAssumption DEF IsRValue
  <2> QED BY <1>1, <1>4, <2>1, SpecialAssumption DEF Missing, Special
<1> QED BY <1>1, <1>2, <1>3, <1>4 DEF AcceptsBool

(* From the wrapper's coercion to the body: what is checked is what was      *)
(* passed on, and what is read passed the check.                             *)
Looked ==
  phase \in {"arguments", "read"} =>
    /\ argument.kind \in Kinds /\ argument.meant \in RValues
    /\ argument.passed = Passed(argument.kind, argument.meant)
    /\ phase = "read" =>
         /\ Accepts(argument.kind, argument.passed)
         /\ received = Received(argument.kind, argument.passed)

LEMMA LookedStep == Looked /\ [Next]_vars => Looked'
<1> SUFFICES ASSUME Looked, [Next]_vars PROVE Looked'
  OBVIOUS
<1>1. ASSUME NEW kind \in Kinds, NEW v \in RValues, Enter(kind, v) PROVE Looked'
  BY <1>1 DEF Enter, Looked
<1>2. CASE ReadArgument \/ \E o \in Objects : CoerceArgument(o)
  BY <1>2 DEF ReadArgument, CoerceArgument, Read, Looked
<1>3. CASE \/ Body \/ EvalError \/ Own \/ Return \/ Deliver \/ RefuseArgument \/ Panic
           \/ RfError \/ RAllocationError
  <2>1. phase' \notin {"arguments", "read"}
    BY <1>3 DEF Body, EvalError, Own, Return, Deliver, RefuseArgument, Panic, Panicked,
                RfError, RAllocationError, LongJump
  <2> QED BY <2>1 DEF Looked
<1>4. ASSUME NEW o \in Objects,
             \/ Make(o) \/ MakeInClosure(o) \/ EvalValue(o) \/ Message(o)
             \/ FillAndDrop(o) \/ FillAndLoop(o) \/ set_with_pc(o)
             \/ \E l \in Objects : set_unchecked(l, o)
             \/ \E x \in Known : set(o, x) \/ eval(o, x)
      PROVE  Looked'
  <2>1. phase' \notin {"arguments", "read"}
    BY <1>4 DEF Make, MakeInClosure, EvalValue, Message, FillAndDrop, FillAndLoop, set_with_pc,
                set_unchecked, set, eval
  <2> QED BY <2>1 DEF Looked
<1>5. CASE UNCHANGED vars
  BY <1>5 DEF vars, Looked
<1> QED BY <1>1, <1>2, <1>3, <1>4, <1>5 DEF Next

(* For every width of R's and Rust's numbers and whatever an R program       *)
(* passes, the number the body gets is the one that was written, cut to a    *)
(* whole one for an integer.                                                 *)
THEOREM RoxidoNumberSurvives == Spec => []NumberSurvives
<1>1. Init => Looked
  BY DEF Init, Looked
<1>2. Looked => NumberSurvives
  <2> SUFFICES ASSUME Looked, phase = "read" PROVE NumberSurvives
    BY DEF NumberSurvives
  <2> DEFINE kind == argument.kind
             v    == argument.meant
  <2>1. /\ kind \in Kinds /\ v \in RValues
        /\ Accepts(kind, Passed(kind, v)) /\ received = Received(kind, Passed(kind, v))
    BY DEF Looked
  <2>2. IsRValue(v)
    BY <2>1, RValuesAssumption
  <2> HIDE DEF kind, v
  <2>3. v.length = 1
    <3>1. Passed(kind, v).length = 1
      BY <2>1 DEF Accepts, as_scalar
    <3>2. CASE kind \in {"i32", "usize"}
      BY <2>1, <2>2, <3>2, CoercedSurvives
    <3>3. CASE kind = "coerced str"
      BY <2>2, <3>1, <3>3 DEF Passed, AsCharacter, IsRValue, RValue
    <3>4. CASE kind \notin {"i32", "usize", "coerced str"}
      BY <3>1, <3>4 DEF Passed
    <3> QED BY <3>2, <3>3, <3>4
  <2>4. kind \in {"i32", "usize"} => received = Truncated(v.halves) /\ received # IntMin
    BY <2>1, <2>2, CoercedSurvives
  <2>5. kind \in {"u8", "bool"} => Passed(kind, v) = v
    BY DEF Passed
  <2>6. kind = "u8" => 2 * received = v.halves
    BY <2>1, <2>2, <2>5, ByteSurvives
  <2>7. kind = "bool" => ~Missing(v) /\ (received <=> v.halves # 0)
    BY <2>1, <2>2, <2>5, TruthSurvives
  <2> QED BY <2>3, <2>4, <2>6, <2>7 DEF NumberSurvives, kind, v
<1> QED BY <1>1, <1>2, LookedStep, PTL DEF Spec

-----------------------------------------------------------------------------
(* External pointers.                                                        *)

(* The inductive invariant: a box not yet allocated has no history.         *)
Untouched == \A b \in Boxes \ allocated : InUse(b)

PointerInv == PointerTypeOK /\ BorrowsAreLive /\ GivenBackOnce /\ Untouched

(* No other handle reaches the box of an existing one.                      *)
LEMMA SoleOwner ==
  ASSUME PointerInv, NEW p \in Pointers, Exists(p), pointer[p].address # Null
  PROVE  /\ pointer[p].address \in allocated /\ pointer[p].address \in Boxes
         /\ InUse(pointer[p].address)
         /\ \A q \in Pointers \ {p} : Exists(q) => pointer[q].address # pointer[p].address
  BY DEF PointerInv, PointerTypeOK, BorrowsAreLive, ExternalPointer, Exists

LEMMA PointerInitInv == PointerInit => PointerInv
  BY DEF PointerInit, PointerInv, PointerTypeOK, BorrowsAreLive, GivenBackOnce, Untouched, Exists, InUse

(* A pointer takes address r.address and is otherwise as record r says,     *)
(* while nothing is given back: enough that the address is null, or was     *)
(* this pointer's before, or is newly allocated.                            *)
LEMMA PointerSet ==
  ASSUME PointerInv, NEW p \in Pointers, NEW r \in ExternalPointer,
         pointer' = [pointer EXCEPT ![p] = r],
         r.managed /\ r.address # Null => r.finalizers > 0,
         UNCHANGED <<freed, returned>>,
         \/ r.address = Null /\ UNCHANGED allocated
         \/ Exists(p) /\ r.address = pointer[p].address /\ UNCHANGED allocated
         \/ r.address \in Boxes \ allocated /\ allocated' = allocated \cup {r.address}
  PROVE  PointerInv'
<1>1. /\ pointer'[p] = r /\ \A q \in Pointers \ {p} : pointer'[q] = pointer[q]
      /\ allocated \subseteq allocated' /\ allocated' \subseteq Boxes
  BY DEF PointerInv, PointerTypeOK
<1>2. PointerTypeOK'
  BY <1>1 DEF PointerInv, PointerTypeOK, Exists
<1>3. r.address # Null => r.address \in allocated' /\ InUse(r.address)
  BY SoleOwner DEF PointerInv, Untouched
<1>4. \A q \in Pointers \ {p} :
        Exists(q) => pointer[q].address # r.address \/ r.address = Null
  <2>1. ASSUME NEW q \in Pointers \ {p}, Exists(q), r.address # Null
        PROVE  pointer[q].address # r.address
    <3>1. CASE r.address \in Boxes \ allocated
      BY <2>1, <3>1 DEF PointerInv, BorrowsAreLive
    <3>2. CASE Exists(p) /\ r.address = pointer[p].address
      BY <2>1, <3>2, SoleOwner
    <3> QED
      BY <2>1, <3>1, <3>2
  <2> QED
    BY <2>1
<1>5. BorrowsAreLive'
  <2>1. ASSUME NEW q \in Pointers, Exists(q)', pointer'[q].address # Null
        PROVE  pointer'[q].address \in allocated' /\ InUse(pointer'[q].address)
    BY <2>1, <1>1, <1>3 DEF PointerInv, BorrowsAreLive, Exists
  <2>2. ASSUME NEW q1 \in Pointers, NEW q2 \in Pointers, Exists(q1)', Exists(q2)',
               pointer'[q1].address = pointer'[q2].address
        PROVE  q1 = q2 \/ pointer'[q1].address = Null
    BY <2>2, <1>1, <1>4 DEF PointerInv, BorrowsAreLive, Exists
  <2> QED
    BY <2>1, <2>2 DEF BorrowsAreLive, InUse
<1>6. GivenBackOnce' /\ Untouched'
  BY <1>1 DEF PointerInv, GivenBackOnce, Untouched, InUse
<1> QED
  BY <1>2, <1>5, <1>6 DEF PointerInv

(* The box of a pointer is given back, in either way, while the pointer is  *)
(* cleared: no other pointer reached it.                                    *)
LEMMA BoxGivenBack ==
  ASSUME PointerInv, NEW p \in Pointers, Exists(p), NEW r \in ExternalPointer,
         r.address = Null, pointer' = [pointer EXCEPT ![p] = r],
         NEW b \in Boxes, b = pointer[p].address, UNCHANGED allocated,
         \/ freed' = [freed EXCEPT ![b] = @ + 1] /\ UNCHANGED returned
         \/ returned' = [returned EXCEPT ![b] = @ + 1] /\ UNCHANGED freed
  PROVE  PointerInv'
<1>1. /\ b # Null /\ b \in allocated /\ InUse(b)
      /\ \A q \in Pointers \ {p} : Exists(q) => pointer[q].address # b
  BY SoleOwner, ValuesAssumption
<1>2. /\ pointer'[p] = r /\ \A q \in Pointers \ {p} : pointer'[q] = pointer[q]
  BY DEF PointerInv, PointerTypeOK
<1>3. \A c \in Boxes \ {b} : freed'[c] = freed[c] /\ returned'[c] = returned[c]
  BY DEF PointerInv, PointerTypeOK
<1>4. freed'[b] + returned'[b] <= 1
  BY <1>1 DEF PointerInv, PointerTypeOK, InUse
<1>5. PointerTypeOK'
  <2>1. freed' \in [Boxes -> Nat] /\ returned' \in [Boxes -> Nat]
    BY DEF PointerInv, PointerTypeOK
  <2> QED
    BY <2>1, <1>2 DEF PointerInv, PointerTypeOK, Exists
<1>6. BorrowsAreLive'
  <2>1. ASSUME NEW q \in Pointers, Exists(q)', pointer'[q].address # Null
        PROVE  /\ pointer'[q].address \in allocated'
               /\ freed'[pointer'[q].address] = 0 /\ returned'[pointer'[q].address] = 0
    <3>1. q # p /\ Exists(q) /\ pointer'[q] = pointer[q]
      BY <2>1, <1>2 DEF Exists
    <3>2. /\ pointer[q].address \in allocated \ {b} /\ pointer[q].address \in Boxes
          /\ InUse(pointer[q].address)
      BY <2>1, <3>1, <1>1, SoleOwner
    <3> QED
      BY <3>1, <3>2, <1>3 DEF InUse
  <2>2. ASSUME NEW q1 \in Pointers, NEW q2 \in Pointers, Exists(q1)', Exists(q2)',
               pointer'[q1].address = pointer'[q2].address
        PROVE  q1 = q2 \/ pointer'[q1].address = Null
    BY <2>2, <1>2 DEF PointerInv, BorrowsAreLive, Exists
  <2> QED
    BY <2>1, <2>2 DEF BorrowsAreLive, InUse
<1>7. GivenBackOnce'
  BY <1>3, <1>4 DEF PointerInv, GivenBackOnce
<1>8. Untouched'
  BY <1>1, <1>3 DEF PointerInv, Untouched, InUse
<1> QED
  BY <1>5, <1>6, <1>7, <1>8 DEF PointerInv

-----------------------------------------------------------------------------

LEMMA PointerStepInv ==
  ASSUME PointerInv, [PointerNext]_pointerVars
  PROVE  PointerInv'
<1>0. \A p \in Pointers : Exists(p) =>
        /\ pointer[p] \in ExternalPointer
        /\ pointer[p].managed /\ pointer[p].address # Null => pointer[p].finalizers > 0
  BY DEF PointerInv, PointerTypeOK, Exists
<1>1. ASSUME NEW p \in Pointers, NEW managed \in BOOLEAN, encode_full(p, managed)
      PROVE  PointerInv'
  <2>1. PICK b \in Boxes \ allocated :
          allocated' = allocated \cup {b} /\ Made(p, b, managed, IF managed THEN 1 ELSE 0)
    BY <1>1 DEF encode_full
  <2> DEFINE r == [address |-> b, managed |-> managed,
                   finalizers |-> IF managed THEN 1 ELSE 0,
                   reachable |-> TRUE, hooked |-> FALSE]
  <2>2. r \in ExternalPointer /\ r.address = b /\ (r.managed => r.finalizers > 0)
    BY DEF ExternalPointer
  <2>3. pointer' = [pointer EXCEPT ![p] = r]
    BY <2>1 DEF Made
  <2> HIDE DEF r
  <2> QED
    BY <2>1, <2>2, <2>3, <1>1, PointerSet DEF encode_full
<1>2. ASSUME NEW p \in Pointers, NEW saved \in Pointers, Unserialize(p, saved)
      PROVE  PointerInv'
  <2> DEFINE r == [address |-> Null, managed |-> pointer[saved].managed, finalizers |-> 0,
                   reachable |-> TRUE, hooked |-> FALSE]
  <2>1. r \in ExternalPointer /\ r.address = Null
    BY <1>0, <1>2 DEF Unserialize, Held, ExternalPointer
  <2>2. pointer' = [pointer EXCEPT ![p] = r]
    BY <1>2 DEF Unserialize, Made
  <2> HIDE DEF r
  <2> QED
    BY <2>1, <2>2, <1>2, PointerSet DEF Unserialize
<1>3. ASSUME NEW p \in Pointers, reencode(p)
      PROVE  PointerInv'
  <2>1. PICK b \in Boxes \ allocated :
          /\ allocated' = allocated \cup {b}
          /\ pointer' = [pointer EXCEPT
               ![p].address = b,
               ![p].finalizers = IF pointer[p].managed THEN @ + 1 ELSE @]
    BY <1>3 DEF reencode
  <2> DEFINE r == [pointer[p] EXCEPT
                     !.address = b,
                     !.finalizers = IF pointer[p].managed THEN @ + 1 ELSE @]
  <2>2. r \in ExternalPointer /\ r.address = b /\ (r.managed => r.finalizers > 0)
    <3>1. pointer[p] \in ExternalPointer /\ pointer[p].finalizers \in Nat
      BY <1>0, <1>3 DEF reencode, Held, ExternalPointer
    <3> DEFINE n == IF pointer[p].managed THEN pointer[p].finalizers + 1
                    ELSE pointer[p].finalizers
    <3>2. n \in Nat /\ (pointer[p].managed => n > 0)
      BY <3>1
    <3>3. r = [pointer[p] EXCEPT !.address = b, !.finalizers = n]
      OBVIOUS
    <3> HIDE DEF n
    <3>4. /\ [pointer[p] EXCEPT !.address = b, !.finalizers = n] \in ExternalPointer
          /\ [pointer[p] EXCEPT !.address = b, !.finalizers = n].address = b
          /\ [pointer[p] EXCEPT !.address = b, !.finalizers = n].finalizers = n
          /\ [pointer[p] EXCEPT !.address = b, !.finalizers = n].managed = pointer[p].managed
      BY <3>1, <3>2 DEF ExternalPointer
    <3> HIDE DEF r
    <3> QED
      BY <3>2, <3>3, <3>4
  <2>3. pointer' = [pointer EXCEPT ![p] = r]
    BY <2>1
  <2> HIDE DEF r
  <2> QED
    BY <2>1, <2>2, <2>3, <1>3, PointerSet DEF reencode
<1>4. ASSUME NEW p \in Pointers, decode_val(p)
      PROVE  PointerInv'
  <2> DEFINE r == [pointer[p] EXCEPT !.address = Null]
  <2>1. r \in ExternalPointer /\ r.address = Null /\ Exists(p)
    BY <1>0, <1>4 DEF decode_val, Held, ExternalPointer
  <2>2. pointer[p].address \in Boxes
    BY <2>1, <1>4, SoleOwner DEF decode_val
  <2> HIDE DEF r
  <2> QED
    BY <2>1, <2>2, <1>4, BoxGivenBack DEF decode_val, r
<1>5. ASSUME NEW p \in Pointers, Hook(p) \/ Drop(p) \/ RunHook(p)
      PROVE  PointerInv'
  <2>1. PICK hooked \in BOOLEAN, reachable \in BOOLEAN :
          pointer' = [pointer EXCEPT
            ![p] = [@ EXCEPT !.hooked = hooked, !.reachable = reachable]]
    <3>1. /\ Exists(p) /\ pointer[p] \in ExternalPointer
      BY <1>0, <1>5 DEF Hook, Drop, RunHook, Held
    <3>2. CASE Hook(p)
      <4>1. [pointer[p] EXCEPT !.hooked = TRUE]
              = [pointer[p] EXCEPT !.hooked = TRUE, !.reachable = TRUE]
        BY <3>1, <3>2 DEF Hook, Held, ExternalPointer
      <4> QED
        BY <4>1, <3>2 DEF Hook
    <3>3. CASE Drop(p)
      <4>1. PICK hooked \in BOOLEAN : hooked = pointer[p].hooked
        BY <3>1 DEF ExternalPointer
      <4>2. [pointer[p] EXCEPT !.reachable = FALSE]
              = [pointer[p] EXCEPT !.hooked = hooked, !.reachable = FALSE]
        BY <3>1, <4>1 DEF ExternalPointer
      <4> QED
        BY <4>2, <3>3 DEF Drop
    <3>4. CASE RunHook(p)
      BY <3>4 DEF RunHook
    <3> QED
      BY <3>2, <3>3, <3>4, <1>5
  <2> DEFINE r == [pointer[p] EXCEPT !.hooked = hooked, !.reachable = reachable]
  <2>2. /\ Exists(p) /\ r \in ExternalPointer /\ r.address = pointer[p].address
        /\ r.managed /\ r.address # Null => r.finalizers > 0
    BY <1>0, <1>5 DEF Hook, Drop, RunHook, Held, ExternalPointer
  <2>3. pointer' = [pointer EXCEPT ![p] = r] /\ UNCHANGED <<allocated, freed, returned>>
    BY <2>1, <1>5 DEF Hook, Drop, RunHook
  <2> HIDE DEF r
  <2> QED
    BY <2>2, <2>3, PointerSet
<1>6. ASSUME NEW p \in Pointers, free(p)
      PROVE  PointerInv'
  <2> DEFINE r == [pointer[p] EXCEPT !.address = Null, !.finalizers = @ - 1]
  <2>1. r \in ExternalPointer /\ r.address = Null /\ Exists(p)
    <3>1. Exists(p) /\ pointer[p] \in ExternalPointer /\ pointer[p].finalizers - 1 \in Nat
      BY <1>0, <1>6 DEF free, ExternalPointer
    <3> DEFINE n == pointer[p].finalizers - 1
    <3> HIDE DEF n
    <3>2. /\ [pointer[p] EXCEPT !.address = Null, !.finalizers = n] \in ExternalPointer
          /\ [pointer[p] EXCEPT !.address = Null, !.finalizers = n].address = Null
      <4>1. n \in Nat
        BY <3>1 DEF n
      <4> QED
        BY <3>1, <4>1 DEF ExternalPointer
    <3> QED
      BY <3>1, <3>2 DEF n
  <2>2. pointer' = [pointer EXCEPT ![p] = r] /\ UNCHANGED <<allocated, returned>>
    BY <1>6 DEF free
  <2> HIDE DEF r
  <2>3. CASE pointer[p].address = Null
    BY <2>1, <2>2, <2>3, <1>6, PointerSet DEF free
  <2>4. CASE pointer[p].address # Null
    <3>1. pointer[p].address \in Boxes
      BY <2>1, <2>4, SoleOwner
    <3> QED
      BY <2>1, <2>2, <2>4, <3>1, <1>6, BoxGivenBack DEF free
  <2> QED
    BY <2>3, <2>4
<1>7. ASSUME NEW p \in Pointers, Collect(p)
      PROVE  PointerInv'
  <2>1. \A q \in Pointers : Exists(q)' => Exists(q) /\ pointer'[q] = pointer[q]
    BY <1>7 DEF PointerInv, PointerTypeOK, Collect, Exists
  <2>2. pointer' \in [Pointers -> ExternalPointer \cup {NoPointer}]
    BY <1>7 DEF PointerInv, PointerTypeOK, Collect
  <2> QED
    BY <2>1, <2>2, <1>7
       DEF PointerInv, PointerTypeOK, BorrowsAreLive, GivenBackOnce, Untouched, InUse, Collect
<1>8. CASE UNCHANGED pointerVars
  BY <1>8 DEF pointerVars, PointerInv, PointerTypeOK, BorrowsAreLive, GivenBackOnce, Untouched, InUse, Exists
<1> QED
  BY <1>1, <1>2, <1>3, <1>4, <1>5, <1>6, <1>7, <1>8 DEF PointerNext

THEOREM ExternalPtrInvariant == PointerSpec => []PointerInv
<1>1. PointerInit => PointerInv
  BY PointerInitInv
<1>2. PointerInv /\ [PointerNext]_pointerVars => PointerInv'
  BY PointerStepInv
<1> QED
  BY <1>1, <1>2, PTL DEF PointerSpec

(* Types, and a managed value always has a finalizer waiting for it.        *)
THEOREM ExternalPtrTypeOK == PointerSpec => []PointerTypeOK
<1>1. PointerInv => PointerTypeOK
  BY DEF PointerInv
<1> QED
  BY <1>1, ExternalPtrInvariant, PTL

(* What decode_ref and decode_mut hand to Rust is null, and refused, or a   *)
(* box in use that no other handle can reach.                               *)
THEOREM ExternalPtrBorrowsAreLive == PointerSpec => []BorrowsAreLive
<1>1. PointerInv => BorrowsAreLive
  BY DEF PointerInv
<1> QED
  BY <1>1, ExternalPtrInvariant, PTL

(* A box goes once: freed by the collector or moved back to Rust.           *)
THEOREM ExternalPtrGivenBackOnce == PointerSpec => []GivenBackOnce
<1>1. PointerInv => GivenBackOnce
  BY DEF PointerInv
<1> QED
  BY <1>1, ExternalPtrInvariant, PTL

-----------------------------------------------------------------------------
(* The build.                                                                *)

(* What make has done by each of its steps, and what of it still holds when  *)
(* it was interrupted: roxido.txt has lines of the source as it stands, and  *)
(* all of them once run 1 has compiled, unless something changed between.    *)
Files == (SUBSET UNION Versions) \cup {Nothing}

BuildInv ==
  /\ source \in Versions
  /\ roxido_txt \in Files /\ registration \in Files /\ dirty \in BOOLEAN /\ suspect \in BOOLEAN
  /\ step \in {"compile 1", "script 2"} => counter = 1
  /\ step = "script 2" => ~dirty
  /\ step = "compile 2" => counter = 2 /\ dirty
  /\ counter = 1 /\ ~suspect =>
       Lines(roxido_txt) \subseteq source /\ (~dirty => Lines(roxido_txt) = source)
  /\ step = "copy" /\ ~target.suspect => target.registration = target.source
  /\ RegistrationExact

(* In a configured package with a tarball, .cargo says where the crates are, *)
(* and cargo starts only when they are there.                                *)
VendorInv ==
  /\ step # "idle" => configured
  /\ configured /\ tarball => cargo
  /\ step \in {"compile 1", "compile 2"} => CratesFound

LEMMA LinesAppended ==
  ASSUME NEW file \in Files, NEW lines \in SUBSET UNION Versions
  PROVE  /\ Lines(file) \in SUBSET UNION Versions
         /\ Lines(file) \cup lines \in Files
         /\ Lines(Lines(file) \cup lines) = Lines(file) \cup lines
<1>1. Lines(file) \in SUBSET UNION Versions
  BY DEF Lines, Files
<1>2. Lines(file) \cup lines \in SUBSET UNION Versions
  BY <1>1
<1>3. Lines(file) \cup lines # Nothing
  BY <1>2, NothingAssumption
<1> QED BY <1>1, <1>2, <1>3 DEF Lines, Files

(* The steps that leave the build where it is.                               *)
LEMMA BuildIdleSteps ==
  ASSUME BuildInv,
         \/ NoToolchain \/ \E ended \in BOOLEAN : Configure(ended)
         \/ RunMake \/ CratesMissing \/ Tidy \/ Interrupt \/ Cleanup
  PROVE  BuildInv'
<1>1. /\ UNCHANGED <<source, roxido_txt, registration, counter, dirty, target, suspect, library>>
      /\ step' = "idle" \/ step' = "script 1"
  BY DEF NoToolchain, Configure, RunMake, CratesMissing, Tidy, Interrupt, Cleanup, files
<1> QED BY <1>1 DEF BuildInv, RegistrationExact

LEMMA ScriptSteps ==
  ASSUME BuildInv, Script1 \/ Script2
  PROVE  BuildInv'
<1>1. CASE Script1
  <2>1. /\ step' = "compile 1" /\ UNCHANGED <<source, target, library>>
    BY <1>1 DEF Script1, Script
  <2>2. CASE counter = 1
    <3>1. UNCHANGED <<roxido_txt, registration, counter, dirty, suspect>>
      BY <1>1, <2>2 DEF Script1, Script
    <3> QED BY <2>1, <2>2, <3>1 DEF BuildInv, RegistrationExact
  <2>3. CASE counter # 1
    <3>1. /\ roxido_txt' = Nothing /\ registration' = Nothing /\ suspect' = FALSE
          /\ counter' = 1 /\ dirty' = TRUE
      BY <1>1, <2>3 DEF Script1, Script, ScriptRun1
    <3>2. Lines(roxido_txt)' = {}
      BY <3>1 DEF Lines
    <3> QED BY <2>1, <3>1, <3>2 DEF BuildInv, RegistrationExact, Files
  <2> QED BY <2>2, <2>3
<1>2. CASE Script2
  <2>1. /\ step = "script 2" /\ step' = "compile 2" /\ UNCHANGED <<source, target, library>>
    BY <1>2 DEF Script2, Script
  <2>2. counter = 1 /\ ~dirty
    BY <2>1 DEF BuildInv
  <2>3. /\ registration' = roxido_txt /\ counter' = 2 /\ dirty' = TRUE
        /\ UNCHANGED <<roxido_txt, suspect>>
    <3>1. counter # 2
      BY <2>2
    <3> QED BY <1>2, <3>1 DEF Script2, Script, ScriptRun2
  <2> QED BY <2>1, <2>2, <2>3 DEF BuildInv, RegistrationExact, Lines
<1> QED BY <1>1, <1>2

LEMMA CompileSteps ==
  ASSUME BuildInv, Compile1 \/ Compile2 \/ CompileEnds
  PROVE  BuildInv'
<1>1. source \in SUBSET UNION Versions /\ roxido_txt \in Files
  BY DEF BuildInv
<1>2. CASE Compile1
  <2>1. /\ step = "compile 1" /\ step' = "script 2" /\ dirty' = FALSE /\ counter = 1
        /\ UNCHANGED <<source, registration, counter, suspect, library>>
    BY <1>2 DEF Compile1, Compile, BuildInv
  <2>2. CASE ~dirty
    <3>1. UNCHANGED roxido_txt
      BY <1>2, <2>2 DEF Compile1, Compile
    <3> QED BY <2>1, <2>2, <3>1 DEF BuildInv, RegistrationExact
  <2>3. CASE dirty
    <3>1. roxido_txt' = Lines(roxido_txt) \cup source
      BY <1>2, <2>1, <2>3 DEF Compile1, Compile, Appended
    <3>2. roxido_txt' \in Files /\ Lines(roxido_txt)' = Lines(roxido_txt) \cup source
      <4>1. Lines(roxido_txt)' = Lines(roxido_txt')
        BY DEF Lines
      <4> QED BY <1>1, <3>1, <4>1, LinesAppended
    <3>3. ~suspect => Lines(roxido_txt)' = source
      BY <2>1, <3>2 DEF BuildInv
    <3> QED BY <2>1, <3>2, <3>3 DEF BuildInv, RegistrationExact
  <2> QED BY <2>2, <2>3
<1>3. CASE Compile2
  <2>1. /\ step = "compile 2" /\ step' = "copy" /\ counter = 2 /\ dirty
        /\ UNCHANGED <<source, registration, counter, suspect, library>>
    BY <1>3 DEF Compile2, Compile, BuildInv
  <2>2. /\ UNCHANGED roxido_txt /\ dirty' = FALSE
        /\ target' = [source |-> source, registration |-> Lines(registration),
                      suspect |-> suspect]
    BY <1>3, <2>1 DEF Compile2, Compile
  <2>3. ~suspect => Lines(registration) = source
    BY <2>1 DEF BuildInv, RegistrationExact
  <2>4. ~target'.suspect => target'.registration = target'.source
    BY <2>2, <2>3
  <2>7. counter' # 1
    <3>1. counter' = 2
      BY <2>1
    <3> QED BY <3>1
  <2>5. suspect' \in BOOLEAN /\ dirty' \in BOOLEAN /\ registration' \in Files /\ roxido_txt' \in Files
        /\ source' \in Versions
    BY <2>1, <2>2 DEF BuildInv
  <2>6. RegistrationExact'
    BY <2>1 DEF BuildInv, RegistrationExact
  <2> QED BY <2>1, <2>2, <2>4, <2>5, <2>6, <2>7 DEF BuildInv
<1>4. CASE CompileEnds
  <2>1. /\ step' = "idle" /\ dirty
        /\ UNCHANGED <<source, registration, counter, dirty, target, suspect, library>>
    BY <1>4 DEF CompileEnds
  <2>2. CASE UNCHANGED roxido_txt
    BY <2>1, <2>2 DEF BuildInv, RegistrationExact
  <2>3. CASE \E lines \in SUBSET source : Appended(lines)
    <3>1. PICK lines \in SUBSET source : roxido_txt' = Lines(roxido_txt) \cup lines
      BY <2>3 DEF Appended
    <3>2. roxido_txt' \in Files /\ Lines(roxido_txt') = Lines(roxido_txt) \cup lines
      BY <1>1, <3>1, LinesAppended
    <3>3. Lines(roxido_txt)' = Lines(roxido_txt')
      BY DEF Lines
    <3> QED BY <2>1, <3>2, <3>3 DEF BuildInv, RegistrationExact
  <2> QED BY <1>4, <2>2, <2>3 DEF CompileEnds
<1> QED BY <1>2, <1>3, <1>4

LEMMA EditSteps ==
  ASSUME BuildInv, Copy \/ Clean \/ \E v \in Versions : Edit(v)
  PROVE  BuildInv'
<1>1. CASE Copy
  <2>1. /\ step = "copy" /\ step' = "tidy" /\ library' = target
        /\ UNCHANGED <<source, roxido_txt, registration, counter, dirty, target, suspect>>
    BY <1>1 DEF Copy, files
  <2> QED BY <2>1 DEF BuildInv, RegistrationExact
<1>2. CASE Clean
  <2>1. /\ step = "idle" /\ step' = "idle" /\ roxido_txt' = Nothing /\ library' = Nothing
        /\ suspect' = (suspect \/ Halfway)
        /\ UNCHANGED <<source, registration, counter, dirty, target>>
    BY <1>2 DEF Clean
  <2>2. Lines(roxido_txt)' = {} /\ suspect' \in BOOLEAN
    BY <2>1 DEF Lines, BuildInv
  <2>3. counter = 1 /\ ~suspect' => ~suspect /\ Lines(roxido_txt) = {}
    BY <2>1 DEF Halfway
  <2>4. roxido_txt' \in Files
    BY <2>1 DEF Files
  <2> QED BY <2>1, <2>2, <2>3, <2>4 DEF BuildInv, RegistrationExact
<1>3. ASSUME NEW v \in Versions, Edit(v) PROVE BuildInv'
  <2>1. /\ step = "idle" /\ step' = "idle" /\ source' = v /\ dirty' = TRUE
        /\ suspect' = (suspect \/ Halfway)
        /\ UNCHANGED <<roxido_txt, registration, counter, target, library>>
    BY <1>3 DEF Edit
  <2>2. Lines(roxido_txt)' = Lines(roxido_txt) /\ suspect' \in BOOLEAN
    BY <2>1 DEF Lines, BuildInv
  <2>3. counter = 1 /\ ~suspect' => Lines(roxido_txt) = {}
    BY <2>1 DEF Halfway
  <2> QED BY <2>1, <2>2, <2>3 DEF BuildInv, RegistrationExact
<1> QED BY <1>1, <1>2, <1>3

LEMMA BuildInvStep == BuildInv /\ [BuildNext]_buildVars => BuildInv'
<1> SUFFICES ASSUME BuildInv, [BuildNext]_buildVars PROVE BuildInv'
  OBVIOUS
<1>1. CASE UNCHANGED buildVars
  BY <1>1 DEF buildVars, BuildInv, RegistrationExact, Lines
<1> QED
  BY <1>1, BuildIdleSteps, ScriptSteps, CompileSteps, EditSteps DEF BuildNext

(* However often the build was interrupted, failed or repeated, the library  *)
(* registers each of its functions with the arguments it has, unless the     *)
(* source or roxido.txt changed between run 1 and run 2.                     *)
THEOREM BuildRegistrationExact == BuildSpec => []RegistrationExact
<1>1. BuildInit => BuildInv
  <2> SUFFICES ASSUME BuildInit PROVE BuildInv
    OBVIOUS
  <2>1. counter = 0 /\ counter # 1 /\ step = "idle" /\ library = Nothing
    BY DEF BuildInit
  <2>2. source \in Versions /\ roxido_txt \in Files /\ registration \in Files
        /\ dirty \in BOOLEAN /\ suspect \in BOOLEAN
    BY DEF BuildInit, Files
  <2>3. RegistrationExact
    BY <2>1 DEF RegistrationExact
  <2> QED BY <2>1, <2>2, <2>3 DEF BuildInv
<1>2. BuildInv => RegistrationExact
  BY DEF BuildInv
<1> QED BY <1>1, <1>2, BuildInvStep, PTL DEF BuildSpec

LEMMA VendorInvStep == VendorInv /\ [BuildNext]_buildVars => VendorInv'
<1> SUFFICES ASSUME VendorInv, [BuildNext]_buildVars PROVE VendorInv'
  OBVIOUS
<1>1. CASE UNCHANGED buildVars
  BY <1>1 DEF buildVars, VendorInv, CratesFound
<1>2. CASE NoToolchain \/ Cleanup
  <2>1. step' = "idle" /\ ~configured'
    BY <1>2 DEF NoToolchain, Cleanup
  <2> QED BY <2>1 DEF VendorInv
<1>3. ASSUME NEW ended \in BOOLEAN, Configure(ended) PROVE VendorInv'
  <2>1. step' = "idle" /\ configured' = ended /\ tarball' = tarball
    BY <1>3 DEF Configure
  <2>2. ended /\ tarball => cargo'
    BY <1>3 DEF Configure, extract_vendor_if_present
  <2> QED BY <2>1, <2>2 DEF VendorInv
<1>4. CASE RunMake \/ CratesMissing \/ CompileEnds \/ Copy \/ Interrupt \/ Clean
  <2>1. UNCHANGED <<configured, tarball, cargo>>
        /\ (step' # "idle" => configured) /\ step' \notin {"compile 1", "compile 2"}
    BY <1>4 DEF RunMake, CratesMissing, CompileEnds, Copy, Interrupt, Clean, crates, VendorInv
  <2> QED BY <2>1 DEF VendorInv
<1>5. CASE Script1 \/ Script2
  <2>1. UNCHANGED <<configured, tarball, vendor, cargo>> /\ step # "idle" /\ CratesFound
    BY <1>5 DEF Script1, Script2, Script, crates
  <2> QED BY <2>1 DEF VendorInv, CratesFound
<1>6. CASE Compile1 \/ Compile2
  <2>1. UNCHANGED <<configured, tarball, cargo>> /\ step # "idle"
        /\ step' \notin {"compile 1", "compile 2"}
    BY <1>6 DEF Compile1, Compile2, Compile, crates
  <2> QED BY <2>1 DEF VendorInv
<1>7. CASE Tidy
  <2>1. UNCHANGED <<configured, tarball, cargo>> /\ step' = "idle"
    BY <1>7 DEF Tidy
  <2> QED BY <2>1 DEF VendorInv
<1>8. CASE \E v \in Versions : Edit(v)
  <2>1. UNCHANGED <<configured, tarball, cargo>> /\ step = "idle" /\ step' = "idle"
    BY <1>8 DEF Edit, crates
  <2> QED BY <2>1 DEF VendorInv
<1> QED
  BY <1>1, <1>2, <1>3, <1>4, <1>5, <1>6, <1>7, <1>8 DEF BuildNext

(* In a package with vendored crates nothing is compiled with others,        *)
(* whatever configure left behind and whatever was cleaned up since.         *)
THEOREM BuildVendoredOnly == BuildSpec => []VendoredOnly
<1>1. BuildInit => VendorInv
  BY DEF BuildInit, VendorInv
<1>2. VendorInv => VendoredOnly
  BY DEF VendorInv, VendoredOnly, CratesFound
<1> QED BY <1>1, <1>2, VendorInvStep, PTL DEF BuildSpec

=============================================================================
