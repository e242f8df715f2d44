------------------------------ MODULE Arguments ------------------------------
(***************************************************************************)
(* What becomes of one argument of an exported function before the Rust    *)
(* body runs: the coercion in its R wrapper (as.integer, as.character or   *)
(* none), the scalar check that the roxido attribute generates             *)
(* (src/rust/roxido_macro/src/lib.rs 148-155, 243-263, 320-327) and        *)
(* RScalar's reading (src/rust/roxido/src/lib.rs 977-1124).                *)
(* Numbers are counted in halves, since a half is where rounding and       *)
(* truncation part.                                                        *)
(***************************************************************************)
EXTENDS Integers, FiniteSets, FiniteSetsExt

CONSTANTS
  ByteMax,     \* u8::MAX
  IntMax,      \* i32::MAX; i32::MIN is R's NA_integer_
  SizeMax,     \* usize::MAX
  Exact,       \* 2^53: up to here a double holds every whole number
  Inf,         \* a double beyond every number
  NaN,         \* R's NaN and NA_real_, which the code treats alike
  Text         \* the content of a string that is not a number

(* The distances between neighbouring doubles, up to those around SizeMax.   *)
Gaps == {1, 2, 4, 8, 16, 32, 64, 128, 256, 512, 1024, 2048}

IntMin == -IntMax - 1
Special == {Inf, NaN, Text}

ASSUME WidthAssumption ==
  /\ {ByteMax, IntMax, SizeMax, Exact} \subseteq Nat
  /\ ByteMax < IntMax /\ IntMax < Exact /\ Exact <= SizeMax /\ SizeMax <= 2048 * Exact
ASSUME SpecialAssumption == Cardinality(Special) = 3 /\ \A s \in Special : s \notin Int

(* An R object as the attribute looks at it.  halves is the number it       *)
(* holds, or IntMin for NA_integer_ and NA; only scalars are looked into.   *)
RValue(mode, length, halves) == [mode |-> mode, length |-> length, halves |-> halves]

IsRValue(v) ==
  /\ v = RValue(v.mode, v.length, v.halves)
  /\ v.length = 1 /\ v.mode \in {"integer", "logical"} => \E i \in IntMin .. IntMax : v.halves = 2 * i
  /\ v.length = 1 /\ v.mode = "raw" => \E i \in 0 .. ByteMax : v.halves = 2 * i
  /\ v.length = 1 => v.halves \in Int \cup (IF v.mode = "double" THEN {Inf, NaN} ELSE Special)

NAInteger == RValue("integer", 1, 2 * IntMin)
Missing(v) == v.halves = NaN \/ (v.mode \in {"integer", "logical"} /\ v.halves = 2 * IntMin)

Truncated(halves) == IF halves >= 0 THEN halves \div 2 ELSE -((-halves) \div 2)

(* f64::round: halves away from zero.                                       *)
Rounded(halves) == IF halves >= 0 THEN (halves + 1) \div 2 ELSE -((1 - halves) \div 2)

(* `as f64`: above Exact only every second whole number is a double, above  *)
(* twice Exact every fourth, and so on; ties go to the even one.            *)
AsDouble(z) ==
  LET gap  == Min({p \in Gaps : z <= Exact * p})
      down == z \div gap
      over == 2 * (z % gap)
  IN  gap * (IF over > gap \/ (over = gap /\ down % 2 = 1) THEN down + 1 ELSE down)

(* `as usize` and `as u8`: truncate and saturate; NaN becomes 0.            *)
Saturated(d, max) ==
  CASE d = NaN -> 0
    [] d = Inf -> max
    [] OTHER -> Max({0, Min({Truncated(d), max})})

-----------------------------------------------------------------------------
(* The wrapper's coercion.  R refuses a function, a pointer and the like,    *)
(* whose mode is "other"; lists, which it would look into, are left out.     *)

Coercible(v) == v.mode # "other"

(* as.integer: truncation; NA for what is no number or out of range.        *)
AsInteger(v) ==
  IF v.length # 1 \/ v.mode = "integer" THEN [v EXCEPT !.mode = "integer"]
  ELSE IF v.halves \in Special \/ v.halves >= 2 * (IntMax + 1) \/ v.halves <= 2 * IntMin
       THEN NAInteger
       ELSE RValue("integer", 1, 2 * Truncated(v.halves))

AsCharacter(v) == [v EXCEPT !.mode = "character"]

(* What the wrapper of each kind of parameter passes on: message_type is an *)
(* i32, n a usize, most strings are coerced; the SAS functions pass theirs  *)
(* as they come.  No function of the package has a parameter of the last     *)
(* three kinds.                                                              *)
Kinds == {"i32", "usize", "coerced str", "str", "u8", "bool", "f64"}

PassedBare(kind, v) == v
Passed(kind, v) ==
  CASE kind \in {"i32", "usize"} -> AsInteger(v)
    [] kind = "coerced str" -> AsCharacter(v)
    [] OTHER -> v

Callable(kind, v) == kind \in {"i32", "usize", "coerced str"} => Coercible(v)

-----------------------------------------------------------------------------
(* The attribute's check and RScalar's reading.                              *)

as_scalar(v) == v.mode # "other" /\ v.length = 1

(* RScalar::i32.                                                            *)
AcceptsI32(v) ==
  CASE v.mode \in {"integer", "logical"} -> v.halves # 2 * IntMin
    [] v.mode = "double" ->
         v.halves \notin Special /\ v.halves <= 2 * IntMax /\ v.halves > 2 * IntMin
    [] OTHER -> v.mode = "raw"

I32(v) == IF v.mode = "double" THEN Rounded(v.halves) ELSE v.halves \div 2

(* RScalar::usize and RScalar::u8: a double is cast and compared with what   *)
(* it was.                                                                    *)
AcceptsUnsigned(v, max) ==
  CASE v.mode \in {"integer", "logical"} -> v.halves \in 0 .. 2 * max
    [] v.mode = "double" ->
         /\ v.halves \notin {NaN, Inf} => v.halves >= 0
         /\ v.halves \notin {NaN, Inf} /\ 2 * AsDouble(Saturated(v.halves, max)) = v.halves
    [] OTHER -> v.mode = "raw"

Unsigned(v, max) == IF v.mode = "double" THEN Saturated(v.halves, max) ELSE v.halves \div 2

(* RScalar::bool.                                                           *)
AcceptsBool(v) ==
  CASE v.mode \in {"integer", "logical"} -> v.halves # 2 * IntMin
    [] v.mode = "double" -> v.halves # NaN
    [] OTHER -> v.mode = "raw"

(* RScalar::f64 asks R, which makes NA what is no number.                   *)
AsReal(v) == IF v.halves = Text \/ Missing(v) THEN NaN ELSE v.halves

(* RScalar::str takes any scalar, coercing what is no string.  The text of  *)
(* NA is "NA".                                                              *)
Accepts(kind, v) ==
  /\ as_scalar(v)
  /\ CASE kind = "i32" -> AcceptsI32(v)
       [] kind = "usize" -> AcceptsUnsigned(v, SizeMax)
       [] kind = "u8" -> AcceptsUnsigned(v, ByteMax)
       [] kind = "bool" -> AcceptsBool(v)
       [] OTHER -> TRUE

Received(kind, v) ==
  CASE kind = "i32" -> I32(v)
    [] kind = "usize" -> Unsigned(v, SizeMax)
    [] kind = "u8" -> Unsigned(v, ByteMax)
    [] kind = "bool" -> v.halves # 0
    [] kind = "f64" -> AsReal(v)
    [] OTHER -> Text

Coerced(kind, v) == kind \in {"coerced str", "str"} /\ v.mode # "character"

=============================================================================
