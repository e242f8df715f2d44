--------------------------------- MODULE Views ---------------------------------
(***************************************************************************)
(* The typed views through which Rust code looks at an R object            *)
(* (src/rust/roxido/src/lib.rs 541-818, 1207-1416), and how the roxido     *)
(* attribute picks and checks one for a parameter                          *)
(* (src/rust/roxido_macro/src/lib.rs 118-399).  A view is a cast of the    *)
(* pointer: nothing but these checks ties it to what the object is.        *)
(***************************************************************************)
EXTENDS Integers, Sequences, Functions

(* An R object: dim is empty where there is none, and so are names; of its  *)
(* dimnames it only matters whether it has any.                             *)
RObject(mode, cells, dim) ==
  [mode |-> mode, cells |-> cells, dim |-> dim, names |-> <<>>, dimnames |-> FALSE, class |-> "none"]

Atomic == {"logical", "integer", "double", "complex", "raw", "character"}
Modes == [f64 |-> "double", i32 |-> "integer", u8 |-> "raw", bool |-> "logical", char |-> "character"]
Elements == DOMAIN Modes
Untyped == "any"

(* The running products of 1 and the extents; the last is the size.         *)
Products(dim) ==
  LET p[k \in 0 .. Len(dim)] == IF k = 0 THEN 1 ELSE p[k - 1] * dim[k]
  IN  p

Size(dim) == Products(dim)[Len(dim)]

(* A view: the Rust type, and its element type where it has one.            *)
View(shape, element) == [shape |-> shape, element |-> element]

(* is_f64, is_i32, ...  A factor is stored as integers and is none.         *)
HasMode(o, t) == o.mode = Modes[t] /\ (t = "i32" => o.class # "factor")

is_vector(o) == o.mode \in Atomic
is_list(o) == o.mode = "list"
is_array(o) == (is_vector(o) \/ is_list(o)) /\ o.dim # <<>>

is_matrix(o) == (is_vector(o) \/ is_list(o)) /\ Len(o.dim) = 2

is_data_frame(o) == is_list(o) /\ o.class = "data.frame"

(* as_scalar, as_vector, as_matrix, as_array.                               *)
Indexed == {"RScalar", "RVector", "RMatrix", "RArray"}

AsIndexed(o, shape) ==
  \/ shape = "RScalar" /\ is_vector(o) /\ Len(o.cells) = 1
  \/ shape = "RVector" /\ is_vector(o)
  \/ shape = "RMatrix" /\ is_matrix(o)
  \/ shape = "RArray" /\ is_array(o)

(* as_list, as_data_frame, as_function, as_external_ptr, as_symbol.         *)
Opaque == [RFunction |-> "closure", RExternalPtr |-> "externalptr", RSymbol |-> "symbol"]

AsOther(o, shape) ==
  \/ shape = "RObject"
  \/ shape = "RList" /\ is_list(o)
  \/ shape = "RDataFrame" /\ is_data_frame(o)
  \/ shape \in DOMAIN Opaque /\ o.mode = Opaque[shape]

Shapes == Indexed \cup {"RObject", "RList", "RDataFrame"} \cup DOMAIN Opaque
AsShape(o, shape) == AsIndexed(o, shape) \/ AsOther(o, shape)

(* RObject::enumerate: the first branch that fits.  Atomic matrices are     *)
(* vectors to it, and data frames lists.                                    *)
enumerate(o) ==
  CASE is_vector(o) -> IF Len(o.cells) = 1 THEN "RScalar" ELSE "RVector"
    [] is_matrix(o) -> "RMatrix"
    [] is_array(o) /\ ~is_matrix(o) -> "RArray"
    [] is_list(o) /\ ~is_array(o) -> "RList"
    [] \E s \in DOMAIN Opaque : o.mode = Opaque[s] ->
         CHOOSE s \in DOMAIN Opaque : o.mode = Opaque[s]
    [] OTHER -> "RObject"

-----------------------------------------------------------------------------
(* The attribute.  A parameter is a reference to a view or a slice; what is  *)
(* read to a plain value is in Arguments.                                    *)

Parameter(type, element) == [type |-> type, element |-> element]

(* The signatures it compiles.                                              *)
Parameters ==
  {Parameter("slice", t) : t \in {"f64", "i32", "u8"}}
    \cup {Parameter(s, t) : s \in Indexed, t \in Elements \cup {Untyped, "()"}}
    \cup {Parameter(s, Untyped) : s \in Shapes \ Indexed}

(* The generated statements check the shape first and then the element      *)
(* type, for which () stands for char.                                      *)
ParameterShape(p) == IF p.type = "slice" THEN "RVector" ELSE p.type
ParameterElement(p) == IF p.element = "()" THEN "char" ELSE p.element

AcceptsShapeOnly(p, o) == AsShape(o, ParameterShape(p))

Accepts(p, o) ==
  /\ AsShape(o, ParameterShape(p))
  /\ ParameterElement(p) # Untyped => HasMode(o, ParameterElement(p))

=============================================================================
