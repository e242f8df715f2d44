------------------------------ MODULE Containers ------------------------------
(***************************************************************************)
(* What a body does to an R object it was given, through roxido's vectors, *)
(* matrices, arrays, lists and maps (src/rust/roxido/src/lib.rs 91-205,    *)
(* 1207-2190).  A body derives views one from the other: using a view ends *)
(* those derived from it, which is what the borrow checker enforces.  An R *)
(* API function that is not content with the object raises an R error in   *)
(* the middle of the body ("rerror"); roxido's own checks give "err".      *)
(* Strings are valid UTF-8.                                                *)
(***************************************************************************)
EXTENDS Views, FiniteSets

CONSTANTS
  Start,        \* the R objects a caller may pass
  Indices,      \* bound: the subscripts a body tries
  Extents,      \* bound: the lengths of names a body tries
  Dims,         \* bound: the extents a body sets
  Keys,         \* the names it looks up
  New,          \* what it writes
  MaxRank,      \* bound: the subscripts of one cell
  MaxViews,     \* bound: views derived one from the other
  MaxWritten,   \* bound: cells it has written to
  MaxAttributes \* bound: attributes, beside the extents, of an object it sets one of

ASSUME IndicesAssumption == Indices \subseteq Nat /\ Extents \subseteq Nat
ASSUME NewAssumption == \A o \in Start : \A i \in DOMAIN o.cells : o.cells[i] # New
ASSUME DimsAssumption == Dims \subseteq Seq(Nat) /\ \A dim \in Dims : Len(dim) >= 2
ASSUME BoundsAssumption == {MaxRank, MaxViews, MaxWritten, MaxAttributes} \subseteq Nat

(* An R object has the fields of RObject, as many cells as its extents make  *)
(* and as many as it has names, if it has any.                               *)
Fields == DOMAIN RObject("NULL", <<>>, <<>>)
IsObject(o) ==
  /\ DOMAIN o = Fields /\ o = [f \in Fields |-> o[f]]
  /\ Len(o.cells) \in Nat /\ DOMAIN o.cells = 1 .. Len(o.cells)
  /\ Len(o.names) \in {0, Len(o.cells)} /\ DOMAIN o.names = 1 .. Len(o.names)
  /\ o.dim \in Seq(Nat)
  /\ o.dim # <<>> => Len(o.cells) = Size(o.dim)

(* One-dimensional arrays, whose names R keeps in their dimnames, are left   *)
(* out.                                                                      *)
ASSUME StartAssumption == \A o \in Start : IsObject(o) /\ Len(o.dim) # 1

VARIABLES
  object,   \* the object the body works on
  views,    \* its views of it, each derived from the one before
  map,      \* the RListMap, while there is one
  answer    \* what the last operation was and gave

vars == <<object, views, map, answer>>

NoMap == [unused |-> -1]
Answer(op, index, result) == [op |-> op, index |-> index, result |-> result]
NoAnswer == Answer("none", <<>>, "ok")

(* NULL is no vector; its length stands for it in a list of dimnames.       *)
NotVector == -1

Init ==
  /\ object \in Start
  /\ views = <<>> /\ map = NoMap /\ answer = NoAnswer

(* A call: the attribute's checks.                                          *)
Enter(p) ==
  /\ views = <<>> /\ answer = NoAnswer
  /\ IF Accepts(p, object)
     THEN /\ views' = <<View(ParameterShape(p), ParameterElement(p))>>
          /\ answer' = Answer("enter", <<>>, "ok")
     ELSE /\ views' = <<>>
          /\ answer' = Answer("enter", <<>>, "err")
  /\ UNCHANGED <<object, map>>

(* The body uses its i-th view.                                             *)
Using(i) == i \in DOMAIN views /\ answer.result # "rerror"
Kept(i) == views' = SubSeq(views, 1, i)
Derived(i, v) == i < MaxViews /\ views' = Append(SubSeq(views, 1, i), v)

-----------------------------------------------------------------------------
(* Views from views.                                                         *)

(* as_scalar and the like on an object; as_f64 and the like on a view of    *)
(* any element type; RScalar::as_vector; as_robject on any view.            *)
Recharacterize(i) ==
  /\ Using(i)
  /\ \/ \E shape \in Shapes :
          /\ views[i].shape = "RObject" /\ AsShape(object, shape)
          /\ Derived(i, View(shape, Untyped))
     \/ \E t \in Elements :
          /\ views[i].shape \in Indexed /\ HasMode(object, t)
          /\ Derived(i, View(views[i].shape, t))
     \/ /\ views[i].shape = "RScalar"
        /\ Derived(i, View("RVector", views[i].element))
     \/ /\ views[i].shape = "RObject"
        /\ Derived(i, View(enumerate(object), Untyped))
     \/ Derived(i, View("RObject", Untyped))
  /\ map' = NoMap /\ answer' = Answer("view", <<>>, "ok")
  /\ UNCHANGED object

(* to_f64 and the like.  Rf_coerceVector gives a new object, where the mode *)
(* is another one (a factor has the mode of i32 already).  An atomic one     *)
(* keeps its attributes, a list but its names.                               *)
Coerced(o, t) ==
  IF is_list(o) THEN [RObject(Modes[t], o.cells, <<>>) EXCEPT !.names = o.names]
  ELSE [o EXCEPT !.mode = Modes[t]]

(* A list of anything but single values becomes nothing but strings.         *)
Coerce(i, t) ==
  /\ Using(i) /\ views[i].shape \in Indexed /\ ~HasMode(object, t)
  /\ \/ /\ object' = Coerced(object, t)
        /\ IF object.mode = Modes[t]
           THEN Derived(i, View(views[i].shape, t))
           ELSE views' = <<View(views[i].shape, t)>>
        /\ answer' = Answer("coerce", <<>>, "ok")
     \/ /\ is_list(object) /\ t # "char"
        /\ Kept(i) /\ UNCHANGED object
        /\ answer' = Answer("coerce", <<>>, "rerror")
  /\ map' = NoMap

-----------------------------------------------------------------------------
(* Subscripts.  Cells are numbered from 0, column by column.                 *)

nrow(o) == IF o.dim = <<>> THEN Len(o.cells) ELSE o.dim[1]
ncol(o) == IF Len(o.dim) < 2 THEN 1 ELSE o.dim[2]

matrix_indexByRow(o, row, col) == ncol(o) * row + col
matrix_index(o, row, col) == nrow(o) * col + row

(* The coefficients are the running products of 1 and all extents but the   *)
(* last, and stop where the shorter of coefficients and subscripts stops.   *)
CoefficientLate(dim, k) == Products(dim)[k]
Coefficient(dim, k) == Products(dim)[k - 1]

array_index(dim, index) ==
  LET both   == IF Len(index) < Len(dim) THEN Len(index) ELSE Len(dim)
      i[k \in 0 .. both] == IF k = 0 THEN 0 ELSE i[k - 1] + Coefficient(dim, k) * index[k]
  IN  i[both]

(* How many subscripts an element of a view takes.                          *)
Subscripts(v) ==
  CASE v.shape = "RScalar" /\ v.element # Untyped -> {0}
    [] v.shape = "RVector" /\ v.element # Untyped -> {1}
    [] v.shape \in {"RList", "RDataFrame"} -> {1}
    [] v.shape = "RMatrix" /\ v.element \in {"f64", "i32", "u8"} -> {2}
    [] v.shape = "RArray" /\ v.element \in {"f64", "i32", "u8"} -> 0 .. MaxRank
    [] OTHER -> {}

Address(v, o, index) ==
  CASE v.shape = "RScalar" -> 0
    [] v.shape = "RMatrix" -> matrix_index(o, index[1], index[2])
    [] v.shape = "RArray" -> array_index(o.dim, index)
    [] OTHER -> index[1]

InBoundsOrEnd(o, cell) == cell <= Len(o.cells)
InBounds(o, cell) == cell < Len(o.cells)

(* RArray::dim reads the dim attribute, and there must be one.              *)
DimMissing(v, o) == v.shape = "RArray" /\ o.dim = <<>>

(* A scalar is read and written without a look at its length.               *)
Access(i, op, index) ==
  LET view == views[i]
      cell == Address(view, object, index)
  IN  /\ Using(i) /\ Len(index) \in Subscripts(view)
      /\ Kept(i)
      /\ answer' = IF DimMissing(view, object) THEN Answer(op, index, "rerror")
                   ELSE [op |-> op, index |-> index, cell |-> cell,
                         result |-> IF view.shape = "RScalar" \/ InBounds(object, cell) THEN "ok" ELSE "err"]

get(i, index) ==
  /\ Access(i, "get", index)
  /\ UNCHANGED <<object, map>>

(* Rf_mkCharLenCE refuses a string with a NUL in it.                         *)
SetNul(i, index) ==
  /\ Using(i) /\ views[i].element = "char" /\ Len(index) \in Subscripts(views[i])
  /\ views[i].shape = "RScalar" \/ InBounds(object, Address(views[i], object, index))
  /\ Kept(i) /\ answer' = Answer("set", index, "rerror")
  /\ UNCHANGED object

set(i, index) ==
  /\ \/ /\ Cardinality({c \in DOMAIN object.cells : object.cells[c] = New}) < MaxWritten
        /\ Access(i, "set", index)
        /\ object' = IF answer'.result = "ok" THEN [object EXCEPT !.cells[answer'.cell + 1] = New] ELSE object
     \/ SetNul(i, index)
  /\ map' = NoMap

-----------------------------------------------------------------------------
(* Dimensions and names.                                                     *)

(* Setting or dropping dim drops the dimnames, in R.                        *)
WithDim(o, dim) == [o EXCEPT !.dim = dim, !.dimnames = FALSE]

to_vector_mut(i) ==
  /\ Using(i) /\ views[i].shape \in {"RMatrix", "RArray"}
  /\ object' = WithDim(object, <<>>)
  /\ Derived(i, View("RVector", views[i].element))
  /\ map' = NoMap /\ answer' = Answer("to_vector_mut", <<>>, "ok")

(* Rf_copyMatrix fills its first argument row by row with the cells of the  *)
(* second in their order.                                                   *)
Filled(dim, cells) ==
  [c \in 1 .. Len(cells) |-> cells[((c - 1) % dim[1]) * dim[2] + ((c - 1) \div dim[1]) + 1]]

TransposedDimOnly(o) == WithDim(o, <<ncol(o), nrow(o)>>)
Transposed(o) ==
  LET dim == <<ncol(o), nrow(o)>>
  IN  [WithDim(o, dim) EXCEPT !.cells = Filled(dim, o.cells)]

(* R takes extents for a vector or a list with as many cells.                *)
DimTaken(o, dim) == (is_vector(o) \/ is_list(o)) /\ Size(dim) = Len(o.cells)

transpose(i) ==
  /\ Using(i) /\ views[i].shape = "RMatrix"
  /\ IF DimTaken(object, <<ncol(object), nrow(object)>>)
     THEN /\ object' = Transposed(object) /\ views' = <<views[i]>>
          /\ answer' = Answer("transpose", <<>>, "ok")
     ELSE /\ UNCHANGED object /\ Kept(i)
          /\ answer' = Answer("transpose", <<>>, "rerror")
  /\ map' = NoMap

(* set_names compares the lengths before R does.                            *)
NamesFitOrMore(o, n) == n >= Len(o.cells)
NamesFit(o, n) == n = Len(o.cells)

set_names(i, n) ==
  /\ Using(i) /\ views[i].shape \in {"RScalar", "RVector", "RList", "RDataFrame"}
  /\ Kept(i)
  /\ answer' = Answer("set_names", <<n>>,
                 IF ~NamesFit(object, n) THEN "err" ELSE IF n > Len(object.cells) THEN "rerror" ELSE "ok")
  /\ object' = IF answer'.result = "ok" THEN [object EXCEPT !.names = [k \in 1 .. n |-> New]] ELSE object
  /\ map' = NoMap

(* set_dimnames takes a list of vectors, of which only the length is        *)
(* looked at.  The one of RMatrix looks at its first two elements, the one  *)
(* of RArray at all.                                                        *)
DimnamesFirstFit(v, o, lengths) == Len(lengths) >= 2 /\ lengths[1] = nrow(o)
DimnamesFit(v, o, lengths) ==
  IF v.shape = "RMatrix"
  THEN Len(lengths) >= 2 /\ lengths[1] = nrow(o) /\ lengths[2] = ncol(o)
  ELSE lengths = o.dim

(* Rf_dimnamesgets.  A list of none but empty ones leaves no dimnames.       *)
DimnamesTaken(o, lengths) ==
  /\ o.dim # <<>> /\ Len(lengths) <= Len(o.dim)
  /\ \A k \in DOMAIN lengths : lengths[k] \in {o.dim[k], 0, NotVector}

WithDimnames(o, lengths) == [o EXCEPT !.dimnames = \E k \in DOMAIN lengths : lengths[k] > 0]

set_dimnames(i, lengths) ==
  /\ Using(i) /\ views[i].shape \in {"RMatrix", "RArray"}
  /\ Kept(i)
  /\ answer' = Answer("set_dimnames", <<Len(lengths)>>,
                 CASE DimMissing(views[i], object) -> "rerror"
                   [] ~DimMissing(views[i], object) /\ ~DimnamesFit(views[i], object, lengths) -> "err"
                   [] OTHER -> IF DimnamesTaken(object, lengths) THEN "ok" ELSE "rerror")
  /\ object' = IF answer'.result = "ok" THEN WithDimnames(object, lengths) ELSE object
  /\ map' = NoMap

(* get_dimnames calls the list of dimnames an RVector<char>, and its get    *)
(* asks R for a string of it.                                               *)
get_dimnames(i) ==
  /\ Using(i) /\ views[i].shape \in {"RMatrix", "RArray"}
  /\ Kept(i)
  /\ answer' = Answer("get_dimnames", <<>>, IF object.dimnames THEN "rerror" ELSE "err")
  /\ UNCHANGED <<object, map>>

(* What R makes of an object when a body drops or sets one of the attributes *)
(* the views look at.  Too few names are filled up with NA.  Bounds: of the  *)
(* names a body gives one, of the classes that which a check of such an      *)
(* object asks for.                                                          *)
Padded(o) == [k \in DOMAIN o.cells |-> IF k = 1 THEN New ELSE "NA"]
NamesTaken(o) == (is_vector(o) \/ is_list(o)) /\ o.cells # <<>>
ClassTaken(o) == o.mode \in {"integer", "list"}
ClassOf(o) == IF is_list(o) THEN "data.frame" ELSE "factor"

Lengths == UNION {[1 .. n -> Extents \cup {NotVector}] : n \in 1 .. MaxRank}

Attributed(o) ==
  {WithDim(o, dim) : dim \in {d \in Dims : DimTaken(o, d)} \cup {<<>>}}
    \cup {[o EXCEPT !.names = names] : names \in {n \in {Padded(o)} : NamesTaken(o)} \cup {<<>>}}
    \cup {WithDimnames(o, lengths) : lengths \in {l \in Lengths : DimnamesTaken(o, l)} \cup {<<>>}}
    \cup {[o EXCEPT !.class = class] : class \in {c \in {ClassOf(o)} : ClassTaken(o)} \cup {"none"}}

Dressed(o) ==
  Cardinality({a \in {"names", "dimnames", "class"} : o[a] # RObject(o.mode, o.cells, o.dim)[a]})

(* set_attribute and set_class, which every view has.  They look at nothing, *)
(* and R refuses what it does not take.                                      *)
set_attribute(i) ==
  /\ Using(i) /\ Kept(i)
  /\ \/ /\ object' \in Attributed(object) /\ Dressed(object') <= MaxAttributes
        /\ answer' = Answer("set_attribute", <<>>, "ok")
     \/ UNCHANGED object /\ answer' = Answer("set_attribute", <<>>, "rerror")
  /\ map' = NoMap

-----------------------------------------------------------------------------
(* Lists by name.                                                            *)

IsList(v) == v.shape \in {"RList", "RDataFrame"}

(* The first element of that name.                                          *)
get_by_key(i, key) ==
  LET found == {k \in DOMAIN object.names : object.names[k] = key}
  IN  /\ Using(i) /\ IsList(views[i])
      /\ Kept(i)
      /\ answer' = [op |-> "get_by_key", index |-> <<>>, key |-> key,
                    result |-> IF found = {} THEN "err" ELSE "ok",
                    cell |-> IF found = {} THEN 0 ELSE (CHOOSE k \in found : \A j \in found : k <= j) - 1]
      /\ UNCHANGED <<object, map>>

(* A later element of a name takes the place of an earlier one.             *)
make_map(i) ==
  LET names == object.names
      last(key) == CHOOSE k \in DOMAIN names : names[k] = key /\ \A j \in DOMAIN names : names[j] = key => j <= k
  IN  /\ Using(i) /\ IsList(views[i])
      /\ Kept(i)
      /\ map' = [unused |-> Len(names), used |-> {},
                 place |-> [key \in Range(names) |-> last(key)]]
      /\ answer' = Answer("make_map", <<>>, "ok")
      /\ UNCHANGED object

MapTakenTwice(key) ==
  [map EXCEPT !.used = @ \cup {map.place[key]}, !.unused = @ - 1]
MapTaken(key) ==
  [map EXCEPT !.used = @ \cup {map.place[key]},
              !.unused = IF map.place[key] \in map.used THEN @ ELSE @ - 1]

map_get(key) ==
  /\ map # NoMap /\ answer.result # "rerror"
  /\ IF key \in DOMAIN map.place
     THEN map' = MapTaken(key) /\ answer' = Answer("map_get", <<>>, "ok")
     ELSE map' = map /\ answer' = Answer("map_get", <<>>, "err")
  /\ UNCHANGED <<object, views>>

exhaustive ==
  /\ map # NoMap /\ answer.result # "rerror"
  /\ answer' = Answer("exhaustive", <<>>, IF map.unused = 0 THEN "ok" ELSE "err")
  /\ UNCHANGED <<object, views, map>>

-----------------------------------------------------------------------------

Subscript == UNION {[1 .. n -> Indices] : n \in 0 .. MaxRank}

Next ==
  \/ \E p \in Parameters : Enter(p)
  \/ map_get(New) \/ \E key \in Keys : map_get(key)
  \/ exhaustive
  \/ \E i \in 1 .. MaxViews :
       \/ Recharacterize(i)
       \/ \E t \in Elements : Coerce(i, t)
       \/ \E index \in Subscript : get(i, index) \/ set(i, index)
       \/ to_vector_mut(i)
       \/ transpose(i)
       \/ \E n \in Extents : set_names(i, n)
       \/ \E lengths \in Lengths : set_dimnames(i, lengths)
       \/ get_dimnames(i)
       \/ set_attribute(i)
       \/ \E key \in Keys : get_by_key(i, key)
       \/ make_map(i)

Spec == Init /\ [][Next]_vars

-----------------------------------------------------------------------------

(* Types.                                                                   *)
TypeOK ==
  /\ IsObject(object)
  /\ views \in Seq([shape : Shapes, element : Elements \cup {Untyped}])

(* A view is a bare cast, yet what is derived from what, and whatever was   *)
(* done to the object meanwhile, each is of something R's accessors for its  *)
(* type take: the mode of its element type, one cell for a scalar, a list    *)
(* for a list, a vector or a list for what has rows and columns or extents.  *)
(* Of the extents themselves a view is sure of nothing: to_vector_mut drops  *)
(* them and set_attribute changes them under a matrix.                       *)
ViewFits ==
  \A i \in DOMAIN views :
    LET v == views[i]
    IN  /\ v.element # Untyped => object.mode = Modes[v.element]
        /\ v.shape = "RScalar" => Len(object.cells) = 1
        /\ v.shape \in {"RList", "RDataFrame"} => object.mode = "list"
        /\ v.shape \in Indexed => is_vector(object) \/ is_list(object)

(* The extents the subscripts of a view count in.                           *)
Counted(v, o) ==
  CASE v.shape = "RMatrix" -> <<nrow(o), ncol(o)>>
    [] v.shape = "RArray" -> o.dim
    [] v.shape = "RScalar" -> <<>>
    [] OTHER -> <<Len(o.cells)>>

InRange(index, extents) ==
  Len(index) = Len(extents) /\ \A k \in DOMAIN index : index[k] < extents[k]

(* One subscript of a cell, from its number.                                *)
Digit(cell, extents, k) == (cell \div Products(extents)[k - 1]) % extents[k]

(* get and set never leave the object, and with every subscript in range     *)
(* they go to that very cell: the one whose number, read back as subscripts, *)
(* are the ones asked for.  They refuse none in range, if the extents they   *)
(* count in are all the object has (a body may have given a matrix a third). *)
(* Subscripts out of range may well answer from another row's or column's    *)
(* cell.                                                                     *)
AddressExact ==
  answer.op \in {"get", "set"} /\ answer.result # "rerror" =>
    LET view    == views[Len(views)]
        extents == Counted(view, object)
    IN  /\ answer.result = "ok" => answer.cell < Len(object.cells)
        /\ answer.result = "err" /\ (view.shape = "RMatrix" => Len(object.dim) <= 2) =>
             ~InRange(answer.index, extents)
        /\ answer.result = "ok" /\ InRange(answer.index, extents) =>
             \A k \in DOMAIN extents : Digit(answer.cell, extents, k) = answer.index[k]

CellAt(o, row, col) == o.cells[nrow(o) * col + row + 1]

(* transpose gives the matrix with rows and columns swapped, cell by cell,  *)
(* whatever its extents, though it swaps dim first and lets R fill the       *)
(* copy row by row; where R does not take the swapped ones it gives none.    *)
TransposeExact ==
  [][answer'.op = "transpose" /\ answer'.result = "ok" =>
       /\ nrow(object') = ncol(object) /\ ncol(object') = nrow(object)
       /\ \A row \in 0 .. nrow(object) - 1, col \in 0 .. ncol(object) - 1 :
            CellAt(object', col, row) = CellAt(object, row, col)]_vars

(* The checks of these methods come before R's: a call of theirs ends in an  *)
(* R error, which jumps over the Rust frames, in these cases only.  Three    *)
(* methods leave it to R to look: get_dimnames, set_attribute (and           *)
(* set_class), and to_f64 and the like, which R refuses for a list.  A       *)
(* string with a NUL cannot be set.  The rest are about extents: an array    *)
(* that has none any more; a matrix whose extents are fewer or more than two *)
(* by now, and more dimnames for it than two.                                *)
ChecksComeFirst ==
  answer.result = "rerror" =>
    LET view == views[Len(views)]
    IN  \/ answer.op \in {"get_dimnames", "set_attribute"}
        \/ answer.op = "coerce" /\ is_list(object)
        \/ answer.op = "set" /\ view.element = "char"
        \/ DimMissing(view, object)
        \/ view.shape = "RMatrix" /\ answer.op = "set_dimnames"
              /\ (Len(object.dim) < 2 \/ answer.index[1] > 2)
        \/ view.shape = "RMatrix" /\ answer.op = "transpose" /\ Len(object.dim) > 2

(* exhaustive (2017), for a list with names: it never passes while one of    *)
(* the list's elements was not asked for, and with distinct names it passes  *)
(* once all were, each however often and in whatever order.  For a list      *)
(* without names it passes whatever was asked for, against its comment.      *)
ExhaustiveExact ==
  answer.op = "exhaustive" =>
    LET names  == object.names
        all    == \A k \in DOMAIN object.cells : k \in map.used
        unique == \A j, k \in DOMAIN names : names[j] = names[k] => j = k
    IN  IF names = <<>> THEN answer.result = "ok"
        ELSE /\ answer.result = "ok" => all
             /\ unique /\ all => answer.result = "ok"

=============================================================================
