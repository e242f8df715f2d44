------------------------------ MODULE MCContainers ------------------------------
(* TLC instance of Containers: vectors of every mode and of no, one and      *)
(* several elements, matrices and arrays with extents that differ, with an   *)
(* extent of one or none, lists with distinct, repeated and no names, and    *)
(* what is no vector; extents to set that make an array of a matrix (with    *)
(* all cells in the first two extents or not, or none) and a matrix of the   *)
(* rest.                                                                     *)
EXTENDS Containers

Numbered(n) == [k \in 1 .. n |-> k]
Plain(mode, n) == RObject(mode, Numbered(n), <<>>)
Shaped(mode, dim) == RObject(mode, Numbered(Size(dim)), dim)
Named(names) == [RObject("list", Numbered(Len(names)), <<>>) EXCEPT !.names = names]
OfClass(o, class) == [o EXCEPT !.class = class]

MCDims == {<<2, 1>>, <<2, 2>>, <<2, 3, 1>>, <<1, 3, 2>>, <<1, 1, 0>>}

MCStart ==
  {Plain(mode, 1) : mode \in {"double", "complex", "character"}}
    \cup {Plain("integer", 0), Plain("character", 2), OfClass(Plain("integer", 2), "factor")}
    \cup {Shaped("double", dim) : dim \in {<<2, 3>>, <<1, 1>>, <<0, 2>>, <<2, 1, 2>>}}
    \cup {Shaped("list", <<2, 1>>), Shaped("list", <<1, 1, 2>>)}
    \cup {Named(names) : names \in {<<>>, <<"a", "b">>, <<"a", "b", "a">>}}
    \cup {Plain("list", 2), OfClass(Named(<<"a", "b">>), "data.frame")}
    \cup {Plain(mode, 0) : mode \in {"NULL", "closure", "symbol", "externalptr"}}
=============================================================================
