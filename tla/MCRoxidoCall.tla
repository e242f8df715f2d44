----------------------------- MODULE MCRoxidoCall -----------------------------
(* TLC instance of RoxidoCall: four objects, of which a call may protect up  *)
(* to four, and a message is allocated when the stack is free again.  R's     *)
(* bytes have two bits, its integers four, doubles four, usize five; the      *)
(* arguments are every small number, those around each limit, and vectors of  *)
(* other length.                                                              *)
EXTENDS RoxidoCall, TLC

Doubles == {-18} \cup (-16 .. 16) \cup {32, 56, 64, 72, Inf, NaN}

MCRValues ==
  {RValue("integer", 1, 2 * i) : i \in IntMin .. IntMax}
    \cup {RValue("logical", 1, h) : h \in {0, 2, 2 * IntMin}}
    \cup {RValue("raw", 1, 2 * b) : b \in 0 .. ByteMax}
    \cup {RValue("double", 1, h) : h \in Doubles}
    \cup {RValue("character", 1, h) : h \in {Text, 4, 6, 8}}
    \cup {RValue(mode, length, 0) : mode \in {"integer", "character"}, length \in {0, 2}}
    \cup {RValue("other", 1, Text)}

AnyObject == Permutations(Objects)
=============================================================================
