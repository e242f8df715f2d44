---------------------------- MODULE ContainersProofs ----------------------------
(***************************************************************************)
(* Theorems about Containers, for any R objects, subscripts, names and     *)
(* number of views.  ViewFits says view by view what Fits says: nothing a  *)
(* body does changes the mode or the number of cells under a view.         *)
(* AddressExact is the mixed-radix representation: the running products    *)
(* are its weights.  ExhaustiveExact rests on the counter of an RListMap:  *)
(* the number of names less the number of elements asked for.              *)
(***************************************************************************)
EXTENDS Containers, FiniteSetTheorems, WellFoundedInduction, TLAPS

(* ViewFits, of one view.                                                    *)
Fits(v, o) ==
  /\ v.element # Untyped => o.mode = Modes[v.element]
  /\ v.shape = "RScalar" => Len(o.cells) = 1
  /\ v.shape \in {"RList", "RDataFrame"} => o.mode = "list"
  /\ v.shape \in Indexed => is_vector(o) \/ is_list(o)

MapCounts ==
  \/ map = NoMap
  \/ /\ map = [unused |-> map.unused, used |-> map.used, place |-> map.place]
     /\ map.used \subseteq DOMAIN object.names
     /\ map.unused = Len(object.names) - Cardinality(map.used)
     /\ \A key \in DOMAIN map.place : map.place[key] \in DOMAIN object.names

Inv == TypeOK /\ ViewFits /\ MapCounts /\ ChecksComeFirst /\ ExhaustiveExact /\ AddressExact

ViewType == [shape : Shapes, element : Elements \cup {Untyped}]

(* What fits a view of the one object fits that view of the other.           *)
Like(p, o) == p.mode = o.mode /\ Len(p.cells) = Len(o.cells)

-----------------------------------------------------------------------------
(* Running products, and the number of a cell in terms of them.              *)

(* What holds at 0 and is handed on holds up to n: a least exception would   *)
(* have one below it.                                                        *)
LEMMA Upwards ==
  ASSUME NEW n \in Nat, NEW T, 0 \in T,
         \A k \in 0 .. n : k # 0 /\ k - 1 \in T => k \in T
  PROVE  \A k \in 0 .. n : k \in T
<1> DEFINE R == {ss \in Nat \X Nat : ss[1] < ss[2]}
           missed == (0 .. n) \ T
<1>1. IsWellFoundedOn(R, Nat)
  BY NatLessThanWellFounded DEF OpToRel
<1>2. \A a, b \in Nat : <<a, b>> \in R <=> a < b
  OBVIOUS
<1> HIDE DEF R
<1>3. SUFFICES ASSUME missed # {} PROVE FALSE
  OBVIOUS
<1>4. missed \subseteq Nat
  OBVIOUS
<1>5. PICK x \in missed : \A y \in missed : ~ (<<y, x>> \in R)
  BY <1>1, <1>3, <1>4, WFMin
<1>6. x \in 0 .. n /\ x # 0 /\ x - 1 \in 0 .. n /\ x - 1 \in Nat /\ x \in Nat /\ x - 1 < x
  OBVIOUS
<1>7. x - 1 \in T
  BY <1>2, <1>5, <1>6
<1> QED BY <1>6, <1>7

(* The running products are what their recursion says.                       *)
LEMMA ProductsRecursion ==
  ASSUME NEW dim \in Seq(Nat)
  PROVE  Products(dim) =
           [k \in 0 .. Len(dim) |-> IF k = 0 THEN 1 ELSE Products(dim)[k - 1] * dim[k]]
<1> DEFINE n == Len(dim)
           Rec(g, l) == g = [k \in 0 .. l |-> IF k = 0 THEN 1 ELSE g[k - 1] * dim[k]]
           T == {l \in 0 .. n : \E g : Rec(g, l)}
<1>1. n \in Nat
  OBVIOUS
<1>2. 0 \in T
  <2> DEFINE g == [k \in 0 .. 0 |-> 1]
  <2>1. Rec(g, 0)
    OBVIOUS
  <2>2. 0 \in 0 .. n
    BY <1>1
  <2> HIDE DEF Rec, g, n
  <2> QED BY <2>1, <2>2
<1>3. ASSUME NEW l \in 0 .. n, l # 0, l - 1 \in T PROVE l \in T
  <2>1. PICK g : Rec(g, l - 1)
    BY <1>3
  <2> DEFINE h == [k \in 0 .. l |-> IF k = l THEN g[l - 1] * dim[l] ELSE g[k]]
  <2>2. l \in Nat /\ l - 1 \in Nat /\ l \notin 0 .. l - 1
    BY <1>1, <1>3
  <2>3. \A k \in 0 .. l - 1 : g[k] = IF k = 0 THEN 1 ELSE g[k - 1] * dim[k]
    BY <2>1
  <2>4. \A k \in 0 .. l : h[k] = IF k = 0 THEN 1 ELSE h[k - 1] * dim[k]
    <3> TAKE k \in 0 .. l
    <3>1. CASE k = l
      <4>1. h[k] = g[l - 1] * dim[l] /\ h[k - 1] = g[l - 1]
        BY <2>2, <3>1
      <4> QED BY <1>3, <3>1, <4>1
    <3>2. CASE k # l
      <4>1. k \in 0 .. l - 1 /\ h[k] = g[k] /\ (k # 0 => k - 1 \in 0 .. l /\ k - 1 # l)
        BY <2>2, <3>2
      <4>2. k # 0 => h[k - 1] = g[k - 1]
        BY <4>1
      <4> QED BY <2>3, <4>1, <4>2
    <3> QED BY <3>1, <3>2
  <2>5. Rec(h, l)
    <3>1. h = [k \in 0 .. l |-> h[k]]
      OBVIOUS
    <3> HIDE DEF h
    <3> QED BY <2>4, <3>1
  <2> QED BY <2>5
<1>4. n \in T
  <2> HIDE DEF T, n
  <2> QED BY <1>1, <1>2, <1>3, Upwards
<1>5. \E g : Rec(g, n)
  BY <1>4
<1>6. Products(dim) = CHOOSE g : Rec(g, n)
  BY DEF Products
<1> QED BY <1>5, <1>6

LEMMA ProductsFacts ==
  ASSUME NEW dim \in Seq(Nat)
  PROVE  LET P == Products(dim)
         IN  /\ P[0] = 1
             /\ \A k \in 1 .. Len(dim) : P[k] = P[k - 1] * dim[k]
             /\ \A k \in 0 .. Len(dim) : P[k] \in Nat
<1> DEFINE P == Products(dim)
           n == Len(dim)
           T == {k \in 0 .. n : P[k] \in Nat}
<1>1. n \in Nat /\ \A k \in 1 .. n : dim[k] \in Nat
  OBVIOUS
<1>2. P = [k \in 0 .. n |-> IF k = 0 THEN 1 ELSE P[k - 1] * dim[k]]
  BY ProductsRecursion
<1> HIDE DEF P, n
<1>3. P[0] = 1 /\ \A k \in 1 .. n : P[k] = P[k - 1] * dim[k]
  <2>1. \A k \in 0 .. n : P[k] = IF k = 0 THEN 1 ELSE P[k - 1] * dim[k]
    BY <1>2
  <2> QED BY <1>1, <2>1
<1>4. \A k \in 0 .. n : k \in T
  <2>1. 0 \in T
    BY <1>1, <1>3
  <2>2. ASSUME NEW k \in 0 .. n, k # 0, k - 1 \in T PROVE k \in T
    <3>1. k \in 1 .. n /\ P[k - 1] \in Nat /\ dim[k] \in Nat
      BY <1>1, <2>2
    <3>2. P[k] \in Nat
      BY <1>3, <3>1
    <3> QED BY <3>2
  <2> HIDE DEF T
  <2> QED BY <1>1, <2>1, <2>2, Upwards
<1> QED BY <1>3, <1>4 DEF P, n

(* The sum of the subscripts times the running products.                     *)
LEMMA IndexRecursion ==
  ASSUME NEW dim \in Seq(Nat), NEW index \in Seq(Nat), Len(index) = Len(dim)
  PROVE  \E i : /\ i[0] = 0
                /\ \A k \in 1 .. Len(dim) : i[k] = i[k - 1] + Products(dim)[k - 1] * index[k]
                /\ array_index(dim, index) = i[Len(dim)]
<1> DEFINE n == Len(dim)
           P == Products(dim)
           Rec(g, l) == g = [k \in 0 .. l |-> IF k = 0 THEN 0 ELSE g[k - 1] + P[k - 1] * index[k]]
           T == {l \in 0 .. n : \E g : Rec(g, l)}
<1>1. n \in Nat
  OBVIOUS
<1>2. 0 \in T
  <2> DEFINE g == [k \in 0 .. 0 |-> 0]
  <2>1. Rec(g, 0)
    OBVIOUS
  <2>2. 0 \in 0 .. n
    BY <1>1
  <2> HIDE DEF Rec, g, n
  <2> QED BY <2>1, <2>2
<1>3. ASSUME NEW l \in 0 .. n, l # 0, l - 1 \in T PROVE l \in T
  <2>1. PICK g : Rec(g, l - 1)
    BY <1>3
  <2> DEFINE h == [k \in 0 .. l |-> IF k = l THEN g[l - 1] + P[l - 1] * index[l] ELSE g[k]]
  <2> HIDE DEF P
  <2>2. l \in Nat /\ l - 1 \in Nat /\ l \notin 0 .. l - 1
    BY <1>1, <1>3
  <2>3. \A k \in 0 .. l - 1 : g[k] = IF k = 0 THEN 0 ELSE g[k - 1] + P[k - 1] * index[k]
    BY <2>1
  <2>4. \A k \in 0 .. l : h[k] = IF k = 0 THEN 0 ELSE h[k - 1] + P[k - 1] * index[k]
    <3> TAKE k \in 0 .. l
    <3>1. CASE k = l
      <4>1. h[k] = g[l - 1] + P[l - 1] * index[l] /\ h[k - 1] = g[l - 1]
        BY <2>2, <3>1
      <4> QED BY <1>3, <3>1, <4>1
    <3>2. CASE k # l
      <4>1. k \in 0 .. l - 1 /\ h[k] = g[k] /\ (k # 0 => k - 1 \in 0 .. l /\ k - 1 # l)
        BY <2>2, <3>2
      <4>2. k # 0 => h[k - 1] = g[k - 1]
        BY <4>1
      <4> QED BY <2>3, <4>1, <4>2
    <3> QED BY <3>1, <3>2
  <2>5. Rec(h, l)
    <3>1. h = [k \in 0 .. l |-> h[k]]
      OBVIOUS
    <3> HIDE DEF h
    <3> QED BY <2>4, <3>1
  <2> QED BY <2>5
<1>4. n \in T
  <2> HIDE DEF T, n, P, Rec
  <2>1. \A k \in 0 .. n : k \in T
    BY <1>1, <1>2, <1>3, Upwards, Zenon
  <2> QED BY <1>1, <2>1
<1>5. PICK i : Rec(i, n) /\ i = CHOOSE g : Rec(g, n)
  <2>1. \E g : Rec(g, n)
    BY <1>4
  <2> HIDE DEF Rec, n
  <2> QED BY <2>1
<1>6. array_index(dim, index) = i[n]
  <2>1. (IF Len(index) < Len(dim) THEN Len(index) ELSE Len(dim)) = n
    OBVIOUS
  <2> QED BY <1>5, <2>1 DEF array_index, Coefficient
<1>7. i[0] = 0 /\ \A k \in 1 .. n : i[k] = i[k - 1] + P[k - 1] * index[k]
  <2> HIDE DEF P, n
  <2>1. \A k \in 0 .. n : i[k] = IF k = 0 THEN 0 ELSE i[k - 1] + P[k - 1] * index[k]
    BY <1>5
  <2> QED BY <1>1, <2>1
<1> QED BY <1>6, <1>7

LEMMA Quotient ==
  ASSUME NEW b \in Nat, NEW q \in Nat, NEW r \in Nat, r < b
  PROVE  (r + b * q) \div b = q /\ (r + b * q) % b = r
OBVIOUS

LEMMA Times == ASSUME NEW a \in Nat, NEW b \in Nat PROVE a * b \in Nat
OBVIOUS

(* One more digit: what lies below P, and i times P on top of it, lies below *)
(* d times P.                                                                *)
LEMMA OneMoreDigit ==
  ASSUME NEW P \in Nat, NEW d \in Nat, NEW s \in Nat, NEW i \in Nat, s < P, i < d
  PROVE  s + P * i < P * d /\ s + P * i \in Nat
<1>1. P * i + P <= P * d
  <2>1. i + 1 <= d
    OBVIOUS
  <2>2. P * (i + 1) <= P * d
    BY <2>1
  <2> QED BY <2>2
<1>2. P * i \in Nat /\ P * d \in Nat
  OBVIOUS
<1> QED BY <1>1, <1>2

(* The number of a cell is below the size, and its digits are the subscripts. *)
LEMMA MixedRadix ==
  ASSUME NEW dim \in Seq(Nat), NEW index \in Seq(Nat), Len(index) = Len(dim),
         InRange(index, dim)
  PROVE  LET cell == array_index(dim, index)
         IN  /\ cell \in Nat /\ cell < Size(dim)
             /\ \A k \in 1 .. Len(dim) : Digit(cell, dim, k) = index[k]
<1>1. PICK s : /\ s[0] = 0
               /\ \A k \in 1 .. Len(dim) : s[k] = s[k - 1] + Products(dim)[k - 1] * index[k]
               /\ array_index(dim, index) = s[Len(dim)]
  BY IndexRecursion
<1> DEFINE n == Len(dim)
           P == Products(dim)
<1>2. n \in Nat /\ \A k \in 1 .. n : dim[k] \in Nat /\ index[k] \in Nat /\ index[k] < dim[k]
  BY DEF InRange
<1>3. /\ s[0] = 0
      /\ \A k \in 1 .. n : s[k] = s[k - 1] + P[k - 1] * index[k]
      /\ array_index(dim, index) = s[n]
  BY <1>1
<1>4. /\ P[0] = 1
      /\ \A k \in 1 .. n : P[k] = P[k - 1] * dim[k]
      /\ \A k \in 0 .. n : P[k] \in Nat
  BY ProductsFacts
<1>5. Size(dim) = P[n]
  BY DEF Size
<1>6. \A k \in 1 .. n : Digit(s[n], dim, k) = (s[n] \div P[k - 1]) % dim[k]
  BY DEF Digit
<1> HIDE DEF n, P
<1>7. \A k \in 0 .. n : s[k] \in Nat /\ s[k] < P[k]
  <2> DEFINE T == {k \in 0 .. n : s[k] \in Nat /\ s[k] < P[k]}
  <2>1. 0 \in T
    BY <1>2, <1>3, <1>4
  <2>2. ASSUME NEW k \in 0 .. n, k # 0, k - 1 \in T PROVE k \in T
    <3>1. k \in 1 .. n
      BY <1>2, <2>2
    <3> DEFINE a == s[k - 1]
               b == P[k - 1]
    <3>2. /\ a \in Nat /\ b \in Nat /\ a < b
          /\ dim[k] \in Nat /\ index[k] \in Nat /\ index[k] < dim[k]
          /\ s[k] = a + b * index[k] /\ P[k] = b * dim[k]
      BY <1>2, <1>3, <1>4, <2>2, <3>1
    <3> HIDE DEF a, b
    <3>3. a + b * index[k] < b * dim[k] /\ a + b * index[k] \in Nat
      BY <3>2, OneMoreDigit, Zenon
    <3> QED BY <2>2, <3>2, <3>3
  <2> HIDE DEF T
  <2>3. \A k \in 0 .. n : k \in T
    BY <1>2, <2>1, <2>2, Upwards
  <2> QED BY <2>3 DEF T
<1>8. ASSUME NEW j \in 1 .. n PROVE \E q \in Nat : s[n] = s[j] + P[j] * q
  <2> DEFINE m == n - j
             T == {k \in 0 .. m : \E q, r \in Nat : s[j + k] = s[j] + P[j] * q /\ P[j + k] = P[j] * r}
  <2>1. m \in Nat /\ j \in Nat /\ s[j] \in Nat /\ P[j] \in Nat
    BY <1>2, <1>4, <1>7
  <2>2. 0 \in T
    <3>1. 0 \in 0 .. m /\ j + 0 = j /\ 0 \in Nat /\ 1 \in Nat
      BY <2>1
    <3>2. s[j] = s[j] + P[j] * 0 /\ P[j] = P[j] * 1
      BY <2>1
    <3> QED BY <3>1, <3>2
  <2>3. ASSUME NEW k \in 0 .. m, k # 0, k - 1 \in T PROVE k \in T
    <3> DEFINE i == j + k
    <3>1. i \in 1 .. n /\ i - 1 = j + (k - 1)
      BY <1>2, <2>1
    <3>2. PICK q \in Nat, r \in Nat : s[i - 1] = s[j] + P[j] * q /\ P[i - 1] = P[j] * r
      BY <2>3, <3>1
    <3>3. /\ s[i] = s[j] + P[j] * q + (P[j] * r) * index[i]
          /\ P[i] = (P[j] * r) * dim[i]
          /\ index[i] \in Nat /\ dim[i] \in Nat
      BY <1>2, <1>3, <1>4, <3>1, <3>2
    <3> HIDE DEF i
    <3> DEFINE x == index[i]
               d == dim[i]
               a == s[j]
               b == P[j]
               u == s[i]
               v == P[i]
    <3>4. /\ u = a + b * q + (b * r) * x /\ v = (b * r) * d
          /\ a \in Nat /\ b \in Nat /\ x \in Nat /\ d \in Nat
      BY <2>1, <3>3
    <3> HIDE DEF x, d, a, b, u, v
    <3>5. u = a + b * (q + r * x) /\ v = b * (r * d)
      BY <3>4
    <3>6. q + r * x \in Nat /\ r * d \in Nat
      <4>1. r * x \in Nat /\ r * d \in Nat
        BY <3>4, Times, Zenon
      <4> QED BY <4>1
    <3>7. \E y, z \in Nat : u = a + b * y /\ v = b * z
      BY <3>5, <3>6, Zenon
    <3> QED BY <2>3, <3>7 DEF i, a, b, u, v
  <2>4. m \in T
    <3> HIDE DEF T, m
    <3>1. \A k \in 0 .. m : k \in T
      BY <2>1, <2>2, <2>3, Upwards, Zenon
    <3> QED BY <2>1, <3>1
  <2> QED BY <1>2, <2>4
<1>9. ASSUME NEW k \in 1 .. n PROVE (s[n] \div P[k - 1]) % dim[k] = index[k]
  <2> DEFINE a == s[k - 1]
             b == P[k - 1]
  <2>1. /\ a \in Nat /\ b \in Nat /\ a < b
        /\ dim[k] \in Nat /\ index[k] \in Nat /\ index[k] < dim[k]
        /\ s[k] = a + b * index[k] /\ P[k] = b * dim[k]
    <3>1. k - 1 \in 0 .. n
      BY <1>2
    <3> QED BY <1>2, <1>3, <1>4, <1>7, <3>1
  <2>2. PICK q \in Nat : s[n] = s[k] + P[k] * q
    BY <1>8
  <2> DEFINE x == index[k]
             d == dim[k]
             t == s[n]
  <2>3. /\ t = a + b * x + (b * d) * q
        /\ x \in Nat /\ d \in Nat /\ x < d
    BY <2>1, <2>2
  <2> HIDE DEF a, b, x, d, t
  <2> DEFINE c == x + d * q
  <2>4. c \in Nat /\ t = a + b * c
    <3>1. d * q \in Nat
      BY <2>3, Times, Zenon
    <3>2. b * (x + d * q) = b * x + (b * d) * q
      BY <2>1, <2>3
    <3>3. x + d * q \in Nat
      BY <2>3, <3>1
    <3>4. b * x \in Nat /\ (b * d) * q \in Nat
      BY <2>1, <2>3, Times, Zenon
    <3>5. a + b * x + (b * d) * q = a + (b * x + (b * d) * q)
      BY <2>1, <3>4
    <3> QED BY <2>3, <3>2, <3>3, <3>5
  <2>5. c % d = x
    BY <2>3, Quotient
  <2> HIDE DEF c
  <2>6. t \div b = c
    BY <2>1, <2>4, Quotient
  <2> QED BY <2>5, <2>6 DEF b, x, d, t
<1>10. s[n] \in Nat /\ s[n] < P[n]
  BY <1>2, <1>7
<1> QED BY <1>3, <1>5, <1>6, <1>9, <1>10 DEF n

(* A tuple given as a function is a sequence of that length.                 *)
LEMMA LenOfFunction ==
  ASSUME NEW n \in Nat, NEW S, NEW f \in [1 .. n -> S]
  PROVE  Len(f) = n /\ DOMAIN f = 1 .. n
<1>1. f \in Seq(S)
  OBVIOUS
<1> QED BY <1>1

LEMMA Elementwise == ASSUME NEW q \in Seq(Nat) PROVE \A k \in 1 .. Len(q) : q[k] \in Nat
OBVIOUS

LEMMA SizeOfOne ==
  ASSUME NEW a \in Nat
  PROVE  Size(<<a>>) = a /\ Products(<<a>>)[0] = 1
<1> DEFINE dim == <<a>>
<1>1. dim \in Seq(Nat) /\ Len(dim) = 1 /\ dim[1] = a
  OBVIOUS
<1> HIDE DEF dim
<1>2. Products(dim)[0] = 1 /\ Products(dim)[1] = Products(dim)[1 - 1] * dim[1]
  BY <1>1, ProductsFacts
<1> QED BY <1>1, <1>2 DEF Size, dim

LEMMA SizeOfTwo ==
  ASSUME NEW dim \in Seq(Nat), Len(dim) = 2
  PROVE  /\ Size(dim) = dim[1] * dim[2] /\ dim[1] \in Nat /\ dim[2] \in Nat
         /\ Products(dim)[0] = 1 /\ Products(dim)[1] = dim[1]
<1> DEFINE P == Products(dim)
<1>1. P[0] = 1 /\ P[1] = P[1 - 1] * dim[1] /\ P[2] = P[2 - 1] * dim[2]
  <2>1. P[0] = 1 /\ \A k \in 1 .. Len(dim) : P[k] = P[k - 1] * dim[k]
    BY ProductsFacts
  <2>2. 1 \in 1 .. Len(dim) /\ 2 \in 1 .. Len(dim)
    OBVIOUS
  <2> HIDE DEF P
  <2> QED BY <2>1, <2>2
<1>2. dim[1] \in Nat /\ dim[2] \in Nat
  OBVIOUS
<1>3. Products(dim)[1] = dim[1]
  BY <1>1, <1>2
<1> QED BY <1>1, <1>2, <1>3 DEF Size

(* One and two subscripts.                                                   *)
LEMMA IndexOfOne ==
  ASSUME NEW a \in Nat, NEW index \in Seq(Nat), Len(index) = 1
  PROVE  array_index(<<a>>, index) = index[1]
<1> DEFINE dim == <<a>>
<1>1. dim \in Seq(Nat) /\ Len(dim) = 1 /\ index[1] \in Nat
  <2>1. index[1] \in Nat
    <3>1. \A k \in 1 .. Len(index) : index[k] \in Nat
      BY Elementwise, Zenon
    <3>2. 1 \in 1 .. Len(index)
      OBVIOUS
    <3> QED BY <3>1, <3>2, Zenon
  <2>2. dim \in Seq(Nat) /\ Len(dim) = 1
    OBVIOUS
  <2> QED BY <2>1, <2>2
<1>2. Products(dim)[0] = 1
  BY SizeOfOne
<1> HIDE DEF dim
<1>3. PICK s : /\ s[0] = 0
               /\ \A k \in 1 .. Len(dim) : s[k] = s[k - 1] + Products(dim)[k - 1] * index[k]
               /\ array_index(dim, index) = s[Len(dim)]
  BY <1>1, IndexRecursion
<1>4. s[1] = s[1 - 1] + Products(dim)[1 - 1] * index[1]
  BY <1>1, <1>3
<1> QED BY <1>1, <1>2, <1>3, <1>4 DEF dim

LEMMA IndexOfTwo ==
  ASSUME NEW dim \in Seq(Nat), NEW index \in Seq(Nat), Len(dim) = 2, Len(index) = 2
  PROVE  array_index(dim, index) = dim[1] * index[2] + index[1]
<1>1. /\ Products(dim)[0] = 1 /\ Products(dim)[1] = dim[1]
      /\ dim[1] \in Nat /\ index[1] \in Nat /\ index[2] \in Nat
  BY SizeOfTwo
<1>2. PICK s : /\ s[0] = 0
               /\ \A k \in 1 .. Len(dim) : s[k] = s[k - 1] + Products(dim)[k - 1] * index[k]
               /\ array_index(dim, index) = s[Len(dim)]
  BY IndexRecursion
<1>3. s[1] = s[1 - 1] + Products(dim)[1 - 1] * index[1] /\ s[2] = s[2 - 1] + Products(dim)[2 - 1] * index[2]
  BY <1>2
<1>4. s[1] = index[1]
  BY <1>1, <1>2, <1>3
<1>5. s[2] = index[1] + dim[1] * index[2]
  BY <1>1, <1>3, <1>4
<1>6. dim[1] * index[2] \in Nat
  BY <1>1, Times, Zenon
<1> QED BY <1>1, <1>2, <1>5, <1>6

-----------------------------------------------------------------------------
(* Objects.                                                                  *)

LEMMA LenOfTuple ==
  ASSUME NEW n \in Nat, NEW f, f = [k \in 1 .. n |-> f[k]]
  PROVE  Len(f) = n /\ DOMAIN f = 1 .. n
<1> DEFINE S == {f[k] : k \in 1 .. n}
<1>1. f \in [1 .. n -> S]
  OBVIOUS
<1> HIDE DEF S
<1> QED BY <1>1, LenOfFunction

(* The rows and columns of what an RMatrix looks at, which is by now a       *)
(* matrix, a vector (it counts as one column) or an array of more extents.   *)
LEMMA SizeOfPair ==
  ASSUME NEW a \in Nat, NEW b \in Nat
  PROVE  <<a, b>> \in Seq(Nat) /\ Size(<<a, b>>) = a * b
<1> DEFINE dim == <<a, b>>
<1>1. dim \in Seq(Nat) /\ Len(dim) = 2 /\ dim[1] = a /\ dim[2] = b
  OBVIOUS
<1> HIDE DEF dim
<1>2. Size(dim) = dim[1] * dim[2]
  BY <1>1, SizeOfTwo
<1> QED BY <1>1, <1>2 DEF dim

LEMMA RowsAndColumnsAreNat ==
  ASSUME NEW o, IsObject(o)
  PROVE  nrow(o) \in Nat /\ ncol(o) \in Nat
<1>1. o.dim \in Seq(Nat) /\ Len(o.cells) \in Nat
  BY DEF IsObject
<1>2. nrow(o) \in Nat
  <2>1. CASE o.dim = <<>>
    BY <1>1, <2>1 DEF nrow
  <2>2. CASE o.dim # <<>>
    <3>1. 1 \in 1 .. Len(o.dim)
      BY <1>1, <2>2
    <3>2. o.dim[1] \in Nat
      BY <1>1, <3>1
    <3> QED BY <2>2, <3>2 DEF nrow
  <2> QED BY <2>1, <2>2
<1>3. ncol(o) \in Nat
  <2>1. CASE Len(o.dim) < 2
    BY <2>1 DEF ncol
  <2>2. CASE ~ (Len(o.dim) < 2)
    <3>1. 2 \in 1 .. Len(o.dim)
      BY <1>1, <2>2
    <3>2. o.dim[2] \in Nat
      BY <1>1, <3>1
    <3> QED BY <2>2, <3>2 DEF ncol
  <2> QED BY <2>1, <2>2
<1> QED BY <1>2, <1>3

LEMMA RowsAndColumns ==
  ASSUME NEW o, IsObject(o), Len(o.dim) <= 2
  PROVE  Len(o.cells) = nrow(o) * ncol(o)
<1>1. /\ o.dim \in Seq(Nat) /\ Len(o.cells) \in Nat /\ Len(o.dim) \in 0 .. 2
      /\ o.dim # <<>> => Len(o.cells) = Size(o.dim)
  <2>1. o.dim \in Seq(Nat) /\ Len(o.cells) \in Nat /\ (o.dim # <<>> => Len(o.cells) = Size(o.dim))
    BY DEF IsObject
  <2>2. Len(o.dim) \in Nat
    BY <2>1
  <2>3. Len(o.dim) \in 0 .. 2
    <3> DEFINE n == Len(o.dim)
    <3>1. n \in Nat /\ n <= 2
      BY <2>2
    <3> HIDE DEF n
    <3>2. n \in 0 .. 2
      BY <3>1
    <3> QED BY <3>2 DEF n
  <2> QED BY <2>1, <2>3
<1>2. CASE Len(o.dim) = 2
  <2>1. o.dim # <<>> /\ nrow(o) = o.dim[1] /\ ncol(o) = o.dim[2]
    BY <1>2 DEF nrow, ncol
  <2> QED BY <1>1, <1>2, <2>1, SizeOfTwo
<1>3. CASE Len(o.dim) = 1
  <2>1. o.dim # <<>> /\ nrow(o) = o.dim[1] /\ ncol(o) = 1 /\ o.dim = <<o.dim[1]>> /\ o.dim[1] \in Nat
    BY <1>1, <1>3 DEF nrow, ncol
  <2>2. Size(<<o.dim[1]>>) = o.dim[1]
    BY <2>1, SizeOfOne
  <2> QED BY <1>1, <2>1, <2>2
<1>4. CASE Len(o.dim) = 0
  <2>1. o.dim = <<>>
    BY <1>1, <1>4
  <2>2. nrow(o) = Len(o.cells) /\ ncol(o) = 1
    BY <2>1 DEF nrow, ncol
  <2> QED BY <1>1, <2>2
<1> QED BY <1>1, <1>2, <1>3, <1>4

LEMMA LikeFits ==
  ASSUME NEW o, NEW p, NEW v, Fits(v, o), Like(p, o)
  PROVE  Fits(v, p)
BY DEF Fits, Like, is_vector, is_list

LEMMA FitsAll == ViewFits <=> \A i \in DOMAIN views : Fits(views[i], object)
BY DEF ViewFits, Fits

(* What the checks of a shape say.                                           *)
LEMMA ShapeFits ==
  ASSUME NEW o, NEW shape, AsShape(o, shape)
  PROVE  Fits(View(shape, Untyped), o)
<1> DEFINE v == View(shape, Untyped)
<1>1. v.shape = shape /\ v.element = Untyped
  BY DEF View
<1>2. /\ shape = "RScalar" => Len(o.cells) = 1
      /\ shape \in {"RList", "RDataFrame"} => o.mode = "list"
      /\ shape \in Indexed => is_vector(o) \/ is_list(o)
  BY DEF AsShape, AsIndexed, AsOther, Opaque, Indexed, is_matrix, is_array, is_list, is_data_frame
<1> QED BY <1>1, <1>2 DEF Fits

LEMMA EnumeratedFits ==
  ASSUME NEW o
  PROVE  enumerate(o) \in Shapes /\ Fits(View(enumerate(o), Untyped), o)
<1> DEFINE v == View(enumerate(o), Untyped)
<1>1. v.shape = enumerate(o) /\ v.element = Untyped
  BY DEF View
<1>2. /\ enumerate(o) = "RScalar" => Len(o.cells) = 1
      /\ enumerate(o) \in {"RList", "RDataFrame"} => o.mode = "list"
      /\ enumerate(o) \in Indexed => is_vector(o) \/ is_list(o)
  BY DEF enumerate, Opaque, Indexed, is_matrix, is_array, is_list
<1>3. enumerate(o) \in Shapes
  BY DEF enumerate, Shapes, Indexed, Opaque
<1> QED BY <1>1, <1>2, <1>3 DEF Fits

(* With every subscript in range the address is the cell's, and that cell is *)
(* there unless a matrix was given a third extent.                           *)
LEMMA AddressInRange ==
  ASSUME NEW v \in ViewType, NEW o, IsObject(o), Fits(v, o), ~ DimMissing(v, o),
         NEW index \in Seq(Nat), Len(index) \in Subscripts(v), InRange(index, Counted(v, o))
  PROVE  /\ (v.shape = "RMatrix" => Len(o.dim) <= 2) => Address(v, o, index) < Len(o.cells)
         /\ \A k \in DOMAIN Counted(v, o) : Digit(Address(v, o, index), Counted(v, o), k) = index[k]
<1> DEFINE extents == Counted(v, o)
           cell == Address(v, o, index)
<1>1. Len(o.cells) \in Nat /\ o.dim \in Seq(Nat)
  BY DEF IsObject
<1>2. v.shape \in {"RScalar", "RVector", "RList", "RDataFrame", "RMatrix", "RArray"}
  BY DEF Subscripts
<1>3. CASE v.shape = "RScalar"
  <2>1. extents = <<>> /\ cell = 0 /\ Len(o.cells) = 1
    BY <1>3 DEF Counted, Address, Fits
  <2> QED BY <2>1
<1>4. ASSUME extents \in Seq(Nat), Len(index) = Len(extents), cell = array_index(extents, index)
      PROVE  cell < Size(extents) /\ \A k \in DOMAIN extents : Digit(cell, extents, k) = index[k]
  <2> HIDE DEF extents, cell
  <2>1. InRange(index, extents) /\ DOMAIN extents = 1 .. Len(extents)
    BY <1>4 DEF extents
  <2>2. /\ array_index(extents, index) < Size(extents)
        /\ \A k \in 1 .. Len(extents) : Digit(array_index(extents, index), extents, k) = index[k]
    BY <1>4, <2>1, MixedRadix
  <2> QED BY <1>4, <2>1, <2>2
<1>5. CASE v.shape = "RMatrix"
  <2>1. extents = <<nrow(o), ncol(o)>> /\ cell = nrow(o) * index[2] + index[1]
    BY <1>5 DEF Counted, Address, matrix_index
  <2>2. nrow(o) \in Nat /\ ncol(o) \in Nat
    BY RowsAndColumnsAreNat
  <2>3. extents \in Seq(Nat) /\ Size(extents) = nrow(o) * ncol(o)
    BY <2>1, <2>2, SizeOfPair
  <2>4. Len(index) = Len(extents) /\ Len(extents) = 2 /\ extents[1] = nrow(o)
    BY <2>1 DEF InRange
  <2>5. Len(o.dim) <= 2 => Size(extents) = Len(o.cells)
    BY <2>3, RowsAndColumns
  <2> HIDE DEF extents, cell
  <2>6. cell = array_index(extents, index)
    BY <2>1, <2>3, <2>4, IndexOfTwo
  <2> QED BY <1>4, <1>5, <2>3, <2>4, <2>5, <2>6 DEF extents, cell
<1>6. CASE v.shape = "RArray"
  <2>1. extents = o.dim /\ cell = array_index(o.dim, index) /\ o.dim # <<>>
    BY <1>6 DEF Counted, Address, DimMissing
  <2>2. Len(index) = Len(extents) /\ Len(o.cells) = Size(extents)
    BY <2>1 DEF InRange, IsObject
  <2> QED BY <1>1, <1>4, <2>1, <2>2
<1>7. CASE v.shape \in {"RVector", "RList", "RDataFrame"}
  <2>1. extents = <<Len(o.cells)>> /\ cell = index[1]
    BY <1>7 DEF Counted, Address
  <2>2. Len(index) = Len(extents) /\ Len(extents) = 1 /\ extents \in Seq(Nat)
    BY <1>1, <2>1 DEF InRange
  <2>3. Size(extents) = Len(o.cells) /\ array_index(extents, index) = index[1]
    BY <1>1, <2>1, <2>2, SizeOfOne, IndexOfOne
  <2> QED BY <1>4, <2>1, <2>2, <2>3
<1> QED BY <1>2, <1>3, <1>5, <1>6, <1>7

(* What the steps of a body leave of its views.                              *)
LEMMA KeptViews ==
  ASSUME TypeOK, NEW i \in DOMAIN views, Kept(i)
  PROVE  /\ views' \in Seq(ViewType)
         /\ Len(views') = i /\ i \in DOMAIN views' /\ DOMAIN views' = 1 .. i
         /\ \A k \in DOMAIN views' : k \in DOMAIN views /\ views'[k] = views[k]
<1>1. views \in Seq(ViewType) /\ i \in 1 .. Len(views)
  BY DEF TypeOK, ViewType
<1> QED BY <1>1 DEF Kept

LEMMA DerivedViews ==
  ASSUME TypeOK, NEW i \in DOMAIN views, NEW v \in ViewType, Derived(i, v)
  PROVE  /\ views' \in Seq(ViewType)
         /\ Len(views') = i + 1 /\ DOMAIN views' = 1 .. i + 1 /\ views'[i + 1] = v
         /\ \A k \in 1 .. i : k \in DOMAIN views /\ views'[k] = views[k]
<1>1. views \in Seq(ViewType) /\ i \in 1 .. Len(views)
  BY DEF TypeOK, ViewType
<1> DEFINE s == SubSeq(views, 1, i)
<1>2. s \in Seq(ViewType) /\ Len(s) = i /\ \A k \in 1 .. i : s[k] = views[k]
  BY <1>1
<1>3. views' = Append(s, v)
  BY DEF Derived
<1> HIDE DEF s
<1> QED BY <1>1, <1>2, <1>3

LEMMA SingleView ==
  ASSUME NEW v \in ViewType, views' = <<v>>
  PROVE  /\ views' \in Seq(ViewType)
         /\ Len(views') = 1 /\ DOMAIN views' = {1} /\ views'[1] = v
OBVIOUS

-----------------------------------------------------------------------------

LEMMA InvInit == Init => Inv
<1> SUFFICES ASSUME Init PROVE Inv
  OBVIOUS
<1>1. IsObject(object) /\ views = <<>> /\ map = NoMap /\ answer = NoAnswer
  BY StartAssumption DEF Init
<1>2. TypeOK
  BY <1>1 DEF TypeOK
<1>3. ViewFits /\ MapCounts
  BY <1>1 DEF ViewFits, MapCounts
<1>4. answer.op = "none" /\ answer.result = "ok"
  BY <1>1 DEF NoAnswer, Answer
<1> QED BY <1>2, <1>3, <1>4 DEF Inv, ChecksComeFirst, ExhaustiveExact, AddressExact

(* The attribute hands out a view only of what fits it.                      *)
LEMMA EnterStep ==
  ASSUME Inv, NEW p \in Parameters, Enter(p)
  PROVE  Inv'
<1>1. /\ IsObject(object) /\ UNCHANGED <<object, map>>
      /\ answer'.op = "enter" /\ answer'.result # "rerror"
  BY DEF Enter, Inv, TypeOK, Answer
<1>2. ParameterShape(p) \in Shapes /\ ParameterElement(p) \in Elements \cup {Untyped}
  BY DEF Parameters, Parameter, ParameterShape, ParameterElement, Shapes, Indexed, Elements, Modes, Untyped, Opaque
<1> DEFINE v == View(ParameterShape(p), ParameterElement(p))
<1>3. v \in ViewType /\ v.shape = ParameterShape(p)
  BY <1>2 DEF View, ViewType
<1>4. views' = <<>> \/ (views' = <<v>> /\ Accepts(p, object))
  BY DEF Enter
<1>5. TypeOK' /\ ViewFits'
  <2>1. CASE views' = <<>>
    BY <2>1, <1>1 DEF TypeOK, IsObject, ViewFits
  <2>2. CASE views' = <<v>> /\ Accepts(p, object)
    <3>1. Fits(View(ParameterShape(p), Untyped), object)
      BY <1>1, <2>2, ShapeFits DEF Accepts
    <3>2. v.element # Untyped => object.mode = Modes[v.element]
      BY <2>2 DEF Accepts, HasMode, View
    <3>3. Fits(v, object)
      BY <3>1, <3>2 DEF Fits, View
    <3> HIDE DEF v
    <3>4. /\ views' \in Seq(ViewType)
          /\ DOMAIN views' = {1} /\ views'[1] = v
      BY <2>2, <1>3, SingleView
    <3>5. ViewFits'
      BY <1>1, <3>3, <3>4 DEF ViewFits, Fits
    <3> QED BY <3>4, <3>5, <1>1 DEF TypeOK, IsObject, ViewType
  <2> QED BY <1>4, <2>1, <2>2
<1>6. MapCounts'
  BY <1>1 DEF Inv, MapCounts
<1> QED BY <1>1, <1>5, <1>6 DEF Inv, ChecksComeFirst, ExhaustiveExact, AddressExact

LEMMA ViewTyped ==
  ASSUME TypeOK, NEW i \in DOMAIN views
  PROVE  views[i] \in ViewType
<1>1. views \in Seq(ViewType)
  BY DEF TypeOK, ViewType
<1> QED BY <1>1

(* A step that keeps or derives views of an object of the same mode and size. *)
LEMMA KeptStep ==
  ASSUME TypeOK, ViewFits, NEW i \in DOMAIN views, Kept(i),
         IsObject(object)', Like(object', object)
  PROVE  /\ TypeOK' /\ ViewFits'
         /\ views'[Len(views')] = views[i]
<1>1. /\ views' \in Seq(ViewType) /\ views'[Len(views')] = views[i]
      /\ \A k \in DOMAIN views' : k \in DOMAIN views /\ views'[k] = views[k]
  BY KeptViews
<1>2. \A k \in DOMAIN views' : Fits(views'[k], object')
  <2> TAKE k \in DOMAIN views'
  <2>1. Fits(views[k], object) /\ views'[k] = views[k]
    BY <1>1, FitsAll
  <2> QED BY <2>1, LikeFits
<1>3. ViewFits'
  BY <1>2 DEF ViewFits, Fits
<1> QED BY <1>1, <1>3 DEF TypeOK, ViewType

LEMMA DerivedStep ==
  ASSUME TypeOK, ViewFits, NEW i \in DOMAIN views, NEW v \in ViewType, Derived(i, v),
         IsObject(object)', Like(object', object), Fits(v, object')
  PROVE  TypeOK' /\ ViewFits'
<1>1. /\ views' \in Seq(ViewType) /\ DOMAIN views' = 1 .. i + 1 /\ views'[i + 1] = v
      /\ \A k \in 1 .. i : k \in DOMAIN views /\ views'[k] = views[k]
  BY DerivedViews
<1>2. i \in Nat
  BY DEF TypeOK
<1>3. ASSUME NEW k \in DOMAIN views' PROVE Fits(views'[k], object')
  <2>1. CASE k = i + 1
    BY <2>1, <1>1
  <2>2. CASE k \in 1 .. i
    <3>1. Fits(views[k], object) /\ views'[k] = views[k]
      BY <2>2, <1>1, FitsAll
    <3> QED BY <3>1, LikeFits
  <2> QED BY <1>1, <1>2, <2>1, <2>2
<1>4. ViewFits'
  BY <1>3 DEF ViewFits, Fits
<1> QED BY <1>1, <1>4 DEF TypeOK, ViewType

LEMMA SingleStep ==
  ASSUME NEW v \in ViewType, views' = <<v>>, IsObject(object)', Fits(v, object')
  PROVE  TypeOK' /\ ViewFits'
<1>1. views' \in Seq(ViewType) /\ DOMAIN views' = {1} /\ views'[1] = v
  BY SingleView
<1>2. ViewFits'
  BY <1>1 DEF ViewFits, Fits
<1> QED BY <1>1, <1>2 DEF TypeOK, ViewType

(* A step that leaves the object as it was.                                  *)
LEMMA SameObject ==
  ASSUME TypeOK, object' = object
  PROVE  IsObject(object)' /\ Like(object', object)
BY DEF TypeOK, IsObject, Like

(* What a view is taken for is what it was checked for, or what the view it  *)
(* is derived from was.                                                      *)
LEMMA RecharacterizeStep ==
  ASSUME Inv, NEW i \in 1 .. MaxViews, Recharacterize(i)
  PROVE  Inv'
<1>1. /\ i \in DOMAIN views /\ object' = object /\ map' = NoMap
      /\ answer'.op = "view" /\ answer'.result = "ok"
  BY DEF Recharacterize, Using, Answer
<1>2. TypeOK /\ ViewFits /\ views[i] \in ViewType /\ Fits(views[i], object) /\ IsObject(object)
  BY <1>1, ViewTyped, FitsAll DEF Inv, TypeOK
<1>3. PICK v \in ViewType : Derived(i, v) /\ Fits(v, object)
  <2>1. CASE \E shape \in Shapes : AsShape(object, shape) /\ Derived(i, View(shape, Untyped))
    <3>1. PICK shape \in Shapes : AsShape(object, shape) /\ Derived(i, View(shape, Untyped))
      BY <2>1
    <3>2. View(shape, Untyped) \in ViewType
      BY <3>1 DEF View, ViewType
    <3>3. Fits(View(shape, Untyped), object)
      BY <1>2, <3>1, ShapeFits
    <3> QED BY <3>1, <3>2, <3>3
  <2>2. CASE \E t \in Elements : HasMode(object, t) /\ Derived(i, View(views[i].shape, t))
    <3>1. PICK t \in Elements : HasMode(object, t) /\ Derived(i, View(views[i].shape, t))
      BY <2>2
    <3>2. View(views[i].shape, t) \in ViewType
      BY <1>2, <3>1 DEF View, ViewType
    <3>3. Fits(View(views[i].shape, t), object)
      BY <1>2, <3>1 DEF Fits, View, HasMode
    <3> QED BY <3>1, <3>2, <3>3
  <2>3. CASE views[i].shape = "RScalar" /\ Derived(i, View("RVector", views[i].element))
    <3>1. View("RVector", views[i].element) \in ViewType
      BY <1>2 DEF View, ViewType, Shapes, Indexed
    <3>2. Fits(View("RVector", views[i].element), object)
      BY <1>2, <2>3 DEF Fits, View, Indexed
    <3> QED BY <2>3, <3>1, <3>2
  <2>4. CASE Derived(i, View(enumerate(object), Untyped))
    <3>1. enumerate(object) \in Shapes /\ Fits(View(enumerate(object), Untyped), object)
      BY <1>2, EnumeratedFits
    <3>2. View(enumerate(object), Untyped) \in ViewType
      BY <3>1 DEF View, ViewType
    <3> QED BY <2>4, <3>1, <3>2
  <2>5. CASE Derived(i, View("RObject", Untyped))
    <3>1. View("RObject", Untyped) \in ViewType /\ Fits(View("RObject", Untyped), object)
      BY DEF View, ViewType, Shapes, Fits, Indexed
    <3> QED BY <2>5, <3>1
  <2> QED BY <2>1, <2>2, <2>3, <2>4, <2>5 DEF Recharacterize
<1>4. TypeOK' /\ ViewFits'
  <2>1. IsObject(object)' /\ Like(object', object) /\ Fits(v, object')
    BY <1>1, <1>2, <1>3, SameObject
  <2> QED BY <1>1, <1>2, <1>3, <2>1, DerivedStep
<1> QED BY <1>1, <1>4 DEF Inv, MapCounts, ChecksComeFirst, ExhaustiveExact, AddressExact

(* Whatever is coerced keeps its cells and names.                            *)
LEMMA CoercedObject ==
  ASSUME NEW o, IsObject(o), NEW t \in Elements, NEW p, p = Coerced(o, t)
  PROVE  IsObject(p) /\ p.mode = Modes[t] /\ Len(p.cells) = Len(o.cells)
<1>1. /\ p.mode = Modes[t] /\ (p.dim = o.dim \/ p.dim = <<>>)
      /\ p.cells = o.cells /\ p.names = o.names
      /\ DOMAIN p = Fields /\ p = [f \in Fields |-> p[f]]
  BY DEF Coerced, IsObject, Fields, RObject
<1>2. <<>> \in Seq(Nat)
  OBVIOUS
<1> QED BY <1>1, <1>2 DEF IsObject

LEMMA CoerceStep ==
  ASSUME Inv, NEW i \in 1 .. MaxViews, NEW t \in Elements, Coerce(i, t)
  PROVE  Inv'
<1> DEFINE v == View(views[i].shape, t)
<1>1. /\ i \in DOMAIN views /\ map' = NoMap
      /\ views[i].shape \in Indexed
      /\ answer'.op = "coerce"
      /\ \/ /\ object' = Coerced(object, t) /\ answer'.result = "ok"
            /\ (object.mode = Modes[t] /\ Derived(i, v)) \/ views' = <<v>>
         \/ is_list(object) /\ object' = object /\ Kept(i)
  BY DEF Coerce, Using, Answer
<1>2. TypeOK /\ ViewFits /\ views[i] \in ViewType /\ Fits(views[i], object) /\ IsObject(object)
  BY <1>1, ViewTyped, FitsAll DEF Inv, TypeOK
<1>3. v \in ViewType /\ v.shape = views[i].shape /\ v.element = t
  BY <1>2 DEF View, ViewType
<1> HIDE DEF v
<1>4. CASE is_list(object) /\ object' = object /\ Kept(i)
  <2>1. TypeOK' /\ ViewFits'
    BY <1>1, <1>2, <1>4, KeptStep, SameObject
  <2> QED BY <1>1, <1>4, <2>1 DEF Inv, MapCounts, ChecksComeFirst, ExhaustiveExact, AddressExact
<1>5. CASE /\ object' = Coerced(object, t) /\ answer'.result = "ok"
           /\ (object.mode = Modes[t] /\ Derived(i, v)) \/ views' = <<v>>
  <2>1. IsObject(object') /\ object'.mode = Modes[t] /\ Len(object'.cells) = Len(object.cells)
    BY <1>2, <1>5, CoercedObject
  <2>2. IsObject(object)'
    BY <2>1 DEF IsObject
  <2>3. Fits(v, object')
    <3>1. v.shape \notin {"RList", "RDataFrame"} /\ Modes[t] \in Atomic
      BY <1>1, <1>3 DEF Indexed, Elements, Modes, Atomic
    <3> QED BY <1>2, <1>3, <2>1, <3>1 DEF Fits, is_vector
  <2>4. TypeOK' /\ ViewFits'
    <3>1. CASE object.mode = Modes[t] /\ Derived(i, v)
      <4>1. Like(object', object)
        BY <2>1, <3>1 DEF Like
      <4> QED BY <3>1, <4>1, <1>1, <1>2, <1>3, <2>2, <2>3, DerivedStep
    <3>2. CASE views' = <<v>>
      BY <3>2, <1>3, <2>2, <2>3, SingleStep
    <3> QED BY <1>5, <3>1, <3>2
  <2> QED BY <1>1, <1>5, <2>4 DEF Inv, MapCounts, ChecksComeFirst, ExhaustiveExact, AddressExact
<1> QED BY <1>1, <1>4, <1>5

(* A last place exists among finitely many: the one with the fewest after it. *)
LEMMA LastPlace ==
  ASSUME NEW n \in Nat, NEW S \in SUBSET (1 .. n), S # {}
  PROVE  \E k \in S : \A j \in S : j <= k
<1> DEFINE fewer == StrictSubsetOrdering(1 .. n)
           after(k) == k + 1 .. n
           T == {after(k) : k \in S}
<1>1. IsWellFoundedOn(fewer, SUBSET (1 .. n))
  <2>1. IsFiniteSet(1 .. n)
    BY FS_Interval
  <2> QED BY <2>1, FS_FiniteSubsetsOfFinite, FS_StrictSubsetOrderingWellFounded
<1>2. \A x, y \in SUBSET (1 .. n) : x \subseteq y /\ x # y => <<x, y>> \in fewer
  BY DEF StrictSubsetOrdering
<1>3. T \subseteq SUBSET (1 .. n) /\ T # {}
  <2>1. ASSUME NEW k \in S PROVE after(k) \in SUBSET (1 .. n)
    <3>1. k \in 1 .. n
      OBVIOUS
    <3> QED BY <3>1
  <2> HIDE DEF after
  <2> QED BY <2>1
<1> HIDE DEF fewer
<1>4. PICK x \in T : \A y \in T : ~ (<<y, x>> \in fewer)
  BY <1>1, <1>3, WFMin
<1>5. PICK k \in S : x = after(k)
  BY <1>4
<1>6. ASSUME NEW j \in S, j > k PROVE FALSE
  <2>1. after(j) \in T /\ after(j) \in SUBSET (1 .. n) /\ x \in SUBSET (1 .. n)
    BY <1>3, <1>4
  <2>2. after(j) \subseteq x /\ j \in x /\ j \notin after(j)
    BY <1>5, <1>6
  <2> QED BY <1>2, <1>4, <2>1, <2>2
<1> QED BY <1>6

(* Writing a cell adds none.                                                 *)
LEMMA WrittenObject ==
  ASSUME NEW o, IsObject(o), NEW c, NEW p, p = [o EXCEPT !.cells[c] = New]
  PROVE  IsObject(p) /\ Like(p, o) /\ p.dim = o.dim
<1> DEFINE cells == [o.cells EXCEPT ![c] = New]
           n == Len(o.cells)
<1>1. n \in Nat /\ DOMAIN o.cells = 1 .. n
  BY DEF IsObject
<1>2. cells = [k \in 1 .. n |-> cells[k]]
  BY <1>1
<1>3. p = [o EXCEPT !.cells = cells]
  OBVIOUS
<1> HIDE DEF cells, n
<1>4. Len(cells) = n /\ DOMAIN cells = 1 .. n
  BY <1>1, <1>2, LenOfTuple
<1>5. /\ p.mode = o.mode /\ p.dim = o.dim /\ p.cells = cells /\ p.names = o.names
      /\ DOMAIN p = Fields /\ p = [f \in Fields |-> p[f]]
  BY <1>3 DEF IsObject, Fields, RObject
<1> QED BY <1>1, <1>4, <1>5 DEF IsObject, Like, n

LEMMA SubscriptTuple ==
  ASSUME NEW index \in Subscript
  PROVE  index \in Seq(Nat)
<1>1. PICK n \in 0 .. MaxRank : index \in [1 .. n -> Indices]
  BY DEF Subscript
<1>2. n \in Nat /\ Indices \subseteq Nat
  BY BoundsAssumption, IndicesAssumption
<1>3. index \in [1 .. n -> Nat]
  BY <1>1, <1>2
<1> QED BY <1>2, <1>3

(* Reading and writing an element: R raises an error only where the extents  *)
(* of an RArray are gone, and subscripts in range are never refused.         *)
LEMMA AccessStep ==
  ASSUME Inv, NEW i \in 1 .. MaxViews, NEW index \in Subscript, NEW op \in {"get", "set"},
         Access(i, op, index), map' \in {map, NoMap},
         \/ object' = object
         \/ answer'.result = "ok" /\ object' = [object EXCEPT !.cells[answer'.cell + 1] = New]
  PROVE  Inv'
<1> DEFINE cell == Address(views[i], object, index)
           result == answer'.result
<1>1. /\ i \in DOMAIN views /\ Kept(i)
      /\ answer'.op = op /\ answer'.index = index
      /\ Len(index) \in Subscripts(views[i])
      /\ DimMissing(views[i], object) => result = "rerror"
      /\ ~ DimMissing(views[i], object) =>
           /\ result = IF views[i].shape = "RScalar" \/ InBounds(object, cell) THEN "ok" ELSE "err"
           /\ answer'.cell = cell
  BY DEF Access, Using, Answer
<1>2. result \in {"ok", "err", "rerror"} /\ (result = "rerror" <=> DimMissing(views[i], object))
  BY <1>1
<1> HIDE DEF result, cell
<1>3. TypeOK /\ ViewFits /\ IsObject(object) /\ views[i] \in ViewType /\ Fits(views[i], object)
  BY <1>1, ViewTyped, FitsAll DEF Inv, TypeOK
<1>4. IsObject(object)' /\ Like(object', object) /\ object'.dim = object.dim
  <2>1. CASE object' = object
    BY <2>1, <1>3, SameObject
  <2>2. CASE object' = [object EXCEPT !.cells[answer'.cell + 1] = New]
    <3>1. IsObject(object') /\ Like(object', object) /\ object'.dim = object.dim
      BY <2>2, <1>3, WrittenObject
    <3> QED BY <3>1 DEF IsObject
  <2> QED BY <2>1, <2>2
<1>5. TypeOK' /\ ViewFits' /\ views'[Len(views')] = views[i]
  BY <1>1, <1>3, <1>4, KeptStep
<1>6. MapCounts'
  <2>1. CASE map' = NoMap
    BY <2>1 DEF MapCounts
  <2>2. CASE map' = map
    <3>1. object'.names = object.names
      BY <1>3 DEF IsObject, Fields, RObject
    <3> QED BY <2>2, <3>1 DEF Inv, MapCounts
  <2> QED BY <2>1, <2>2
<1>7. ChecksComeFirst'
  BY <1>2, <1>4, <1>5 DEF result, DimMissing, ChecksComeFirst
<1>8. AddressExact'
  <2> DEFINE v == views[i]
             extents == Counted(v, object)
             whole == v.shape = "RMatrix" => Len(object.dim) <= 2
  <2>1. SUFFICES ASSUME result # "rerror"
        PROVE  /\ result = "ok" => cell < Len(object.cells)
               /\ result = "err" /\ whole => ~ InRange(index, extents)
               /\ result = "ok" /\ InRange(index, extents) =>
                    \A k \in DOMAIN extents : Digit(cell, extents, k) = index[k]
    <3>1. Counted(views[i], object') = extents /\ Len(object'.cells) = Len(object.cells)
      BY <1>4 DEF Like, Counted, nrow, ncol
    <3> HIDE DEF extents
    <3> QED BY <1>1, <1>2, <1>4, <1>5, <3>1 DEF AddressExact, result
  <2>2. ASSUME InRange(index, extents)
        PROVE  /\ whole => cell < Len(object.cells)
               /\ \A k \in DOMAIN extents : Digit(cell, extents, k) = index[k]
    <3>1. index \in Seq(Nat)
      BY SubscriptTuple
    <3> QED BY <1>1, <1>2, <1>3, <2>1, <2>2, <3>1, AddressInRange DEF cell
  <2> HIDE DEF extents, whole
  <2>3. result = "ok" => cell < Len(object.cells)
    <3>1. CASE views[i].shape = "RScalar"
      <4>1. cell = 0 /\ Len(object.cells) = 1
        BY <1>3, <3>1 DEF Fits, Address, cell
      <4> QED BY <4>1
    <3>2. CASE views[i].shape # "RScalar"
      BY <1>1, <1>2, <2>1, <3>2 DEF InBounds
    <3> QED BY <3>1, <3>2
  <2>4. result = "err" /\ whole => ~ InRange(index, extents)
    BY <1>1, <1>2, <2>1, <2>2 DEF InBounds
  <2> QED BY <2>2, <2>3, <2>4
<1> QED BY <1>1, <1>5, <1>6, <1>7, <1>8 DEF Inv, ExhaustiveExact

LEMMA GetSetStep ==
  ASSUME Inv, NEW i \in 1 .. MaxViews, NEW index \in Subscript, get(i, index) \/ set(i, index)
  PROVE  Inv'
<1>1. CASE get(i, index)
  BY <1>1, AccessStep DEF get
<1>2. CASE set(i, index) /\ ~ SetNul(i, index)
  <2>1. /\ Access(i, "set", index) /\ map' = NoMap
        /\ object' = IF answer'.result = "ok" THEN [object EXCEPT !.cells[answer'.cell + 1] = New] ELSE object
    BY <1>2 DEF set
  <2> QED BY <2>1, AccessStep
<1>3. CASE SetNul(i, index) /\ map' = NoMap
  <2>1. /\ i \in DOMAIN views /\ Kept(i) /\ object' = object /\ views[i].element = "char"
        /\ answer'.op = "set" /\ answer'.result = "rerror"
    BY <1>3 DEF SetNul, Using, Answer
  <2>2. TypeOK' /\ ViewFits' /\ views'[Len(views')] = views[i]
    BY <2>1, KeptStep, SameObject DEF Inv
  <2> QED BY <1>3, <2>1, <2>2 DEF Inv, MapCounts, ChecksComeFirst, ExhaustiveExact, AddressExact
<1> QED BY <1>1, <1>2, <1>3 DEF set

(* Dropping the extents, and exchanging them: the cells stay as many.        *)
LEMMA DroppedExtents ==
  ASSUME NEW o, IsObject(o), NEW p, p = WithDim(o, <<>>)
  PROVE  IsObject(p) /\ Like(p, o)
<1>1. /\ p.mode = o.mode /\ p.dim = <<>> /\ p.cells = o.cells /\ p.names = o.names
      /\ DOMAIN p = Fields /\ p = [f \in Fields |-> p[f]]
  BY DEF WithDim, IsObject, Fields, RObject
<1>2. <<>> \in Seq(Nat)
  OBVIOUS
<1> QED BY <1>1, <1>2 DEF IsObject, Like

LEMMA TransposedFacts ==
  ASSUME NEW o, IsObject(o), DimTaken(o, <<ncol(o), nrow(o)>>)
  PROVE  LET p == Transposed(o)
         IN  /\ IsObject(p) /\ p.mode = o.mode
             /\ p.dim = <<ncol(o), nrow(o)>>
             /\ Len(p.cells) = Len(o.cells) /\ p.cells = Filled(<<ncol(o), nrow(o)>>, o.cells)
<1> DEFINE dim == <<ncol(o), nrow(o)>>
           cells == Filled(dim, o.cells)
           n == Len(o.cells)
           p == Transposed(o)
<1>1. n \in Nat /\ dim \in Seq(Nat) /\ Size(dim) = n
  <2>1. nrow(o) \in Nat /\ ncol(o) \in Nat
    BY RowsAndColumnsAreNat
  <2> QED BY <2>1, SizeOfPair DEF IsObject, DimTaken
<1>2. cells = [k \in 1 .. n |-> cells[k]]
  BY DEF Filled
<1>3. p = [[o EXCEPT !.dim = dim, !.dimnames = FALSE] EXCEPT !.cells = cells]
  BY DEF Transposed, WithDim
<1> HIDE DEF cells, n, dim, p
<1>4. Len(cells) = n /\ DOMAIN cells = 1 .. n
  BY <1>1, <1>2, LenOfTuple
<1>5. /\ p.mode = o.mode /\ p.dim = dim /\ p.cells = cells /\ p.names = o.names
      /\ DOMAIN p = Fields /\ p = [f \in Fields |-> p[f]]
  BY <1>3 DEF IsObject, Fields, RObject
<1>6. IsObject(p)
  <2>1. Len(o.names) \in {0, n} /\ DOMAIN o.names = 1 .. Len(o.names)
    BY DEF IsObject, n
  <2> QED BY <1>1, <1>4, <1>5, <2>1 DEF IsObject
<1> QED BY <1>4, <1>5, <1>6 DEF p, dim, n, cells

(* R takes the exchanged extents of a matrix that has no others.             *)
LEMMA ExchangedTaken ==
  ASSUME NEW o, IsObject(o), is_vector(o) \/ is_list(o), Len(o.dim) <= 2
  PROVE  DimTaken(o, <<ncol(o), nrow(o)>>)
<1>1. nrow(o) \in Nat /\ ncol(o) \in Nat /\ Len(o.cells) = nrow(o) * ncol(o)
  BY RowsAndColumnsAreNat, RowsAndColumns
<1>2. Size(<<ncol(o), nrow(o)>>) = ncol(o) * nrow(o)
  BY <1>1, SizeOfPair
<1>3. ncol(o) * nrow(o) = nrow(o) * ncol(o)
  BY <1>1
<1> QED BY <1>1, <1>2, <1>3 DEF DimTaken

LEMMA ToVectorStep ==
  ASSUME Inv, NEW i \in 1 .. MaxViews, to_vector_mut(i)
  PROVE  Inv'
<1> DEFINE v == View("RVector", views[i].element)
<1>1. /\ i \in DOMAIN views /\ map' = NoMap
      /\ object' = WithDim(object, <<>>) /\ Derived(i, v)
      /\ views[i].shape \in Indexed
      /\ answer'.op = "to_vector_mut" /\ answer'.result = "ok"
  BY DEF to_vector_mut, Using, Answer, Indexed
<1>2. TypeOK /\ ViewFits /\ IsObject(object) /\ views[i] \in ViewType /\ Fits(views[i], object)
  BY <1>1, ViewTyped, FitsAll DEF Inv, TypeOK
<1>3. IsObject(object') /\ Like(object', object)
  BY <1>1, <1>2, DroppedExtents
<1>4. v \in ViewType /\ v.shape = "RVector" /\ v.element = views[i].element
  BY <1>2 DEF View, ViewType, Shapes, Indexed
<1> HIDE DEF v
<1>5. Fits(v, object')
  BY <1>1, <1>2, <1>3, <1>4 DEF Fits, Like, Indexed, is_vector, is_list
<1>6. IsObject(object)'
  BY <1>3 DEF IsObject
<1>7. TypeOK' /\ ViewFits'
  BY <1>1, <1>2, <1>3, <1>4, <1>5, <1>6, DerivedStep
<1> QED BY <1>1, <1>7 DEF Inv, MapCounts, ChecksComeFirst, ExhaustiveExact, AddressExact

LEMMA TransposeStep ==
  ASSUME Inv, NEW i \in 1 .. MaxViews, transpose(i)
  PROVE  Inv'
<1> DEFINE dim == <<ncol(object), nrow(object)>>
<1>1. /\ i \in DOMAIN views /\ map' = NoMap /\ views[i].shape = "RMatrix"
      /\ answer'.op = "transpose"
      /\ DimTaken(object, dim) =>
           object' = Transposed(object) /\ views' = <<views[i]>> /\ answer'.result = "ok"
      /\ ~ DimTaken(object, dim) => object' = object /\ Kept(i)
  BY DEF transpose, Using, Answer
<1>2. TypeOK /\ ViewFits /\ IsObject(object) /\ views[i] \in ViewType /\ Fits(views[i], object)
  BY <1>1, ViewTyped, FitsAll DEF Inv, TypeOK
<1>3. CASE DimTaken(object, dim)
  <2>1. IsObject(object') /\ object'.mode = object.mode /\ Len(object'.cells) = Len(object.cells)
    BY <1>1, <1>2, <1>3, TransposedFacts
  <2>2. Fits(views[i], object') /\ IsObject(object)'
    <3>1. Like(object', object)
      BY <2>1 DEF Like
    <3> QED BY <1>2, <2>1, <3>1, LikeFits DEF IsObject
  <2>3. TypeOK' /\ ViewFits'
    BY <1>1, <1>2, <1>3, <2>2, SingleStep
  <2> QED BY <1>1, <1>3, <2>3 DEF Inv, MapCounts, ChecksComeFirst, ExhaustiveExact, AddressExact
<1>4. CASE ~ DimTaken(object, dim)
  <2>1. TypeOK' /\ ViewFits' /\ views'[Len(views')] = views[i]
    BY <1>1, <1>2, <1>4, KeptStep, SameObject
  <2>2. Len(object.dim) > 2
    <3>1. is_vector(object) \/ is_list(object)
      BY <1>1, <1>2 DEF Fits, Indexed
    <3>2. ~ (Len(object.dim) <= 2)
      BY <1>2, <1>4, <3>1, ExchangedTaken
    <3>3. Len(object.dim) \in Nat
      BY <1>2 DEF IsObject
    <3> QED BY <3>2, <3>3
  <2>3. ChecksComeFirst'
    <3>1. Len(object'.dim) > 2
      BY <1>1, <1>4, <2>2
    <3> QED BY <1>1, <2>1, <3>1 DEF ChecksComeFirst
  <2> QED BY <1>1, <1>4, <2>1, <2>3 DEF Inv, MapCounts, ExhaustiveExact, AddressExact
<1> QED BY <1>3, <1>4

(* Names of another length are refused, so R never gets too many.            *)
LEMMA SetNamesStep ==
  ASSUME Inv, NEW i \in 1 .. MaxViews, NEW n \in Extents, set_names(i, n)
  PROVE  Inv'
<1> DEFINE names == [k \in 1 .. n |-> New]
<1>1. /\ i \in DOMAIN views /\ Kept(i) /\ map' = NoMap
      /\ answer'.op = "set_names"
      /\ object' = object \/ (n = Len(object.cells) /\ object' = [object EXCEPT !.names = names])
  BY DEF set_names, NamesFit, Using, Answer
<1>2. answer'.result # "rerror"
  <2>1. n \in Nat /\ ~ (n > n)
    BY IndicesAssumption
  <2> QED BY <2>1 DEF set_names, NamesFit, Answer
<1>3. TypeOK /\ ViewFits
  BY DEF Inv
<1>4. Len(names) = n /\ DOMAIN names = 1 .. n /\ n \in Nat
  <2>1. n \in Nat /\ names \in [1 .. n -> {New}]
    BY IndicesAssumption
  <2> HIDE DEF names
  <2> QED BY <2>1, LenOfFunction
<1> HIDE DEF names
<1>5. IsObject(object)' /\ Like(object', object)
  <2>1. CASE object' = object
    BY <2>1, <1>3, SameObject
  <2>2. CASE n = Len(object.cells) /\ object' = [object EXCEPT !.names = names]
    <3>1. /\ object'.mode = object.mode /\ object'.dim = object.dim
          /\ object'.cells = object.cells /\ object'.names = names
          /\ DOMAIN object' = Fields /\ object' = [f \in Fields |-> object'[f]]
      BY <1>3, <2>2 DEF TypeOK, IsObject, Fields, RObject
    <3> QED BY <1>3, <1>4, <2>2, <3>1 DEF TypeOK, IsObject, Like
  <2> QED BY <1>1, <2>1, <2>2
<1>6. TypeOK' /\ ViewFits'
  BY <1>1, <1>3, <1>5, KeptStep
<1> QED BY <1>1, <1>2, <1>6 DEF Inv, MapCounts, ChecksComeFirst, ExhaustiveExact, AddressExact

(* Dimnames leave the rest of the object as it was.                          *)
LEMMA DimnamesObject ==
  ASSUME NEW o, IsObject(o), NEW lengths, NEW p, p = WithDimnames(o, lengths)
  PROVE  IsObject(p) /\ Like(p, o) /\ p.dim = o.dim
<1> DEFINE b == \E k \in DOMAIN lengths : lengths[k] > 0
<1>1. p = [o EXCEPT !.dimnames = b]
  BY DEF WithDimnames
<1> HIDE DEF b
<1>2. /\ p.mode = o.mode /\ p.dim = o.dim /\ p.cells = o.cells /\ p.names = o.names
      /\ DOMAIN p = Fields /\ p = [f \in Fields |-> p[f]]
  BY <1>1 DEF IsObject, Fields, RObject
<1> QED BY <1>2 DEF IsObject, Like

(* Of a matrix's two dimnames both have been looked at; R refuses them where *)
(* there are no two extents, and may refuse more.                            *)
LEMMA SetDimnamesStep ==
  ASSUME Inv, NEW i \in 1 .. MaxViews, NEW lengths \in Lengths, set_dimnames(i, lengths)
  PROVE  Inv'
<1>1. /\ i \in DOMAIN views /\ Kept(i) /\ map' = NoMap
      /\ views[i].shape \in {"RMatrix", "RArray"}
      /\ answer'.op = "set_dimnames" /\ answer'.index[1] = Len(lengths)
      /\ object' = object \/ (answer'.result = "ok" /\ object' = WithDimnames(object, lengths))
  BY DEF set_dimnames, Using, Answer
<1>2. TypeOK /\ ViewFits /\ IsObject(object)
  BY DEF Inv, TypeOK
<1>3. IsObject(object)' /\ Like(object', object) /\ object'.dim = object.dim
  <2>1. CASE object' = object
    BY <2>1, <1>2, SameObject
  <2>2. CASE object' = WithDimnames(object, lengths)
    <3>1. IsObject(object') /\ Like(object', object) /\ object'.dim = object.dim
      BY <1>2, <2>2, DimnamesObject
    <3> QED BY <3>1 DEF IsObject
  <2> QED BY <1>1, <2>1, <2>2
<1>4. TypeOK' /\ ViewFits' /\ views'[Len(views')] = views[i]
  BY <1>1, <1>2, <1>3, KeptStep
<1>5. PICK n \in 1 .. MaxRank : n \in Nat /\ Len(lengths) = n /\ DOMAIN lengths = 1 .. n
  <2>1. PICK n \in 1 .. MaxRank : lengths \in [1 .. n -> Extents \cup {NotVector}]
    BY DEF Lengths
  <2>2. n \in Nat
    BY BoundsAssumption
  <2>3. Len(lengths) = n /\ DOMAIN lengths = 1 .. n
    BY <2>1, <2>2, LenOfFunction
  <2> QED BY <2>2, <2>3
<1>6. ASSUME answer'.result = "rerror", ~ DimMissing(views[i], object)
      PROVE  views[i].shape = "RMatrix" /\ (Len(object.dim) < 2 \/ Len(lengths) > 2)
  <2>1. DimnamesFit(views[i], object, lengths) /\ ~ DimnamesTaken(object, lengths)
    BY <1>6 DEF set_dimnames, Answer
  <2>2. object.dim \in Seq(Nat) /\ Len(object.dim) \in Nat
    BY <1>2 DEF IsObject
  <2>3. CASE views[i].shape = "RArray"
    <3>1. lengths = object.dim /\ object.dim # <<>>
      BY <1>6, <2>1, <2>3 DEF DimnamesFit, DimMissing
    <3>2. Len(lengths) <= Len(object.dim) /\ \A k \in DOMAIN lengths : lengths[k] = object.dim[k]
      BY <2>2, <3>1
    <3> QED BY <2>1, <3>1, <3>2 DEF DimnamesTaken
  <2>4. CASE views[i].shape = "RMatrix"
    <3>1. SUFFICES ASSUME ~ (Len(object.dim) < 2), ~ (Len(lengths) > 2)
          PROVE  FALSE
      BY <2>4
    <3>2. Len(lengths) >= 2 /\ lengths[1] = nrow(object) /\ lengths[2] = ncol(object)
      BY <2>1, <2>4 DEF DimnamesFit
    <3>3. n = 2 /\ Len(lengths) <= Len(object.dim) /\ object.dim # <<>>
      BY <1>5, <2>2, <3>1, <3>2
    <3>4. lengths[1] = object.dim[1] /\ lengths[2] = object.dim[2]
      BY <3>1, <3>2, <3>3 DEF nrow, ncol
    <3>5. \A k \in DOMAIN lengths : lengths[k] \in {object.dim[k], 0, NotVector}
      BY <1>5, <3>3, <3>4
    <3> QED BY <2>1, <3>3, <3>5 DEF DimnamesTaken
  <2> QED BY <1>1, <2>3, <2>4
<1>7. ChecksComeFirst'
  <2>1. DimMissing(views[i], object) => DimMissing(views[i], object')
    BY <1>3 DEF DimMissing
  <2> QED BY <1>1, <1>3, <1>4, <1>6, <2>1 DEF ChecksComeFirst
<1> QED BY <1>1, <1>4, <1>7 DEF Inv, MapCounts, ExhaustiveExact, AddressExact

(* What R makes of an object whose attributes are set is one whose cells are *)
(* as many and of the same mode.                                             *)
LEMMA AttributedObject ==
  ASSUME NEW o, IsObject(o), NEW p \in Attributed(o)
  PROVE  IsObject(p) /\ Like(p, o)
<1>1. /\ DOMAIN o = Fields /\ o = [f \in Fields |-> o[f]]
      /\ Len(o.cells) \in Nat /\ DOMAIN o.cells = 1 .. Len(o.cells)
  BY DEF IsObject
<1>2. ASSUME NEW dim, p = WithDim(o, dim), dim = <<>> \/ (dim \in Dims /\ DimTaken(o, dim))
      PROVE  IsObject(p) /\ Like(p, o)
  <2>1. /\ p.mode = o.mode /\ p.dim = dim /\ p.cells = o.cells /\ p.names = o.names
        /\ DOMAIN p = Fields /\ p = [f \in Fields |-> p[f]]
    BY <1>1, <1>2 DEF WithDim, Fields, RObject
  <2>2. dim \in Seq(Nat) /\ (dim # <<>> => Len(o.cells) = Size(dim))
    <3>1. CASE dim = <<>>
      <4>1. <<>> \in Seq(Nat)
        OBVIOUS
      <4> QED BY <3>1, <4>1
    <3>2. CASE dim \in Dims /\ DimTaken(o, dim)
      BY <3>2, DimsAssumption DEF DimTaken
    <3> QED BY <1>2, <3>1, <3>2
  <2> QED BY <2>1, <2>2 DEF IsObject, Like
<1>3. ASSUME NEW names, p = [o EXCEPT !.names = names], names \in {Padded(o), <<>>}
      PROVE  IsObject(p) /\ Like(p, o)
  <2>1. /\ p.mode = o.mode /\ p.dim = o.dim /\ p.cells = o.cells /\ p.names = names
        /\ DOMAIN p = Fields /\ p = [f \in Fields |-> p[f]]
    BY <1>1, <1>3 DEF Fields, RObject
  <2>2. Len(names) \in {0, Len(o.cells)} /\ DOMAIN names = 1 .. Len(names)
    <3>1. CASE names = <<>>
      BY <3>1
    <3>2. CASE names = Padded(o)
      <4> DEFINE n == Len(o.cells)
      <4>1. n \in Nat /\ names = [k \in 1 .. n |-> names[k]]
        BY <1>1, <3>2 DEF Padded
      <4> HIDE DEF n
      <4>2. Len(names) = n /\ DOMAIN names = 1 .. n
        BY <4>1, LenOfTuple
      <4> QED BY <4>2 DEF n
    <3> QED BY <1>3, <3>1, <3>2
  <2> QED BY <2>1, <2>2 DEF IsObject, Like
<1>4. ASSUME NEW class, p = [o EXCEPT !.class = class]
      PROVE  IsObject(p) /\ Like(p, o)
  <2>1. /\ p.mode = o.mode /\ p.dim = o.dim /\ p.cells = o.cells /\ p.names = o.names
        /\ DOMAIN p = Fields /\ p = [f \in Fields |-> p[f]]
    BY <1>1, <1>4 DEF Fields, RObject
  <2> QED BY <2>1 DEF IsObject, Like
<1> QED BY <1>2, <1>3, <1>4, DimnamesObject DEF Attributed

LEMMA SetAttributeStep ==
  ASSUME Inv, NEW i \in 1 .. MaxViews, set_attribute(i)
  PROVE  Inv'
<1>1. /\ i \in DOMAIN views /\ Kept(i) /\ map' = NoMap
      /\ answer'.op = "set_attribute"
      /\ object' = object \/ object' \in Attributed(object)
  BY DEF set_attribute, Using, Answer
<1>2. TypeOK /\ ViewFits /\ IsObject(object)
  BY DEF Inv, TypeOK
<1>3. IsObject(object)' /\ Like(object', object)
  <2>1. CASE object' = object
    BY <2>1, <1>2, SameObject
  <2>2. CASE object' \in Attributed(object)
    <3>1. IsObject(object') /\ Like(object', object)
      BY <1>2, <2>2, AttributedObject
    <3> QED BY <3>1 DEF IsObject
  <2> QED BY <1>1, <2>1, <2>2
<1>4. TypeOK' /\ ViewFits'
  BY <1>1, <1>2, <1>3, KeptStep
<1> QED BY <1>1, <1>4 DEF Inv, MapCounts, ChecksComeFirst, ExhaustiveExact, AddressExact

LEMMA LookupStep ==
  ASSUME Inv, NEW i \in 1 .. MaxViews,
         get_dimnames(i) \/ \E key \in Keys : get_by_key(i, key)
  PROVE  Inv'
<1>1. /\ i \in DOMAIN views /\ Kept(i) /\ object' = object /\ map' = map
      /\ answer'.op = "get_dimnames" \/ (answer'.op = "get_by_key" /\ answer'.result # "rerror")
  BY DEF get_dimnames, get_by_key, Using, Answer
<1>2. TypeOK' /\ ViewFits'
  BY <1>1, KeptStep, SameObject DEF Inv
<1>3. MapCounts'
  BY <1>1 DEF Inv, MapCounts
<1> QED BY <1>1, <1>2, <1>3 DEF Inv, ChecksComeFirst, ExhaustiveExact, AddressExact

-----------------------------------------------------------------------------
(* The map of a list.                                                        *)

LEMMA MakeMapStep ==
  ASSUME Inv, NEW i \in 1 .. MaxViews, make_map(i)
  PROVE  Inv'
<1> DEFINE names == object.names
           places(key) == {k \in DOMAIN names : names[k] = key}
           last(key) == CHOOSE k \in DOMAIN names : names[k] = key /\ \A j \in DOMAIN names : names[j] = key => j <= k
           place == [key \in Range(names) |-> last(key)]
<1>1. /\ i \in DOMAIN views /\ Kept(i) /\ object' = object
      /\ map' = [unused |-> Len(names), used |-> {}, place |-> place]
      /\ answer'.op = "make_map" /\ answer'.result = "ok"
  BY DEF make_map, Using, Answer
<1>2. Len(names) \in Nat /\ DOMAIN names = 1 .. Len(names)
  BY DEF Inv, TypeOK, IsObject
<1>3. ASSUME NEW key \in Range(names) PROVE last(key) \in DOMAIN names
  <2>1. places(key) \in SUBSET (1 .. Len(names)) /\ places(key) # {}
    BY <1>2 DEF Range
  <2>2. PICK p \in places(key) : \A j \in places(key) : j <= p
    BY <1>2, <2>1, LastPlace
  <2>3. \E k \in DOMAIN names : names[k] = key /\ \A j \in DOMAIN names : names[j] = key => j <= k
    BY <2>2
  <2> QED BY <2>3
<1>4. DOMAIN place = Range(names) /\ \A key \in DOMAIN place : place[key] \in DOMAIN names
  BY <1>3
<1> HIDE DEF place
<1>5. MapCounts'
  <2>1. /\ map'.unused = Len(names) /\ map'.used = {} /\ map'.place = place
        /\ map' = [unused |-> map'.unused, used |-> map'.used, place |-> map'.place]
    BY <1>1
  <2>2. map'.unused = Len(object'.names) - Cardinality(map'.used)
    BY <1>1, <1>2, <2>1, FS_EmptySet
  <2> QED BY <1>1, <1>4, <2>1, <2>2 DEF MapCounts
<1>6. TypeOK' /\ ViewFits'
  BY <1>1, KeptStep, SameObject DEF Inv
<1> QED BY <1>1, <1>5, <1>6 DEF Inv, ChecksComeFirst, ExhaustiveExact, AddressExact

(* The counter goes down once for each element, however often it is asked    *)
(* for.                                                                      *)
LEMMA MapGetStep ==
  ASSUME Inv, NEW key, map_get(key)
  PROVE  Inv'
<1>1. /\ map # NoMap /\ UNCHANGED <<object, views>>
      /\ answer'.op = "map_get" /\ answer'.result # "rerror"
      /\ map' = map \/ (key \in DOMAIN map.place /\ map' = MapTaken(key))
  BY DEF map_get, Answer
<1>2. /\ map = [unused |-> map.unused, used |-> map.used, place |-> map.place]
      /\ map.used \subseteq DOMAIN object.names
      /\ map.unused = Len(object.names) - Cardinality(map.used)
      /\ \A k \in DOMAIN map.place : map.place[k] \in DOMAIN object.names
  BY <1>1 DEF Inv, MapCounts
<1>3. MapCounts'
  <2>1. CASE map' = map
    BY <2>1, <1>1 DEF Inv, MapCounts
  <2>2. CASE key \in DOMAIN map.place /\ map' = MapTaken(key)
    <3> DEFINE p == map.place[key]
               used == map.used \cup {p}
               unused == IF p \in map.used THEN map.unused ELSE map.unused - 1
    <3>1. map' = [unused |-> unused, used |-> used, place |-> map.place]
      BY <1>2, <2>2 DEF MapTaken
    <3>2. used \subseteq DOMAIN object.names
      BY <1>2, <2>2
    <3>3. unused = Len(object.names) - Cardinality(used)
      <4>1. Len(object.names) \in Nat /\ DOMAIN object.names = 1 .. Len(object.names)
        BY DEF Inv, TypeOK, IsObject
      <4>2. IsFiniteSet(map.used)
        <5> DEFINE n == Len(object.names)
        <5>1. n \in Nat
          BY <4>1
        <5> HIDE DEF n
        <5>2. IsFiniteSet(1 .. n)
          BY <5>1, FS_Interval
        <5>3. DOMAIN object.names = 1 .. n
          BY <4>1 DEF n
        <5> QED BY <1>2, <5>2, <5>3, FS_Subset
      <4>3. /\ Cardinality(map.used) \in Nat
            /\ Cardinality(used) = IF p \in map.used THEN Cardinality(map.used) ELSE Cardinality(map.used) + 1
        BY <4>2, FS_CardinalityType, FS_AddElement
      <4>4. map.unused \in Int
        BY <1>2, <4>1, <4>3
      <4>5. CASE p \in map.used
        BY <1>2, <4>3, <4>5
      <4>6. CASE p \notin map.used
        BY <1>2, <4>1, <4>3, <4>4, <4>6
      <4> QED BY <4>5, <4>6
    <3> HIDE DEF used, unused
    <3> QED BY <1>1, <1>2, <3>1, <3>2, <3>3 DEF MapCounts
  <2> QED BY <1>1, <2>1, <2>2
<1>4. TypeOK' /\ ViewFits'
  BY <1>1 DEF Inv, TypeOK, IsObject, ViewFits
<1> QED BY <1>1, <1>3, <1>4 DEF Inv, ChecksComeFirst, ExhaustiveExact, AddressExact

(* The counter is at zero when as many elements were asked for as there are. *)
LEMMA ExhaustiveStep ==
  ASSUME Inv, exhaustive
  PROVE  Inv'
<1>1. /\ map # NoMap /\ UNCHANGED <<object, views, map>>
      /\ answer'.op = "exhaustive"
      /\ answer'.result = IF map.unused = 0 THEN "ok" ELSE "err"
  BY DEF exhaustive, Answer
<1> DEFINE places == DOMAIN object.names
<1>2. /\ map.used \subseteq places
      /\ map.unused = Len(object.names) - Cardinality(map.used)
  BY <1>1 DEF Inv, MapCounts
<1>3. Len(object.names) \in Nat /\ places = 1 .. Len(object.names)
  BY DEF Inv, TypeOK, IsObject
<1>4. IsFiniteSet(places) /\ Cardinality(places) = Len(object.names)
  <2> DEFINE n == Len(object.names)
  <2>1. n \in Nat
    BY <1>3
  <2> HIDE DEF n
  <2>2. IsFiniteSet(1 .. n) /\ Cardinality(1 .. n) = IF 1 > n THEN 0 ELSE n - 1 + 1
    BY <2>1, FS_Interval
  <2>3. Cardinality(1 .. n) = n
    BY <2>1, <2>2
  <2> QED BY <1>3, <2>2, <2>3 DEF n
<1>5. Cardinality(map.used) \in Nat /\ (Cardinality(map.used) = Cardinality(places) <=> map.used = places)
  BY <1>2, <1>4, FS_Subset, FS_CardinalityType
<1>6. map.unused = 0 <=> map.used = places
  BY <1>2, <1>3, <1>4, <1>5
<1>7. ExhaustiveExact'
  <2>1. CASE object.names = <<>>
    <3>1. places = {}
      BY <1>3, <2>1
    <3>2. map.unused = 0
      BY <1>2, <1>6, <3>1
    <3> QED BY <1>1, <2>1, <3>2 DEF ExhaustiveExact
  <2>2. CASE object.names # <<>>
    <3>1. DOMAIN object.cells = places
      <4>1. /\ Len(object.names) \in {0, Len(object.cells)}
            /\ DOMAIN object.cells = 1 .. Len(object.cells)
        BY DEF Inv, TypeOK, IsObject
      <4>2. Len(object.names) # 0
        <5>1. object.names = [k \in 1 .. Len(object.names) |-> object.names[k]] \/ Len(object.names) # 0
          OBVIOUS
        <5> QED BY <1>3, <2>2, <5>1
      <4> QED BY <1>3, <4>1, <4>2
    <3>2. map.used = places <=> \A k \in DOMAIN object.cells : k \in map.used
      BY <1>2, <3>1
    <3> HIDE DEF places
    <3> QED BY <1>1, <1>6, <2>2, <3>2 DEF ExhaustiveExact
  <2> QED BY <2>1, <2>2
<1>8. TypeOK' /\ ViewFits' /\ MapCounts'
  BY <1>1 DEF Inv, TypeOK, IsObject, ViewFits, MapCounts
<1> QED BY <1>1, <1>7, <1>8 DEF Inv, ChecksComeFirst, AddressExact

-----------------------------------------------------------------------------

LEMMA InvStep == Inv /\ [Next]_vars => Inv'
<1> SUFFICES ASSUME Inv, [Next]_vars PROVE Inv'
  OBVIOUS
<1>1. CASE UNCHANGED vars
  BY <1>1 DEF vars, Inv, TypeOK, IsObject, ViewFits, MapCounts, ChecksComeFirst, ExhaustiveExact, AddressExact
<1>2. ASSUME NEW p \in Parameters, Enter(p) PROVE Inv'
  BY <1>2, EnterStep
<1>3. ASSUME NEW key, map_get(key) PROVE Inv'
  BY <1>3, MapGetStep
<1>4. CASE exhaustive
  BY <1>4, ExhaustiveStep
<1>5. ASSUME NEW i \in 1 .. MaxViews,
             \/ Recharacterize(i)
             \/ \E t \in Elements : Coerce(i, t)
             \/ \E index \in Subscript : get(i, index) \/ set(i, index)
             \/ to_vector_mut(i)
             \/ transpose(i)
             \/ \E n \in Extents : set_names(i, n)
             \/ \E lengths \in Lengths : set_dimnames(i, lengths)
             \/ get_dimnames(i)
             \/ set_attribute(i)
             \/ \E key \in Keys : get_by_key(i, key)
             \/ make_map(i)
      PROVE  Inv'
  BY <1>5, RecharacterizeStep, CoerceStep, GetSetStep, ToVectorStep, TransposeStep, SetNamesStep,
     SetDimnamesStep, SetAttributeStep, LookupStep, MakeMapStep
<1> QED BY <1>1, <1>2, <1>3, <1>4, <1>5 DEF Next

(* The invariant itself.                                                     *)
THEOREM ContainersInvariant == Spec => []Inv
<1> QED BY InvInit, InvStep, PTL DEF Spec

(* A view is of something R's accessors for its type take, however it was    *)
(* derived and whatever was coerced, transposed or set as an attribute since *)
(* (roxido/src/lib.rs 91-158, 541-818), for objects of any extents.          *)
THEOREM ContainersViewFits == Spec => []ViewFits
<1>1. Inv => ViewFits
  BY DEF Inv
<1> QED BY <1>1, ContainersInvariant, PTL

(* get and set stay in the object and go to the cell whose subscripts are    *)
(* asked for (matrix_index, RArray::index), for arrays of any rank and any   *)
(* extents.                                                                  *)
THEOREM ContainersAddressExact == Spec => []AddressExact
<1>1. Inv => AddressExact
  BY DEF Inv
<1> QED BY <1>1, ContainersInvariant, PTL

(* Whatever a body does, its object keeps its fields and its views are views *)
(* (the types of Containers).                                                *)
THEOREM ContainersTypeOK == Spec => []TypeOK
<1>1. Inv => TypeOK
  BY DEF Inv
<1> QED BY <1>1, ContainersInvariant, PTL

(* roxido's checks come before R's, but where ChecksComeFirst says, for       *)
(* objects of any extents and whatever attributes were set: no other call of *)
(* these methods jumps over Rust frames.                                     *)
THEOREM ContainersChecksComeFirst == Spec => []ChecksComeFirst
<1>1. Inv => ChecksComeFirst
  BY DEF Inv
<1> QED BY <1>1, ContainersInvariant, PTL

(* RListMap::exhaustive passes no list with names before every element was   *)
(* asked for, passes it then if the names are distinct, and passes a list    *)
(* without names at once, for lists of any length and any order of questions. *)
THEOREM ContainersExhaustiveExact == Spec => []ExhaustiveExact
<1>1. Inv => ExhaustiveExact
  BY DEF Inv
<1> QED BY <1>1, ContainersInvariant, PTL
(* The cell of a row and a column is that of the column and the row after    *)
(* R's fill by rows of the transposed extents.                               *)
LEMMA FilledExact ==
  ASSUME NEW rows \in Nat, NEW cols \in Nat, NEW cells, Len(cells) = rows * cols,
         NEW row \in 0 .. rows - 1, NEW col \in 0 .. cols - 1
  PROVE  Filled(<<cols, rows>>, cells)[cols * row + col + 1] = cells[rows * col + row + 1]
<1> DEFINE n == Len(cells)
           c == cols * row + col
<1>1. /\ row \in Nat /\ col \in Nat /\ row < rows /\ col < cols
      /\ n = rows * cols
  OBVIOUS
<1>2. cols * row + col \in Nat /\ cols * row + col < cols * rows
  <2>1. col + cols * row < cols * rows /\ col + cols * row \in Nat
    BY <1>1, OneMoreDigit, Zenon
  <2>2. cols * row \in Nat
    BY <1>1, Times, Zenon
  <2> QED BY <1>1, <2>1, <2>2
<1>3. (col + cols * row) \div cols = row /\ (col + cols * row) % cols = col
  BY <1>1, Quotient
<1>4. c \in Nat /\ c < n /\ c \div cols = row /\ c % cols = col
  <2>1. col + cols * row = c /\ cols * rows = rows * cols
    BY <1>1
  <2> QED BY <1>1, <1>2, <1>3, <2>1
<1>5. Filled(<<cols, rows>>, cells)
        = [k \in 1 .. n |-> cells[((k - 1) % cols) * rows + ((k - 1) \div cols) + 1]]
  BY DEF Filled
<1> HIDE DEF n, c
<1>6. c + 1 \in 1 .. n /\ c + 1 - 1 = c
  <2>1. n \in Nat
    BY <1>1, Times, Zenon
  <2> QED BY <1>4, <2>1
<1>7. Filled(<<cols, rows>>, cells)[c + 1] = cells[(c % cols) * rows + (c \div cols) + 1]
  <2> DEFINE F == Filled(<<cols, rows>>, cells)
             k == c + 1
  <2>1. F = [j \in 1 .. n |-> cells[((j - 1) % cols) * rows + ((j - 1) \div cols) + 1]]
    BY <1>5
  <2> HIDE DEF F
  <2>2. k \in 1 .. n /\ k - 1 = c
    <3>1. k = c + 1
      OBVIOUS
    <3> HIDE DEF k
    <3> QED BY <1>4, <1>6, <3>1
  <2> HIDE DEF k
  <2>3. F[k] = cells[((k - 1) % cols) * rows + ((k - 1) \div cols) + 1]
    BY <2>1, <2>2, Zenon
  <2>4. F[k] = cells[(c % cols) * rows + (c \div cols) + 1]
    BY <2>2, <2>3, Zenon
  <2> QED BY <2>4, Zenon DEF F, k
<1>8. col * rows = rows * col
  BY <1>1
<1> QED BY <1>4, <1>7, <1>8 DEF c

(* transpose swaps rows and columns, cell by cell (RMatrix::transpose), for  *)
(* matrices of any extents and for a matrix whose extents were dropped or    *)
(* set anew, wherever R takes the swapped ones.                              *)
THEOREM ContainersTransposeExact == Spec => TransposeExact
<1> DEFINE Exact ==
      answer'.op = "transpose" /\ answer'.result = "ok" =>
        /\ nrow(object') = ncol(object) /\ ncol(object') = nrow(object)
        /\ \A row \in 0 .. nrow(object) - 1, col \in 0 .. ncol(object) - 1 :
             CellAt(object', col, row) = CellAt(object, row, col)
<1>1. Inv /\ [Next]_vars => [Exact]_vars
  <2> SUFFICES ASSUME Inv, Next, answer'.op = "transpose", answer'.result = "ok" PROVE Exact
    OBVIOUS
  <2>1. PICK i \in 1 .. MaxViews : transpose(i)
    <3>1. /\ ~ \E p \in Parameters : Enter(p)
          /\ ~ (map_get(New) \/ \E key \in Keys : map_get(key)) /\ ~exhaustive
      BY DEF Enter, map_get, exhaustive, Answer
    <3>2. ASSUME NEW i \in 1 .. MaxViews
          PROVE  ~Recharacterize(i) /\ ~ \E t \in Elements : Coerce(i, t)
      BY DEF Recharacterize, Coerce, Answer
    <3>3. ASSUME NEW i \in 1 .. MaxViews, NEW index
          PROVE  ~get(i, index) /\ ~set(i, index)
      <4>1. ASSUME NEW op, Access(i, op, index) PROVE answer'.op = op
        BY <4>1 DEF Access, Answer
      <4> QED BY <4>1 DEF get, set, SetNul, Answer
    <3>4. ASSUME NEW i \in 1 .. MaxViews
          PROVE  /\ ~to_vector_mut(i) /\ ~get_dimnames(i) /\ ~make_map(i) /\ ~set_attribute(i)
                 /\ ~ \E key \in Keys : get_by_key(i, key)
      BY DEF to_vector_mut, get_dimnames, make_map, set_attribute, get_by_key, Answer
    <3>5. ASSUME NEW i \in 1 .. MaxViews
          PROVE  /\ ~ \E n \in Extents : set_names(i, n)
                 /\ ~ \E lengths \in Lengths : set_dimnames(i, lengths)
      BY DEF set_names, set_dimnames, Answer
    <3> QED BY <3>1, <3>2, <3>3, <3>4, <3>5 DEF Next
  <2>2. DimTaken(object, <<ncol(object), nrow(object)>>) /\ object' = Transposed(object)
    BY <2>1 DEF transpose, Answer
  <2>3. IsObject(object)
    BY DEF Inv, TypeOK
  <2> DEFINE rows == nrow(object)
             cols == ncol(object)
  <2>4. /\ object'.dim = <<cols, rows>>
        /\ object'.cells = Filled(<<cols, rows>>, object.cells)
    BY <2>2, <2>3, TransposedFacts
  <2>5. rows \in Nat /\ cols \in Nat /\ Len(object.cells) = rows * cols
    <3>1. rows \in Nat /\ cols \in Nat
      BY <2>3, RowsAndColumnsAreNat
    <3>2. Size(<<cols, rows>>) = Len(object.cells)
      BY <2>2 DEF DimTaken
    <3> HIDE DEF rows, cols
    <3>3. Size(<<cols, rows>>) = cols * rows /\ cols * rows = rows * cols
      BY <3>1, SizeOfPair
    <3> QED BY <3>1, <3>2, <3>3
  <2>6. nrow(object') = cols /\ ncol(object') = rows
    BY <2>4 DEF nrow, ncol
  <2> HIDE DEF rows, cols
  <2>7. \A row \in 0 .. rows - 1, col \in 0 .. cols - 1 :
          CellAt(object', col, row) = CellAt(object, row, col)
    <3> TAKE row \in 0 .. rows - 1, col \in 0 .. cols - 1
    <3>1. Filled(<<cols, rows>>, object.cells)[cols * row + col + 1] = object.cells[rows * col + row + 1]
      BY <2>5, FilledExact
    <3> QED BY <2>4, <2>6, <3>1 DEF CellAt, rows
  <2> QED BY <2>6, <2>7 DEF rows, cols
<1> QED BY <1>1, ContainersInvariant, PTL DEF Spec, TransposeExact

=============================================================================
