--------------------------- MODULE Zeroize_proofs ---------------------------
(***************************************************************************)
(* Zeroizing erases its values: for any number of variables and cells no   *)
(* secret survives in memory that a zeroize, a drop or a clone_from went   *)
(* over, and a derived zeroize() reaches the fields its declaration says.  *)
(***************************************************************************)
EXTENDS ZeroizeDerive, FiniteSetTheorems, ByteArrays_proofs

Cell == {"blank", "secret", "owner", "emptied"}
Value == [kind : Kinds \cup {"dead"}, owning : BOOLEAN, some : BOOLEAN,
          cells : Seq(Cell), len : Nat]

(* What every value keeps: elements that own memory are exactly the live   *)
(* ones of an owning type; only options can be without a value.            *)
Shape(x) ==
    /\ x \in Value
    /\ Len(x.cells) <= MaxCells
    /\ Live(x) <= Len(x.cells)
    /\ \A i \in 1..Len(x.cells) : x.cells[i] \in {"owner", "emptied"} <=> x.owning /\ i <= Live(x)
    /\ x.kind = "cstring" => ~x.owning /\ Len(x.cells) >= 1
    /\ x.kind = "dead" => x = Dead
    /\ x.kind \notin {"dead", "opt_array", "opt_vec"} => x.some

-----------------------------------------------------------------------------
(* Cells.                                                                  *)

(* Memory that was set to zero.                                            *)
LEMMA BlankProps ==
    ASSUME NEW n \in Nat
    PROVE  /\ Blank(n) \in Seq(Cell)
           /\ Len(Blank(n)) = n
           /\ DOMAIN Blank(n) = 1..n
           /\ \A i \in 1..n : Blank(n)[i] = "blank"
BY DEF Blank, Cell

(* An element's own zeroize leaves no secret, and an owner an owner.       *)
LEMMA ZeroElemProps ==
    ASSUME NEW c \in Cell
    PROVE  /\ ZeroElem(c) \in {"blank", "emptied"}
           /\ ZeroElem(c) = "emptied" <=> c \in {"owner", "emptied"}
BY DEF ZeroElem, Cell

(* IterMut::zeroize over the first n cells.                                *)
LEMMA IterZeroizeProps ==
    ASSUME NEW s \in Seq(Cell), NEW n
    PROVE  /\ IterZeroize(s, n) \in Seq(Cell)
           /\ Len(IterZeroize(s, n)) = Len(s)
           /\ \A i \in 1..Len(s) :
                 IterZeroize(s, n)[i] = IF i <= n THEN ZeroElem(s[i]) ELSE s[i]
<1>1. Len(s) \in Nat /\ DOMAIN s = 1..Len(s) /\ \A i \in 1..Len(s) : s[i] \in Cell
  BY LenProperties, ElementOfSeq
<1>2. IterZeroize(s, n) = [i \in 1..Len(s) |-> IF i <= n THEN ZeroElem(s[i]) ELSE s[i]]
  BY <1>1 DEF IterZeroize
<1>3. \A i \in 1..Len(s) : (IF i <= n THEN ZeroElem(s[i]) ELSE s[i]) \in Cell
  <2>1. \A c \in Cell : ZeroElem(c) \in Cell
    BY ZeroElemProps DEF Cell
  <2> QED
    BY <1>1, <2>1
<1>4. IterZeroize(s, n) \in [1..Len(s) -> Cell]
  BY <1>2, <1>3
<1>5. IterZeroize(s, n) \in Seq(Cell) /\ Len(IterZeroize(s, n)) = Len(s)
  BY <1>1, <1>4, SeqDef
<1> QED
  BY <1>2, <1>5

(* No memory that is all zero exposes anything.                            *)
LEMMA BlankHarmless ==
    ASSUME NEW n \in Nat
    PROVE  ~FreeExposes(Blank(n)) /\ \A i \in DOMAIN Blank(n) : Harmless(Blank(n)[i])
BY BlankProps DEF FreeExposes, Harmless

(* The elements of a Vec are dropped after their memory was emptied.       *)
LEMMA DropAfterZeroize ==
    ASSUME NEW s \in Seq(Cell), NEW n \in 0..Len(s)
    PROVE  ~DropExposes(IterZeroize(s, n), n)
<1>1. Len(s) \in Nat
  BY LenProperties
<1>2. ASSUME NEW i \in 1..n PROVE IterZeroize(s, n)[i] # "owner"
  <2>1. i \in 1..Len(s) /\ i <= n
    BY <1>1
  <2>2. s[i] \in Cell
    BY <2>1, ElementOfSeq
  <2>3. IterZeroize(s, n)[i] = ZeroElem(s[i])
    BY <2>1, IterZeroizeProps
  <2> QED
    BY <2>2, <2>3, ZeroElemProps
<1> QED
  BY <1>2 DEF DropExposes

(* The fields of a value.                                                  *)
LEMMA ShapeFields ==
    ASSUME NEW x, Shape(x)
    PROVE  /\ x.kind \in Kinds \cup {"dead"} /\ x.owning \in BOOLEAN /\ x.some \in BOOLEAN
           /\ x.cells \in Seq(Cell) /\ x.len \in Nat
           /\ Len(x.cells) \in Nat /\ DOMAIN x.cells = 1..Len(x.cells)
           /\ \A i \in 1..Len(x.cells) : x.cells[i] \in Cell
           /\ Live(x) \in 0..Len(x.cells)
<1>1. /\ x.kind \in Kinds \cup {"dead"} /\ x.owning \in BOOLEAN /\ x.some \in BOOLEAN
      /\ x.cells \in Seq(Cell) /\ x.len \in Nat /\ Live(x) <= Len(x.cells)
  BY DEF Shape, Value
<1>2. /\ Len(x.cells) \in Nat /\ DOMAIN x.cells = 1..Len(x.cells)
      /\ \A i \in 1..Len(x.cells) : x.cells[i] \in Cell
  BY <1>1, LenProperties, ElementOfSeq
<1>3. Live(x) \in Nat
  BY <1>1, <1>2 DEF Live
<1> QED
  BY <1>1, <1>2, <1>3

-----------------------------------------------------------------------------
(* The implementations of Zeroize.                                         *)

(* What each of them owes: the value keeps its shape and kind, nothing it  *)
(* gave back held a secret, and nothing it still owns does.                *)
Erases(z, x) ==
    /\ ~z.exposes
    /\ Shape(z.val) /\ Wiped(z.val) /\ ~FreeExposes(z.val.cells)
    /\ z.val.kind = x.kind /\ z.val.owning = x.owning

(* The two parts of a zeroize's result.                                    *)
LEMMA ResultFields ==
    ASSUME NEW v, NEW e \in BOOLEAN
    PROVE  Result(v, e).val = v /\ Result(v, e).exposes = e
BY DEF Result

(* Arrays and boxes: element by element; an array inside an option too.    *)
LEMMA ArrayCells ==
    ASSUME NEW x, Shape(x)
    PROVE  LET c == IterZeroize(x.cells, Len(x.cells))
           IN  /\ c \in Seq(Cell) /\ Len(c) = Len(x.cells)
               /\ \A i \in 1..Len(c) : /\ c[i] \in {"blank", "emptied"}
                                       /\ c[i] = "emptied" <=> x.cells[i] \in {"owner", "emptied"}
<1> DEFINE c == IterZeroize(x.cells, Len(x.cells))
<1>1. /\ x.cells \in Seq(Cell) /\ Len(x.cells) \in Nat
      /\ \A i \in 1..Len(x.cells) : x.cells[i] \in Cell
  BY ShapeFields
<1>2. /\ c \in Seq(Cell) /\ Len(c) = Len(x.cells)
      /\ \A i \in 1..Len(x.cells) : c[i] = IF i <= Len(x.cells) THEN ZeroElem(x.cells[i]) ELSE x.cells[i]
  BY <1>1, IterZeroizeProps
<1> HIDE DEF c
<1>3. ASSUME NEW i \in 1..Len(c)
      PROVE  /\ c[i] \in {"blank", "emptied"}
             /\ c[i] = "emptied" <=> x.cells[i] \in {"owner", "emptied"}
  <2>1. i \in 1..Len(x.cells) /\ i <= Len(x.cells) /\ x.cells[i] \in Cell
    BY <1>1, <1>2
  <2>2. c[i] = ZeroElem(x.cells[i])
    BY <1>2, <2>1
  <2> QED
    BY <2>1, <2>2, ZeroElemProps
<1> QED
  BY <1>2, <1>3 DEF c

(* [Z; N], tuples and Box<[Z]>.                                            *)
LEMMA ArrayErases ==
    ASSUME NEW x, Shape(x), x.kind \in {"array", "box"}
    PROVE  Erases(ArrayZeroize(x), x)
<1> DEFINE c == IterZeroize(x.cells, Len(x.cells))
           y == [x EXCEPT !.cells = c]
<1>1. /\ c \in Seq(Cell) /\ Len(c) = Len(x.cells)
      /\ \A i \in 1..Len(c) : /\ c[i] \in {"blank", "emptied"}
                              /\ c[i] = "emptied" <=> x.cells[i] \in {"owner", "emptied"}
  BY ArrayCells
<1>2. ArrayZeroize(x) = [val |-> y, exposes |-> FALSE]
  BY DEF ArrayZeroize, Result, Shape, Value
<1> HIDE DEF c
<1>3. /\ y \in Value /\ y.kind = x.kind /\ y.owning = x.owning /\ y.some = x.some
      /\ y.len = x.len /\ y.cells = c
  BY <1>1 DEF Shape, Value
<1> HIDE DEF y
<1>4. x.some /\ Live(x) = Len(x.cells) /\ Live(y) = Len(c)
  BY <1>3 DEF Shape, Live
<1>5. Shape(y)
  BY <1>1, <1>3, <1>4 DEF Shape
<1>6. DOMAIN c = 1..Len(c)
  BY <1>1, LenProperties
<1>7. Wiped(y) /\ ~FreeExposes(y.cells)
  BY <1>1, <1>3, <1>6 DEF Wiped, FreeExposes, Harmless
<1> QED
  BY <1>2, <1>3, <1>5, <1>7 DEF Erases

(* Blank memory of n cells in place of x's, with no live element.          *)
LEMMA BlankShape ==
    ASSUME NEW x, Shape(x), NEW y \in Value, NEW n \in Nat, n <= MaxCells,
           y.kind = x.kind, y.owning = x.owning, y.cells = Blank(n),
           x.kind # "dead", y.kind = "cstring" => n >= 1,
           y.kind \notin {"opt_array", "opt_vec"} => y.some,
           y.owning => Live(y) = 0, Live(y) <= n,
           y.kind \in {"vec", "opt_vec", "opt_array"} => Live(y) = 0
    PROVE  Shape(y) /\ Wiped(y) /\ ~FreeExposes(y.cells)
<1>1. /\ Len(y.cells) = n /\ DOMAIN y.cells = 1..n
      /\ \A i \in 1..n : y.cells[i] = "blank"
  BY BlankProps
<1>2. \A i \in 1..Len(y.cells) : y.cells[i] \in {"owner", "emptied"} <=> y.owning /\ i <= Live(y)
  BY <1>1
<1>3. y.kind = "cstring" => ~y.owning
  BY DEF Shape
<1>4. Shape(y)
  BY <1>1, <1>2, <1>3 DEF Shape
<1>5. Wiped(y) /\ ~FreeExposes(y.cells)
  BY <1>1 DEF Wiped, FreeExposes, Harmless
<1> QED
  BY <1>4, <1>5

(* Vec and String: the elements, then the whole capacity.                  *)
LEMMA VecErases ==
    ASSUME NEW x, Shape(x), x.kind \in {"vec", "opt_vec"}, x.some
    PROVE  /\ Erases(VecZeroize(x), x)
           /\ VecZeroize(x).val = [x EXCEPT !.cells = Blank(Len(x.cells)), !.len = 0]
<1> DEFINE y == [x EXCEPT !.cells = Blank(Len(x.cells)), !.len = 0]
<1>1. x.cells \in Seq(Cell) /\ Len(x.cells) \in Nat /\ x.len \in 0..Len(x.cells)
  BY ShapeFields DEF Live
<1>2. VecZeroize(x) = [val |-> y, exposes |-> DropExposes(IterZeroize(x.cells, x.len), x.len)]
  BY DEF VecZeroize, Result, Shape, Value
<1>3. ~DropExposes(IterZeroize(x.cells, x.len), x.len)
  BY <1>1, DropAfterZeroize
<1>4. /\ y \in Value /\ y.kind = x.kind /\ y.owning = x.owning /\ y.some = x.some
      /\ y.len = 0 /\ y.cells = Blank(Len(x.cells))
  BY <1>1, BlankProps DEF Shape, Value
<1> HIDE DEF y
<1>5. Live(y) = 0 /\ Len(x.cells) <= MaxCells
  BY <1>4 DEF Live, Shape
<1>6. Shape(y) /\ Wiped(y) /\ ~FreeExposes(y.cells)
  <2>1. PICK n \in Nat : n = Len(x.cells)
    BY <1>1
  <2>2. /\ n <= MaxCells /\ y.cells = Blank(n) /\ x.kind # "dead"
        /\ y.kind # "cstring" /\ y.some /\ Live(y) = 0 /\ Live(y) <= n
    BY <1>4, <1>5, <2>1
  <2> QED
    BY <1>4, <2>2, BlankShape
<1>7. VecZeroize(x).val = y /\ ~VecZeroize(x).exposes
  BY <1>2, <1>3
<1>8. Erases(VecZeroize(x), x)
  BY <1>4, <1>6, <1>7 DEF Erases
<1> QED
  BY <1>7, <1>8 DEF y

(* CString: its bytes as a Vec, with a new string in their place.          *)
LEMMA CStringErases ==
    ASSUME NEW x, Shape(x), x.kind = "cstring"
    PROVE  Erases(CStringZeroize(x), x)
<1> DEFINE v == [x EXCEPT !.kind = "vec", !.len = Len(x.cells) - 1]
           buf == VecZeroize(v)
           y == [x EXCEPT !.cells = Blank(1)]
<1>1. /\ x.cells \in Seq(Cell) /\ Len(x.cells) \in Nat /\ Len(x.cells) >= 1 /\ ~x.owning
      /\ x.some /\ Len(x.cells) <= MaxCells /\ Live(x) = Len(x.cells)
  BY ShapeFields DEF Shape, Live
<1>2. /\ v \in Value /\ v.kind = "vec" /\ v.owning = x.owning /\ v.some = x.some
      /\ v.len = Len(x.cells) - 1 /\ v.cells = x.cells
  <2>1. Len(x.cells) - 1 \in Nat
    BY <1>1
  <2> QED
    BY <2>1 DEF Shape, Value, Kinds
<1>3. CStringZeroize(x) = Result(y, buf.exposes \/ FreeExposes(buf.val.cells))
  BY DEF CStringZeroize
<1> HIDE DEF v
<1>4. Shape(v)
  <2>1. Live(v) = Len(x.cells) - 1
    BY <1>1, <1>2 DEF Live
  <2>2. \A i \in 1..Len(x.cells) : x.cells[i] \notin {"owner", "emptied"}
    BY <1>1 DEF Shape
  <2> QED
    BY <1>1, <1>2, <2>1, <2>2 DEF Shape
<1>5. ~buf.exposes /\ ~FreeExposes(buf.val.cells)
  BY <1>1, <1>2, <1>4, VecErases DEF Erases
<1>6. /\ y \in Value /\ y.kind = x.kind /\ y.owning = x.owning /\ y.some = x.some
      /\ y.cells = Blank(1)
  BY BlankProps DEF Shape, Value
<1> HIDE DEF y, buf
<1>7. Live(y) = 1
  BY <1>1, <1>6, BlankProps DEF Live
<1>8. Shape(y) /\ Wiped(y) /\ ~FreeExposes(y.cells)
  <2>1. PICK n \in Nat : n = 1 /\ n <= MaxCells
    BY <1>1, ZeroizeAssumption
  <2>2. y.cells = Blank(n) /\ y.some /\ n >= 1 /\ Live(y) <= n /\ ~y.owning
    BY <1>1, <1>6, <1>7, <2>1
  <2> QED
    BY <1>6, <2>1, <2>2, BlankShape
<1>9. CStringZeroize(x).val = y /\ ~CStringZeroize(x).exposes
  <2>1. (buf.exposes \/ FreeExposes(buf.val.cells)) = FALSE
    BY <1>5
  <2>2. CStringZeroize(x) = Result(y, FALSE)
    BY <1>3, <2>1, Zenon
  <2> QED
    BY <2>2, ResultFields
<1> QED
  BY <1>6, <1>8, <1>9 DEF Erases

(* Option: the value, then all its bytes.                                  *)
LEMMA OptionErases ==
    ASSUME NEW x, Shape(x), x.kind \in {"opt_array", "opt_vec"}
    PROVE  Erases(OptionZeroize(x), x)
<1> DEFINE inner == IF x.kind = "opt_vec" THEN VecZeroize(x) ELSE ArrayZeroize(x)
           left == inner.val.cells
           take == IF x.kind = "opt_vec" THEN FreeExposes(left) ELSE DropExposes(left, Len(left))
           n == IF x.kind = "opt_vec" THEN 0 ELSE Len(x.cells)
           y == [x EXCEPT !.some = FALSE, !.cells = Blank(n), !.len = 0]
<1>1. /\ x.cells \in Seq(Cell) /\ Len(x.cells) \in Nat /\ Len(x.cells) <= MaxCells
      /\ n \in Nat /\ n <= MaxCells
  BY ShapeFields, ZeroizeAssumption DEF Shape
<1>2. Blank(0) = <<>>
  BY DEF Blank
<1>3. OptionZeroize(x) = Result(y, x.some /\ (inner.exposes \/ take))
  <2>1. (IF x.kind = "opt_vec" THEN <<>> ELSE Blank(Len(x.cells))) = Blank(n)
    BY <1>2
  <2> QED
    BY <2>1, Zenon DEF OptionZeroize
<1>4. x.some => ~inner.exposes /\ ~take
  <2>1. CASE x.kind = "opt_vec"
    BY <2>1, VecErases DEF Erases
  <2>2. CASE x.kind = "opt_array"
    <3> DEFINE c == IterZeroize(x.cells, Len(x.cells))
    <3>1. ArrayZeroize(x).val.cells = c /\ ~ArrayZeroize(x).exposes
      BY DEF ArrayZeroize, Result, Shape, Value
    <3>2. /\ c \in Seq(Cell) /\ Len(c) = Len(x.cells)
          /\ \A i \in 1..Len(c) : c[i] \in {"blank", "emptied"}
      BY ArrayCells
    <3> HIDE DEF c
    <3>3. ~DropExposes(c, Len(c))
      BY <3>2 DEF DropExposes
    <3> QED
      BY <2>2, <3>1, <3>3
  <2> QED
    BY <2>1, <2>2
<1> HIDE DEF inner, left, take
<1>5. /\ y \in Value /\ y.kind = x.kind /\ y.owning = x.owning /\ ~y.some /\ y.cells = Blank(n)
  <2> HIDE DEF n
  <2> QED
    BY <1>1, BlankProps DEF Shape, Value
<1> HIDE DEF y, n
<1>6. Shape(y) /\ Wiped(y) /\ ~FreeExposes(y.cells)
  <2>1. Live(y) = 0 /\ Live(y) <= n
    BY <1>1, <1>5 DEF Live
  <2>2. x.kind # "dead" /\ y.kind # "cstring" /\ y.kind \in {"opt_array", "opt_vec"}
    BY <1>5
  <2> QED
    BY <1>1, <1>5, <2>1, <2>2, BlankShape
<1>7. OptionZeroize(x).val = y /\ ~OptionZeroize(x).exposes
  <2>1. (x.some /\ (inner.exposes \/ take)) = FALSE
    BY <1>4
  <2>2. OptionZeroize(x) = Result(y, FALSE)
    BY <1>3, <2>1, Zenon
  <2> QED
    BY <2>2, ResultFields
<1> QED
  BY <1>5, <1>6, <1>7 DEF Erases

(* Every implementation erases its value.                                  *)
LEMMA ZeroizedErases ==
    ASSUME NEW x, Shape(x), x.kind # "dead"
    PROVE  Erases(Zeroized(x), x)
<1>1. x.kind \in Kinds
  BY ShapeFields
<1>2. CASE x.kind \in {"array", "box"}
  BY <1>2, ArrayErases DEF Zeroized
<1>3. CASE x.kind = "vec"
  <2>1. x.some
    BY <1>3 DEF Shape
  <2> QED
    BY <1>3, <2>1, VecErases DEF Zeroized
<1>4. CASE x.kind = "cstring"
  BY <1>4, CStringErases DEF Zeroized
<1>5. CASE x.kind \in {"opt_array", "opt_vec"}
  BY <1>5, OptionErases DEF Zeroized
<1> QED
  BY <1>1, <1>2, <1>3, <1>4, <1>5 DEF Kinds

-----------------------------------------------------------------------------
(* The invariant: every value has its shape, and the variables zeroized    *)
(* since their last write are alive and hold nothing.                      *)
ValuesOK ==
    /\ vals \in [Names -> Value] /\ \A n \in Names : Shape(vals[n])
    /\ exposed \in BOOLEAN /\ erased \subseteq Names
    /\ \A n \in erased : ~IsDead(n) /\ Wiped(vals[n])

(* A variable that has no value.                                           *)
LEMMA DeadShape == Shape(Dead) /\ Dead.kind = "dead"
<1>1. /\ Dead.kind = "dead" /\ Dead.some = FALSE /\ Dead.owning = FALSE /\ Dead.cells = <<>>
      /\ Dead.len = 0 /\ <<>> \in Seq(Cell) /\ Len(<<>>) = 0
  BY DEF Dead
<1>2. Dead \in Value
  BY DEF Dead, Value, Kinds
<1>3. Live(Dead) = 0
  BY <1>1 DEF Live
<1>4. \A i \in 1..Len(Dead.cells) : FALSE
  BY <1>1
<1> QED
  BY <1>1, <1>2, <1>3, <1>4, ZeroizeAssumption DEF Shape

(* Writing a variable.                                                     *)
LEMMA WriteInv ==
    ASSUME ValuesOK, NEW n \in Names, NEW x, Shape(x), Write(n, x), exposed' \in BOOLEAN
    PROVE  ValuesOK'
<1>1. vals' = [vals EXCEPT ![n] = x] /\ erased' = erased \ {n}
  BY DEF Write
<1>2. x \in Value
  BY DEF Shape
<1>3. vals' \in [Names -> Value] /\ vals'[n] = x /\ \A m \in Names \ {n} : vals'[m] = vals[m]
  BY <1>1, <1>2 DEF ValuesOK
<1>4. \A m \in Names : Shape(vals'[m])
  BY <1>3 DEF ValuesOK
<1>5. erased' \subseteq Names
  BY <1>1 DEF ValuesOK
<1>6. \A m \in erased' : vals'[m].kind # "dead" /\ Wiped(vals'[m])
  BY <1>1, <1>3 DEF ValuesOK, IsDead
<1> QED
  BY <1>3, <1>4, <1>5, <1>6 DEF ValuesOK, IsDead

(* A value as it is made: k elements, all live.                            *)
LEMMA FilledShape ==
    ASSUME NEW kind \in Kinds, NEW owning \in BOOLEAN, NEW k \in 0..MaxCells,
           kind = "cstring" => ~owning /\ k >= 1
    PROVE  Shape(Filled(kind, owning, k)) /\ Filled(kind, owning, k).kind = kind
<1> DEFINE c == [i \in 1..k |-> IF kind = "cstring" /\ i = k THEN "blank" ELSE Secret(owning)]
           x == Filled(kind, owning, k)
<1>0. k \in Nat /\ k <= MaxCells
  BY ZeroizeAssumption
<1>1. Secret(owning) \in Cell /\ (Secret(owning) = "owner" <=> owning) /\ Secret(owning) # "emptied"
  BY DEF Secret, Cell
<1>2. c \in Seq(Cell) /\ Len(c) = k /\ \A i \in 1..k : c[i] \in {"owner", "emptied"} <=> owning
  BY <1>0, <1>1 DEF Cell
<1> HIDE DEF c
<1>3. /\ x \in Value /\ x.kind = kind /\ x.owning = owning /\ x.some = TRUE
      /\ x.len = k /\ x.cells = c
  BY <1>0, <1>2 DEF Filled, Value, c
<1> HIDE DEF x
<1>4. Live(x) = k
  BY <1>2, <1>3 DEF Live
<1>5. \A i \in 1..Len(x.cells) : x.cells[i] \in {"owner", "emptied"} <=> x.owning /\ i <= Live(x)
  BY <1>0, <1>2, <1>3, <1>4
<1>6. x.kind # "dead"
  BY <1>3 DEF Kinds
<1>7. Shape(x)
  BY <1>0, <1>2, <1>3, <1>4, <1>5, <1>6 DEF Shape
<1> QED
  BY <1>3, <1>7 DEF x

(* Zeroizing::new.                                                         *)
LEMMA NewInv ==
    ASSUME ValuesOK, NEW n \in Names, NEW kind \in Kinds, NEW owning \in BOOLEAN,
           NEW k \in 0..MaxCells, New(n, kind, owning, k)
    PROVE  ValuesOK' /\ exposed' = exposed
<1>1. Shape(Filled(kind, owning, k))
  BY FilledShape DEF New
<1>2. Write(n, Filled(kind, owning, k)) /\ exposed' = exposed
  BY DEF New
<1>3. exposed' \in BOOLEAN
  BY <1>2 DEF ValuesOK
<1> QED
  BY <1>1, <1>2, <1>3, WriteInv

(* A Vec whose first k cells are live.                                     *)
LEMMA VecShape ==
    ASSUME NEW x, Shape(x), x.kind \in {"vec", "opt_vec"}, x.some,
           NEW c \in Seq(Cell), Len(c) <= MaxCells, NEW k \in 0..Len(c),
           \A i \in 1..Len(c) : c[i] \in {"owner", "emptied"} <=> x.owning /\ i <= k
    PROVE  Shape([x EXCEPT !.cells = c, !.len = k])
<1> DEFINE y == [x EXCEPT !.cells = c, !.len = k]
<1>0. Len(c) \in Nat /\ k \in Nat /\ k <= Len(c)
  BY LenProperties
<1>1. /\ y \in Value /\ y.kind = x.kind /\ y.owning = x.owning /\ y.some = x.some
      /\ y.len = k /\ y.cells = c
  BY <1>0 DEF Shape, Value
<1> HIDE DEF y
<1>2. Live(y) = k
  BY <1>1 DEF Live
<1>3. Shape(y)
  BY <1>0, <1>1, <1>2 DEF Shape
<1> QED
  BY <1>3 DEF y

(* Vec::push: in place, or into memory that is new.                        *)
LEMMA PushInv ==
    ASSUME ValuesOK, NEW n \in Names, Push(n)
    PROVE  ValuesOK' /\ exposed' = exposed
<1> DEFINE x == vals[n]
           k == x.len
           more == IF k = 0 THEN 1 ELSE k
           grown == IF k < Len(x.cells) THEN x.cells ELSE SubSeq(x.cells, 1, k) \o Blank(more)
           c == [grown EXCEPT ![k + 1] = Secret(x.owning)]
           y == [x EXCEPT !.cells = c, !.len = k + 1]
<1>1. /\ x.kind \in {"vec", "opt_vec"} /\ x.some /\ Len(grown) <= MaxCells
      /\ Write(n, [x EXCEPT !.cells = c, !.len = @ + 1]) /\ exposed' = exposed
  BY DEF Push
<1>2. Shape(x)
  BY DEF ValuesOK
<1> HIDE DEF x
<1>3. /\ x.cells \in Seq(Cell) /\ Len(x.cells) \in Nat /\ k \in Nat /\ k <= Len(x.cells)
      /\ x.owning \in BOOLEAN /\ Live(x) = k
      /\ \A i \in 1..Len(x.cells) : x.cells[i] \in Cell
  BY <1>1, <1>2, ShapeFields DEF Live
<1>4. \A i \in 1..Len(x.cells) : x.cells[i] \in {"owner", "emptied"} <=> x.owning /\ i <= k
  BY <1>2, <1>3 DEF Shape
<1>5. /\ grown \in Seq(Cell) /\ Len(grown) \in Nat /\ k + 1 <= Len(grown)
      /\ \A i \in 1..Len(grown) : /\ grown[i] \in Cell
                                  /\ grown[i] \in {"owner", "emptied"} <=> x.owning /\ i <= k
  <2>1. CASE k < Len(x.cells)
    BY <1>3, <1>4, <2>1
  <2>2. CASE ~(k < Len(x.cells))
    <3>1. k = Len(x.cells) /\ more \in Nat \ {0}
      BY <1>3, <2>2
    <3> DEFINE b == Blank(more)
               s == SubSeq(x.cells, 1, k)
    <3>2. b \in Seq(Cell) /\ Len(b) = more /\ \A i \in 1..more : b[i] = "blank"
      BY <3>1, BlankProps
    <3>3. s \in Seq(Cell) /\ Len(s) = k /\ \A i \in 1..k : s[i] = x.cells[i]
      <4>1. k \in 0..Len(x.cells)
        BY <1>3
      <4>2. s = [i \in 1..k |-> x.cells[i]]
        BY <1>3, <3>1
      <4> HIDE DEF s
      <4>3. s \in [1..k -> Cell]
        BY <1>3, <3>1, <4>2
      <4> QED
        BY <1>3, <4>2, <4>3
    <3> HIDE DEF b, s, k, more
    <3>4. /\ s \o b \in Seq(Cell) /\ Len(s \o b) = k + more
          /\ \A i \in 1..k : (s \o b)[i] = s[i]
          /\ \A i \in k + 1..k + more : (s \o b)[i] = b[i - k]
      <4>1. /\ s \o b \in Seq(Cell) /\ Len(s \o b) = Len(s) + Len(b)
            /\ \A i \in 1..Len(s) + Len(b) : (s \o b)[i] = IF i <= Len(s) THEN s[i] ELSE b[i - Len(s)]
        BY <3>2, <3>3, ConcatProperties
      <4>2. PICK z \in Seq(Cell), p \in Nat, q \in Nat \ {0} : z = s \o b /\ p = k /\ q = more
        BY <1>3, <3>1, <4>1
      <4>3. /\ z \in Seq(Cell) /\ Len(z) = p + q
            /\ \A i \in 1..p + q : z[i] = IF i <= p THEN s[i] ELSE b[i - p]
        BY <3>2, <3>3, <4>1, <4>2, Zenon
      <4>4. \A i \in 1..p : z[i] = s[i]
        BY <4>3
      <4>5. \A i \in p + 1..p + q : z[i] = b[i - p]
        BY <4>3
      <4> QED
        BY <4>2, <4>3, <4>4, <4>5, Zenon
    <3>5. ASSUME NEW i \in 1..k + more
          PROVE  /\ (s \o b)[i] \in Cell
                 /\ (s \o b)[i] \in {"owner", "emptied"} <=> x.owning /\ i <= k
      <4>1. CASE i <= k
        <5>1. i \in 1..k /\ i \in 1..Len(x.cells)
          BY <1>3, <3>1, <4>1
        <5>2. (s \o b)[i] = x.cells[i]
          BY <5>1, <3>3, <3>4
        <5> QED
          BY <5>1, <5>2, <1>3, <1>4, <4>1
      <4>2. CASE ~(i <= k)
        <5>1. i \in k + 1..k + more /\ i - k \in 1..more
          BY <1>3, <3>1, <4>2
        <5>2. (s \o b)[i] = "blank"
          BY <5>1, <3>2, <3>4
        <5> QED
          BY <5>2, <4>2 DEF Cell
      <4> QED
        BY <4>1, <4>2
    <3>6. grown = s \o b
      BY <2>2 DEF s, b, k, more
    <3>7. PICK z : z = s \o b
      OBVIOUS
    <3>8. /\ z \in Seq(Cell) /\ Len(z) = k + more
          /\ \A i \in 1..k + more : /\ z[i] \in Cell
                                    /\ z[i] \in {"owner", "emptied"} <=> x.owning /\ i <= k
      BY <3>4, <3>5, <3>7, Zenon
    <3>9. Len(z) \in Nat /\ k + 1 <= Len(z)
      BY <1>3, <3>1, <3>8
    <3> HIDE DEF grown
    <3>10. grown = z
      BY <3>6, <3>7
    <3> QED
      BY <3>8, <3>9, <3>10, Zenon
  <2> QED
    BY <2>1, <2>2
<1>6. Secret(x.owning) \in Cell /\ (Secret(x.owning) \in {"owner", "emptied"} <=> x.owning)
  BY <1>3 DEF Secret, Cell
<1> HIDE DEF grown, k
<1>7. c \in Seq(Cell) /\ Len(c) = Len(grown) /\ c[k + 1] = Secret(x.owning)
      /\ \A i \in 1..Len(grown) : i # k + 1 => c[i] = grown[i]
  <2>1. k + 1 \in 1..Len(grown)
    BY <1>3, <1>5
  <2>2. DOMAIN grown = 1..Len(grown)
    BY <1>5, LenProperties
  <2> QED
    BY <1>5, <1>6, <2>1, <2>2, ExceptSeq
<1> HIDE DEF c
<1>8. \A i \in 1..Len(c) : c[i] \in {"owner", "emptied"} <=> x.owning /\ i <= k + 1
  <2> SUFFICES ASSUME NEW i \in 1..Len(c)
               PROVE  c[i] \in {"owner", "emptied"} <=> x.owning /\ i <= k + 1
    OBVIOUS
  <2>1. CASE i = k + 1
    BY <1>3, <1>6, <1>7, <2>1
  <2>2. CASE i # k + 1
    <3>1. i \in 1..Len(grown) /\ c[i] = grown[i] /\ (i <= k + 1 <=> i <= k)
      BY <1>3, <1>5, <1>7, <2>2
    <3> QED
      BY <3>1, <1>5
  <2> QED
    BY <2>1, <2>2
<1>9. Shape(y)
  <2>1. k + 1 \in 0..Len(c) /\ Len(c) <= MaxCells
    BY <1>1, <1>3, <1>5, <1>7
  <2> QED
    BY <1>1, <1>2, <1>7, <1>8, <2>1, VecShape
<1>10. Write(n, y)
  <2>1. [x EXCEPT !.cells = c, !.len = @ + 1] = y
    BY <1>2 DEF Shape, Value, k
  <2> QED
    BY <1>1, <2>1
<1>11. exposed' \in BOOLEAN
  BY <1>1 DEF ValuesOK
<1> HIDE DEF y
<1> QED
  BY <1>1, <1>9, <1>10, <1>11, WriteInv

(* Vec::pop.                                                               *)
LEMMA PopInv ==
    ASSUME ValuesOK, NEW n \in Names, Pop(n)
    PROVE  ValuesOK' /\ exposed' = exposed
<1> DEFINE x == vals[n]
           k == x.len
           e == IF x.owning THEN "blank" ELSE x.cells[k]
           c == [x.cells EXCEPT ![k] = e]
           y == [x EXCEPT !.cells = c, !.len = k - 1]
<1>1. /\ x.kind \in {"vec", "opt_vec"} /\ x.some /\ k > 0
      /\ Write(n, [x EXCEPT !.len = @ - 1, !.cells[x.len] = IF x.owning THEN "blank" ELSE @])
      /\ exposed' = exposed
  BY DEF Pop
<1>2. Shape(x)
  BY DEF ValuesOK
<1>3. Write(n, y)
  <2>1. [x EXCEPT !.len = @ - 1, !.cells[x.len] = IF x.owning THEN "blank" ELSE @] = y
    BY <1>2 DEF Shape, Value
  <2> QED
    BY <1>1, <2>1, Zenon
<1> HIDE DEF x
<1>4. /\ x.cells \in Seq(Cell) /\ Len(x.cells) \in Nat /\ k \in 1..Len(x.cells)
      /\ x.owning \in BOOLEAN /\ Live(x) = k /\ x.cells[k] \in Cell /\ Len(x.cells) <= MaxCells
  <2>1. Live(x) = k /\ k \in Nat
    BY <1>1, <1>2, ShapeFields DEF Live
  <2> QED
    BY <1>1, <1>2, <2>1, ShapeFields DEF Shape
<1>5. \A i \in 1..Len(x.cells) : x.cells[i] \in {"owner", "emptied"} <=> x.owning /\ i <= k
  BY <1>2, <1>4 DEF Shape
<1>6. e \in Cell /\ e \notin {"owner", "emptied"}
  BY <1>4, <1>5 DEF Cell
<1> HIDE DEF e, k
<1>7. /\ c \in Seq(Cell) /\ Len(c) = Len(x.cells)
      /\ \A i \in 1..Len(x.cells) : c[i] = IF i = k THEN e ELSE x.cells[i]
  BY <1>4, <1>6, ExceptSeq
<1> HIDE DEF c
<1>8. \A i \in 1..Len(c) : c[i] \in {"owner", "emptied"} <=> x.owning /\ i <= k - 1
  <2> SUFFICES ASSUME NEW i \in 1..Len(c)
               PROVE  c[i] \in {"owner", "emptied"} <=> x.owning /\ i <= k - 1
    OBVIOUS
  <2>0. i \in 1..Len(x.cells)
    BY <1>7
  <2>1. CASE i = k
    <3>1. c[i] = e /\ ~(i <= k - 1)
      BY <1>4, <1>7, <2>0, <2>1
    <3> QED
      BY <1>6, <3>1
  <2>2. CASE i # k
    <3>1. c[i] = x.cells[i] /\ (i <= k - 1 <=> i <= k)
      BY <1>4, <1>7, <2>0, <2>2
    <3> QED
      BY <2>0, <3>1, <1>5
  <2> QED
    BY <2>1, <2>2
<1>9. Shape(y)
  <2>1. k - 1 \in 0..Len(c) /\ Len(c) <= MaxCells
    BY <1>4, <1>7
  <2> QED
    BY <1>1, <1>2, <1>7, <1>8, <2>1, VecShape
<1>10. exposed' \in BOOLEAN
  BY <1>1 DEF ValuesOK
<1> HIDE DEF y
<1> QED
  BY <1>1, <1>3, <1>9, <1>10, WriteInv

(* An option without a value owns no element.                              *)
LEMMA NoneShape ==
    ASSUME NEW x, Shape(x), x.kind \in {"opt_array", "opt_vec"},
           NEW c \in Seq(Cell), Len(c) <= MaxCells,
           \A i \in 1..Len(c) : c[i] \notin {"owner", "emptied"}
    PROVE  Shape([x EXCEPT !.some = FALSE, !.len = 0, !.cells = c])
<1> DEFINE y == [x EXCEPT !.some = FALSE, !.len = 0, !.cells = c]
<1>0. Len(c) \in Nat
  BY LenProperties
<1>1. /\ y \in Value /\ y.kind = x.kind /\ y.owning = x.owning /\ y.some = FALSE
      /\ y.len = 0 /\ y.cells = c
  BY DEF Shape, Value
<1> HIDE DEF y
<1>2. Live(y) = 0
  BY <1>1 DEF Live
<1>3. \A i \in 1..Len(c) : ~(i <= 0)
  OBVIOUS
<1>4. Shape(y)
  BY <1>0, <1>1, <1>2, <1>3 DEF Shape
<1> QED
  BY <1>4 DEF y

(* Option::take.                                                           *)
LEMMA TakeInv ==
    ASSUME ValuesOK, NEW n \in Names, Take(n)
    PROVE  ValuesOK' /\ exposed' = exposed
<1> DEFINE x == vals[n]
           c == IF x.kind = "opt_vec" THEN <<>>
                ELSE IF x.owning THEN Blank(Len(x.cells)) ELSE x.cells
           y == [x EXCEPT !.some = FALSE, !.len = 0, !.cells = c]
<1>1. /\ x.kind \in {"opt_array", "opt_vec"} /\ x.some /\ exposed' = exposed
      /\ Write(n, [x EXCEPT !.some = FALSE, !.len = 0,
                            !.cells = IF x.kind = "opt_vec" THEN <<>>
                                      ELSE IF x.owning THEN Blank(Len(@)) ELSE @])
  BY DEF Take
<1>2. Shape(x)
  BY DEF ValuesOK
<1>3. Write(n, y)
  <2>1. [x EXCEPT !.some = FALSE, !.len = 0,
                  !.cells = IF x.kind = "opt_vec" THEN <<>>
                            ELSE IF x.owning THEN Blank(Len(@)) ELSE @] = y
    BY <1>2 DEF Shape, Value
  <2> QED
    BY <1>1, <2>1, Zenon
<1> HIDE DEF x
<1>4. x.cells \in Seq(Cell) /\ Len(x.cells) \in Nat /\ Len(x.cells) <= MaxCells
  BY <1>2, ShapeFields DEF Shape
<1>5. c \in Seq(Cell) /\ Len(c) <= MaxCells /\ \A i \in 1..Len(c) : c[i] \notin {"owner", "emptied"}
  <2>1. CASE x.kind = "opt_vec"
    <3>1. c = <<>>
      BY <2>1
    <3> HIDE DEF c
    <3>2. c \in Seq(Cell) /\ Len(c) = 0 /\ 1..Len(c) = {}
      BY <3>1
    <3> QED
      BY <3>2, ZeroizeAssumption
  <2>2. CASE x.kind # "opt_vec" /\ x.owning
    <3>1. c = Blank(Len(x.cells))
      BY <2>2
    <3> HIDE DEF c
    <3> QED
      BY <1>4, <3>1, BlankProps
  <2>3. CASE x.kind # "opt_vec" /\ ~x.owning
    <3>1. c = x.cells
      BY <2>3
    <3> HIDE DEF c
    <3> QED
      BY <1>2, <1>4, <2>3, <3>1 DEF Shape
  <2> QED
    BY <2>1, <2>2, <2>3
<1> HIDE DEF c
<1>6. Shape(y)
  BY <1>1, <1>2, <1>5, NoneShape
<1>7. exposed' \in BOOLEAN
  BY <1>1 DEF ValuesOK
<1> HIDE DEF y
<1> QED
  BY <1>1, <1>3, <1>6, <1>7, WriteInv

(* New elements in place.                                                  *)
LEMMA RefillInv ==
    ASSUME ValuesOK, NEW n \in Names, Refill(n)
    PROVE  ValuesOK' /\ exposed' = exposed
<1> DEFINE x == vals[n]
           c == [i \in DOMAIN x.cells |-> Secret(x.owning)]
           y == [x EXCEPT !.cells = c, !.some = TRUE]
<1>1. /\ x.kind \in {"array", "box", "opt_array"} /\ exposed' = exposed
      /\ Write(n, [x EXCEPT !.cells = [i \in DOMAIN @ |-> Secret(x.owning)], !.some = TRUE])
  BY DEF Refill
<1>2. Shape(x)
  BY DEF ValuesOK
<1>3. Write(n, y)
  <2>1. [x EXCEPT !.cells = [i \in DOMAIN @ |-> Secret(x.owning)], !.some = TRUE] = y
    BY <1>2 DEF Shape, Value
  <2> QED
    BY <1>1, <2>1, Zenon
<1> HIDE DEF x
<1>4. /\ Len(x.cells) \in Nat /\ Len(x.cells) <= MaxCells /\ x.owning \in BOOLEAN
      /\ DOMAIN x.cells = 1..Len(x.cells)
  BY <1>2, ShapeFields DEF Shape
<1>5. Secret(x.owning) \in Cell /\ (Secret(x.owning) \in {"owner", "emptied"} <=> x.owning)
  BY <1>4 DEF Secret, Cell
<1>6. c \in Seq(Cell) /\ Len(c) = Len(x.cells) /\ \A i \in 1..Len(c) : c[i] = Secret(x.owning)
  <2>1. c = [i \in 1..Len(x.cells) |-> Secret(x.owning)]
    BY <1>4
  <2> HIDE DEF c
  <2> QED
    BY <1>4, <1>5, <2>1
<1> HIDE DEF c
<1>7. /\ y \in Value /\ y.kind = x.kind /\ y.owning = x.owning /\ y.some = TRUE
      /\ y.len = x.len /\ y.cells = c
  BY <1>2, <1>6 DEF Shape, Value
<1> HIDE DEF y
<1>8. Live(y) = Len(c)
  BY <1>1, <1>7 DEF Live
<1>9. Shape(y)
  <2>1. \A i \in 1..Len(c) : c[i] \in {"owner", "emptied"} <=> x.owning /\ i <= Len(c)
    BY <1>4, <1>5, <1>6
  <2> QED
    BY <1>1, <1>2, <1>4, <1>6, <1>7, <1>8, <2>1 DEF Shape
<1>10. exposed' \in BOOLEAN
  BY <1>1 DEF ValuesOK
<1> QED
  BY <1>1, <1>3, <1>9, <1>10, WriteInv

(* zeroize() on a variable.                                                *)
LEMMA ZeroizeCallInv ==
    ASSUME ValuesOK, NEW n \in Names, ZeroizeCall(n)
    PROVE  ValuesOK' /\ exposed' = exposed
<1> DEFINE z == Zeroized(vals[n])
<1>1. /\ vals[n].kind # "dead" /\ vals' = [vals EXCEPT ![n] = z.val]
      /\ erased' = erased \cup {n} /\ exposed' = (exposed \/ z.exposes)
  BY DEF ZeroizeCall, IsDead
<1>2. /\ ~z.exposes /\ Shape(z.val) /\ Wiped(z.val) /\ z.val.kind # "dead"
  BY <1>1, ZeroizedErases DEF ValuesOK, Erases
<1> HIDE DEF z
<1>3. exposed \in BOOLEAN /\ exposed' = exposed
  BY <1>1, <1>2, Zenon DEF ValuesOK
<1>4. /\ vals' \in [Names -> Value] /\ vals'[n] = z.val
      /\ \A m \in Names \ {n} : vals'[m] = vals[m]
  BY <1>1, <1>2 DEF ValuesOK, Shape
<1>5. \A m \in Names : Shape(vals'[m])
  BY <1>2, <1>4 DEF ValuesOK
<1>6. erased' \subseteq Names
  BY <1>1 DEF ValuesOK
<1>7. \A m \in erased' : vals'[m].kind # "dead" /\ Wiped(vals'[m])
  BY <1>1, <1>2, <1>4 DEF ValuesOK, IsDead
<1> QED
  BY <1>3, <1>4, <1>5, <1>6, <1>7 DEF ValuesOK, IsDead

(* Drop: nothing is left in the memory that is freed.                      *)
LEMMA DropInv ==
    ASSUME ValuesOK, NEW n \in Names, Drop(n)
    PROVE  ValuesOK' /\ exposed' = exposed
<1> DEFINE z == Zeroized(vals[n])
<1>1. /\ vals[n].kind # "dead" /\ Write(n, Dead)
      /\ exposed' = (exposed \/ z.exposes \/ FreeExposes(z.val.cells))
  BY DEF Drop, IsDead
<1>2. ~z.exposes /\ ~FreeExposes(z.val.cells)
  BY <1>1, ZeroizedErases DEF ValuesOK, Erases
<1> HIDE DEF z
<1>3. exposed \in BOOLEAN /\ exposed' = exposed
  BY <1>1, <1>2, Zenon DEF ValuesOK
<1>4. exposed' \in BOOLEAN
  BY <1>3
<1> QED
  BY <1>1, <1>3, <1>4, DeadShape, WriteInv

(* Z::clone copies the live elements, and no memory behind them.           *)
LEMMA ClonedShape ==
    ASSUME NEW x, Shape(x), x.kind # "dead"
    PROVE  /\ Shape(Cloned(x)) /\ Cloned(x).kind = x.kind /\ Cloned(x).owning = x.owning
           /\ Cloned(x).some = x.some /\ Cloned(x).len = x.len
<1> DEFINE c == IF x.some THEN SubSeq(x.cells, 1, Live(x))
                ELSE IF x.kind = "opt_array" THEN Blank(Len(x.cells)) ELSE <<>>
           y == [x EXCEPT !.cells = c]
<1>1. /\ x.cells \in Seq(Cell) /\ Len(x.cells) \in Nat /\ Live(x) \in 0..Len(x.cells)
      /\ Len(x.cells) <= MaxCells /\ x.some \in BOOLEAN /\ x.owning \in BOOLEAN
      /\ \A i \in 1..Len(x.cells) : x.cells[i] \in Cell
      /\ \A i \in 1..Len(x.cells) : x.cells[i] \in {"owner", "emptied"} <=> x.owning /\ i <= Live(x)
  BY ShapeFields DEF Shape
<1>2. Cloned(x) = y
  BY Zenon DEF Cloned
<1>3. PICK l \in Nat : l = Live(x) /\ l <= Len(x.cells)
  BY <1>1
<1>4. CASE x.some
  <2>1. c = SubSeq(x.cells, 1, l)
    BY <1>3, <1>4
  <2> HIDE DEF c
  <2>2. /\ c \in Seq(Cell) /\ Len(c) = l /\ \A i \in 1..l : c[i] = x.cells[i]
    <3>1. 1 \in Int /\ l \in Int /\ \A i \in 1..l : x.cells[i] \in Cell
      BY <1>1, <1>3
    <3>2. /\ c \in Seq(Cell) /\ Len(c) = (IF 1 <= l THEN l - 1 + 1 ELSE 0)
          /\ \A i \in 1..l - 1 + 1 : c[i] = x.cells[1 + i - 1]
      BY <2>1, <3>1, SubSeqProperties
    <3> QED
      BY <1>3, <3>2
  <2>3. /\ y \in Value /\ y.kind = x.kind /\ y.owning = x.owning /\ y.some = x.some
        /\ y.len = x.len /\ y.cells = c
    BY <2>2 DEF Shape, Value
  <2> HIDE DEF y
  <2>4. Live(y) = l
    BY <1>3, <1>4, <2>2, <2>3 DEF Live
  <2>5. \A i \in 1..Len(y.cells) : y.cells[i] \in {"owner", "emptied"} <=> y.owning /\ i <= Live(y)
    BY <1>1, <1>3, <2>2, <2>3, <2>4
  <2>6. y.kind = "cstring" => ~y.owning /\ Len(y.cells) >= 1
    <3>1. x.kind = "cstring" => ~x.owning /\ Len(x.cells) >= 1 /\ Live(x) = Len(x.cells)
      BY <1>4 DEF Shape, Live
    <3> QED
      BY <1>3, <2>2, <2>3, <3>1
  <2>7. /\ Len(y.cells) <= MaxCells /\ Live(y) <= Len(y.cells)
        /\ y.kind # "dead" /\ y.some
    BY <1>1, <1>3, <1>4, <2>2, <2>3, <2>4, ZeroizeAssumption
  <2>8. Shape(y)
    BY <2>3, <2>5, <2>6, <2>7 DEF Shape
  <2> QED
    BY <1>2, <2>3, <2>8
<1>5. CASE ~x.some
  <2>1. x.kind \in {"opt_array", "opt_vec"}
    BY <1>5 DEF Shape
  <2>2. c \in Seq(Cell) /\ Len(c) <= MaxCells /\ Len(c) \in Nat
        /\ \A i \in 1..Len(c) : c[i] \notin {"owner", "emptied"}
    <3>1. CASE x.kind = "opt_array"
      <4>1. c = Blank(Len(x.cells))
        BY <1>5, <3>1
      <4> HIDE DEF c
      <4> QED
        BY <1>1, <4>1, BlankProps
    <3>2. CASE x.kind = "opt_vec"
      <4>1. c = <<>>
        BY <1>5, <3>2
      <4> HIDE DEF c
      <4>2. c \in Seq(Cell) /\ Len(c) = 0 /\ 1..Len(c) = {}
        BY <4>1
      <4> QED
        BY <4>2, ZeroizeAssumption
    <3> QED
      BY <2>1, <3>1, <3>2
  <2> HIDE DEF c
  <2>3. /\ y \in Value /\ y.kind = x.kind /\ y.owning = x.owning /\ y.some = x.some
        /\ y.len = x.len /\ y.cells = c
    BY <2>2 DEF Shape, Value
  <2> HIDE DEF y
  <2>4. Live(y) = 0
    BY <1>5, <2>3 DEF Live
  <2>5. \A i \in 1..Len(y.cells) : y.cells[i] \in {"owner", "emptied"} <=> y.owning /\ i <= Live(y)
    BY <2>2, <2>3, <2>4
  <2>6. Shape(y)
    BY <2>1, <2>2, <2>3, <2>4, <2>5 DEF Shape
  <2> QED
    BY <1>2, <2>3, <2>6
<1> QED
  BY <1>1, <1>4, <1>5

(* Zeroizing::clone.                                                       *)
LEMMA CloneInv ==
    ASSUME ValuesOK, NEW n \in Names, NEW m \in Names, Clone(n, m)
    PROVE  ValuesOK' /\ exposed' = exposed
<1>1. Write(n, Cloned(vals[m])) /\ exposed' = exposed /\ vals[m].kind # "dead"
  BY DEF Clone, IsDead
<1>2. Shape(Cloned(vals[m]))
  BY <1>1, ClonedShape DEF ValuesOK
<1>3. exposed' \in BOOLEAN
  BY <1>1 DEF ValuesOK
<1> QED
  BY <1>1, <1>2, <1>3, WriteInv

(* Zeroizing::clone_from: the cells behind the new elements are those the  *)
(* zeroize before it set to zero.                                          *)
LEMMA CloneFromInv ==
    ASSUME ValuesOK, NEW n \in Names, NEW m \in Names, CloneFrom(n, m)
    PROVE  ValuesOK' /\ exposed' = exposed
<1> DEFINE z == Zeroized(vals[n])
           x == Cloned(vals[m])
           room == Len(z.val.cells) - Len(x.cells)
           c == x.cells \o SubSeq(z.val.cells, Len(x.cells) + 1, Len(x.cells) + room)
<1>1. /\ vals[n].kind # "dead" /\ vals[m].kind # "dead"
      /\ vals[n].kind = vals[m].kind /\ vals[n].owning = vals[m].owning
      /\ \/ /\ vals[n].kind = "vec" /\ room >= 0
            /\ Write(n, [x EXCEPT !.cells = @ \o SubSeq(z.val.cells, Len(@) + 1, Len(@) + room)])
            /\ exposed' = (exposed \/ z.exposes)
         \/ /\ Write(n, x)
            /\ exposed' = (exposed \/ z.exposes \/ FreeExposes(z.val.cells))
  BY DEF CloneFrom, IsDead
<1>2. /\ ~z.exposes /\ ~FreeExposes(z.val.cells) /\ Shape(z.val) /\ Wiped(z.val)
      /\ z.val.kind = vals[n].kind /\ z.val.owning = vals[n].owning
  BY <1>1, ZeroizedErases DEF ValuesOK, Erases
<1>3. Shape(x) /\ x.kind = vals[m].kind /\ x.owning = vals[m].owning /\ x.len = vals[m].len
  BY <1>1, ClonedShape DEF ValuesOK
<1> HIDE DEF z, x
<1>4. exposed' = exposed /\ exposed' \in BOOLEAN
  <2>1. exposed \in BOOLEAN
    BY DEF ValuesOK
  <2>2. exposed' = exposed
    BY <1>1, <1>2, <2>1, Zenon
  <2> QED
    BY <2>1, <2>2
<1>5. CASE Write(n, x)
  BY <1>3, <1>4, <1>5, WriteInv
<1>6. CASE /\ vals[n].kind = "vec" /\ room >= 0
           /\ Write(n, [x EXCEPT !.cells = @ \o SubSeq(z.val.cells, Len(@) + 1, Len(@) + room)])
  <2> DEFINE y == [x EXCEPT !.cells = c, !.len = x.len]
  <2>1. Write(n, y)
    <3>1. [x EXCEPT !.cells = @ \o SubSeq(z.val.cells, Len(@) + 1, Len(@) + room)] = y
      BY <1>3 DEF Shape, Value
    <3> QED
      BY <1>6, <3>1, Zenon
  <2>2. x.kind = "vec" /\ z.val.kind = "vec" /\ x.some
    BY <1>1, <1>2, <1>3, <1>6 DEF Shape
  <2>3. PICK d : d = z.val.cells
    OBVIOUS
  <2>4. PICK a \in Nat, b \in Nat, k \in Nat : a = Len(x.cells) /\ b = Len(d) /\ k = x.len
    BY <1>2, <1>3, <2>3, ShapeFields
  <2>5. /\ x.cells \in Seq(Cell) /\ d \in Seq(Cell) /\ b <= MaxCells /\ a <= b
        /\ k <= a
        /\ \A i \in 1..a : x.cells[i] \in {"owner", "emptied"} <=> x.owning /\ i <= k
    <3>1. Live(x) = k
      BY <2>2, <2>4 DEF Live
    <3>2. a <= b
      BY <1>6, <2>3, <2>4
    <3> QED
      BY <1>2, <1>3, <2>3, <2>4, <3>1, <3>2, ShapeFields DEF Shape
  <2>6. \A i \in 1..b : d[i] \in Cell /\ d[i] \notin {"owner", "emptied"}
    <3>1. Live(z.val) = 0
      BY <1>2, <2>2 DEF Wiped
    <3>2. \A i \in 1..b : d[i] \in Cell
      BY <2>4, <2>5, ElementOfSeq
    <3>3. \A i \in 1..b : d[i] \in {"owner", "emptied"} <=> z.val.owning /\ i <= 0
      BY <1>2, <2>3, <2>4, <3>1 DEF Shape
    <3> QED
      BY <3>2, <3>3
  <2> DEFINE t == SubSeq(d, a + 1, b)
  <2>7. t \in Seq(Cell) /\ Len(t) = b - a /\ \A i \in 1..b - a : t[i] = d[a + i]
    <3>1. a + 1 \in Int /\ b \in Int /\ \A i \in a + 1..b : d[i] \in Cell
      BY <2>6
    <3>2. /\ t \in Seq(Cell) /\ Len(t) = (IF a + 1 <= b THEN b - (a + 1) + 1 ELSE 0)
          /\ \A i \in 1..b - (a + 1) + 1 : t[i] = d[a + 1 + i - 1]
      BY <3>1, SubSeqProperties
    <3> HIDE DEF t
    <3> QED
      BY <2>5, <3>2
  <2>8. c = x.cells \o t
    <3>1. room = b - a /\ Len(x.cells) + room = b
      BY <2>3, <2>4
    <3> HIDE DEF room
    <3> QED
      BY <2>3, <2>4, <3>1
  <2> HIDE DEF c, t
  <2>9. /\ c \in Seq(Cell) /\ Len(c) = b
        /\ \A i \in 1..b : c[i] = IF i <= a THEN x.cells[i] ELSE t[i - a]
    <3>1. /\ c \in Seq(Cell) /\ Len(c) = Len(x.cells) + Len(t)
          /\ \A i \in 1..Len(x.cells) + Len(t) :
                c[i] = IF i <= Len(x.cells) THEN x.cells[i] ELSE t[i - Len(x.cells)]
      <4>1. PICK s \in Seq(Cell) : s = x.cells
        BY <2>5
      <4>2. /\ s \o t \in Seq(Cell) /\ Len(s \o t) = Len(s) + Len(t)
            /\ \A i \in 1..Len(s) + Len(t) : (s \o t)[i] = IF i <= Len(s) THEN s[i] ELSE t[i - Len(s)]
        BY <2>7, ConcatProperties
      <4>3. c = s \o t
        BY <2>8, <4>1
      <4> QED
        BY <4>1, <4>2, <4>3, Zenon
    <3>2. Len(x.cells) + Len(t) = b
      BY <2>4, <2>7
    <3> QED
      BY <2>4, <3>1, <3>2
  <2>10. \A i \in 1..b : c[i] \in {"owner", "emptied"} <=> x.owning /\ i <= k
    <3> SUFFICES ASSUME NEW i \in 1..b
                 PROVE  c[i] \in {"owner", "emptied"} <=> x.owning /\ i <= k
      OBVIOUS
    <3>1. CASE i <= a
      <4>1. i \in 1..a /\ c[i] = x.cells[i]
        BY <2>9, <3>1
      <4> QED
        BY <2>5, <4>1
    <3>2. CASE ~(i <= a)
      <4>1. i - a \in 1..b - a /\ a + (i - a) = i /\ ~(i <= k)
        BY <2>5, <3>2
      <4>2. c[i] = d[i]
        BY <2>7, <2>9, <3>2, <4>1
      <4> QED
        BY <2>6, <4>1, <4>2
    <3> QED
      BY <3>1, <3>2
  <2>11. Shape(y)
    <3>1. k \in 0..Len(c) /\ Len(c) <= MaxCells
      BY <2>5, <2>9
    <3>2. \A i \in 1..Len(c) : c[i] \in {"owner", "emptied"} <=> x.owning /\ i <= k
      BY <2>9, <2>10
    <3>3. Shape([x EXCEPT !.cells = c, !.len = k])
      BY <1>3, <2>2, <2>9, <3>1, <3>2, VecShape
    <3> QED
      BY <2>4, <3>3
  <2> HIDE DEF y
  <2> QED
    BY <1>4, <2>1, <2>11, WriteInv
<1> QED
  BY <1>1, <1>5, <1>6

-----------------------------------------------------------------------------
(* No step disturbs the values' shapes or exposes a secret.                *)
LEMMA NextInv ==
    ASSUME ValuesOK, Next
    PROVE  ValuesOK' /\ exposed' = exposed
<1> PICK n \in Names :
        \/ \E kind \in Kinds, owning \in BOOLEAN, k \in 0..MaxCells : New(n, kind, owning, k)
        \/ Push(n) \/ Pop(n) \/ Take(n) \/ Refill(n) \/ ZeroizeCall(n) \/ Drop(n)
        \/ \E m \in Names : Clone(n, m) \/ CloneFrom(n, m)
  BY DEF Next
<1>1. CASE \E kind \in Kinds, owning \in BOOLEAN, k \in 0..MaxCells : New(n, kind, owning, k)
  BY <1>1, NewInv
<1>2. CASE Push(n)
  BY <1>2, PushInv
<1>3. CASE Pop(n)
  BY <1>3, PopInv
<1>4. CASE Take(n)
  BY <1>4, TakeInv
<1>5. CASE Refill(n)
  BY <1>5, RefillInv
<1>6. CASE ZeroizeCall(n)
  BY <1>6, ZeroizeCallInv
<1>7. CASE Drop(n)
  BY <1>7, DropInv
<1>8. CASE \E m \in Names : Clone(n, m) \/ CloneFrom(n, m)
  BY <1>8, CloneInv, CloneFromInv
<1> QED
  BY <1>1, <1>2, <1>3, <1>4, <1>5, <1>6, <1>7, <1>8

(* Before anything is made.                                                *)
LEMMA InitOK == Init => ValuesOK /\ ~exposed
BY DeadShape DEF Init, ValuesOK, Shape

(* A step that changes nothing.                                            *)
LEMMA ValuesStutter == ValuesOK /\ UNCHANGED vars => ValuesOK' /\ exposed' = exposed
BY DEF ValuesOK, vars, IsDead

(* What the invariant says of the types.                                   *)
LEMMA ValuesTyped == ValuesOK => TypeOK
<1> SUFFICES ASSUME ValuesOK PROVE TypeOK
  OBVIOUS
<1>1. exposed \in BOOLEAN /\ erased \subseteq Names
  BY DEF ValuesOK
<1>2. ASSUME NEW n \in Names
      PROVE  /\ vals[n].kind \in Kinds \cup {"dead"}
             /\ Live(vals[n]) <= Len(vals[n].cells) /\ Len(vals[n].cells) <= MaxCells
             /\ \A i \in 1..Len(vals[n].cells) :
                   vals[n].cells[i] \in {"owner", "emptied"} <=> vals[n].owning /\ i <= Live(vals[n])
  BY DEF ValuesOK, Shape, Value
<1> QED
  BY <1>1, <1>2 DEF TypeOK

(* For any number of variables and cells: values keep their shape, so the  *)
(* bytes of a live element of an owning type are never set under it        *)
(* (Vec::zeroize clears before it sets the capacity).                      *)
THEOREM ZeroizeTypeCorrect == Spec => []TypeOK
<1>1. Init => ValuesOK
  BY InitOK
<1>2. ValuesOK /\ [Next]_vars => ValuesOK'
  BY NextInv, ValuesStutter
<1> QED
  BY <1>1, <1>2, ValuesTyped, PTL DEF Spec

(* For any number of variables and cells: what was zeroized holds no       *)
(* secret in any memory it owns until it is written again, and no memory   *)
(* a zeroize, a drop or a clone_from frees holds one.                      *)
THEOREM NoSecretSurvives == Spec => []SecretsErased
<1>1. Init => ValuesOK /\ ~exposed
  BY InitOK
<1>2. ValuesOK /\ ~exposed /\ [Next]_vars => ValuesOK' /\ ~exposed'
  BY NextInv, ValuesStutter
<1>3. ValuesOK /\ ~exposed => SecretsErased
  BY DEF ValuesOK, SecretsErased, Wiped
<1> QED
  BY <1>1, <1>2, <1>3, PTL DEF Spec

-----------------------------------------------------------------------------
(* The derived implementations.                                            *)

(* The code of a type that compiled is what the macros generate for its    *)
(* declaration; a type has no value before one is constructed.             *)
DeriveOK ==
    /\ ValuesOK
    /\ item \in {"panicked", "rejected", "compiled"} => AllDead
    /\ item \in {"compiled", "alive", "zeroized"} => code = Generated(decl)

(* generate_fields takes a field exactly if nothing says skip on the way.  *)
LEMMA GeneratedFields ==
    ASSUME NEW d, NEW n \in Names
    PROVE  n \in generate_fields(d).fields <=> ~SaysSkip(d, n)
<1>1. ASSUME NEW attrs PROVE filter_skip(attrs, TRUE).keep <=> "skip" \notin ToSet(attrs)
  <2> DEFINE skips == {i \in DOMAIN attrs : attrs[i] = "skip"}
  <2>1. filter_skip(attrs, TRUE).keep = (TRUE /\ skips = {})
    BY DEF filter_skip
  <2>2. skips = {} <=> "skip" \notin ToSet(attrs)
    BY DEF ToSet
  <2> QED
    BY <2>1, <2>2, Zenon
<1>2. generate_fields(d).fields =
          {m \in Names : /\ filter_skip(VariantAttrs(d, d.home[m]), TRUE).keep
                         /\ filter_skip(d.attrs[m], TRUE).keep}
  BY DEF generate_fields
<1>3. n \in generate_fields(d).fields <=>
          /\ filter_skip(VariantAttrs(d, d.home[n]), TRUE).keep
          /\ filter_skip(d.attrs[n], TRUE).keep
  BY <1>2
<1>4. ~SaysSkip(d, n) <=> "skip" \notin ToSet(VariantAttrs(d, d.home[n])) /\ "skip" \notin ToSet(d.attrs[n])
  BY DEF SaysSkip
<1> QED
  BY <1>1, <1>3, <1>4, Zenon

(* The fields the generated zeroize() calls, of the live variant.          *)
LEMMA CalledFields ==
    ASSUME NEW d, Derives(d, "Zeroize"), NEW n \in Names
    PROVE  n \in Generated(d).zeroize <=> ~SaysSkip(d, n)
<1>1. Generated(d).zeroize = derive_zeroize(d).fields
  BY DEF Generated
<1>2. derive_zeroize(d).fields = generate_fields(d).fields
  BY DEF derive_zeroize
<1> QED
  BY <1>1, <1>2, GeneratedFields

(* A value of a derived type is made.                                      *)
LEMMA ConstructInv ==
    ASSUME DeriveOK, NEW v, NEW kinds \in [Names -> FieldKinds],
           NEW owning \in [Names -> BOOLEAN], Construct(v, kinds, owning)
    PROVE  DeriveOK'
<1>1. /\ item = "compiled" /\ \A n \in Names : kinds[n] = "cstring" => ~owning[n]
      /\ vals' = [n \in Names |-> IF decl.home[n] # v THEN Dead
                                  ELSE Filled(kinds[n], owning[n], FieldCells)]
      /\ item' = "alive" /\ erased' = erased /\ exposed' = exposed
      /\ decl' = decl /\ code' = code
  BY DEF Construct
<1>2. AllDead /\ erased = {}
  BY <1>1 DEF DeriveOK, ValuesOK, AllDead
<1>3. ASSUME NEW n \in Names PROVE Shape(vals'[n])
  <2>1. /\ kinds[n] \in Kinds /\ owning[n] \in BOOLEAN /\ FieldCells \in 0..MaxCells
        /\ FieldCells >= 1
    BY DeriveAssumption, ZeroizeAssumption
  <2>2. Shape(Filled(kinds[n], owning[n], FieldCells))
    BY <1>1, <2>1, FilledShape
  <2> QED
    BY <1>1, <2>2, DeadShape
<1>4. vals' \in [Names -> Value]
  <2>1. vals' = [n \in Names |-> vals'[n]]
    BY <1>1
  <2> QED
    BY <1>3, <2>1 DEF Shape
<1>5. ValuesOK'
  BY <1>1, <1>2, <1>3, <1>4 DEF DeriveOK, ValuesOK
<1>6. code' = Generated(decl')
  BY <1>1 DEF DeriveOK
<1> QED
  BY <1>1, <1>5, <1>6 DEF DeriveOK

(* The generated zeroize().                                                *)
LEMMA ItemZeroizeInv ==
    ASSUME DeriveOK, ItemZeroize
    PROVE  /\ DeriveOK'
           /\ \A n \in LiveFields : IF SaysSkip(decl, n) THEN vals'[n] = vals[n]
                                    ELSE Wiped(vals'[n])
<1> DEFINE called == code.zeroize \cap LiveFields
<1>1. /\ item \in {"alive", "zeroized"} /\ Derives(decl, "Zeroize")
      /\ vals' = [n \in Names |-> IF n \in called THEN Zeroized(vals[n]).val ELSE vals[n]]
      /\ erased' = erased \cup called
      /\ exposed' = (exposed \/ \E n \in called : Zeroized(vals[n]).exposes)
      /\ item' = "zeroized" /\ decl' = decl /\ code' = code
  BY DEF ItemZeroize
<1>2. code = Generated(decl) /\ ValuesOK
  BY <1>1 DEF DeriveOK
<1>3. \A n \in called : n \in Names /\ vals[n].kind # "dead"
  BY DEF LiveFields, IsDead
<1>4. \A n \in called : Erases(Zeroized(vals[n]), vals[n])
  BY <1>2, <1>3, ZeroizedErases DEF ValuesOK
<1>5. \A n \in called : /\ Shape(vals'[n]) /\ Wiped(vals'[n]) /\ vals'[n].kind # "dead"
  BY <1>1, <1>3, <1>4 DEF Erases
<1>6. \A n \in Names \ called : vals'[n] = vals[n]
  BY <1>1
<1>7. \A n \in Names : Shape(vals'[n])
  BY <1>2, <1>5, <1>6 DEF ValuesOK
<1>8. vals' \in [Names -> Value]
  <2> HIDE DEF called
  <2>1. vals' = [n \in Names |-> vals'[n]]
    BY <1>1
  <2> QED
    BY <1>7, <2>1 DEF Shape
<1>9. \A n \in called : ~Zeroized(vals[n]).exposes
  BY <1>4 DEF Erases
<1>10. \A n \in LiveFields : IF SaysSkip(decl, n) THEN vals'[n] = vals[n] ELSE Wiped(vals'[n])
  <2> SUFFICES ASSUME NEW n \in LiveFields
               PROVE  IF SaysSkip(decl, n) THEN vals'[n] = vals[n] ELSE Wiped(vals'[n])
    OBVIOUS
  <2>1. n \in Names
    BY DEF LiveFields
  <2>2. n \in code.zeroize <=> ~SaysSkip(decl, n)
    BY <1>1, <1>2, <2>1, CalledFields
  <2> QED
    BY <1>5, <1>6, <2>1, <2>2
<1> HIDE DEF called
<1>11. exposed' \in BOOLEAN
  BY <1>1, <1>2, <1>9, Zenon DEF ValuesOK
<1>12. erased' \subseteq Names
  BY <1>1, <1>2, <1>3 DEF ValuesOK
<1>13. \A n \in erased' : vals'[n].kind # "dead" /\ Wiped(vals'[n])
  <2> SUFFICES ASSUME NEW n \in erased' PROVE vals'[n].kind # "dead" /\ Wiped(vals'[n])
    OBVIOUS
  <2>1. CASE n \in called
    BY <1>5, <2>1
  <2>2. CASE n \notin called
    <3>1. n \in erased /\ n \in Names /\ vals'[n] = vals[n]
      BY <1>1, <1>6, <1>12, <2>2
    <3> QED
      BY <1>2, <3>1 DEF ValuesOK, IsDead
  <2> QED
    BY <2>1, <2>2
<1>14. ValuesOK'
  BY <1>7, <1>8, <1>11, <1>12, <1>13 DEF ValuesOK, IsDead
<1>15. DeriveOK'
  BY <1>1, <1>2, <1>14 DEF DeriveOK
<1> QED
  BY <1>10, <1>15

(* A value of a derived type is dropped.                                   *)
LEMMA ItemDropInv ==
    ASSUME DeriveOK, ItemDrop
    PROVE  DeriveOK'
<1>1. /\ vals' = [n \in Names |-> Dead] /\ erased' = {} /\ item' = "none"
      /\ exposed' = (exposed \/ \E n \in LiveFields : SaysErased(decl, n) /\ DropGlue(n).exposes)
  BY DEF ItemDrop
<1>2. exposed' \in BOOLEAN
  BY <1>1, Zenon
<1>3. vals' \in [Names -> Value] /\ \A n \in Names : Shape(vals'[n])
  BY <1>1, DeadShape DEF Shape
<1>4. ValuesOK'
  BY <1>1, <1>2, <1>3 DEF ValuesOK
<1> QED
  BY <1>1, <1>4 DEF DeriveOK

(* A declaration is compiled.                                              *)
LEMMA DeriveInv ==
    ASSUME DeriveOK, NEW d, Derive(d)
    PROVE  DeriveOK' /\ item' # "zeroized"
<1>1. /\ AllDead /\ UNCHANGED vars /\ decl' = d
      /\ item' = (IF MacroPanics(d) THEN "panicked" ELSE IF ~Compiles(d) THEN "rejected" ELSE "compiled")
      /\ code' = (IF MacroPanics(d) \/ ~Compiles(d) THEN NoCode ELSE Generated(d))
  BY DEF Derive
<1>2. ValuesOK' /\ AllDead'
  BY <1>1, ValuesStutter DEF DeriveOK, AllDead, IsDead, vars
<1>3. item' # "zeroized" /\ (item' \in {"compiled", "alive", "zeroized"} => code' = Generated(decl'))
  BY <1>1, Zenon
<1> QED
  BY <1>2, <1>3 DEF DeriveOK

(* What zeroize_or_on_drop, and the drop of the field after it, free of a  *)
(* field that no attribute skips.                                          *)
LEMMA OnDropGlue ==
    ASSUME ValuesOK, code = Generated(decl), Derives(decl, "ZeroizeOnDrop"),
           NEW n \in LiveFields, ~SaysSkip(decl, n)
    PROVE  ~DropGlue(n).exposes
<1> DEFINE body == DropBody(n)
           own == IF decl.traits[n] = "zeroize" THEN Result(body.val, FALSE)
                  ELSE Zeroized(body.val)
<1>1. n \in Names /\ vals[n].kind # "dead" /\ Shape(vals[n])
  BY DEF LiveFields, IsDead, ValuesOK
<1>2. code.drop = "on_drop" /\ n \in code.on_drop
  <2>1. /\ Generated(decl).drop = "on_drop"
        /\ Generated(decl).on_drop = derive_zeroize_on_drop(decl).fields
    BY DEF Generated
  <2> QED
    BY <1>1, <2>1, GeneratedFields DEF derive_zeroize_on_drop
<1>3. body = zeroize_or_on_drop(n)
  BY <1>2 DEF DropBody
<1>4. /\ ~body.exposes /\ Shape(body.val) /\ body.val.kind # "dead"
      /\ decl.traits[n] # "on_drop" => ~FreeExposes(body.val.cells)
  <2>1. CASE decl.traits[n] = "on_drop"
    <3>1. body = Result(vals[n], FALSE)
      BY <1>3, <2>1 DEF zeroize_or_on_drop
    <3>2. Result(vals[n], FALSE).val = vals[n] /\ ~Result(vals[n], FALSE).exposes
      BY ResultFields
    <3>3. body.val = vals[n] /\ ~body.exposes
      BY <3>1, <3>2, Zenon
    <3> HIDE DEF body
    <3> QED
      BY <1>1, <2>1, <3>3
  <2>2. CASE decl.traits[n] # "on_drop"
    <3>1. body = Zeroized(vals[n])
      BY <1>3, <2>2 DEF zeroize_or_on_drop
    <3> QED
      BY <1>1, <3>1, ZeroizedErases DEF Erases
  <2> QED
    BY <2>1, <2>2
<1>5. DropGlue(n) = Result(own.val, body.exposes \/ own.exposes \/ FreeExposes(own.val.cells))
  BY Zenon DEF DropGlue
<1> HIDE DEF body
<1>6. ~own.exposes /\ ~FreeExposes(own.val.cells)
  <2>1. CASE decl.traits[n] = "zeroize"
    <3>1. own = Result(body.val, FALSE)
      BY <2>1
    <3> HIDE DEF own
    <3>2. own.val = body.val /\ own.exposes = FALSE
      BY <3>1, ResultFields
    <3> QED
      BY <1>4, <2>1, <3>2
  <2>2. CASE decl.traits[n] # "zeroize"
    <3>1. own = Zeroized(body.val)
      BY <2>2
    <3> HIDE DEF own
    <3> QED
      BY <1>4, <3>1, ZeroizedErases DEF Erases
  <2> QED
    BY <2>1, <2>2
<1> HIDE DEF own
<1>7. (body.exposes \/ own.exposes \/ FreeExposes(own.val.cells)) = FALSE
  BY <1>4, <1>6
<1>8. DropGlue(n) = Result(own.val, FALSE)
  BY <1>5, <1>7, Zenon
<1> QED
  BY <1>8, ResultFields

(* Every step keeps the invariant, and only the generated zeroize() makes  *)
(* a value zeroized.                                                       *)
LEMMA DeriveNextInv ==
    ASSUME DeriveOK, DeriveNext
    PROVE  DeriveOK' /\ (item' = "zeroized" => ItemZeroize)
<1>1. CASE item = "none" /\ Next /\ UNCHANGED itemVars
  <2>1. ValuesOK' /\ item' = "none"
    BY <1>1, NextInv DEF DeriveOK, itemVars
  <2> QED
    BY <2>1 DEF DeriveOK
<1>2. CASE \E kind \in {"struct", "enum"}, home \in [Names -> Variants],
              ms \in SeqOf(Places \X Metas, MaxMetas),
              derives \in (SUBSET {"Zeroize", "ZeroizeOnDrop"}) \ {{}},
              traits \in [Names -> Traits] :
              Derive(Declaration(kind, home, ms, derives, traits))
  <2>1. PICK d : Derive(d)
    BY <1>2
  <2> QED
    BY <2>1, DeriveInv
<1>3. CASE \E v \in Variants, kinds \in [Names -> FieldKinds], owning \in [Names -> BOOLEAN] :
              Construct(v, kinds, owning)
  <2>1. PICK v \in Variants, kinds \in [Names -> FieldKinds], owning \in [Names -> BOOLEAN] :
            Construct(v, kinds, owning)
    BY <1>3
  <2>2. item' = "alive"
    BY <2>1 DEF Construct
  <2> QED
    BY <2>1, <2>2, ConstructInv
<1>4. CASE \E n \in Names : UseField(n)
  <2>1. PICK n \in Names : UseField(n)
    BY <1>4
  <2>2. /\ item \in {"alive", "zeroized"} /\ (Push(n) \/ Pop(n) \/ Take(n) \/ Refill(n))
        /\ item' = "alive" /\ decl' = decl /\ code' = code
    BY <2>1 DEF UseField
  <2>3. ValuesOK'
    BY <2>1, PushInv, PopInv, TakeInv, RefillInv DEF DeriveOK, UseField
  <2>4. code' = Generated(decl')
    BY <2>2 DEF DeriveOK
  <2> QED
    BY <2>2, <2>3, <2>4 DEF DeriveOK
<1>5. CASE ItemZeroize
  BY <1>5, ItemZeroizeInv
<1>6. CASE ItemDrop
  <2>1. item' = "none"
    BY <1>6 DEF ItemDrop
  <2> QED
    BY <1>6, <2>1, ItemDropInv
<1>7. CASE Withdraw
  <2>1. item' = "none" /\ UNCHANGED vars
    BY <1>7 DEF Withdraw
  <2> QED
    BY <2>1, ValuesStutter DEF DeriveOK
<1> QED
  BY <1>1, <1>2, <1>3, <1>4, <1>5, <1>6, <1>7 DEF DeriveNext

(* The same for stuttering steps and the first state.                      *)
LEMMA DeriveInvariant ==
    /\ DeriveInit => DeriveOK
    /\ DeriveOK /\ [DeriveNext]_deriveVars => DeriveOK'
<1>1. DeriveInit => DeriveOK
  BY InitOK DEF DeriveInit, DeriveOK
<1>2. DeriveOK /\ UNCHANGED deriveVars => DeriveOK'
  <2> SUFFICES ASSUME DeriveOK, UNCHANGED deriveVars PROVE DeriveOK'
    OBVIOUS
  <2>1. UNCHANGED vars /\ item' = item /\ decl' = decl /\ code' = code
    BY DEF deriveVars, itemVars
  <2>2. ValuesOK' /\ (AllDead => AllDead')
    BY <2>1, ValuesStutter DEF DeriveOK, AllDead, IsDead, vars
  <2>3. Generated(decl') = Generated(decl)
    BY <2>1
  <2> QED
    BY <2>1, <2>2, <2>3 DEF DeriveOK
<1> QED
  BY <1>1, <1>2, DeriveNextInv

(* For every declaration, any number of fields and cells: a derived        *)
(* zeroize() erases the fields of the live variant, except those declared  *)
(* as skipped, alone or with their variant, which it leaves alone.         *)
THEOREM DerivedZeroizeErases == DeriveSpec => DerivedErases
<1> DEFINE Erased == \A n \in LiveFields : IF SaysSkip(decl, n) THEN vals'[n] = vals[n]
                                           ELSE Wiped(vals'[n])
<1>1. DeriveOK /\ [DeriveNext]_deriveVars => [item' = "zeroized" => Erased]_deriveVars
  BY DeriveNextInv, ItemZeroizeInv
<1> QED
  BY <1>1, DeriveInvariant, PTL DEF DeriveSpec, DerivedErases

(* No step gives back a secret that had to be erased, but possibly the     *)
(* drop of a type whose Drop is that of #[zeroize(drop)]: not the drop of  *)
(* one that derives ZeroizeOnDrop, nor a step of the fields' own types.    *)
LEMMA OnDropErases ==
    ASSUME DeriveOK, DeriveNext
    PROVE  exposed' = exposed \/ (ItemDrop /\ ~Derives(decl, "ZeroizeOnDrop"))
<1>0. ValuesOK /\ exposed \in BOOLEAN
  BY DEF DeriveOK, ValuesOK
<1>1. CASE Next
  BY <1>0, <1>1, NextInv
<1>2. CASE UNCHANGED vars
  BY <1>2 DEF vars
<1>3. CASE \E v \in Variants, kinds \in [Names -> FieldKinds], owning \in [Names -> BOOLEAN] :
              Construct(v, kinds, owning)
  BY <1>3 DEF Construct
<1>4. CASE \E n \in Names : UseField(n)
  <2>1. PICK n \in Names : Push(n) \/ Pop(n) \/ Take(n) \/ Refill(n)
    BY <1>4 DEF UseField
  <2> QED
    BY <1>0, <2>1, PushInv, PopInv, TakeInv, RefillInv
<1>5. CASE ItemZeroize
  <2> DEFINE called == code.zeroize \cap LiveFields
  <2>1. exposed' = (exposed \/ \E n \in called : Zeroized(vals[n]).exposes)
    BY <1>5 DEF ItemZeroize
  <2>2. \A n \in called : n \in Names /\ Shape(vals[n]) /\ vals[n].kind # "dead"
    BY <1>0 DEF LiveFields, IsDead, ValuesOK
  <2>3. \A n \in called : ~Zeroized(vals[n]).exposes
    BY <2>2, ZeroizedErases DEF Erases
  <2> HIDE DEF called
  <2> QED
    BY <1>0, <2>1, <2>3, Zenon
<1>6. CASE ItemDrop
  <2>1. CASE ~Derives(decl, "ZeroizeOnDrop")
    BY <1>6, <2>1
  <2>2. CASE Derives(decl, "ZeroizeOnDrop")
    <3>1. /\ item \in {"alive", "zeroized"}
          /\ exposed' = (exposed \/ \E n \in LiveFields :
                                       SaysErased(decl, n) /\ DropGlue(n).exposes)
      BY <1>6 DEF ItemDrop
    <3>2. code = Generated(decl)
      BY <3>1 DEF DeriveOK
    <3>3. \A n \in LiveFields : SaysErased(decl, n) => ~DropGlue(n).exposes
      BY <1>0, <2>2, <3>2, OnDropGlue DEF SaysErased
    <3> QED
      BY <1>0, <3>1, <3>3, Zenon
  <2> QED
    BY <2>1, <2>2
<1>7. \/ Next \/ UNCHANGED vars \/ ItemZeroize \/ ItemDrop \/ \E n \in Names : UseField(n)
      \/ \E v \in Variants, kinds \in [Names -> FieldKinds], owning \in [Names -> BOOLEAN] :
            Construct(v, kinds, owning)
  <2>1. \A d : Derive(d) => UNCHANGED vars
    BY DEF Derive
  <2>2. Withdraw => UNCHANGED vars
    BY DEF Withdraw
  <2> QED
    BY <2>1, <2>2 DEF DeriveNext
<1> QED
  BY <1>1, <1>2, <1>3, <1>4, <1>5, <1>6, <1>7

(* The values of derived types keep their shapes as those of Zeroizing do. *)
THEOREM DeriveTypeCorrect == DeriveSpec => []TypeOK
<1>1. DeriveOK => TypeOK
  BY ValuesTyped DEF DeriveOK
<1> QED
  BY <1>1, DeriveInvariant, PTL DEF DeriveSpec

-----------------------------------------------------------------------------
(* What the macros accept.                                                 *)

(* The elements of a concatenation.                                        *)
LEMMA CatSet ==
    ASSUME NEW T, NEW a \in Seq(T), NEW b \in Seq(T)
    PROVE  \A x : x \in ToSet(Cat(a, b)) <=> x \in ToSet(a) \/ x \in ToSet(b)
<1> DEFINE c == Cat(a, b)
<1>1. c \in Seq(T) /\ IsCat(c, a, b)
  BY CatParts
<1>2. /\ DOMAIN a = 1..Len(a) /\ DOMAIN b = 1..Len(b) /\ DOMAIN c = 1..Len(c)
      /\ Len(a) \in Nat /\ Len(b) \in Nat
  BY <1>1
<1> HIDE DEF c
<1>3. /\ Len(c) = Len(a) + Len(b)
      /\ \A i \in 1..Len(a) : c[i] = a[i]
      /\ \A i \in 1..Len(b) : c[Len(a) + i] = b[i]
  BY <1>1 DEF IsCat
<1>4. \A i \in 1..Len(a) : i \in 1..Len(c)
  BY <1>2, <1>3
<1>5. \A i \in 1..Len(b) : Len(a) + i \in 1..Len(c)
  BY <1>2, <1>3
<1>6. \A i \in 1..Len(c) : i \in 1..Len(a) \/ \E j \in 1..Len(b) : i = Len(a) + j
  <2> TAKE i \in 1..Len(c)
  <2> DEFINE k == i - Len(a)
  <2>1. i \in 1..Len(a) \/ (k \in 1..Len(b) /\ i = Len(a) + k)
    BY <1>2, <1>3
  <2> QED
    BY <2>1
<1>7. ASSUME NEW x PROVE x \in ToSet(c) <=> x \in ToSet(a) \/ x \in ToSet(b)
  <2>1. /\ x \in ToSet(c) <=> \E i \in 1..Len(c) : c[i] = x
        /\ x \in ToSet(a) <=> \E i \in 1..Len(a) : a[i] = x
        /\ x \in ToSet(b) <=> \E i \in 1..Len(b) : b[i] = x
    BY <1>2 DEF ToSet
  <2>2. ASSUME NEW i \in 1..Len(c), c[i] = x PROVE x \in ToSet(a) \/ x \in ToSet(b)
    <3>1. CASE i \in 1..Len(a)
      BY <1>3, <2>1, <2>2, <3>1
    <3>2. CASE \E j \in 1..Len(b) : i = Len(a) + j
      BY <1>3, <2>1, <2>2, <3>2
    <3> QED
      BY <1>6, <3>1, <3>2
  <2>3. ASSUME NEW i \in 1..Len(a), a[i] = x PROVE x \in ToSet(c)
    BY <1>3, <1>4, <2>1, <2>3
  <2>4. ASSUME NEW i \in 1..Len(b), b[i] = x PROVE x \in ToSet(c)
    BY <1>3, <1>5, <2>1, <2>4
  <2> QED
    BY <2>1, <2>2, <2>3, <2>4, Zenon
<1> QED
  BY <1>7 DEF c

(* The elements of a flattened sequence are those of its parts.            *)
LEMMA FlattenElements ==
    ASSUME NEW T, NEW ss \in Seq(Seq(T))
    PROVE  /\ FlattenSeq(ss) \in Seq(T)
           /\ \A x : x \in ToSet(FlattenSeq(ss)) <=> \E i \in DOMAIN ss : x \in ToSet(ss[i])
<1> DEFINE f == Flat(ss)
           n == Len(ss)
           Has(x, i) == x \in ToSet(ss[i])
<1>1. /\ IsFlat(ss, f, n) /\ FlattenSeq(ss) = f[n]
      /\ \A i \in 0..n : f[i] \in Seq(T)
  BY FlattenIsFlat, Zenon
<1>2. n \in Nat /\ DOMAIN ss = 1..n /\ \A i \in 1..n : ss[i] \in Seq(T)
  OBVIOUS
<1> HIDE DEF f, n, Has
<1> DEFINE S == {m \in Nat : m <= n =>
                    \A x : x \in ToSet(f[m]) <=> \E i \in 1..m : Has(x, i)}
<1>3. 0 \in S
  <2>1. f[0] = <<>> /\ ToSet(<<>>) = {}
    BY <1>1 DEF IsFlat, ToSet
  <2>2. \A x : x \notin ToSet(f[0])
    BY <2>1
  <2>3. 1..0 = {}
    OBVIOUS
  <2> QED
    BY <2>2, <2>3
<1>4. ASSUME NEW m \in Nat, m \in S PROVE m + 1 \in S
  <2> SUFFICES ASSUME m + 1 <= n, NEW x
               PROVE  x \in ToSet(f[m + 1]) <=> \E i \in 1..m+1 : Has(x, i)
    OBVIOUS
  <2>1. /\ m \in 0..n /\ m + 1 \in 1..n /\ (m + 1) - 1 = m /\ m <= n
        /\ \A i \in 1..m+1 : i \in 1..m \/ i = m + 1
        /\ \A i \in 1..m : i \in 1..m+1
        /\ m + 1 \in 1..m+1
    BY <1>2
  <2>2. f[m + 1] = Cat(f[m], ss[m + 1])
    BY <1>1, <2>1 DEF IsFlat
  <2>3. f[m] \in Seq(T) /\ ss[m + 1] \in Seq(T)
    BY <1>1, <1>2, <2>1
  <2>4. x \in ToSet(f[m + 1]) <=> x \in ToSet(f[m]) \/ Has(x, m + 1)
    BY <2>2, <2>3, CatSet, Zenon DEF Has
  <2>5. x \in ToSet(f[m]) <=> \E i \in 1..m : Has(x, i)
    BY <1>4, <2>1
  <2> QED
    BY <2>1, <2>4, <2>5, Zenon
<1> HIDE DEF S
<1>5. \A m \in Nat : m \in S
  BY <1>3, <1>4, NatSetInduction
<1>6. \A x : x \in ToSet(f[n]) <=> \E i \in 1..n : Has(x, i)
  <2>1. n \in S /\ n <= n
    BY <1>2, <1>5
  <2> QED
    BY <2>1 DEF S
<1>7. FlattenSeq(ss) \in Seq(T)
  BY <1>1, <1>2
<1> QED
  BY <1>1, <1>2, <1>6, <1>7, Zenon DEF Has

(* SetToSeq lists every element.                                           *)
LEMMA SetToSeqOnto ==
    ASSUME NEW S, IsFiniteSet(S)
    PROVE  /\ Cardinality(S) \in Nat
           /\ SetToSeq(S) \in [1..Cardinality(S) -> S]
           /\ \A x \in S : \E i \in 1..Cardinality(S) : SetToSeq(S)[i] = x
<1> DEFINE n == Cardinality(S)
           f == SetToSeq(S)
<1>1. n \in Nat /\ ExistsBijection(1..n, S)
  BY FS_CardinalityType
<1>2. \E g \in [1..n -> S] : IsInjective(g)
  BY <1>1 DEF ExistsBijection, Bijection, Injection
<1>3. f \in [1..n -> S] /\ IsInjective(f)
  BY <1>2, Zenon DEF SetToSeq
<1>4. f \in Injection(1..n, S)
  BY <1>3 DEF Injection
<1>5. IsFiniteSet(1..n) /\ Cardinality(1..n) = n
  BY <1>1, FS_Interval
<1>6. f \in Surjection(1..n, S)
  BY <1>4, <1>5, FS_Injection, Zenon
<1> QED
  BY <1>1, <1>3, <1>6 DEF Surjection

(* An attribute with its level.                                            *)
Levels == {"item", "variant", "field"}
Placed == [meta : Metas, level : Levels]

(* A declaration as the program may hold it.                               *)
DeclOK(d) ==
    /\ d.kind \in {"struct", "enum"}
    /\ d.home \in [Names -> Variants]
    /\ d.attrs \in [Places -> Seq(Metas)]
    /\ d.derives \in (SUBSET {"Zeroize", "ZeroizeOnDrop"}) \ {{}}
    /\ d.kind = "struct" => /\ \A n \in Names : d.home[n] = "v1"
                            /\ \A v \in Variants : d.attrs[v] = <<>>

(* That s holds the attributes of the places in P, none of them an item's. *)
Collects(s, P, d) ==
    /\ s \in Seq(Placed)
    /\ \A x \in ToSet(s) : x.level # "item"
    /\ \A m : (\E x \in ToSet(s) : x.meta = m) <=> (\E p \in P : m \in ToSet(d.attrs[p]))

(* The attributes of one place.                                            *)
LEMMA AtProps ==
    ASSUME NEW level \in Levels, NEW attrs \in Seq(Metas)
    PROVE  /\ At(level, attrs) \in Seq(Placed)
           /\ Len(At(level, attrs)) = Len(attrs) /\ Len(attrs) \in Nat
           /\ \A i \in 1..Len(attrs) : /\ attrs[i] \in Metas
                                       /\ At(level, attrs)[i].meta = attrs[i]
                                       /\ At(level, attrs)[i].level = level
           /\ \A x \in ToSet(At(level, attrs)) : x.level = level
           /\ \A m : (\E x \in ToSet(At(level, attrs)) : x.meta = m) <=> m \in ToSet(attrs)
<1> DEFINE n == Len(attrs)
           s == At(level, attrs)
<1>1. n \in Nat /\ DOMAIN attrs = 1..n /\ \A i \in 1..n : attrs[i] \in Metas
  OBVIOUS
<1>2. s = [i \in 1..n |-> [meta |-> attrs[i], level |-> level]]
  BY <1>1 DEF At
<1>3. s \in [1..n -> Placed]
  BY <1>1, <1>2 DEF Placed
<1>4. s \in Seq(Placed) /\ Len(s) = n
  BY <1>1, <1>3, FunctionIsSeq
<1>5. \A i \in 1..n : s[i].meta = attrs[i] /\ s[i].level = level
  BY <1>2
<1>6. DOMAIN s = 1..n
  BY <1>2
<1> HIDE DEF s, n
<1>7. \A x \in ToSet(s) : x.level = level
  BY <1>5, <1>6 DEF ToSet
<1>8. ASSUME NEW m PROVE (\E x \in ToSet(s) : x.meta = m) <=> m \in ToSet(attrs)
  <2>1. (\E x \in ToSet(s) : x.meta = m) <=> \E i \in 1..n : s[i].meta = m
    BY <1>6 DEF ToSet
  <2>2. m \in ToSet(attrs) <=> \E i \in 1..n : attrs[i] = m
    BY <1>1 DEF ToSet
  <2> QED
    BY <1>5, <2>1, <2>2
<1> QED
  BY <1>1, <1>4, <1>5, <1>7, <1>8 DEF n, s

(* One place other than the item's.                                        *)
LEMMA AtCollects ==
    ASSUME NEW d, DeclOK(d), NEW level \in {"variant", "field"}, NEW p \in Places
    PROVE  Collects(At(level, d.attrs[p]), {p}, d)
<1>1. d.attrs[p] \in Seq(Metas) /\ level \in Levels /\ level # "item"
  BY DEF DeclOK, Levels
<1> DEFINE a == d.attrs[p]
           s == At(level, a)
<1>2. /\ s \in Seq(Placed)
      /\ \A x \in ToSet(s) : x.level = level
      /\ \A m : (\E x \in ToSet(s) : x.meta = m) <=> m \in ToSet(a)
  BY <1>1, AtProps
<1> HIDE DEF s
<1>3. \A m : (\E x \in ToSet(s) : x.meta = m) <=> (\E q \in {p} : m \in ToSet(d.attrs[q]))
  BY <1>2
<1> QED
  BY <1>1, <1>2, <1>3 DEF Collects, s

(* Two sequences of attributes together.                                   *)
LEMMA CatCollects ==
    ASSUME NEW d, NEW a, NEW b, NEW P, NEW Q, Collects(a, P, d), Collects(b, Q, d)
    PROVE  Collects(Cat(a, b), P \cup Q, d)
<1> DEFINE c == Cat(a, b)
<1>1. a \in Seq(Placed) /\ b \in Seq(Placed)
  BY DEF Collects
<1>2. /\ c \in Seq(Placed)
      /\ \A x : x \in ToSet(c) <=> x \in ToSet(a) \/ x \in ToSet(b)
  BY <1>1, CatParts, CatSet
<1> HIDE DEF c
<1>3. \A x \in ToSet(c) : x.level # "item"
  BY <1>2 DEF Collects
<1>4. ASSUME NEW m
      PROVE  (\E x \in ToSet(c) : x.meta = m) <=> (\E p \in P \cup Q : m \in ToSet(d.attrs[p]))
  <2>1. (\E x \in ToSet(c) : x.meta = m) <=>
           (\E x \in ToSet(a) : x.meta = m) \/ (\E x \in ToSet(b) : x.meta = m)
    BY <1>2, Zenon
  <2>2. /\ (\E x \in ToSet(a) : x.meta = m) <=> (\E p \in P : m \in ToSet(d.attrs[p]))
        /\ (\E x \in ToSet(b) : x.meta = m) <=> (\E p \in Q : m \in ToSet(d.attrs[p]))
    BY Zenon DEF Collects
  <2> QED
    BY <2>1, <2>2, Zenon
<1> QED
  BY <1>2, <1>3, <1>4 DEF Collects, c

(* The fields of a variant.                                                *)
LEMMA FieldsCollect ==
    ASSUME NEW d, DeclOK(d), NEW v \in Variants
    PROVE  Collects(AtFields(d, v), FieldsOf(d, v), d)
<1> DEFINE S == FieldsOf(d, v)
           fields == SetToSeq(S)
           n == Cardinality(S)
           ss == [i \in 1..n |-> At("field", d.attrs[fields[i]])]
           s == FlattenSeq(ss)
<1>1. S \subseteq Names /\ S \subseteq Places
  BY DEF FieldsOf, Places
<1>2. IsFiniteSet(S)
  BY <1>1, DeriveAssumption, FS_Subset
<1>3. /\ n \in Nat /\ fields \in [1..n -> S]
      /\ \A x \in S : \E i \in 1..n : fields[i] = x
  BY <1>2, SetToSeqOnto
<1>4. AtFields(d, v) = s
  BY <1>3 DEF AtFields
<1> HIDE DEF fields, n, S
<1>5. \A i \in 1..n : /\ fields[i] \in S
                      /\ Collects(At("field", d.attrs[fields[i]]), {fields[i]}, d)
  BY <1>1, <1>3, AtCollects
<1>6. ss \in [1..n -> Seq(Placed)] /\ DOMAIN ss = 1..n
  BY <1>5 DEF Collects
<1>7. \A i \in 1..n : ss[i] = At("field", d.attrs[fields[i]])
  OBVIOUS
<1> HIDE DEF ss
<1>8. ss \in Seq(Seq(Placed))
  BY <1>3, <1>6, FunctionIsSeq
<1>9. /\ s \in Seq(Placed)
      /\ \A x : x \in ToSet(s) <=> \E i \in 1..n : x \in ToSet(ss[i])
  BY <1>6, <1>8, FlattenElements
<1> HIDE DEF s
<1>10. \A i \in 1..n : Collects(ss[i], {fields[i]}, d)
  BY <1>5, <1>7
<1>11. \A x \in ToSet(s) : x.level # "item"
  BY <1>9, <1>10 DEF Collects
<1>12. ASSUME NEW m
       PROVE  (\E x \in ToSet(s) : x.meta = m) <=> (\E p \in S : m \in ToSet(d.attrs[p]))
  <2>1. (\E x \in ToSet(s) : x.meta = m) <=> \E i \in 1..n : \E x \in ToSet(ss[i]) : x.meta = m
    BY <1>9, Zenon
  <2>2. ASSUME NEW i \in 1..n
        PROVE  (\E x \in ToSet(ss[i]) : x.meta = m) <=> m \in ToSet(d.attrs[fields[i]])
    BY <1>10 DEF Collects
  <2>3. (\E p \in S : m \in ToSet(d.attrs[p])) <=> \E i \in 1..n : m \in ToSet(d.attrs[fields[i]])
    BY <1>3, <1>5, Zenon
  <2> QED
    BY <2>1, <2>2, <2>3, Zenon
<1> QED
  BY <1>4, <1>9, <1>11, <1>12 DEF Collects, S

(* ParseOrder: the item's attributes, then those of all other places.      *)
BelowItem(d) ==
    Cat(Cat(At("variant", d.attrs["v1"]), AtFields(d, "v1")),
        Cat(At("variant", d.attrs["v2"]), AtFields(d, "v2")))

(* What is parsed after the item's attributes.                             *)
LEMMA OrderParts ==
    ASSUME NEW d, DeclOK(d)
    PROVE  /\ ParseOrder(d) = Cat(At("item", d.attrs["item"]), BelowItem(d))
           /\ Collects(BelowItem(d), Places \ {"item"}, d)
<1>1. ParseOrder(d) = Cat(At("item", d.attrs["item"]), BelowItem(d))
  BY DEF ParseOrder, BelowItem, Cat
<1> DEFINE F(v) == FieldsOf(d, v)
           V(v) == At("variant", d.attrs[v])
<1>2. "v1" \in Variants /\ "v2" \in Variants /\ Variants \subseteq Places
  BY DEF Variants, Places
<1>3. \A v \in Variants : Collects(Cat(V(v), AtFields(d, v)), {v} \cup F(v), d)
  <2> TAKE v \in Variants
  <2>1. Collects(V(v), {v}, d)
    BY <1>2, AtCollects
  <2>2. Collects(AtFields(d, v), F(v), d)
    BY FieldsCollect
  <2> HIDE DEF V, F
  <2> QED
    BY <2>1, <2>2, CatCollects
<1>4. Collects(BelowItem(d), ({"v1"} \cup F("v1")) \cup ({"v2"} \cup F("v2")), d)
  BY <1>2, <1>3, CatCollects DEF BelowItem
<1>5. ({"v1"} \cup F("v1")) \cup ({"v2"} \cup F("v2")) = Places \ {"item"}
  BY DeriveAssumption DEF DeclOK, FieldsOf, Places, Variants
<1> QED
  BY <1>1, <1>4, <1>5

-----------------------------------------------------------------------------
(* What parsing finds out.                                                 *)
Parsed == [ok : BOOLEAN, drop : BOOLEAN, bound : BOOLEAN]
Parsed0 == [ok |-> TRUE, drop |-> FALSE, bound |-> FALSE]
Fits(m) ==
    \/ m.meta \in {"drop", "bound"} /\ m.level = "item"
    \/ m.meta \in {"skip", "skip_value"} /\ m.level # "item"
Has(order, k, meta) == \E i \in 1..k : order[i].meta = meta
Unrepeated(order, k) ==
    \A i, j \in 1..k : i < j /\ order[i].meta = order[j].meta
                          => order[i].meta \notin {"drop", "bound"}
Means(self, order, k) ==
    /\ self \in Parsed
    /\ self.drop <=> Has(order, k, "drop")
    /\ self.bound <=> Has(order, k, "bound")
    /\ self.ok <=> (\A i \in 1..k : Fits(order[i])) /\ Unrepeated(order, k)

(* The function ParseAll is defined with.                                  *)
IsParse(order, f, n) ==
    /\ DOMAIN f = 0..n /\ f[0] = Parsed0
    /\ \A i \in 1..n : f[i] = parse_meta(f[i - 1], order[i])

(* There is such a function.                                               *)
LEMMA ParseExists ==
    ASSUME NEW order
    PROVE  \A n \in Nat : \E f : IsParse(order, f, n)
<1> DEFINE S == {m \in Nat : \E f : IsParse(order, f, m)}
<1>1. 0 \in S
  <2> DEFINE f == [i \in 0..0 |-> Parsed0]
  <2>1. IsParse(order, f, 0)
    BY DEF IsParse
  <2> HIDE DEF f
  <2> QED
    BY <2>1
<1>2. ASSUME NEW m \in Nat, m \in S PROVE m + 1 \in S
  <2>1. PICK f : IsParse(order, f, m)
    BY <1>2
  <2> DEFINE e == parse_meta(f[m], order[m+1])
             g == [i \in 0..m+1 |-> IF i <= m THEN f[i] ELSE e]
  <2>2. f[0] = Parsed0 /\ \A i \in 1..m : f[i] = parse_meta(f[i-1], order[i])
    BY <2>1 DEF IsParse
  <2> HIDE DEF e
  <2>3. DOMAIN g = 0..m+1 /\ g[0] = Parsed0
    BY <2>2
  <2>4. ASSUME NEW i \in 1..m+1 PROVE g[i] = parse_meta(g[i-1], order[i])
    <3>1. i - 1 \in 0..m /\ g[i-1] = f[i-1]
      OBVIOUS
    <3>2. CASE i <= m
      <4>1. g[i] = f[i] /\ f[i] = parse_meta(f[i-1], order[i])
        BY <2>2, <3>2
      <4> QED
        BY <3>1, <4>1, Zenon
    <3>3. CASE i = m + 1
      <4>1. i - 1 = m /\ ~(i <= m)
        BY <3>3
      <4>2. g[i] = e
        BY <4>1
      <4> QED
        BY <3>1, <3>3, <4>1, <4>2, Zenon DEF e
    <3> QED
      BY <3>2, <3>3
  <2>5. IsParse(order, g, m + 1)
    BY <2>3, <2>4, Zenon DEF IsParse
  <2> HIDE DEF g
  <2> QED
    BY <2>5
<1> HIDE DEF S
<1>3. \A m \in Nat : m \in S
  BY <1>1, <1>2, NatSetInduction
<1> QED
  BY <1>3 DEF S

(* ParseAll's own equation.                                                *)
IsParseAll(order, f) ==
    f = [i \in 0..Len(order) |-> IF i = 0 THEN Parsed0 ELSE parse_meta(f[i - 1], order[i])]

(* ParseAll is the last value of such a function.                          *)
LEMMA ParseAllIs ==
    ASSUME NEW order, Len(order) \in Nat
    PROVE  \E f : IsParse(order, f, Len(order)) /\ ParseAll(order) = f[Len(order)]
<1> DEFINE n == Len(order)
           h == CHOOSE f : IsParseAll(order, f)
<1>1. PICK f : IsParse(order, f, n)
  BY ParseExists
<1> DEFINE g == [i \in 0..n |-> f[i]]
           e == [i \in 0..n |-> IF i = 0 THEN Parsed0 ELSE parse_meta(g[i - 1], order[i])]
<1>2. \A i \in 0..n : g[i] = e[i]
  <2> TAKE i \in 0..n
  <2>1. CASE i = 0
    BY <1>1, <2>1 DEF IsParse
  <2>2. CASE i # 0
    <3>1. i \in 1..n /\ i - 1 \in 0..n
      BY <2>2
    <3>2. f[i] = parse_meta(f[i - 1], order[i])
      BY <1>1, <3>1 DEF IsParse
    <3>3. g[i] = f[i] /\ g[i - 1] = f[i - 1]
      BY <3>1
    <3>4. e[i] = parse_meta(g[i - 1], order[i])
      BY <2>2
    <3> HIDE DEF g, e
    <3> QED
      BY <3>2, <3>3, <3>4, Zenon
  <2> QED
    BY <2>1, <2>2
<1>3. g = e
  <2>1. g = [i \in 0..n |-> g[i]] /\ e = [i \in 0..n |-> e[i]]
    OBVIOUS
  <2> HIDE DEF g, e
  <2> QED
    BY <1>2, <2>1
<1>4. IsParseAll(order, g)
  BY <1>3 DEF IsParseAll
<1> HIDE DEF g
<1>5. IsParseAll(order, h)
  BY <1>4, Zenon
<1>6. ParseAll(order) = h[n]
  BY Zenon DEF ParseAll, IsParseAll, Parsed0
<1> HIDE DEF h
<1>7. DOMAIN h = 0..n
  BY <1>5 DEF IsParseAll
<1>8. h[0] = Parsed0
  BY <1>5 DEF IsParseAll
<1>9. \A i \in 1..n : h[i] = parse_meta(h[i - 1], order[i])
  BY <1>5 DEF IsParseAll
<1> QED
  BY <1>6, <1>7, <1>8, <1>9, Zenon DEF IsParse

(* The positions up to k + 1.                                              *)
LEMMA OneMore ==
    ASSUME NEW k \in Nat
    PROVE  /\ \A i \in 1..k+1 : i \in 1..k \/ i = k + 1
           /\ \A i \in 1..k : i \in 1..k+1 /\ i < k + 1
           /\ k + 1 \in 1..k+1 /\ ~(k + 1 < k + 1)
           /\ \A i \in 1..k : ~(k + 1 < i)
OBVIOUS

(* One more attribute is parsed.                                           *)
LEMMA MeansMore ==
    ASSUME NEW order, NEW k \in Nat, NEW self, Means(self, order, k), order[k + 1] \in Placed
    PROVE  Means(parse_meta(self, order[k + 1]), order, k + 1)
<1> DEFINE m == order[k + 1]
           next == parse_meta(self, m)
<1>1. /\ m.meta \in {"drop", "bound", "skip", "skip_value", "malformed"}
      /\ m.level \in Levels
  BY DEF Placed, Metas
<1>2. self \in Parsed
  BY DEF Means
<1>3. \A meta : Has(order, k + 1, meta) <=> Has(order, k, meta) \/ m.meta = meta
  BY OneMore, Zenon DEF Has
<1>4. (\A i \in 1..k+1 : Fits(order[i])) <=> (\A i \in 1..k : Fits(order[i])) /\ Fits(m)
  BY OneMore, Zenon
<1>5. Unrepeated(order, k + 1) <=>
         /\ Unrepeated(order, k)
         /\ m.meta \in {"drop", "bound"} => ~Has(order, k, m.meta)
  <2>1. ASSUME Unrepeated(order, k + 1)
        PROVE  Unrepeated(order, k) /\ (m.meta \in {"drop", "bound"} => ~Has(order, k, m.meta))
    BY <2>1, OneMore, Zenon DEF Unrepeated, Has
  <2>2. ASSUME Unrepeated(order, k), m.meta \in {"drop", "bound"} => ~Has(order, k, m.meta)
        PROVE  Unrepeated(order, k + 1)
    <3> SUFFICES ASSUME NEW i \in 1..k+1, NEW j \in 1..k+1, i < j, order[i].meta = order[j].meta
                 PROVE  order[i].meta \notin {"drop", "bound"}
      BY Zenon DEF Unrepeated
    <3>1. i \in 1..k /\ (j \in 1..k \/ j = k + 1)
      OBVIOUS
    <3>2. CASE j \in 1..k
      BY <2>2, <3>1, <3>2, Zenon DEF Unrepeated
    <3>3. CASE j = k + 1
      BY <2>2, <3>1, <3>3, Zenon DEF Has
    <3> QED
      BY <3>1, <3>2, <3>3
  <2> QED
    BY <2>1, <2>2, Zenon
<1> DEFINE old == (\A i \in 1..k : Fits(order[i])) /\ Unrepeated(order, k)
           now == (\A i \in 1..k+1 : Fits(order[i])) /\ Unrepeated(order, k + 1)
<1>6. now <=> old /\ Fits(m) /\ (m.meta \in {"drop", "bound"} => ~Has(order, k, m.meta))
  BY <1>4, <1>5, Zenon
<1>7. /\ self.drop <=> Has(order, k, "drop")
      /\ self.bound <=> Has(order, k, "bound")
      /\ self.ok <=> old
      /\ self.drop \in BOOLEAN /\ self.bound \in BOOLEAN /\ self.ok \in BOOLEAN
  BY <1>2 DEF Means, Parsed
<1> HIDE DEF old, now
<1>8. /\ next \in Parsed
      /\ next.drop <=> Has(order, k + 1, "drop")
      /\ next.bound <=> Has(order, k + 1, "bound")
      /\ next.ok <=> now
  <2>1. CASE m.meta = "drop"
    <3>1. next = [self EXCEPT !.ok = self.ok /\ ~self.drop /\ m.level = "item", !.drop = TRUE]
      BY <2>1 DEF parse_meta
    <3>2. Fits(m) <=> m.level = "item"
      BY <2>1 DEF Fits
    <3>3. /\ next \in Parsed /\ next.drop = TRUE /\ next.bound = self.bound
          /\ next.ok = (self.ok /\ ~self.drop /\ m.level = "item")
      BY <1>2, <3>1 DEF Parsed
    <3> QED
      BY <1>3, <1>6, <1>7, <2>1, <3>2, <3>3
  <2>2. CASE m.meta = "bound"
    <3>1. next = [self EXCEPT !.ok = self.ok /\ ~self.bound /\ m.level = "item", !.bound = TRUE]
      BY <2>2 DEF parse_meta
    <3>2. Fits(m) <=> m.level = "item"
      BY <2>2 DEF Fits
    <3>3. /\ next \in Parsed /\ next.bound = TRUE /\ next.drop = self.drop
          /\ next.ok = (self.ok /\ ~self.bound /\ m.level = "item")
      BY <1>2, <3>1 DEF Parsed
    <3> QED
      BY <1>3, <1>6, <1>7, <2>2, <3>2, <3>3
  <2>3. CASE m.meta \in {"skip", "skip_value"}
    <3>1. next = [self EXCEPT !.ok = self.ok /\ m.level # "item"]
      BY <2>3 DEF parse_meta
    <3>2. Fits(m) <=> m.level # "item"
      BY <2>3 DEF Fits
    <3>3. /\ next \in Parsed /\ next.bound = self.bound /\ next.drop = self.drop
          /\ next.ok = (self.ok /\ m.level # "item")
      BY <1>2, <3>1 DEF Parsed
    <3> QED
      BY <1>3, <1>6, <1>7, <2>3, <3>2, <3>3
  <2>4. CASE m.meta = "malformed"
    <3>1. next = [self EXCEPT !.ok = FALSE]
      BY <2>4 DEF parse_meta
    <3>2. ~Fits(m)
      BY <2>4 DEF Fits
    <3>3. /\ next \in Parsed /\ next.bound = self.bound /\ next.drop = self.drop
          /\ next.ok = FALSE
      BY <1>2, <3>1 DEF Parsed
    <3> QED
      BY <1>3, <1>6, <1>7, <2>4, <3>2, <3>3
  <2> QED
    BY <1>1, <2>1, <2>2, <2>3, <2>4
<1> HIDE DEF next
<1>9. Means(next, order, k + 1)
  BY <1>8, Zenon DEF Means, now
<1> QED
  BY <1>9 DEF next

(* What parsing all the attributes finds out.                              *)
LEMMA ParseMeans ==
    ASSUME NEW order \in Seq(Placed)
    PROVE  Means(ParseAll(order), order, Len(order))
<1> DEFINE n == Len(order)
<1>1. n \in Nat /\ \A i \in 1..n : order[i] \in Placed
  OBVIOUS
<1>2. PICK f : IsParse(order, f, n) /\ ParseAll(order) = f[n]
  BY <1>1, ParseAllIs
<1> HIDE DEF n
<1> DEFINE S == {k \in Nat : k <= n => Means(f[k], order, k)}
<1>3. 0 \in S
  <2>1. f[0] = Parsed0 /\ 1..0 = {}
    BY <1>2 DEF IsParse
  <2>2. Parsed0 \in Parsed /\ ~Parsed0.drop /\ ~Parsed0.bound /\ Parsed0.ok
    BY DEF Parsed0, Parsed
  <2>3. Means(Parsed0, order, 0)
    BY <2>1, <2>2, Zenon DEF Means, Has, Unrepeated
  <2> QED
    BY <2>1, <2>3
<1>4. ASSUME NEW k \in Nat, k \in S PROVE k + 1 \in S
  <2> SUFFICES ASSUME k + 1 <= n PROVE Means(f[k + 1], order, k + 1)
    OBVIOUS
  <2>1. k + 1 \in 1..n /\ (k + 1) - 1 = k /\ k <= n
    BY <1>1
  <2>2. f[k + 1] = parse_meta(f[k], order[k + 1])
    BY <1>2, <2>1 DEF IsParse
  <2>3. Means(f[k], order, k) /\ order[k + 1] \in Placed
    BY <1>1, <1>4, <2>1
  <2>4. Means(parse_meta(f[k], order[k + 1]), order, k + 1)
    BY <2>3, MeansMore
  <2> QED
    BY <2>2, <2>4, Zenon
<1> HIDE DEF S
<1>5. \A k \in Nat : k \in S
  BY <1>3, <1>4, NatSetInduction
<1>6. Means(f[n], order, n)
  BY <1>1, <1>5 DEF S
<1> QED
  BY <1>2, <1>6 DEF n

(* Counting attributes: none, at most one, and one or none of two kinds.   *)
LEMMA CountProps ==
    ASSUME NEW attrs \in Seq(Metas), NEW meta
    PROVE  /\ Count(attrs, meta) \in Nat
           /\ Count(attrs, meta) = 0 <=> meta \notin ToSet(attrs)
           /\ Count(attrs, meta) <= 1 <=>
                 \A i, j \in DOMAIN attrs : attrs[i] = meta /\ attrs[j] = meta => i = j
<1> DEFINE S == {i \in DOMAIN attrs : attrs[i] = meta}
           n == Len(attrs)
<1>1. DOMAIN attrs = 1..n /\ n \in Nat
  OBVIOUS
<1>2. IsFiniteSet(1..n)
  BY <1>1, FS_Interval
<1>3. IsFiniteSet(S)
  BY <1>1, <1>2, FS_Subset
<1>4. Cardinality(S) \in Nat
  BY <1>3, FS_CardinalityType
<1>5. Cardinality(S) = 0 <=> S = {}
  BY <1>3, FS_EmptySet
<1>6. Cardinality(S) = 1 <=> \E x : S = {x}
  BY <1>3, FS_Singleton
<1>7. Count(attrs, meta) = Cardinality(S)
  BY DEF Count
<1>8. S = {} <=> meta \notin ToSet(attrs)
  BY DEF ToSet
<1>9. (\A i, j \in DOMAIN attrs : attrs[i] = meta /\ attrs[j] = meta => i = j) <=>
         \A i, j \in S : i = j
  OBVIOUS
<1> HIDE DEF S, n
<1>10. (\A i, j \in S : i = j) <=> S = {} \/ \E x : S = {x}
  <2>1. ASSUME \A i, j \in S : i = j, S # {} PROVE \E x : S = {x}
    <3>1. PICK x : x \in S
      BY <2>1
    <3>2. S = {x}
      BY <2>1, <3>1
    <3> QED
      BY <3>2
  <2> QED
    BY <2>1
<1>11. Cardinality(S) <= 1 <=> Cardinality(S) = 0 \/ Cardinality(S) = 1
  BY <1>4
<1> QED
  BY <1>4, <1>5, <1>6, <1>7, <1>8, <1>9, <1>10, <1>11, Zenon

(* Positions of the item's attributes and of the others.                   *)
LEMMA OrderPositions ==
    ASSUME NEW d, DeclOK(d)
    PROVE  LET A == d.attrs["item"]
               order == ParseOrder(d)
           IN  /\ A \in Seq(Metas) /\ order \in Seq(Placed)
               /\ Len(A) \in Nat /\ Len(order) \in Nat /\ Len(A) <= Len(order)
               /\ \A i \in 1..Len(A) : order[i].meta = A[i] /\ order[i].level = "item"
               /\ \A i \in 1..Len(order) : i \notin 1..Len(A) =>
                     /\ order[i].level # "item"
                     /\ \E p \in Places \ {"item"} : order[i].meta \in ToSet(d.attrs[p])
               /\ \A p \in Places \ {"item"} : \A m \in ToSet(d.attrs[p]) :
                     \E i \in 1..Len(order) : i \notin 1..Len(A) /\ order[i].meta = m
<1> DEFINE A == d.attrs["item"]
           order == ParseOrder(d)
           a == At("item", A)
           b == BelowItem(d)
<1>1. A \in Seq(Metas) /\ "item" \in Levels
  BY DEF DeclOK, Places, Levels
<1>2. /\ a \in Seq(Placed) /\ Len(a) = Len(A) /\ Len(A) \in Nat
      /\ \A i \in 1..Len(A) : a[i].meta = A[i] /\ a[i].level = "item"
  BY <1>1, AtProps
<1>3. order = Cat(a, b) /\ Collects(b, Places \ {"item"}, d)
  BY OrderParts
<1> HIDE DEF a, b, A
<1>4. b \in Seq(Placed) /\ DOMAIN b = 1..Len(b)
  BY <1>3 DEF Collects
<1>5. order \in Seq(Placed) /\ IsCat(order, a, b)
  BY <1>2, <1>3, <1>4, CatParts
<1>6. /\ Len(order) = Len(A) + Len(b) /\ Len(b) \in Nat
      /\ \A i \in 1..Len(A) : order[i] = a[i]
      /\ \A i \in 1..Len(b) : order[Len(A) + i] = b[i]
  BY <1>2, <1>5 DEF IsCat
<1> HIDE DEF order
<1>7. \A i \in 1..Len(order) : i \notin 1..Len(A) => \E j \in 1..Len(b) : order[i] = b[j]
  <2> SUFFICES ASSUME NEW i \in 1..Len(order), i \notin 1..Len(A)
               PROVE  \E j \in 1..Len(b) : order[i] = b[j]
    OBVIOUS
  <2> DEFINE j == i - Len(A)
  <2>1. j \in 1..Len(b) /\ Len(A) + j = i
    BY <1>2, <1>6
  <2> QED
    BY <1>6, <2>1
<1>8. \A j \in 1..Len(b) : /\ Len(A) + j \in 1..Len(order)
                           /\ Len(A) + j \notin 1..Len(A)
  BY <1>2, <1>6
<1>9. \A j \in 1..Len(b) : b[j] \in ToSet(b)
  BY <1>4 DEF ToSet
<1>10. \A x \in ToSet(b) : \E j \in 1..Len(b) : x = b[j]
  BY <1>4 DEF ToSet
<1>11. \A i \in 1..Len(order) : i \notin 1..Len(A) =>
          /\ order[i].level # "item"
          /\ \E p \in Places \ {"item"} : order[i].meta \in ToSet(d.attrs[p])
  BY <1>3, <1>7, <1>9, Zenon DEF Collects
<1>12. ASSUME NEW p \in Places \ {"item"}, NEW m \in ToSet(d.attrs[p])
       PROVE  \E i \in 1..Len(order) : i \notin 1..Len(A) /\ order[i].meta = m
  <2>1. PICK x \in ToSet(b) : x.meta = m
    BY <1>3, Zenon DEF Collects
  <2>2. PICK j \in 1..Len(b) : x = b[j]
    BY <1>10
  <2> QED
    BY <1>6, <1>8, <2>1, <2>2
<1>13. \A i \in 1..Len(A) : order[i].meta = A[i] /\ order[i].level = "item"
  BY <1>2, <1>6
<1>14. Len(order) \in Nat /\ Len(A) <= Len(order)
  BY <1>2, <1>6
<1> QED
  BY <1>1, <1>2, <1>5, <1>11, <1>12, <1>13, <1>14, Zenon DEF A, order

(* Parsing accepts exactly what is allowed, and it finds the item's drop.  *)
LEMMA ParseAllowed ==
    ASSUME NEW d, DeclOK(d)
    PROVE  /\ Parse(d).ok <=> Allowed(d)
           /\ "drop" \in ToSet(d.attrs["item"]) => Parse(d).drop
<1> DEFINE A == d.attrs["item"]
           order == ParseOrder(d)
           n == Len(order)
           Other == Places \ {"item"}
<1>1. /\ A \in Seq(Metas) /\ order \in Seq(Placed)
      /\ Len(A) \in Nat /\ n \in Nat /\ Len(A) <= n
      /\ \A i \in 1..Len(A) : order[i].meta = A[i] /\ order[i].level = "item"
      /\ \A i \in 1..n : i \notin 1..Len(A) =>
            /\ order[i].level # "item"
            /\ \E p \in Other : order[i].meta \in ToSet(d.attrs[p])
      /\ \A p \in Other : \A m \in ToSet(d.attrs[p]) :
            \E i \in 1..n : i \notin 1..Len(A) /\ order[i].meta = m
  BY OrderPositions, Zenon
<1>2. Parse(d) = ParseAll(order)
  BY DEF Parse
<1>3. Means(Parse(d), order, n)
  BY <1>1, <1>2, ParseMeans
<1>4. /\ Parse(d).drop <=> Has(order, n, "drop")
      /\ Parse(d).ok <=> (\A i \in 1..n : Fits(order[i])) /\ Unrepeated(order, n)
  BY <1>3, Zenon DEF Means
<1>5. \A p \in Places : d.attrs[p] \in Seq(Metas)
  BY DEF DeclOK
<1>6. "item" \in Places /\ Other \subseteq Places
  BY DEF Places
<1> HIDE DEF order, n, A, Other
<1>7. DOMAIN A = 1..Len(A) /\ \A i \in 1..Len(A) : i \in 1..n /\ A[i] \in Metas
  BY <1>1
<1>8. \A m : m \in ToSet(A) <=> \E i \in 1..Len(A) : A[i] = m
  BY <1>7 DEF ToSet
<1>9. \A p \in Places : \A m \in ToSet(d.attrs[p]) : m \in Metas
  BY <1>5 DEF ToSet
<1>10. \A p \in Places : \A m : Count(d.attrs[p], m) = 0 <=> m \notin ToSet(d.attrs[p])
  BY <1>5, CountProps
<1>11. \A m : Count(A, m) <= 1 <=>
          \A i, j \in 1..Len(A) : A[i] = m /\ A[j] = m => i = j
  BY <1>1, <1>7, CountProps
<1>12. ASSUME "drop" \in ToSet(A) PROVE Parse(d).drop
  <2>1. PICK i \in 1..Len(A) : A[i] = "drop"
    BY <1>8, <1>12
  <2>2. i \in 1..n /\ order[i].meta = "drop"
    BY <1>1, <1>7, <2>1
  <2> QED
    BY <1>4, <2>2, Zenon DEF Has
<1>13. ASSUME Parse(d).ok PROVE Allowed(d)
  <2>1. (\A i \in 1..n : Fits(order[i])) /\ Unrepeated(order, n)
    BY <1>4, <1>13
  <2>2. \A i \in 1..Len(A) : A[i] \in {"drop", "bound"}
    BY <1>1, <1>7, <2>1 DEF Fits
  <2>3. \A p \in Other : \A m \in ToSet(d.attrs[p]) : m \in {"skip", "skip_value"}
    <3> TAKE p \in Other
    <3> TAKE m \in ToSet(d.attrs[p])
    <3>1. PICK i \in 1..n : i \notin 1..Len(A) /\ order[i].meta = m
      BY <1>1
    <3>2. order[i].level # "item" /\ Fits(order[i])
      BY <1>1, <2>1, <3>1
    <3> QED
      BY <3>1, <3>2 DEF Fits
  <2>4. ASSUME NEW meta \in {"drop", "bound"} PROVE Count(A, meta) <= 1
    <3> SUFFICES ASSUME NEW i \in 1..Len(A), NEW j \in 1..Len(A), A[i] = meta, A[j] = meta
                 PROVE  i = j
      BY <1>11, Zenon
    <3>1. ~(i < j) /\ ~(j < i)
      <4>1. order[i].meta = meta /\ order[j].meta = meta /\ i \in 1..n /\ j \in 1..n
        BY <1>1, <1>7
      <4> QED
        BY <2>1, <4>1 DEF Unrepeated
    <3> QED
      BY <1>1, <3>1
  <2>5. ASSUME NEW meta \in {"drop", "bound"}, NEW p \in Other
        PROVE  Count(d.attrs[p], meta) = 0
    BY <1>6, <1>10, <2>3, <2>5
  <2>6. ASSUME NEW p \in Places PROVE Count(d.attrs[p], "malformed") = 0
    <3>1. CASE p = "item"
      <4>1. "malformed" \notin ToSet(A)
        BY <1>8, <2>2
      <4> QED
        BY <1>10, <3>1, <4>1 DEF A
    <3>2. CASE p # "item"
      BY <1>10, <2>3, <3>2 DEF Other
    <3> QED
      BY <3>1, <3>2
  <2>7. {"skip", "skip_value"} \cap ToSet(A) = {}
    BY <1>8, <2>2
  <2> QED
    BY <2>4, <2>5, <2>6, <2>7, Zenon DEF Allowed, A, Other
<1>14. ASSUME Allowed(d) PROVE Parse(d).ok
  <2>1. /\ \A meta \in {"drop", "bound"} : Count(A, meta) <= 1
        /\ \A meta \in {"drop", "bound"} : \A p \in Other : Count(d.attrs[p], meta) = 0
        /\ \A p \in Places : Count(d.attrs[p], "malformed") = 0
        /\ {"skip", "skip_value"} \cap ToSet(A) = {}
    BY <1>14, Zenon DEF Allowed, A, Other
  <2>2. "malformed" \notin ToSet(A)
    BY <1>6, <1>10, <2>1 DEF A
  <2>3. \A i \in 1..Len(A) : A[i] \in {"drop", "bound"}
    BY <1>7, <1>8, <2>1, <2>2 DEF Metas
  <2>4. ASSUME NEW p \in Other, NEW m \in ToSet(d.attrs[p]) PROVE m \in {"skip", "skip_value"}
    <3>1. m \in Metas /\ m \notin {"drop", "bound", "malformed"}
      BY <1>6, <1>9, <1>10, <2>1
    <3> QED
      BY <3>1 DEF Metas
  <2>5. \A i \in 1..n : Fits(order[i]) /\ (i \in 1..Len(A) <=> order[i].meta \in {"drop", "bound"})
    <3> TAKE i \in 1..n
    <3>1. CASE i \in 1..Len(A)
      <4>1. order[i].meta \in {"drop", "bound"} /\ order[i].level = "item"
        BY <1>1, <2>3, <3>1
      <4> QED
        BY <3>1, <4>1 DEF Fits
    <3>2. CASE i \notin 1..Len(A)
      <4>1. order[i].meta \in {"skip", "skip_value"} /\ order[i].level # "item"
        BY <1>1, <2>4, <3>2
      <4> QED
        BY <3>2, <4>1 DEF Fits
    <3> QED
      BY <3>1, <3>2
  <2>6. Unrepeated(order, n)
    <3> SUFFICES ASSUME NEW i \in 1..n, NEW j \in 1..n, i < j, order[i].meta = order[j].meta,
                        order[i].meta \in {"drop", "bound"}
                 PROVE  FALSE
      BY Zenon DEF Unrepeated
    <3>1. i \in 1..Len(A) /\ j \in 1..Len(A)
      BY <2>5
    <3>2. A[i] = order[i].meta /\ A[j] = order[i].meta
      BY <1>1, <3>1
    <3>3. Count(A, order[i].meta) <= 1
      BY <2>1
    <3>4. i = j
      BY <1>11, <3>1, <3>2, <3>3, Zenon
    <3> QED
      BY <3>4
  <2> QED
    BY <1>4, <2>5, <2>6, Zenon
<1> QED
  BY <1>12, <1>13, <1>14, Zenon DEF A

(* filter_skip in words.                                                   *)
LEMMA FilterSkip ==
    ASSUME NEW attrs \in Seq(Metas), NEW start \in BOOLEAN
    PROVE  /\ filter_skip(attrs, start).ok <=>
                 Count(attrs, "skip") = 0 \/ (start /\ Count(attrs, "skip") = 1)
           /\ filter_skip(attrs, start).keep <=> start /\ Count(attrs, "skip") = 0
           /\ filter_skip(attrs, start).keep \in BOOLEAN
<1> DEFINE S == {i \in DOMAIN attrs : attrs[i] = "skip"}
<1>1. DOMAIN attrs = 1..Len(attrs) /\ Len(attrs) \in Nat
  OBVIOUS
<1>2. IsFiniteSet(1..Len(attrs))
  BY <1>1, FS_Interval
<1>3. IsFiniteSet(S)
  BY <1>1, <1>2, FS_Subset
<1>4. Count(attrs, "skip") = Cardinality(S)
  BY DEF Count
<1>5. Cardinality(S) = 0 <=> S = {}
  BY <1>3, FS_EmptySet
<1>6. Cardinality(S) = 1 <=> \E x : S = {x}
  BY <1>3, FS_Singleton
<1>7. /\ filter_skip(attrs, start).ok = (\A i \in S : start /\ S = {i})
      /\ filter_skip(attrs, start).keep = (start /\ S = {})
  BY DEF filter_skip
<1> HIDE DEF S
<1>8. (\A i \in S : start /\ S = {i}) <=> S = {} \/ (start /\ \E x : S = {x})
  <2>1. ASSUME \A i \in S : start /\ S = {i}, S # {} PROVE start /\ \E x : S = {x}
    BY <2>1
  <2>2. ASSUME start, NEW x, S = {x} PROVE \A i \in S : start /\ S = {i}
    BY <2>2
  <2> QED
    BY <2>1, <2>2
<1> QED
  BY <1>4, <1>5, <1>6, <1>7, <1>8, Zenon

(* Generating the calls accepts exactly what is skipped once at most.      *)
LEMMA FieldsChecked ==
    ASSUME NEW d, DeclOK(d)
    PROVE  generate_fields(d).ok <=> SkippedOnce(d)
<1> DEFINE C(v) == Count(VariantAttrs(d, v), "skip")
           c(n) == Count(d.attrs[n], "skip")
           V == VariantsOf(d)
           keep(v) == filter_skip(VariantAttrs(d, v), TRUE).keep
<1>1. /\ \A v \in Variants : VariantAttrs(d, v) \in Seq(Metas)
      /\ \A n \in Names : d.attrs[n] \in Seq(Metas)
  BY DEF DeclOK, VariantAttrs, Places
<1>2. V \subseteq Variants /\ \A n \in Names : d.home[n] \in V
  BY DEF DeclOK, VariantsOf, Variants
<1>3. \A v \in V : /\ C(v) \in Nat
                   /\ filter_skip(VariantAttrs(d, v), TRUE).ok <=> C(v) = 0 \/ C(v) = 1
                   /\ keep(v) <=> C(v) = 0
                   /\ keep(v) \in BOOLEAN
  BY <1>1, <1>2, FilterSkip, CountProps
<1>4. \A n \in Names : \A start \in BOOLEAN :
         /\ c(n) \in Nat
         /\ filter_skip(d.attrs[n], start).ok <=> c(n) = 0 \/ (start /\ c(n) = 1)
  BY <1>1, FilterSkip, CountProps
<1>5. generate_fields(d).ok =
         \A v \in V : /\ filter_skip(VariantAttrs(d, v), TRUE).ok
                      /\ \A n \in FieldsOf(d, v) : filter_skip(d.attrs[n], keep(v)).ok
  BY DEF generate_fields
<1>6. \A v \in V : \A n \in FieldsOf(d, v) : n \in Names /\ d.home[n] = v
  BY DEF FieldsOf
<1>7. \A n \in Names : n \in FieldsOf(d, d.home[n])
  BY DEF FieldsOf
<1>8. SkippedOnce(d) <=> /\ \A v \in V : C(v) <= 1
                         /\ \A n \in Names : C(d.home[n]) + c(n) <= 1
  BY DEF SkippedOnce
<1> HIDE DEF C, c, V, keep
<1>9. generate_fields(d).ok <=>
         \A v \in V : /\ C(v) = 0 \/ C(v) = 1
                      /\ \A n \in FieldsOf(d, v) : c(n) = 0 \/ (C(v) = 0 /\ c(n) = 1)
  BY <1>3, <1>4, <1>5, <1>6, Zenon
<1>10. \A v \in V : C(v) <= 1 <=> C(v) = 0 \/ C(v) = 1
  <2> TAKE v \in V
  <2>1. C(v) \in Nat
    BY <1>3
  <2> QED
    BY <2>1
<1>11. \A v \in V : \A n \in Names : C(v) <= 1 =>
          (C(v) + c(n) <= 1 <=> c(n) = 0 \/ (C(v) = 0 /\ c(n) = 1))
  <2> TAKE v \in V
  <2> TAKE n \in Names
  <2>1. C(v) \in Nat /\ c(n) \in Nat
    BY <1>3, <1>4
  <2> QED
    BY <2>1
<1>12. ASSUME generate_fields(d).ok PROVE SkippedOnce(d)
  BY <1>2, <1>7, <1>8, <1>9, <1>10, <1>11, <1>12, Zenon
<1>13. ASSUME SkippedOnce(d) PROVE generate_fields(d).ok
  <2>1. \A v \in V : \A n \in FieldsOf(d, v) : C(v) + c(n) <= 1 /\ n \in Names
    BY <1>6, <1>8, <1>13
  <2> QED
    BY <1>8, <1>9, <1>10, <1>11, <1>13, <2>1, Zenon
<1> QED
  BY <1>12, <1>13, Zenon

(* When the macros panic.                                                  *)
LEMMA PanicMeans ==
    ASSUME NEW d, DeclOK(d)
    PROVE  MacroPanics(d) <=> ~(SkippedOnce(d) /\ (Derives(d, "Zeroize") => Allowed(d)))
<1>1. derive_zeroize(d).ok = (Parse(d).ok /\ generate_fields(d).ok)
  BY DEF derive_zeroize
<1>2. Derives(d, "Zeroize") \/ Derives(d, "ZeroizeOnDrop")
  BY DEF DeclOK, Derives
<1>3. MacroPanics(d) <=> \/ Derives(d, "Zeroize") /\ ~derive_zeroize(d).ok
                         \/ Derives(d, "ZeroizeOnDrop") /\ ~generate_fields(d).ok
  BY DEF MacroPanics, derive_zeroize_on_drop
<1> QED
  BY <1>1, <1>2, <1>3, ParseAllowed, FieldsChecked, Zenon

-----------------------------------------------------------------------------
(* The declarations that are compiled.                                     *)
NoAttrs == [p \in Places |-> <<>>]
Put(attrs, m) == [attrs EXCEPT ![m[1]] = Append(@, m[2])]
IsAttrs(ms, f) ==
    f = [i \in 0..Len(ms) |-> IF i = 0 THEN NoAttrs ELSE Put(f[i - 1], ms[i])]

(* The same, up to position n.                                             *)
IsPut(ms, f, n) ==
    /\ DOMAIN f = 0..n /\ f[0] = NoAttrs
    /\ \A i \in 1..n : f[i] = Put(f[i - 1], ms[i])

(* There is such a function.                                               *)
LEMMA PutExists ==
    ASSUME NEW ms
    PROVE  \A n \in Nat : \E f : IsPut(ms, f, n)
<1> DEFINE S == {m \in Nat : \E f : IsPut(ms, f, m)}
<1>1. 0 \in S
  <2> DEFINE f == [i \in 0..0 |-> NoAttrs]
  <2>1. IsPut(ms, f, 0)
    BY DEF IsPut
  <2> HIDE DEF f
  <2> QED
    BY <2>1
<1>2. ASSUME NEW m \in Nat, m \in S PROVE m + 1 \in S
  <2>1. PICK f : IsPut(ms, f, m)
    BY <1>2
  <2> DEFINE e == Put(f[m], ms[m+1])
             g == [i \in 0..m+1 |-> IF i <= m THEN f[i] ELSE e]
  <2>2. f[0] = NoAttrs /\ \A i \in 1..m : f[i] = Put(f[i-1], ms[i])
    BY <2>1 DEF IsPut
  <2> HIDE DEF e
  <2>3. DOMAIN g = 0..m+1 /\ g[0] = NoAttrs
    BY <2>2
  <2>4. ASSUME NEW i \in 1..m+1 PROVE g[i] = Put(g[i-1], ms[i])
    <3>1. i - 1 \in 0..m /\ g[i-1] = f[i-1]
      OBVIOUS
    <3>2. CASE i <= m
      <4>1. g[i] = f[i] /\ f[i] = Put(f[i-1], ms[i])
        BY <2>2, <3>2
      <4> QED
        BY <3>1, <4>1, Zenon
    <3>3. CASE i = m + 1
      <4>1. i - 1 = m /\ ~(i <= m)
        BY <3>3
      <4>2. g[i] = e
        BY <4>1
      <4> QED
        BY <3>1, <3>3, <4>1, <4>2, Zenon DEF e
    <3> QED
      BY <3>2, <3>3
  <2>5. IsPut(ms, g, m + 1)
    BY <2>3, <2>4, Zenon DEF IsPut
  <2> HIDE DEF g
  <2> QED
    BY <2>5
<1> HIDE DEF S
<1>3. \A m \in Nat : m \in S
  BY <1>1, <1>2, NatSetInduction
<1> QED
  BY <1>3 DEF S

(* One more attribute at its place.                                        *)
LEMMA PutTyped ==
    ASSUME NEW attrs \in [Places -> Seq(Metas)], NEW m \in Places \X Metas
    PROVE  Put(attrs, m) \in [Places -> Seq(Metas)]
<1>1. m[1] \in Places /\ m[2] \in Metas
  OBVIOUS
<1>2. Append(attrs[m[1]], m[2]) \in Seq(Metas)
  BY <1>1, AppendProperties
<1> QED
  BY <1>1, <1>2 DEF Put

(* The attributes of a declaration, at every place a sequence of them.     *)
LEMMA DeclarationTyped ==
    ASSUME NEW kind, NEW home, NEW ms \in Seq(Places \X Metas), NEW derives, NEW traits
    PROVE  LET d == Declaration(kind, home, ms, derives, traits)
           IN  /\ d.kind = kind /\ d.home = home /\ d.derives = derives
               /\ d.attrs \in [Places -> Seq(Metas)]
<1> DEFINE n == Len(ms)
           h == CHOOSE f : IsAttrs(ms, f)
           d == Declaration(kind, home, ms, derives, traits)
<1>1. n \in Nat /\ \A i \in 1..n : ms[i] \in Places \X Metas
  OBVIOUS
<1>2. PICK f : IsPut(ms, f, n)
  BY <1>1, PutExists
<1> DEFINE g == [i \in 0..n |-> f[i]]
           e == [i \in 0..n |-> IF i = 0 THEN NoAttrs ELSE Put(g[i - 1], ms[i])]
<1>3. \A i \in 0..n : g[i] = e[i]
  <2> TAKE i \in 0..n
  <2>1. CASE i = 0
    BY <1>2, <2>1 DEF IsPut
  <2>2. CASE i # 0
    <3>1. i \in 1..n /\ i - 1 \in 0..n
      BY <1>1, <2>2
    <3>2. f[i] = Put(f[i - 1], ms[i])
      BY <1>2, <3>1 DEF IsPut
    <3>3. g[i] = f[i] /\ g[i - 1] = f[i - 1]
      BY <3>1
    <3>4. e[i] = Put(g[i - 1], ms[i])
      BY <2>2
    <3> HIDE DEF g, e
    <3> QED
      BY <3>2, <3>3, <3>4, Zenon
  <2> QED
    BY <2>1, <2>2
<1>4. g = e
  <2>1. g = [i \in 0..n |-> g[i]] /\ e = [i \in 0..n |-> e[i]]
    OBVIOUS
  <2> HIDE DEF g, e
  <2> QED
    BY <1>3, <2>1
<1>5. IsAttrs(ms, g)
  BY <1>4 DEF IsAttrs
<1> HIDE DEF g
<1>6. IsAttrs(ms, h)
  BY <1>5, Zenon
<1>7. d = [kind |-> kind, home |-> home, derives |-> derives, traits |-> traits, attrs |-> h[n]]
  BY Zenon DEF Declaration, IsAttrs, Put, NoAttrs
<1> HIDE DEF h, d
<1> DEFINE A == [Places -> Seq(Metas)]
           S == {k \in Nat : k <= n => h[k] \in A}
<1>8. 0 \in S
  <2>1. h[0] = NoAttrs
    BY <1>1, <1>6 DEF IsAttrs
  <2>2. NoAttrs \in A
    BY DEF NoAttrs
  <2> QED
    BY <2>1, <2>2
<1>9. ASSUME NEW k \in Nat, k \in S PROVE k + 1 \in S
  <2> SUFFICES ASSUME k + 1 <= n PROVE h[k + 1] \in A
    OBVIOUS
  <2>1. k + 1 \in 0..n /\ k + 1 \in 1..n /\ (k + 1) - 1 = k /\ k + 1 # 0 /\ h[k] \in A
    BY <1>1, <1>9
  <2>2. h[k + 1] = Put(h[k], ms[k + 1])
    BY <1>6, <2>1 DEF IsAttrs
  <2>3. ms[k + 1] \in Places \X Metas
    BY <1>1, <2>1
  <2> QED
    BY <2>1, <2>2, <2>3, PutTyped
<1> HIDE DEF S
<1>10. \A k \in Nat : k \in S
  BY <1>8, <1>9, NatSetInduction
<1>11. h[n] \in A
  BY <1>1, <1>10 DEF S
<1> QED
  BY <1>7, <1>11 DEF d

(* A declaration that compiles is accepted, and one that panics is not.    *)
DeclInv ==
    item # "none" => DeclOK(decl) /\ (item = "panicked" <=> MacroPanics(decl))

(* What is compiled is a declaration.                                      *)
LEMMA DerivedIsDecl ==
    ASSUME NEW kind \in {"struct", "enum"}, NEW home \in [Names -> Variants],
           NEW ms \in SeqOf(Places \X Metas, MaxMetas),
           NEW derives \in (SUBSET {"Zeroize", "ZeroizeOnDrop"}) \ {{}}, NEW traits,
           Derive(Declaration(kind, home, ms, derives, traits))
    PROVE  DeclInv'
<1> DEFINE d == Declaration(kind, home, ms, derives, traits)
           T == Places \X Metas
<1>1. ms \in Seq(T)
  <2>1. PICK k \in 0..MaxMetas : ms \in [1..k -> T]
    BY DEF SeqOf
  <2>2. k \in Nat
    BY DeriveAssumption
  <2> QED
    BY <2>1, <2>2, FunctionIsSeq
<1>2. /\ d.kind = kind /\ d.home = home /\ d.derives = derives
      /\ d.attrs \in [Places -> Seq(Metas)]
  BY <1>1, DeclarationTyped
<1> HIDE DEF d
<1>3. /\ d.kind = "struct" => \A n \in Names : d.home[n] = "v1"
      /\ d.kind = "struct" => \A v \in Variants : d.attrs[v] = <<>>
      /\ decl' = d
      /\ item' = (IF MacroPanics(d) THEN "panicked"
                  ELSE IF ~Compiles(d) THEN "rejected" ELSE "compiled")
  BY DEF Derive, d
<1>4. DeclOK(d)
  BY <1>2, <1>3 DEF DeclOK
<1>5. item' = "panicked" <=> MacroPanics(d)
  <2>1. "panicked" # "rejected" /\ "panicked" # "compiled"
    OBVIOUS
  <2> HIDE DEF T
  <2> QED
    BY <1>3, <2>1, Zenon
<1> QED
  BY <1>3, <1>4, <1>5, Zenon DEF DeclInv

(* Every step keeps the declaration as it was compiled.                    *)
LEMMA DeclNextInv ==
    ASSUME DeclInv, DeriveNext
    PROVE  DeclInv'
<1>1. CASE item' = "none"
  BY <1>1 DEF DeclInv
<1>2. CASE /\ item \notin {"none", "panicked"} /\ item' \notin {"none", "panicked"}
           /\ decl' = decl
  <2>1. DeclOK(decl) /\ ~MacroPanics(decl)
    BY <1>2 DEF DeclInv
  <2> QED
    BY <1>2, <2>1, Zenon DEF DeclInv
<1>3. CASE \E kind \in {"struct", "enum"}, home \in [Names -> Variants],
              ms \in SeqOf(Places \X Metas, MaxMetas),
              derives \in (SUBSET {"Zeroize", "ZeroizeOnDrop"}) \ {{}},
              traits \in [Names -> Traits] :
              Derive(Declaration(kind, home, ms, derives, traits))
  BY <1>3, DerivedIsDecl, Zenon
<1> DEFINE Kept == /\ item \notin {"none", "panicked"} /\ item' \notin {"none", "panicked"}
                   /\ decl' = decl
<1>4. item = "none" /\ Next /\ UNCHANGED itemVars => item' = "none"
  BY DEF itemVars
<1>5. \A v, kinds, owning : Construct(v, kinds, owning) => Kept
  BY DEF Construct
<1>6. \A n \in Names : UseField(n) => Kept
  BY DEF UseField
<1>7. ItemZeroize => Kept
  BY DEF ItemZeroize
<1>8. ItemDrop \/ Withdraw => item' = "none"
  BY DEF ItemDrop, Withdraw
<1> HIDE DEF Kept
<1> QED
  BY <1>1, <1>2, <1>3, <1>4, <1>5, <1>6, <1>7, <1>8, Zenon DEF DeriveNext, Kept

(* The Drop of #[zeroize(drop)] frees no secret of a field that no         *)
(* attribute skips.                                                        *)
LEMMA ZeroizeDropGlue ==
    ASSUME ValuesOK, code = Generated(decl), DeclOK(decl), ~Derives(decl, "ZeroizeOnDrop"),
           NEW n \in LiveFields, SaysErased(decl, n)
    PROVE  ~DropGlue(n).exposes
<1> DEFINE body == DropBody(n)
           own == IF decl.traits[n] = "zeroize" THEN Result(body.val, FALSE)
                  ELSE Zeroized(body.val)
<1>1. n \in Names /\ vals[n].kind # "dead" /\ Shape(vals[n])
  BY DEF LiveFields, IsDead, ValuesOK
<1>2. code.drop = "zeroize" /\ n \in code.zeroize
  <2>1. Derives(decl, "Zeroize")
    BY DEF DeclOK, Derives
  <2>2. derive_zeroize(decl).drop
    BY ParseAllowed DEF SaysErased, derive_zeroize
  <2>3. Generated(decl).drop = "zeroize"
    BY <2>2 DEF Generated
  <2>4. n \in Generated(decl).zeroize
    BY <1>1, <2>1, CalledFields DEF SaysErased
  <2> QED
    BY <2>3, <2>4
<1>3. body = Zeroized(vals[n])
  BY <1>2 DEF DropBody
<1>4. /\ ~body.exposes /\ Shape(body.val) /\ body.val.kind # "dead"
      /\ ~FreeExposes(body.val.cells)
  BY <1>1, <1>3, ZeroizedErases DEF Erases
<1>5. DropGlue(n) = Result(own.val, body.exposes \/ own.exposes \/ FreeExposes(own.val.cells))
  BY Zenon DEF DropGlue
<1> HIDE DEF body
<1>6. ~own.exposes /\ ~FreeExposes(own.val.cells)
  <2>1. CASE decl.traits[n] = "zeroize"
    <3>1. own = Result(body.val, FALSE)
      BY <2>1
    <3> HIDE DEF own
    <3>2. own.val = body.val /\ own.exposes = FALSE
      BY <3>1, ResultFields
    <3> QED
      BY <1>4, <3>2
  <2>2. CASE decl.traits[n] # "zeroize"
    <3>1. own = Zeroized(body.val)
      BY <2>2
    <3> HIDE DEF own
    <3> QED
      BY <1>4, <3>1, ZeroizedErases DEF Erases
  <2> QED
    BY <2>1, <2>2
<1> HIDE DEF own
<1>7. (body.exposes \/ own.exposes \/ FreeExposes(own.val.cells)) = FALSE
  BY <1>4, <1>6
<1>8. DropGlue(n) = Result(own.val, FALSE)
  BY <1>5, <1>7, Zenon
<1> QED
  BY <1>8, ResultFields

(* No step exposes a secret.                                               *)
LEMMA NothingExposed ==
    ASSUME DeriveOK, DeclInv, ~exposed, DeriveNext
    PROVE  ~exposed'
<1>1. CASE exposed' = exposed
  BY <1>1
<1>2. CASE ItemDrop /\ ~Derives(decl, "ZeroizeOnDrop")
  <2>1. /\ item \in {"alive", "zeroized"}
        /\ exposed' = (exposed \/ \E n \in LiveFields :
                                     SaysErased(decl, n) /\ DropGlue(n).exposes)
    BY <1>2 DEF ItemDrop
  <2>2. ValuesOK /\ code = Generated(decl)
    BY <2>1 DEF DeriveOK
  <2>3. DeclOK(decl)
    BY <2>1 DEF DeclInv
  <2>4. \A n \in LiveFields : SaysErased(decl, n) => ~DropGlue(n).exposes
    BY <1>2, <2>2, <2>3, ZeroizeDropGlue
  <2> QED
    BY <2>1, <2>4, Zenon
<1> QED
  BY <1>1, <1>2, OnDropErases

(* The invariants of declarations and values.                              *)
LEMMA DeclInvariant ==
    /\ DeriveInit => DeclInv /\ ~exposed
    /\ DeriveOK /\ DeclInv /\ ~exposed /\ [DeriveNext]_deriveVars => DeclInv' /\ ~exposed'
<1>1. DeriveInit => DeclInv /\ ~exposed
  BY DEF DeriveInit, DeclInv, Init
<1>2. DeclInv /\ ~exposed /\ UNCHANGED deriveVars => DeclInv' /\ ~exposed'
  BY DEF DeclInv, deriveVars, vars, itemVars
<1> QED
  BY <1>1, <1>2, DeclNextInv, NothingExposed

(* For every declaration, with any number of fields and attributes at any  *)
(* places and in any order: derive(Zeroize) panics exactly if its          *)
(* documentation does not allow the declaration; derive(ZeroizeOnDrop)     *)
(* alone panics about skip twice on the way to a field, and not about      *)
(* declarations its documentation allows.                                  *)
THEOREM DeriveAttributesChecked == DeriveSpec => []AttributesChecked
<1>1. DeclInv => AttributesChecked
  <2> SUFFICES ASSUME DeclInv, item # "none" PROVE AttributesChecked
    BY DEF AttributesChecked
  <2>1. item = "panicked" <=>
            ~(SkippedOnce(decl) /\ (Derives(decl, "Zeroize") => Allowed(decl)))
    BY PanicMeans, Zenon DEF DeclInv
  <2>2. CASE Derives(decl, "Zeroize")
    BY <2>1, <2>2, Zenon DEF AttributesChecked
  <2>3. CASE ~Derives(decl, "Zeroize")
    BY <2>1, <2>3, Zenon DEF AttributesChecked
  <2> QED
    BY <2>2, <2>3
<1> QED
  BY <1>1, DeriveInvariant, DeclInvariant, PTL DEF DeriveSpec

(* For every declaration that derives ZeroizeOnDrop, or Zeroize with       *)
(* #[zeroize(drop)]: dropping a value leaves no secret of a field that is  *)
(* not skipped.  Nor does any step of the fields' own types.               *)
THEOREM DerivedNoSecretSurvives == DeriveSpec => []SecretsErased
<1>1. DeriveOK /\ ~exposed => SecretsErased
  BY DEF DeriveOK, ValuesOK, SecretsErased, Wiped
<1> QED
  BY <1>1, DeriveInvariant, DeclInvariant, PTL DEF DeriveSpec
=============================================================================
