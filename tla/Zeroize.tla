------------------------------ MODULE Zeroize -------------------------------
(***************************************************************************)
(* zeroize: the Zeroize implementations of the containers, and Zeroizing,  *)
(* which calls them when a value is dropped or overwritten.                *)
(*                                                                         *)
(* A value is the memory cells it owns, of which the first ones may be     *)
(* live elements.  Freed memory keeps its contents: `exposed` records that *)
(* memory was freed with a secret in it by a step that had to erase it.    *)
(* That the compiler keeps the volatile writes is not modelled.            *)
(***************************************************************************)
EXTENDS Integers, Sequences

CONSTANTS
    Names,      \* the caller's variables of type Zeroizing<Z>
    MaxCells    \* bound: cells of a value

ASSUME ZeroizeAssumption == MaxCells \in Nat \ {0}

VARIABLES
    vals,       \* the values
    erased,     \* history: the variables zeroized since their last write
    exposed     \* history: see above

vars == <<vals, erased, exposed>>

-----------------------------------------------------------------------------
(* array stands for [Z; N] and for tuples, vec for Vec<Z> and String.      *)
Kinds == {"array", "box", "vec", "cstring", "opt_array", "opt_vec"}

(* Elements are plain data, or own heap memory of their own (Z = Vec<u8>). *)
(* A cell of plain data is blank or secret; one of an owning element is an *)
(* owner of a secret, an owner whose memory is emptied, or no element.     *)
Secret(owning) == IF owning THEN "owner" ELSE "secret"
Harmless(c) == c \in {"blank", "emptied"}

Dead == [kind |-> "dead", owning |-> FALSE, some |-> FALSE, cells |-> <<>>, len |-> 0]
Blank(n) == [i \in 1..n |-> "blank"]

(* How many elements are live: up to len in a Vec, all of an array or box. *)
Live(x) ==
    IF ~x.some THEN 0
    ELSE IF x.kind \in {"vec", "opt_vec"} THEN x.len ELSE Len(x.cells)

(* Memory freed, and elements dropped, while they hold a secret.           *)
FreeExposes(cells) == \E i \in DOMAIN cells : ~Harmless(cells[i])
DropExposes(cells, n) == \E i \in 1..n : cells[i] = "owner"

-----------------------------------------------------------------------------
(* Z::zeroize of one element: a container's own, or one volatile write of  *)
(* a fixed value, which is 0, and 1 for the NonZero types.                 *)
ZeroElem(c) ==
    CASE c = "secret" -> "blank"
      [] c = "owner"  -> "emptied"
      [] OTHER        -> c

(* IterMut::zeroize of the first n cells.                                  *)
IterZeroize(cells, n) ==
    [i \in DOMAIN cells |-> IF i <= n THEN ZeroElem(cells[i]) ELSE cells[i]]

Result(x, exposes) == [val |-> x, exposes |-> exposes]

ArrayZeroize(x) == Result([x EXCEPT !.cells = IterZeroize(@, Len(@))], FALSE)

(* Vec: zeroize the elements, clear (which drops them), set the capacity.  *)
VecZeroizeLive(x) ==    \* a bug: only the elements, not the whole capacity
    LET cells == IterZeroize(x.cells, x.len)
        cleared == [i \in DOMAIN cells |-> IF cells[i] = "emptied" THEN "blank" ELSE cells[i]]
    IN  Result([x EXCEPT !.cells = cleared, !.len = 0], DropExposes(cells, x.len))
VecZeroizeUncleared(x) ==    \* a bug: the Vec is not cleared before
    Result([x EXCEPT !.cells = Blank(Len(@))], FALSE)
VecZeroize(x) ==
    LET cells == IterZeroize(x.cells, x.len)
    IN  Result([x EXCEPT !.cells = Blank(Len(@)), !.len = 0], DropExposes(cells, x.len))

(* CString: taken out, its bytes zeroized as a Vec with the nul removed,   *)
(* and a new string made of it, whose buffer shrinks to the nul.           *)
CStringZeroize(x) ==
    LET buf == VecZeroize([x EXCEPT !.kind = "vec", !.len = Len(x.cells) - 1])
    IN  Result([x EXCEPT !.cells = Blank(1)], buf.exposes \/ FreeExposes(buf.val.cells))

(* Option: zeroize the value, take it (which drops it), set all its bytes, *)
(* write None.                                                             *)
OptionZeroize(x) ==
    LET inner == IF x.kind = "opt_vec" THEN VecZeroize(x) ELSE ArrayZeroize(x)
        left == inner.val.cells
        take == IF x.kind = "opt_vec" THEN FreeExposes(left) ELSE DropExposes(left, Len(left))
        cells == IF x.kind = "opt_vec" THEN <<>> ELSE Blank(Len(x.cells))
    IN  Result([x EXCEPT !.some = FALSE, !.cells = cells, !.len = 0],
               x.some /\ (inner.exposes \/ take))

Zeroized(x) ==
    CASE x.kind \in {"array", "box"}         -> ArrayZeroize(x)
      [] x.kind = "vec"                      -> VecZeroize(x)
      [] x.kind = "cstring"                  -> CStringZeroize(x)
      [] x.kind \in {"opt_array", "opt_vec"} -> OptionZeroize(x)

-----------------------------------------------------------------------------
Init ==
    /\ vals = [n \in Names |-> Dead]
    /\ erased = {} /\ exposed = FALSE

IsDead(n) == vals[n].kind = "dead"
Write(n, x) == vals' = [vals EXCEPT ![n] = x] /\ erased' = erased \ {n}

(* Zeroizing::new, From: k secret elements; a CString ends with its nul.   *)
Filled(kind, owning, k) ==
    [kind |-> kind, owning |-> owning, some |-> TRUE, len |-> k,
     cells |-> [i \in 1..k |-> IF kind = "cstring" /\ i = k THEN "blank" ELSE Secret(owning)]]
New(n, kind, owning, k) ==
    /\ IsDead(n)
    /\ kind = "cstring" => ~owning /\ k >= 1
    /\ Write(n, Filled(kind, owning, k))
    /\ UNCHANGED exposed

(* Through DerefMut the caller uses the value as its type allows.  Growing *)
(* a Vec may move it, which leaves its old memory behind as it was; the    *)
(* documentation says that zeroize cannot help it.                         *)
Push(n) ==
    LET x == vals[n]
        grown == IF x.len < Len(x.cells) THEN x.cells
                 ELSE SubSeq(x.cells, 1, x.len) \o Blank(IF x.len = 0 THEN 1 ELSE x.len)
    IN  /\ x.kind \in {"vec", "opt_vec"} /\ x.some
        /\ Len(grown) <= MaxCells
        /\ Write(n, [x EXCEPT !.cells = [grown EXCEPT ![x.len + 1] = Secret(x.owning)],
                              !.len = @ + 1])
        /\ UNCHANGED exposed

(* Vec::pop: plain data stays in the memory behind the length; an owning   *)
(* element is the caller's now.                                            *)
Pop(n) ==
    LET x == vals[n]
    IN  /\ x.kind \in {"vec", "opt_vec"} /\ x.some /\ x.len > 0
        /\ Write(n, [x EXCEPT !.len = @ - 1,
                              !.cells[x.len] = IF x.owning THEN "blank" ELSE @])
        /\ UNCHANGED exposed

(* Option::take by the caller, who gets the value; what the option held    *)
(* inline stays in its memory.                                             *)
Take(n) ==
    LET x == vals[n]
    IN  /\ x.kind \in {"opt_array", "opt_vec"} /\ x.some
        /\ Write(n, [x EXCEPT !.some = FALSE, !.len = 0,
                              !.cells = IF x.kind = "opt_vec" THEN <<>>
                                        ELSE IF x.owning THEN Blank(Len(@)) ELSE @])
        /\ UNCHANGED exposed

(* New elements in place of the old ones, or in an option that has none.   *)
Refill(n) ==
    LET x == vals[n]
    IN  /\ x.kind \in {"array", "box"} \/ (x.kind = "opt_array" /\ ~x.some)
        /\ Write(n, [x EXCEPT !.cells = [i \in DOMAIN @ |-> Secret(x.owning)],
                              !.some = TRUE])
        /\ UNCHANGED exposed

ZeroizeCall(n) ==
    LET z == Zeroized(vals[n])
    IN  /\ ~IsDead(n)
        /\ vals' = [vals EXCEPT ![n] = z.val]
        /\ erased' = erased \cup {n}
        /\ exposed' = (exposed \/ z.exposes)

(* Zeroizing::drop, and the drop of the value behind it.                   *)
Drop(n) ==
    LET z == Zeroized(vals[n])
    IN  /\ ~IsDead(n)
        /\ Write(n, Dead)
        /\ exposed' = (exposed \/ z.exposes \/ FreeExposes(z.val.cells))

(* Z::clone: as many cells as there are live elements.                     *)
Cloned(x) ==
    [x EXCEPT !.cells = IF x.some THEN SubSeq(@, 1, Live(x))
                        ELSE IF x.kind = "opt_array" THEN Blank(Len(@)) ELSE <<>>]
Clone(n, m) ==
    /\ IsDead(n) /\ ~IsDead(m)
    /\ Write(n, Cloned(vals[m]))
    /\ UNCHANGED exposed

(* Zeroizing::clone_from: zeroize, then Z::clone_from, which for a Vec     *)
(* with room keeps the buffer, and otherwise frees what was there.         *)
CloneFrom(n, m) ==
    LET z == Zeroized(vals[n])
        x == Cloned(vals[m])
        room == Len(z.val.cells) - Len(x.cells)
    IN  /\ ~IsDead(n) /\ ~IsDead(m) /\ n # m
        /\ vals[n].kind = vals[m].kind /\ vals[n].owning = vals[m].owning
        /\ vals[n].kind \in {"array", "opt_array"} => Len(vals[n].cells) = Len(vals[m].cells)
        /\ IF vals[n].kind = "vec" /\ room >= 0
           THEN /\ Write(n, [x EXCEPT !.cells = @ \o SubSeq(z.val.cells, Len(@) + 1, Len(@) + room)])
                /\ exposed' = (exposed \/ z.exposes)
           ELSE /\ Write(n, x)
                /\ exposed' = (exposed \/ z.exposes \/ FreeExposes(z.val.cells))

Next ==
    \E n \in Names :
        \/ \E kind \in Kinds, owning \in BOOLEAN, k \in 0..MaxCells : New(n, kind, owning, k)
        \/ Push(n)
        \/ Pop(n)
        \/ Take(n)
        \/ Refill(n)
        \/ ZeroizeCall(n)
        \/ Drop(n)
        \/ \E m \in Names : Clone(n, m) \/ CloneFrom(n, m)

Spec == Init /\ [][Next]_vars

-----------------------------------------------------------------------------
(* Live elements of an owning type are never overwritten under the owner's *)
(* feet: bytes are set only where no element lives.                        *)
TypeOK ==
    /\ exposed \in BOOLEAN /\ erased \subseteq Names
    /\ \A n \in Names :
          LET x == vals[n]
          IN  /\ x.kind \in Kinds \cup {"dead"}
              /\ Live(x) <= Len(x.cells) /\ Len(x.cells) <= MaxCells
              /\ \A i \in 1..Len(x.cells) :
                    x.cells[i] \in {"owner", "emptied"} <=> x.owning /\ i <= Live(x)

(* Zeroizing a value erases all the memory it owns, also behind a Vec's    *)
(* length and in an option whose value was taken; and no memory is given   *)
(* back by a zeroize, a drop or a clone_from with a secret in it.          *)
SecretsErased ==
    /\ ~exposed
    /\ \A n \in erased :
          /\ \A i \in DOMAIN vals[n].cells : Harmless(vals[n].cells[i])
          /\ vals[n].kind \in {"vec", "opt_vec", "opt_array"} => Live(vals[n]) = 0
=============================================================================
