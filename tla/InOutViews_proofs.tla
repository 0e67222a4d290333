------------------------- MODULE InOutViews_proofs -------------------------
(***************************************************************************)
(* The views of inout are disjoint, lose nothing and process every byte    *)
(* once, for every buffer length, array length and number of views.        *)
(***************************************************************************)
EXTENDS InOutViews, ByteArrays_proofs

(* What the constructors and the calls that cut a view keep of each view:   *)
(* both pointers stand for the same place of the message, and the view     *)
(* ends inside the buffers.  n is the buffers' length, base where the      *)
(* output starts.                                                          *)
ViewOK(v, n, base) ==
    /\ v \in [kind : {"buf", "one", "iter"}, at : Nat, in_ptr : Nat, out_ptr : Nat,
              size : Nat \ {0}, len : Nat, pos : Nat]
    /\ v.pos <= v.len
    /\ v.kind = "buf" => v.pos = 0
    /\ v.kind = "one" => v.pos = 0 /\ v.len = 1
    /\ v.in_ptr = v.at
    /\ v.out_ptr = base + v.at
    /\ v.at + v.size * v.len <= n

TypeInv ==
    /\ len \in 0..MaxLen
    /\ in_place \in BOOLEAN
    /\ mem = [a \in 0..2*MaxLen-1 |-> mem[a]]
    /\ done \subseteq 0..len-1 /\ lost \subseteq 0..len-1
    /\ result \in {"ok", "err", "panic"}
ViewsOK == \A v \in views : ViewOK(v, len, OutBase)
OffsetsDisjoint == \A v, w \in views : v # w => Offsets(v) \cap Offsets(w) = {}

(* The inductive invariant.  ViewsDisjoint speaks of memory cells, and is  *)
(* not inductive without knowing which place of the message they hold.     *)
IInv == TypeInv /\ ViewsOK /\ OffsetsDisjoint /\ EveryByteXored /\ NothingLeftOut

-----------------------------------------------------------------------------
(* Where a view lies.                                                      *)

(* Products of element size and element count.                             *)
LEMMA Products ==
    ASSUME NEW s \in Nat, NEW a \in Nat, NEW b \in Nat, a <= b
    PROVE  /\ s * a \in Nat /\ s * b \in Nat
           /\ s * a <= s * b
           /\ s * (b - a) = s * b - s * a
           /\ s * (a + 1) = s * a + s
<1>1. PICK d \in Nat : b = a + d
  BY b - a \in Nat
<1>2. s * (a + d) = s * a + s * d /\ s * a \in Nat /\ s * d \in Nat
  OBVIOUS
<1>3. s * (b - a) = s * d
  BY <1>1
<1> QED
  BY <1>1, <1>2, <1>3

(* The interval i..j-1, moved by a.                                        *)
Moved(a, i, j) == {a + k : k \in i..j-1}

(* It is again an interval.                                                *)
LEMMA MovedInterval ==
    ASSUME NEW a \in Int, NEW i \in Int, NEW j \in Int
    PROVE  Moved(a, i, j) = a+i..a+j-1
<1>1. ASSUME NEW x \in a+i..a+j-1 PROVE x \in Moved(a, i, j)
  <2>1. x - a \in i..j-1 /\ x = a + (x - a)
    OBVIOUS
  <2> QED
    BY <2>1 DEF Moved
<1> QED
  BY <1>1 DEF Moved

(* The first offset a view gives access to, and the one behind its last.   *)
Lo(v) == v.at + v.size * v.pos
Hi(v) == v.at + v.size * v.len

(* The cells and offsets of a view are intervals inside the buffers.       *)
LEMMA Cells ==
    ASSUME NEW n \in Nat, NEW base \in Nat, NEW v, ViewOK(v, n, base)
    PROVE  /\ Lo(v) \in Nat /\ Hi(v) \in Nat
           /\ v.at <= Lo(v) /\ Lo(v) <= Hi(v) /\ Hi(v) <= n
           /\ Offsets(v) = Lo(v)..Hi(v)-1
           /\ InCells(v) = Lo(v)..Hi(v)-1
           /\ OutCells(v) = base+Lo(v)..base+Hi(v)-1
<1>1. /\ v.at \in Nat /\ v.size \in Nat /\ v.pos \in Nat /\ v.len \in Nat
      /\ v.pos <= v.len
  BY DEF ViewOK
<1>2. v.in_ptr = v.at /\ v.out_ptr = base + v.at /\ Hi(v) <= n
  BY DEF ViewOK, Hi
<1>3. v.size * v.pos \in Nat /\ v.size * v.len \in Nat /\ v.size * v.pos <= v.size * v.len
  BY <1>1, Products
<1>4. PICK at \in Nat, p \in Nat, q \in Nat :
          at = v.at /\ p = v.size * v.pos /\ q = v.size * v.len /\ p <= q
  BY <1>1, <1>3
<1>5. Lo(v) = at + p /\ Hi(v) = at + q /\ Extent(v) = p..q-1
  BY <1>4 DEF Lo, Hi, Extent
<1>6. Offsets(v) = Moved(at, p, q) /\ InCells(v) = Moved(at, p, q)
  BY <1>2, <1>4, <1>5 DEF Offsets, InCells, Moved
<1>7. PICK o \in Nat : o = base + at
  OBVIOUS
<1>8. OutCells(v) = Moved(o, p, q)
  BY <1>2, <1>4, <1>5, <1>7 DEF OutCells, Moved
<1>9. Moved(at, p, q) = at+p..at+q-1 /\ Moved(o, p, q) = o+p..o+q-1
  <2>1. at \in Int /\ p \in Int /\ q \in Int /\ o \in Int
    OBVIOUS
  <2> QED
    BY <2>1, MovedInterval, Zenon
<1>10. o + p = base + (at + p) /\ o + q - 1 = base + (at + q) - 1
  BY <1>7
<1>11. OutCells(v) = base+Lo(v)..base+Hi(v)-1
  BY <1>5, <1>8, <1>9, <1>10, Zenon
<1>12. Offsets(v) = Lo(v)..Hi(v)-1
  <2>1. Offsets(v) = at+p..at+q-1
    BY <1>6, <1>9, Zenon
  <2> QED
    BY <1>5, <2>1, SMT
<1>13. InCells(v) = Offsets(v)
  BY <1>6
<1>14. at + p \in Nat /\ at + q \in Nat /\ at <= at + p /\ at + p <= at + q
  BY <1>4
<1> QED
  BY <1>2, <1>4, <1>5, <1>11, <1>12, <1>13, <1>14

(* A view that was just made: of whole elements, none given away yet.      *)
Whole(kind, at, base, size, k) == View(kind, at, at, base + at, size, k, 0)

(* The offsets from a up to b, excluded.                                   *)
Span(a, b) == a..b-1

(* Such a view is in order, and its offsets are those of its elements.     *)
LEMMA WholeOK ==
    ASSUME NEW n \in Nat, NEW base \in Nat,
           NEW kind \in {"buf", "one"}, NEW at \in Nat,
           NEW size \in Nat \ {0}, NEW k \in Nat, kind = "one" => k = 1,
           NEW e \in Nat, e = at + size * k, e <= n
    PROVE  /\ ViewOK(Whole(kind, at, base, size, k), n, base)
           /\ Offsets(Whole(kind, at, base, size, k)) = Span(at, e)
<1> DEFINE v == Whole(kind, at, base, size, k)
<1>1. /\ v.kind = kind /\ v.at = at /\ v.in_ptr = at /\ v.out_ptr = base + at
      /\ v.size = size /\ v.len = k /\ v.pos = 0
      /\ v \in [kind : {"buf", "one", "iter"}, at : Nat, in_ptr : Nat, out_ptr : Nat,
                size : Nat \ {0}, len : Nat, pos : Nat]
  BY DEF View, Whole
<1> HIDE DEF v
<1>2. ViewOK(v, n, base)
  BY <1>1 DEF ViewOK
<1>3. Lo(v) = at /\ Hi(v) = e
  BY <1>1 DEF Lo, Hi
<1>4. Offsets(v) = Lo(v)..Hi(v)-1
  BY <1>2, Cells
<1> QED
  BY <1>2, <1>3, <1>4 DEF v, Span

-----------------------------------------------------------------------------
(* Steps that only exchange views.                                         *)

(* A step that leaves buffers and history alone and whose views cut up     *)
(* those there were.                                                       *)
LEMMA BecomeInv ==
    ASSUME IInv, NEW v \in views, NEW new, Become(v, new),
           \A w \in new : ViewOK(w, len, OutBase) /\ Offsets(w) \subseteq Offsets(v),
           \A w, x \in new : w # x => Offsets(w) \cap Offsets(x) = {},
           Offsets(v) \subseteq UNION {Offsets(w) : w \in new}
    PROVE  IInv'
<1>1. /\ views' = (views \ {v}) \cup new /\ result' = "ok"
      /\ len' = len /\ in_place' = in_place /\ mem' = mem /\ done' = done /\ lost' = lost
      /\ OutBase' = OutBase
  BY DEF Become, OutBase
<1>2. TypeInv'
  BY <1>1 DEF IInv, TypeInv
<1>3. ViewsOK'
  BY <1>1 DEF IInv, ViewsOK
<1>4. OffsetsDisjoint'
  <2> SUFFICES ASSUME NEW w \in views', NEW x \in views', w # x
               PROVE  Offsets(w) \cap Offsets(x) = {}
    BY DEF OffsetsDisjoint
  <2>1. \A y \in views \ {v} : Offsets(y) \cap Offsets(v) = {}
    BY DEF IInv, OffsetsDisjoint
  <2>2. CASE w \in new /\ x \in new
    BY <2>2
  <2>3. CASE w \in new /\ x \in views \ {v}
    BY <2>1, <2>3
  <2>4. CASE w \in views \ {v} /\ x \in new
    BY <2>1, <2>4
  <2>5. CASE w \in views \ {v} /\ x \in views \ {v}
    BY <2>5 DEF IInv, OffsetsDisjoint
  <2> QED
    BY <1>1, <2>2, <2>3, <2>4, <2>5
<1>5. EveryByteXored'
  BY <1>1 DEF IInv, EveryByteXored
<1>6. NothingLeftOut'
  <2> SUFFICES ASSUME NEW o \in 0..len-1, o \notin done, o \notin lost
               PROVE  \E w \in views' : o \in Offsets(w)
    BY <1>1 DEF NothingLeftOut
  <2>1. PICK w \in views : o \in Offsets(w)
    BY DEF IInv, NothingLeftOut
  <2>2. CASE w = v
    BY <1>1, <2>1, <2>2
  <2> QED
    BY <1>1, <2>1, <2>2
<1> QED
  BY <1>2, <1>3, <1>4, <1>5, <1>6 DEF IInv

(* A view that ends: dropped, or consumed by a call that failed.           *)
LEMMA LoseInv ==
    ASSUME IInv, NEW v \in views, NEW how \in {"ok", "err", "panic"}, Lose(v, how)
    PROVE  IInv'
<1>1. /\ views' = views \ {v} /\ lost' = lost \cup (Offsets(v) \ done) /\ result' = how
      /\ len' = len /\ in_place' = in_place /\ mem' = mem /\ done' = done
      /\ OutBase' = OutBase
  BY DEF Lose, OutBase
<1>2. TypeInv'
  <2>1. Offsets(v) \subseteq 0..len-1
    <3>1. len \in Nat /\ OutBase \in Nat /\ ViewOK(v, len, OutBase)
      BY DEF IInv, TypeInv, ViewsOK, OutBase
    <3>2. /\ Offsets(v) = Lo(v)..Hi(v)-1
          /\ Lo(v) \in Nat /\ Hi(v) \in Nat /\ Hi(v) <= len
      BY <3>1, Cells
    <3> QED
      BY <3>1, <3>2
  <2> QED
    BY <1>1, <2>1 DEF IInv, TypeInv
<1>3. ViewsOK' /\ OffsetsDisjoint'
  BY <1>1 DEF IInv, ViewsOK, OffsetsDisjoint
<1>4. EveryByteXored'
  BY <1>1 DEF IInv, EveryByteXored
<1>5. NothingLeftOut'
  <2> SUFFICES ASSUME NEW o \in 0..len-1, o \notin done, o \notin lost'
               PROVE  \E w \in views' : o \in Offsets(w)
    BY <1>1 DEF NothingLeftOut
  <2>1. PICK w \in views : o \in Offsets(w)
    BY <1>1 DEF IInv, NothingLeftOut
  <2> QED
    BY <1>1, <2>1
<1> QED
  BY <1>2, <1>3, <1>4, <1>5 DEF IInv

(* A call that changes nothing but its result.                             *)
LEMMA RefuseInv ==
    ASSUME IInv, NEW how \in {"ok", "err", "panic"}, Refuse(how)
    PROVE  IInv'
BY DEF Refuse, IInv, TypeInv, ViewsOK, OffsetsDisjoint, EveryByteXored, NothingLeftOut, OutBase

(* What every call may use of the view it is given.                        *)
LEMMA GivenView ==
    ASSUME IInv, NEW v \in views
    PROVE  /\ len \in Nat /\ OutBase \in Nat /\ ViewOK(v, len, OutBase)
           /\ Lo(v) \in Nat /\ Hi(v) \in Nat /\ Hi(v) <= len
           /\ Offsets(v) = Lo(v)..Hi(v)-1
           /\ v.at \in Nat /\ v.size \in Nat \ {0} /\ v.len \in Nat /\ v.pos \in Nat
           /\ v.in_ptr = v.at /\ v.out_ptr = OutBase + v.at
           /\ v.pos <= v.len
<1>1. len \in Nat /\ OutBase \in Nat /\ ViewOK(v, len, OutBase)
  BY DEF IInv, TypeInv, ViewsOK, OutBase
<1>2. Lo(v) \in Nat /\ Hi(v) \in Nat /\ Hi(v) <= len /\ Offsets(v) = Lo(v)..Hi(v)-1
  BY <1>1, Cells
<1> QED
  BY <1>1, <1>2 DEF ViewOK

(* A view cut in two at the boundary b between the offsets of its parts.    *)
LEMMA CutInv ==
    ASSUME IInv, NEW v \in views, NEW w, NEW x, Become(v, {w, x}),
           ViewOK(w, len, OutBase), ViewOK(x, len, OutBase),
           NEW b \in Nat, Lo(v) <= b, b <= Hi(v),
           Offsets(w) = Span(Lo(v), b), Offsets(x) = Span(b, Hi(v))
    PROVE  IInv'
<1>1. Lo(v) \in Nat /\ Hi(v) \in Nat /\ Offsets(v) = Lo(v)..Hi(v)-1
  BY GivenView
<1>2. Offsets(w) \subseteq Offsets(v) /\ Offsets(x) \subseteq Offsets(v)
  BY <1>1 DEF Span
<1>3. Offsets(w) \cap Offsets(x) = {}
  BY <1>1 DEF Span
<1>4. Offsets(v) \subseteq Offsets(w) \cup Offsets(x)
  BY <1>1 DEF Span
<1> DEFINE new == {w, x}
<1>5. /\ Become(v, new)
      /\ \A y \in new : ViewOK(y, len, OutBase) /\ Offsets(y) \subseteq Offsets(v)
      /\ \A y, z \in new : y # z => Offsets(y) \cap Offsets(z) = {}
      /\ Offsets(v) \subseteq UNION {Offsets(y) : y \in new}
  BY <1>2, <1>3, <1>4
<1> HIDE DEF new
<1> QED
  BY <1>5, BecomeInv

(* split_at: the parts meet where the caller said.                         *)
LEMMA SplitAtInv ==
    ASSUME IInv, NEW v \in views, NEW mid \in Nat, SplitAt(v, mid)
    PROVE  IInv'
<1>1. CASE mid > v.len
  BY <1>1, LoseInv DEF SplitAt
<1>2. CASE ~(mid > v.len)
  <2>1. /\ len \in Nat /\ OutBase \in Nat /\ v.at \in Nat /\ v.size \in Nat \ {0} /\ v.len \in Nat
        /\ v.in_ptr = v.at /\ v.out_ptr = OutBase + v.at /\ v.pos = 0 /\ Hi(v) <= len
    BY GivenView DEF SplitAt, ViewOK
  <2>2. PICK n \in Nat, base \in Nat, at \in Nat, s \in Nat \ {0}, k \in Nat :
            /\ n = len /\ base = OutBase /\ at = v.at /\ s = v.size /\ k = v.len
    BY <2>1
  <2>3. mid <= k /\ Lo(v) = at /\ Hi(v) = at + s * k /\ at + s * k <= n
    BY <1>2, <2>1, <2>2 DEF Lo, Hi
  <2>4. PICK m \in Nat, e \in Nat : m = at + s * mid /\ e = at + s * k /\ m <= e
    BY <2>3, Products
  <2>5. PICK r \in Nat : r = k - mid /\ e = m + s * r
    BY <2>3, <2>4, Products
  <2> DEFINE w == Whole("buf", at, base, s, mid)
             x == Whole("buf", m, base, s, r)
  <2>6. Become(v, {w, x})
    <3>1. base + at + s * mid = base + m
      BY <2>4
    <3> QED
      BY <1>2, <2>1, <2>2, <2>4, <2>5, <3>1 DEF SplitAt, Buf, Whole
  <2>7. ViewOK(w, n, base) /\ Offsets(w) = Span(at, m)
    <3>1. m <= n
      BY <2>3, <2>4
    <3> QED
      BY <2>4, <3>1, WholeOK
  <2>8. ViewOK(x, n, base) /\ Offsets(x) = Span(m, e)
    <3>1. e <= n
      BY <2>3, <2>4
    <3> QED
      BY <2>5, <3>1, WholeOK
  <2> HIDE DEF w, x
  <2>9. Lo(v) <= m /\ m <= Hi(v) /\ Lo(v) = at /\ Hi(v) = e
    BY <2>3, <2>4
  <2> QED
    BY <2>2, <2>6, <2>7, <2>8, <2>9, CutInv
<1> QED
  BY <1>1, <1>2

(* into_chunks: N elements become one, the elements left over a tail.      *)
LEMMA IntoChunksInv ==
    ASSUME IInv, NEW v \in views, IntoChunks(v)
    PROVE  IInv'
<1>1. /\ len \in Nat /\ OutBase \in Nat /\ v.at \in Nat /\ v.size \in Nat \ {0} /\ v.len \in Nat
      /\ v.in_ptr = v.at /\ v.out_ptr = OutBase + v.at /\ v.pos = 0 /\ Hi(v) <= len
  BY GivenView DEF IntoChunks, ViewOK
<1>2. PICK n \in Nat, base \in Nat, at \in Nat, s \in Nat \ {0}, k \in Nat :
          /\ n = len /\ base = OutBase /\ at = v.at /\ s = v.size /\ k = v.len
  BY <1>1
<1>3. Lo(v) = at /\ Hi(v) = at + s * k /\ at + s * k <= n
  BY <1>1, <1>2 DEF Lo, Hi
<1>4. N \in Nat \ {0}
  BY ViewsAssumption
<1>5. PICK c \in Nat : c = k \div N /\ N * c <= k
  <2>1. k \div N \in Nat /\ k % N \in 0..N-1 /\ k = (k \div N) * N + (k % N)
    BY <1>4, DivMod
  <2>2. (k \div N) * N = N * (k \div N)
    BY <1>4, <2>1
  <2> QED
    BY <1>4, <2>1, <2>2
<1>6. PICK t \in Nat : t = N * c /\ t <= k
  BY <1>4, <1>5
<1>7. PICK sn \in Nat \ {0} : sn = s * N
  BY <1>4
<1>8. sn * c = s * t
  BY <1>4, <1>6, <1>7
<1>9. PICK m \in Nat, e \in Nat : m = at + s * t /\ e = at + s * k /\ m <= e
  BY <1>6, Products
<1>10. PICK r \in Nat : r = k - t /\ e = m + s * r
  BY <1>6, <1>9, Products
<1> DEFINE w == Whole("buf", at, base, sn, c)
           x == Whole("buf", m, base, s, r)
<1>11. Become(v, {w, x})
  <2>1. base + at + s * t = base + m
    BY <1>9
  <2> QED
    BY <1>1, <1>2, <1>5, <1>6, <1>7, <1>9, <1>10, <2>1 DEF IntoChunks, Buf, Whole
<1>12. ViewOK(w, n, base) /\ Offsets(w) = Span(at, m)
  <2>1. m <= n /\ m = at + sn * c
    BY <1>3, <1>8, <1>9
  <2> QED
    BY <2>1, WholeOK
<1>13. ViewOK(x, n, base) /\ Offsets(x) = Span(m, e)
  <2>1. e <= n
    BY <1>3, <1>9
  <2> QED
    BY <1>10, <2>1, WholeOK
<1> HIDE DEF w, x
<1>14. Lo(v) <= m /\ m <= Hi(v) /\ Lo(v) = at /\ Hi(v) = e
  BY <1>3, <1>9
<1> QED
  BY <1>2, <1>11, <1>12, <1>13, <1>14, CutInv

(* A view that another one replaces, with access to the same offsets.      *)
LEMMA ReplaceInv ==
    ASSUME IInv, NEW v \in views, NEW w, Become(v, {w}),
           ViewOK(w, len, OutBase), Offsets(w) = Offsets(v)
    PROVE  IInv'
<1> DEFINE new == {w}
<1>1. /\ Become(v, new)
      /\ \A y \in new : ViewOK(y, len, OutBase) /\ Offsets(y) \subseteq Offsets(v)
      /\ \A y, z \in new : y # z => Offsets(y) \cap Offsets(z) = {}
      /\ Offsets(v) \subseteq UNION {Offsets(y) : y \in new}
  OBVIOUS
<1> HIDE DEF new
<1> QED
  BY <1>1, BecomeInv

(* try_into: N elements as one array, or the view is gone.                 *)
LEMMA TryIntoInv ==
    ASSUME IInv, NEW v \in views, TryInto(v)
    PROVE  IInv'
<1>1. CASE v.len # N
  BY <1>1, LoseInv DEF TryInto
<1>2. CASE v.len = N
  <2>1. /\ len \in Nat /\ OutBase \in Nat /\ v.at \in Nat /\ v.size \in Nat \ {0} /\ v.len \in Nat
        /\ v.in_ptr = v.at /\ v.out_ptr = OutBase + v.at /\ v.pos = 0 /\ Hi(v) <= len
        /\ Offsets(v) = Span(Lo(v), Hi(v))
    BY GivenView DEF TryInto, ViewOK, Span
  <2>2. PICK n \in Nat, base \in Nat, at \in Nat, s \in Nat \ {0} :
            /\ n = len /\ base = OutBase /\ at = v.at /\ s = v.size
    BY <2>1
  <2>3. N \in Nat \ {0}
    BY ViewsAssumption
  <2>4. PICK sn \in Nat \ {0} : sn = s * N
    BY <2>3
  <2>5. PICK e \in Nat : e = at + sn
    OBVIOUS
  <2>6. Lo(v) = at /\ Hi(v) = e /\ e <= n
    BY <1>2, <2>1, <2>2, <2>4, <2>5 DEF Lo, Hi
  <2> DEFINE w == Whole("one", at, base, sn, 1)
  <2>7. Become(v, {w})
    BY <1>2, <2>1, <2>2, <2>4 DEF TryInto, One, Whole
  <2>8. ViewOK(w, n, base) /\ Offsets(w) = Span(at, e)
    <3>1. e = at + sn * 1
      BY <2>5
    <3> QED
      BY <2>6, <3>1, WholeOK
  <2> HIDE DEF w
  <2> QED
    BY <2>1, <2>2, <2>6, <2>7, <2>8, ReplaceInv
<1> QED
  BY <1>1, <1>2

(* An array of a whole number of elements is N of them.                    *)
LEMMA ElementSize ==
    ASSUME NEW s \in Nat \ {0}, s % N = 0
    PROVE  N \in Nat \ {0} /\ s \div N \in Nat \ {0} /\ s = (s \div N) * N
<1>1. N \in Nat \ {0}
  BY ViewsAssumption
<1>2. s \div N \in Nat /\ s = (s \div N) * N + (s % N)
  BY <1>1, DivMod
<1>3. PICK q \in Nat : q = s \div N
  BY <1>2
<1>4. q * N \in Nat /\ s = q * N
  BY <1>1, <1>2, <1>3
<1>5. q # 0
  BY <1>1, <1>4
<1> QED
  BY <1>1, <1>3, <1>4, <1>5

(* into_buf: an array as N elements.                                       *)
LEMMA IntoBufInv ==
    ASSUME IInv, NEW v \in views, IntoBuf(v)
    PROVE  IInv'
<1>1. /\ len \in Nat /\ OutBase \in Nat /\ v.at \in Nat /\ v.size \in Nat \ {0}
      /\ v.in_ptr = v.at /\ v.out_ptr = OutBase + v.at /\ v.pos = 0 /\ v.len = 1 /\ Hi(v) <= len
      /\ Offsets(v) = Span(Lo(v), Hi(v))
  BY GivenView DEF IntoBuf, ViewOK, Span
<1>2. PICK n \in Nat, base \in Nat, at \in Nat, s \in Nat \ {0} :
          /\ n = len /\ base = OutBase /\ at = v.at /\ s = v.size
  BY <1>1
<1>3. PICK q \in Nat \ {0} : q = s \div N /\ s = q * N /\ N \in Nat
  BY <1>2, ElementSize DEF IntoBuf
<1>4. PICK e \in Nat : e = at + s
  OBVIOUS
<1>5. Lo(v) = at /\ Hi(v) = e /\ e <= n
  BY <1>1, <1>2, <1>4 DEF Lo, Hi
<1> DEFINE w == Whole("buf", at, base, q, N)
<1>6. Become(v, {w})
  BY <1>1, <1>2, <1>3 DEF IntoBuf, Buf, Whole
<1>7. ViewOK(w, n, base) /\ Offsets(w) = Span(at, e)
  <2>1. N \in Nat /\ e = at + q * N /\ e <= n
    BY <1>3, <1>4, <1>5
  <2> QED
    BY <2>1, WholeOK
<1> HIDE DEF w
<1> QED
  BY <1>1, <1>2, <1>5, <1>6, <1>7, ReplaceInv

(* into_iter: the same elements, to be given away one by one.              *)
LEMMA IntoIterInv ==
    ASSUME IInv, NEW v \in views, IntoIter(v)
    PROVE  IInv'
<1> DEFINE w == [v EXCEPT !.kind = "iter"]
<1>1. ViewOK(v, len, OutBase)
  BY GivenView
<1>2. /\ w.kind = "iter" /\ w.at = v.at /\ w.in_ptr = v.in_ptr /\ w.out_ptr = v.out_ptr
      /\ w.size = v.size /\ w.len = v.len /\ w.pos = v.pos
      /\ w \in [kind : {"buf", "one", "iter"}, at : Nat, in_ptr : Nat, out_ptr : Nat,
                size : Nat \ {0}, len : Nat, pos : Nat]
  BY <1>1 DEF ViewOK
<1>3. Become(v, {w})
  BY DEF IntoIter
<1> HIDE DEF w
<1>4. ViewOK(w, len, OutBase)
  BY <1>1, <1>2 DEF ViewOK
<1>5. Offsets(w) = Offsets(v)
  BY <1>2 DEF Offsets, Extent
<1> QED
  BY <1>3, <1>4, <1>5, ReplaceInv

(* next: the first of the elements left and an iterator over the others,   *)
(* or, when there are none, nothing.                                       *)
LEMMA IterNextInv ==
    ASSUME IInv, NEW v \in views, IterNext(v)
    PROVE  IInv'
<1>1. CASE v.pos = v.len
  <2>1. Lo(v) = Hi(v) /\ Lo(v) \in Nat /\ Offsets(v) = Lo(v)..Hi(v)-1
    BY <1>1, GivenView DEF Lo, Hi
  <2>2. Offsets(v) = {}
    BY <2>1
  <2> DEFINE new == {}
  <2>3. /\ Become(v, new)
        /\ \A y \in new : ViewOK(y, len, OutBase) /\ Offsets(y) \subseteq Offsets(v)
        /\ \A y, z \in new : y # z => Offsets(y) \cap Offsets(z) = {}
        /\ Offsets(v) \subseteq UNION {Offsets(y) : y \in new}
    BY <1>1, <2>2 DEF IterNext
  <2> HIDE DEF new
  <2> QED
    BY <2>3, BecomeInv
<1>2. CASE v.pos # v.len
  <2>1. /\ len \in Nat /\ OutBase \in Nat /\ v.at \in Nat /\ v.size \in Nat \ {0}
        /\ v.len \in Nat /\ v.pos \in Nat /\ v.pos < v.len /\ v.kind = "iter"
        /\ v.in_ptr = v.at /\ v.out_ptr = OutBase + v.at /\ Hi(v) <= len
        /\ ViewOK(v, len, OutBase)
    BY <1>2, GivenView DEF IterNext
  <2>2. PICK n \in Nat, base \in Nat, at \in Nat, s \in Nat \ {0}, k \in Nat, p \in Nat :
            /\ n = len /\ base = OutBase /\ at = v.at /\ s = v.size /\ k = v.len /\ p = v.pos
            /\ p + 1 <= k
    BY <2>1, SMTT(30)
  <2>3. Lo(v) = at + s * p /\ Hi(v) = at + s * k /\ at + s * k <= n
    BY <2>1, <2>2 DEF Lo, Hi
  <2>4. s * (p + 1) = s * p + s /\ s * p \in Nat /\ s * k \in Nat /\ s * (p + 1) <= s * k
    <3>1. p + 1 \in Nat /\ p <= p + 1
      OBVIOUS
    <3> QED
      BY <2>2, <3>1, Products
  <2>5. PICK a \in Nat, m \in Nat, e \in Nat :
            a = at + s * p /\ m = a + s /\ m = at + s * (p + 1) /\ e = at + s * k /\ m <= e
    BY <2>4
  <2> DEFINE w == Whole("one", a, base, s, 1)
             x == [v EXCEPT !.pos = @ + 1]
  <2>6. Become(v, {w, x})
    <3>1. base + at + s * p = base + a
      BY <2>5
    <3> QED
      BY <1>2, <2>1, <2>2, <2>5, <3>1 DEF IterNext, Elem, One, Whole
  <2>7. ViewOK(w, n, base) /\ Offsets(w) = Span(a, m)
    <3>1. m <= n /\ m = a + s * 1
      BY <2>3, <2>5
    <3> QED
      BY <3>1, WholeOK
  <2>8. /\ x.kind = "iter" /\ x.at = v.at /\ x.in_ptr = v.in_ptr /\ x.out_ptr = v.out_ptr
        /\ x.size = v.size /\ x.len = v.len /\ x.pos = v.pos + 1
        /\ x \in [kind : {"buf", "one", "iter"}, at : Nat, in_ptr : Nat, out_ptr : Nat,
                  size : Nat \ {0}, len : Nat, pos : Nat]
    BY <2>1 DEF ViewOK
  <2> HIDE DEF w, x
  <2>9. ViewOK(x, len, OutBase)
    BY <2>1, <2>2, <2>8 DEF ViewOK
  <2>10. Lo(x) = m /\ Hi(x) = e
    BY <2>2, <2>5, <2>8 DEF Lo, Hi
  <2>11. Offsets(x) = Span(m, e)
    <3>1. Offsets(x) = Lo(x)..Hi(x)-1
      BY <2>1, <2>9, Cells
    <3> QED
      BY <2>10, <3>1 DEF Span
  <2>12. Lo(v) = a /\ Hi(v) = e /\ a <= m /\ m <= e
    BY <2>3, <2>5
  <2> QED
    BY <2>2, <2>6, <2>7, <2>9, <2>11, <2>12, CutInv
<1> QED
  BY <1>1, <1>2

(* The constructors: one view of the whole buffer, nothing processed.      *)
LEMMA StartInv ==
    ASSUME NEW place \in BOOLEAN, NEW n \in Nat, n <= MaxLen, NEW base \in Nat,
           base = (IF place THEN 0 ELSE n),
           NEW v, ViewOK(v, n, base), Offsets(v) = Span(0, n), Start(place, n, v)
    PROVE  IInv'
<1>1. /\ len' = n /\ in_place' = place /\ views' = {v} /\ done' = {} /\ lost' = {}
      /\ result' = "ok" /\ OutBase' = base
      /\ mem' = [a \in 0..2*MaxLen-1 |-> IF a < n THEN Message(a) ELSE Stale(a)]
  BY DEF Start, OutBase
<1>2. MaxLen \in Nat
  BY ViewsAssumption
<1>3. TypeInv'
  BY <1>1, <1>2 DEF TypeInv
<1>4. ViewsOK' /\ OffsetsDisjoint'
  BY <1>1 DEF ViewsOK, OffsetsDisjoint
<1>5. EveryByteXored'
  BY <1>1, <1>2 DEF EveryByteXored
<1>6. NothingLeftOut'
  BY <1>1 DEF NothingLeftOut, Span
<1> QED
  BY <1>3, <1>4, <1>5, <1>6 DEF IInv

(* A view of a whole buffer of n bytes, as bytes or as one array.          *)
LEMMA WholeBuffer ==
    ASSUME NEW n \in Nat, NEW base \in Nat
    PROVE  /\ ViewOK(Buf(0, 0, base, 1, n), n, base)
           /\ Offsets(Buf(0, 0, base, 1, n)) = Span(0, n)
           /\ n # 0 => /\ ViewOK(One(0, 0, base, n), n, base)
                       /\ Offsets(One(0, 0, base, n)) = Span(0, n)
<1>1. /\ Buf(0, 0, base, 1, n) = Whole("buf", 0, base, 1, n)
      /\ One(0, 0, base, n) = Whole("one", 0, base, n, 1)
  BY DEF Buf, One, Whole
<1>2. PICK z \in Nat, e \in Nat : z = 0 /\ e = n /\ e <= n
  OBVIOUS
<1>3. e = z + 1 * n /\ e = z + n * 1
  BY <1>2
<1>4. /\ ViewOK(Whole("buf", z, base, 1, n), n, base)
      /\ Offsets(Whole("buf", z, base, 1, n)) = Span(z, e)
  BY <1>2, <1>3, WholeOK
<1>5. ASSUME n # 0
      PROVE  /\ ViewOK(Whole("one", z, base, n, 1), n, base)
             /\ Offsets(Whole("one", z, base, n, 1)) = Span(z, e)
  BY <1>2, <1>3, <1>5, WholeOK
<1> QED
  BY <1>1, <1>2, <1>4, <1>5

(* From<&mut [T]>, new and InOut's From.                                   *)
LEMMA ConstructorInv ==
    ASSUME IInv,
           \/ \E n \in 0..MaxLen : FromSlice(n)
           \/ \E in_len, out_len \in 0..MaxLen : New(in_len, out_len)
           \/ \E place \in BOOLEAN : FromArray(place)
    PROVE  IInv'
<1> MaxLen \in Nat /\ N \in Nat \ {0}
  BY ViewsAssumption
<1>1. CASE \E n \in 0..MaxLen : FromSlice(n)
  <2>1. PICK n \in 0..MaxLen : Start(TRUE, n, Buf(0, 0, 0, 1, n))
    BY <1>1 DEF FromSlice
  <2>2. n \in Nat /\ n <= MaxLen
    OBVIOUS
  <2> QED
    BY <2>1, <2>2, WholeBuffer, StartInv
<1>2. CASE \E in_len, out_len \in 0..MaxLen : New(in_len, out_len)
  <2>1. PICK n \in 0..MaxLen : Refuse("err") \/ Start(FALSE, n, Buf(0, 0, n, 1, n))
    BY <1>2 DEF New
  <2>2. n \in Nat /\ n <= MaxLen
    OBVIOUS
  <2>3. CASE Refuse("err")
    BY <2>3, RefuseInv
  <2>4. CASE Start(FALSE, n, Buf(0, 0, n, 1, n))
    BY <2>4, <2>2, WholeBuffer, StartInv
  <2> QED
    BY <2>1, <2>3, <2>4
<1>3. CASE \E place \in BOOLEAN : FromArray(place)
  <2>1. PICK place \in BOOLEAN : N <= MaxLen /\ Start(place, N, One(0, 0, IF place THEN 0 ELSE N, N))
    BY <1>3 DEF FromArray
  <2>2. PICK base \in Nat : base = (IF place THEN 0 ELSE N)
    OBVIOUS
  <2>3. Start(place, N, One(0, 0, base, N))
    BY <2>1, <2>2
  <2> QED
    BY <2>1, <2>2, <2>3, WholeBuffer, StartInv
<1> QED
  BY <1>1, <1>2, <1>3

-----------------------------------------------------------------------------
(* Processing.                                                             *)

(* The memory with n bytes from the place `at` of the message processed,   *)
(* all read before one is written.                                         *)
XorAt(at, out, n) ==
    [a \in 0..2*MaxLen-1 |->
        IF a - out \in 0..n-1 THEN Xor(mem[at + (a - out)], Key(at + (a - out))) ELSE mem[a]]

(* The loop of xor_in2out reads each byte before a round can change it,    *)
(* although it reads and writes in turn: input and output are the same or  *)
(* apart.                                                                  *)
LEMMA LoopReadsBeforeWriting ==
    ASSUME TypeInv, NEW v, NEW at \in Nat, NEW out \in Nat, NEW n \in Nat,
           v.at = at, v.in_ptr = at, v.out_ptr = out, v.len = n,
           out = at \/ at + n <= out,
           out + n <= 2 * MaxLen
    PROVE  XorLoop(v) = XorAt(at, out, n)
<1> DEFINE M == 0..2*MaxLen-1
           Step(f, i) == IF i = 0 THEN mem
                         ELSE [f[i-1] EXCEPT ![out + i - 1] =
                                  Xor(f[i-1][at + i - 1], Key(at + i - 1))]
           closed == [i \in 0..n |-> XorAt(at, out, i)]
           round == CHOOSE f : f = [i \in 0..n |-> Step(f, i)]
<1>1. MaxLen \in Nat /\ mem = [a \in M |-> mem[a]]
  BY ViewsAssumption DEF TypeInv
<1>2. ASSUME NEW i \in 1..n
      PROVE  XorAt(at, out, i) = [XorAt(at, out, i-1) EXCEPT ![out + i - 1] =
                                     Xor(XorAt(at, out, i-1)[at + i - 1], Key(at + i - 1))]
  <2> DEFINE g == XorAt(at, out, i-1)
             h == XorAt(at, out, i)
  <2>1. /\ g = [a \in M |-> IF a - out \in 0..i-2 THEN Xor(mem[at + (a - out)], Key(at + (a - out))) ELSE mem[a]]
        /\ h = [a \in M |-> IF a - out \in 0..i-1 THEN Xor(mem[at + (a - out)], Key(at + (a - out))) ELSE mem[a]]
    BY DEF XorAt
  <2>2. at + i - 1 \in M /\ out + i - 1 \in M
    BY <1>1, SMTT(30)
  <2>3. g[at + i - 1] = mem[at + i - 1]
    <3>1. ~((at + i - 1) - out \in 0..i-2)
      OBVIOUS
    <3> QED
      BY <2>1, <2>2, <3>1
  <2>4. ASSUME NEW a \in M, a # out + i - 1 PROVE h[a] = g[a]
    <3>1. a - out \in 0..i-1 <=> a - out \in 0..i-2
      BY <1>1, <2>4, SMTT(30)
    <3> QED
      BY <2>1, <3>1
  <2>5. h[out + i - 1] = Xor(mem[at + i - 1], Key(at + i - 1))
    <3>1. (out + i - 1) - out \in 0..i-1 /\ at + ((out + i - 1) - out) = at + i - 1
      OBVIOUS
    <3> QED
      BY <2>1, <2>2, <3>1
  <2>6. h = [a \in M |-> h[a]] /\ g = [a \in M |-> g[a]]
    BY <2>1
  <2> HIDE DEF g, h
  <2>7. h = [g EXCEPT ![out + i - 1] = Xor(g[at + i - 1], Key(at + i - 1))]
    BY <2>2, <2>3, <2>4, <2>5, <2>6
  <2> QED
    BY <2>7 DEF g, h
<1>3. XorAt(at, out, 0) = mem
  BY <1>1 DEF XorAt
<1>4. closed = [i \in 0..n |-> Step(closed, i)]
  <2>1. ASSUME NEW i \in 0..n PROVE closed[i] = Step(closed, i)
    <3>1. CASE i = 0
      BY <1>3, <3>1
    <3>2. CASE i # 0
      <4>1. i \in 1..n /\ i - 1 \in 0..n
        BY <3>2
      <4>2. closed[i] = XorAt(at, out, i) /\ closed[i-1] = XorAt(at, out, i-1)
        BY <4>1
      <4> HIDE DEF closed
      <4> QED
        BY <3>2, <4>1, <4>2, <1>2
    <3> QED
      BY <3>1, <3>2
  <2> QED
    BY <2>1
<1>5. round = [i \in 0..n |-> Step(round, i)]
  <2> HIDE DEF closed, Step
  <2> QED
    BY <1>4
<1> HIDE DEF round
<1>6. \A i \in Nat : i \in {j \in Nat : j <= n => round[j] = closed[j]}
  <2> DEFINE S == {j \in Nat : j <= n => round[j] = closed[j]}
  <2>1. 0 \in S
    BY <1>3, <1>5
  <2>2. ASSUME NEW j \in Nat, j \in S PROVE j + 1 \in S
    <3> SUFFICES ASSUME j + 1 <= n PROVE round[j + 1] = closed[j + 1]
      OBVIOUS
    <3>1. round[j] = closed[j] /\ j + 1 \in 0..n /\ j + 1 # 0 /\ (j + 1) - 1 = j
      BY <2>2
    <3>2. round[j + 1] = Step(round, j + 1) /\ closed[j + 1] = Step(closed, j + 1)
      <4> HIDE DEF Step, closed
      <4> QED
        BY <1>4, <1>5, <3>1
    <3>3. Step(round, j + 1) = Step(closed, j + 1)
      <4> HIDE DEF closed
      <4> QED
        BY <3>1
    <3> QED
      BY <3>2, <3>3
  <2> HIDE DEF S
  <2>3. \A i \in Nat : i \in S
    BY <2>1, <2>2, NatSetInduction
  <2> QED
    BY <2>3 DEF S
<1>7. round[n] = XorAt(at, out, n)
  <2>1. closed[n] = XorAt(at, out, n)
    OBVIOUS
  <2> HIDE DEF closed
  <2>2. round[n] = closed[n]
    BY <1>6
  <2> QED
    BY <2>1, <2>2
<1>8. XorLoop(v) = round[n]
  BY DEF XorLoop, round
<1> QED
  BY <1>7, <1>8

(* Processing a stretch of the message that was not processed before.      *)
LEMMA ProcessInv ==
    ASSUME IInv, NEW at \in Nat, NEW n \in Nat, at + n <= len,
           Span(at, at + n) \cap done = {},
           mem' = XorAt(at, OutBase + at, n),
           done' = done \cup Span(at, at + n), result' = "ok",
           UNCHANGED <<len, in_place, views, lost>>
    PROVE  IInv'
<1> DEFINE M == 0..2*MaxLen-1
           base == OutBase
<1>1. /\ MaxLen \in Nat /\ len \in Nat /\ len <= MaxLen /\ in_place \in BOOLEAN
      /\ base = (IF in_place THEN 0 ELSE len) /\ base \in Nat /\ base + len <= 2 * MaxLen
      /\ OutBase' = base
  BY ViewsAssumption DEF IInv, TypeInv, OutBase
<1> HIDE DEF base
<1>2. mem' = [a \in M |-> IF a - (base + at) \in 0..n-1
                          THEN Xor(mem[at + (a - (base + at))], Key(at + (a - (base + at))))
                          ELSE mem[a]]
  BY DEF XorAt, base
<1>3. TypeInv'
  <2>1. Span(at, at + n) \subseteq 0..len-1
    BY <1>1 DEF Span
  <2>2. mem' = [a \in M |-> mem'[a]]
    BY <1>2
  <2> QED
    BY <2>1, <2>2 DEF IInv, TypeInv
<1>4. ViewsOK' /\ OffsetsDisjoint'
  BY <1>1 DEF IInv, ViewsOK, OffsetsDisjoint, base
<1>5. EveryByteXored'
  <2>1. ASSUME NEW o \in 0..len-1
        PROVE  mem'[base + o] = IF o \in done' THEN Xor(Message(o), Key(o))
                                ELSE IF in_place THEN Message(o) ELSE Stale(base + o)
    <3>1. /\ base + o \in M
          /\ mem[base + o] = IF o \in done THEN Xor(Message(o), Key(o))
                             ELSE IF in_place THEN Message(o) ELSE Stale(base + o)
      BY <1>1 DEF IInv, EveryByteXored, base
    <3>2. CASE o \in Span(at, at + n)
      <4>1. /\ (base + o) - (base + at) \in 0..n-1
            /\ at + ((base + o) - (base + at)) = o
        BY <1>1, <3>2 DEF Span
      <4>2. mem'[base + o] = Xor(mem[o], Key(o))
        BY <1>2, <3>1, <4>1
      <4>3. mem[o] = Message(o)
        <5>1. CASE in_place
          BY <1>1, <3>1, <3>2, <5>1
        <5>2. CASE ~in_place
          <6>1. o \in DOMAIN mem /\ o < len /\ o \notin base..base+len-1
            BY <1>1, <5>2 DEF IInv, TypeInv
          <6> QED
            BY <6>1 DEF IInv, EveryByteXored, base
        <5> QED
          BY <1>1, <5>1, <5>2
      <4> QED
        BY <3>2, <4>2, <4>3
    <3>3. CASE o \notin Span(at, at + n)
      <4>1. ~((base + o) - (base + at) \in 0..n-1)
        BY <1>1, <3>3 DEF Span
      <4>2. mem'[base + o] = mem[base + o]
        BY <1>2, <3>1, <4>1
      <4> QED
        BY <3>1, <3>3, <4>2
    <3> QED
      BY <3>2, <3>3
  <2>2. ASSUME NEW a \in M \ (base..base+len-1)
        PROVE  mem'[a] = IF a < len THEN Message(a) ELSE Stale(a)
    <3>1. ~(a - (base + at) \in 0..n-1)
      BY <1>1
    <3>2. mem'[a] = mem[a]
      BY <1>2, <3>1
    <3>3. mem[a] = IF a < len THEN Message(a) ELSE Stale(a)
      <4>1. DOMAIN mem = M
        BY DEF IInv, TypeInv
      <4> QED
        BY <4>1 DEF IInv, EveryByteXored, base
    <3> QED
      BY <3>2, <3>3
  <2>3. DOMAIN mem' = M
    BY <1>2
  <2> QED
    BY <1>1, <2>1, <2>2, <2>3 DEF EveryByteXored
<1>6. NothingLeftOut'
  BY DEF IInv, NothingLeftOut
<1> QED
  BY <1>3, <1>4, <1>5, <1>6 DEF IInv

(* A view's offsets are the elements that it has not given away.           *)
LEMMA OffsetsSpan ==
    ASSUME IInv, NEW v \in views
    PROVE  Offsets(v) = Span(Lo(v), Hi(v))
BY GivenView DEF Span

(* xor_in2out of a buffer of bytes.                                        *)
LEMMA XorBufInv ==
    ASSUME IInv, NEW v \in views, NEW n, XorBuf(v, n)
    PROVE  IInv'
<1>1. CASE n # v.len
  BY <1>1, RefuseInv DEF XorBuf
<1>2. CASE n = v.len
  <2>1. /\ len \in Nat /\ OutBase \in Nat /\ v.at \in Nat /\ v.len \in Nat /\ v.size = 1
        /\ v.in_ptr = v.at /\ v.out_ptr = OutBase + v.at /\ v.pos = 0 /\ Hi(v) <= len
    BY GivenView DEF XorBuf, ViewOK
  <2>2. PICK at \in Nat, k \in Nat, out \in Nat :
            at = v.at /\ k = v.len /\ out = OutBase + at
    BY <2>1
  <2>3. Lo(v) = at /\ Hi(v) = at + k /\ at + k <= len
    BY <2>1, <2>2 DEF Lo, Hi
  <2>4. (out = at \/ at + k <= out) /\ out + k <= 2 * MaxLen
    BY <2>2, <2>3, ViewsAssumption, SMTT(30) DEF IInv, TypeInv, OutBase
  <2>5. XorLoop(v) = XorAt(at, out, k)
    <3>1. TypeInv /\ v.at = at /\ v.in_ptr = at /\ v.out_ptr = out /\ v.len = k
      BY <2>1, <2>2 DEF IInv
    <3> QED
      BY <2>4, <3>1, LoopReadsBeforeWriting
  <2>6. /\ mem' = XorAt(at, OutBase + at, k) /\ done' = done \cup Span(at, at + k)
        /\ Span(at, at + k) \cap done = {} /\ result' = "ok"
        /\ UNCHANGED <<len, in_place, views, lost>>
    BY <1>2, <2>2, <2>3, <2>5, OffsetsSpan DEF XorBuf, Processed, Fresh
  <2> QED
    BY <2>3, <2>6, ProcessInv
<1> QED
  BY <1>1, <1>2

(* xor_in2out of an array, given by itself or as an element of a view.     *)
LEMMA XorArrayInv ==
    ASSUME IInv, NEW e, NEW at \in Nat, NEW k \in Nat,
           e.at = at, e.in_ptr = at, e.out_ptr = OutBase + at, e.size = k,
           at + k <= len, Offsets(e) = Span(at, at + k), XorElem(e)
    PROVE  IInv'
<1>1. DOMAIN mem = 0..2*MaxLen-1
  BY DEF IInv, TypeInv
<1>2. mem' = XorAt(at, OutBase + at, k)
  BY <1>1 DEF XorElem, XorArray, XorAt
<1>3. /\ done' = done \cup Span(at, at + k) /\ Span(at, at + k) \cap done = {}
      /\ result' = "ok" /\ UNCHANGED <<len, in_place, views, lost>>
  BY DEF XorElem, Processed, Fresh
<1> QED
  BY <1>2, <1>3, ProcessInv

(* xor_in2out of a view that is one array.                                 *)
LEMMA XorOneInv ==
    ASSUME IInv, NEW v \in views, XorOne(v)
    PROVE  IInv'
<1>1. /\ len \in Nat /\ OutBase \in Nat /\ v.at \in Nat /\ v.size \in Nat /\ v.len = 1
      /\ v.in_ptr = v.at /\ v.out_ptr = OutBase + v.at /\ v.pos = 0 /\ Hi(v) <= len
  BY GivenView DEF XorOne, ViewOK
<1>2. Lo(v) = v.at /\ Hi(v) = v.at + v.size
  BY <1>1 DEF Lo, Hi
<1>3. XorElem(v) /\ Offsets(v) = Span(v.at, v.at + v.size)
  BY <1>2, OffsetsSpan DEF XorOne, XorElem
<1> QED
  BY <1>1, <1>2, <1>3, XorArrayInv

(* The element i of k elements of s bytes that lie inside the buffer.      *)
LEMMA ElemInv ==
    ASSUME IInv, NEW v, NEW i \in Nat, NEW k \in Nat, i < k,
           v.at \in Nat, v.in_ptr = v.at, v.out_ptr = OutBase + v.at,
           NEW s \in Nat \ {0}, v.size = s, v.at + s * k <= len, XorElem(Elem(v, i))
    PROVE  IInv'
<1>1. len \in Nat /\ OutBase \in Nat
  BY DEF IInv, TypeInv, OutBase
<1>2. PICK n \in Nat, base \in Nat, at \in Nat : n = len /\ base = OutBase /\ at = v.at
  BY <1>1
<1>3. s * (i + 1) = s * i + s /\ s * i \in Nat /\ s * k \in Nat /\ s * (i + 1) <= s * k
  <2>1. i + 1 \in Nat /\ i <= i + 1 /\ i + 1 <= k
    OBVIOUS
  <2> QED
    BY <2>1, Products
<1>4. PICK a \in Nat, e \in Nat : a = at + s * i /\ e = a + s /\ e = a + s * 1 /\ e <= n
  BY <1>2, <1>3
<1> DEFINE w == Whole("one", a, base, s, 1)
<1>5. Elem(v, i) = w
  <2>1. base + at + s * i = base + a
    BY <1>4
  <2> QED
    BY <1>2, <1>4, <2>1 DEF Elem, One, Whole
<1>6. Offsets(w) = Span(a, e)
  BY <1>4, WholeOK
<1>7. w.at = a /\ w.in_ptr = a /\ w.out_ptr = base + a /\ w.size = s
  BY DEF Whole, View
<1> HIDE DEF w
<1>8. XorElem(w) /\ Offsets(w) = Span(a, a + s) /\ a + s <= len
  BY <1>2, <1>4, <1>5, <1>6
<1> QED
  BY <1>2, <1>7, <1>8, XorArrayInv

(* get of a buffer, and of an array.                                       *)
LEMMA GetInv ==
    ASSUME IInv, NEW v \in views, NEW i \in Nat, Get(v, i) \/ GetOfArray(v, i)
    PROVE  IInv'
<1>1. CASE Refuse("panic")
  BY <1>1, RefuseInv
<1>2. CASE Get(v, i) /\ ~Refuse("panic")
  <2>1. /\ v.at \in Nat /\ v.in_ptr = v.at /\ v.out_ptr = OutBase + v.at
        /\ v.size \in Nat \ {0} /\ v.len \in Nat /\ v.at + v.size * v.len <= len
    BY GivenView DEF ViewOK
  <2>2. i < v.len /\ XorElem(Elem(v, i))
    BY <1>2, <2>1 DEF Get
  <2> QED
    BY <2>1, <2>2, ElemInv
<1>3. CASE GetOfArray(v, i) /\ ~Refuse("panic")
  <2>1. /\ v.at \in Nat /\ v.in_ptr = v.at /\ v.out_ptr = OutBase + v.at
        /\ v.size \in Nat \ {0} /\ v.at + v.size <= len /\ v.size % N = 0
    BY <1>3, GivenView DEF ViewOK, GetOfArray
  <2>2. /\ N \in Nat \ {0} /\ v.size \div N \in Nat \ {0}
        /\ v.size = (v.size \div N) * N
    BY <2>1, ElementSize
  <2>3. PICK q \in Nat \ {0} : q = v.size \div N
    BY <2>2
  <2> DEFINE w == [v EXCEPT !.size = q]
  <2>4. i < N /\ XorElem(Elem(w, i))
    BY <1>3, <2>2, <2>3 DEF GetOfArray
  <2>5. /\ w.at = v.at /\ w.in_ptr = v.in_ptr /\ w.out_ptr = v.out_ptr /\ w.size = q
    BY GivenView DEF ViewOK
  <2>6. w.at + q * N <= len
    BY <2>1, <2>2, <2>3, <2>5
  <2> HIDE DEF w
  <2> QED
    BY <2>1, <2>2, <2>4, <2>5, <2>6, ElemInv
<1> QED
  BY <1>1, <1>2, <1>3

-----------------------------------------------------------------------------
(* The invariant and what follows from it.                                 *)

(* Before the first buffer there is nothing.                               *)
LEMMA InitInv == Init => IInv
BY ViewsAssumption
   DEF Init, IInv, TypeInv, ViewsOK, OffsetsDisjoint, EveryByteXored, NothingLeftOut, OutBase

(* Every call keeps the invariant.                                         *)
LEMMA NextInv == IInv /\ [Next]_vars => IInv'
<1> SUFFICES ASSUME IInv, [Next]_vars PROVE IInv'
  OBVIOUS
<1>1. CASE UNCHANGED vars
  BY <1>1 DEF vars, IInv, TypeInv, ViewsOK, OffsetsDisjoint, EveryByteXored, NothingLeftOut, OutBase
<1>2. CASE \/ \E n \in 0..MaxLen : FromSlice(n)
           \/ \E in_len, out_len \in 0..MaxLen : New(in_len, out_len)
           \/ \E place \in BOOLEAN : FromArray(place)
  BY <1>2, ConstructorInv
<1>3. ASSUME NEW v \in views, NEW mid \in 0..MaxLen+1, SplitAt(v, mid) PROVE IInv'
  BY <1>3, SplitAtInv
<1>4. ASSUME NEW v \in views,
             IntoChunks(v) \/ TryInto(v) \/ IntoBuf(v) \/ IntoIter(v) \/ IterNext(v)
      PROVE  IInv'
  BY <1>4, IntoChunksInv, TryIntoInv, IntoBufInv, IntoIterInv, IterNextInv
<1>5. ASSUME NEW v \in views, NEW n \in {v.len, v.len + 1}, XorBuf(v, n) PROVE IInv'
  BY <1>5, XorBufInv
<1>6. ASSUME NEW v \in views, XorOne(v) PROVE IInv'
  BY <1>6, XorOneInv
<1>7. ASSUME NEW v \in views, NEW i, i \in 0..v.len \/ i \in 0..N,
             Get(v, i) \/ GetOfArray(v, i)
      PROVE  IInv'
  <2>1. i \in Nat
    BY <1>7
  <2> QED
    BY <1>7, <2>1, GetInv
<1>8. ASSUME NEW v \in views, Drop(v) PROVE IInv'
  BY <1>8, LoseInv DEF Drop
<1> QED
  BY <1>1, <1>2, <1>3, <1>4, <1>5, <1>6, <1>7, <1>8 DEF Next

(* The inductive invariant of inout's views, for every array length and    *)
(* every bound on buffers and views.                                       *)
THEOREM ViewsInvariance == Spec => []IInv
BY InitInv, NextInv, PTL DEF Spec

(* Type correctness: every view that a call returns has a length and       *)
(* pointers of its type.                                                   *)
THEOREM ViewsTypeCorrect == Spec => []TypeOK
<1>1. IInv => TypeOK
  <2> SUFFICES ASSUME IInv PROVE TypeOK
    OBVIOUS
  <2>1. ASSUME NEW v \in views
        PROVE  /\ v.kind \in {"buf", "one", "iter"}
               /\ v.in_ptr \in Nat /\ v.out_ptr \in Nat
               /\ v.len \in Nat /\ v.size \in Nat \ {0} /\ v.pos \in 0..v.len
    BY GivenView DEF ViewOK
  <2> QED
    BY <2>1 DEF IInv, TypeInv, TypeOK
<1> QED
  BY <1>1, ViewsInvariance, PTL

(* The safety argument of inout's unsafe code: input and output of a view  *)
(* are the same or apart, no two views share a byte of the output, and     *)
(* none reaches out of its buffers, however split_at, into_chunks,         *)
(* try_into, into_buf, get and the iterator are combined.                  *)
THEOREM ViewsAreDisjoint == Spec => []ViewsDisjoint
<1>1. IInv => ViewsDisjoint
  <2> SUFFICES ASSUME IInv PROVE ViewsDisjoint
    OBVIOUS
  <2>1. len \in Nat /\ OutBase \in Nat /\ (OutBase = 0 \/ OutBase = len)
    BY DEF IInv, TypeInv, OutBase
  <2>2. ASSUME NEW v \in views
        PROVE  /\ Lo(v) \in Nat /\ Hi(v) \in Nat /\ Hi(v) <= len
               /\ InCells(v) = Lo(v)..Hi(v)-1 /\ Offsets(v) = Lo(v)..Hi(v)-1
               /\ OutCells(v) = OutBase+Lo(v)..OutBase+Hi(v)-1
    BY <2>1, Cells DEF IInv, ViewsOK
  <2>3. ASSUME NEW v \in views
        PROVE  /\ InCells(v) = OutCells(v) \/ InCells(v) \cap OutCells(v) = {}
               /\ InCells(v) \subseteq 0..len-1
               /\ OutCells(v) \subseteq OutBase..OutBase+len-1
    BY <2>1, <2>2, SMTT(30)
  <2>4. ASSUME NEW v \in views, NEW w \in views, v # w, NEW c \in OutCells(v)
        PROVE  c \notin OutCells(w) /\ c \notin InCells(w)
    <3>1. Offsets(v) \cap Offsets(w) = {}
      BY <2>4 DEF IInv, OffsetsDisjoint
    <3>2. c \in Int /\ c - OutBase \in Offsets(v)
      BY <2>1, <2>2, SMTT(30)
    <3>3. c \in OutCells(w) => c - OutBase \in Offsets(w)
      BY <2>1, <2>2, <3>2, SMTT(30)
    <3>4. c \in InCells(w) => OutBase = 0 /\ c - OutBase \in Offsets(w)
      BY <2>1, <2>2, <3>2, SMTT(30)
    <3> QED
      BY <3>1, <3>2, <3>3, <3>4
  <2> QED
    BY <2>3, <2>4 DEF ViewsDisjoint
<1> QED
  BY <1>1, ViewsInvariance, PTL

(* Every processed byte of the output is the message's byte of that place  *)
(* under its key, and every other byte is as it was, whatever the caller   *)
(* cut the buffers into and in whatever order it went over the parts.      *)
THEOREM EveryByteIsXored == Spec => []EveryByteXored
<1>1. IInv => EveryByteXored
  BY DEF IInv
<1> QED
  BY <1>1, ViewsInvariance, PTL

(* Cutting a view never leaves a byte out: it was processed, or a view     *)
(* reaches it, or the caller gave its view up.                             *)
THEOREM NothingIsLeftOut == Spec => []NothingLeftOut
<1>1. IInv => NothingLeftOut
  BY DEF IInv
<1> QED
  BY <1>1, ViewsInvariance, PTL
=============================================================================
