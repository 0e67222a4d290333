----------------------------- MODULE InOutViews -----------------------------
(***************************************************************************)
(* inout's InOutBuf, InOutBufIter and InOut: pairs of raw pointers into an *)
(* input and an output buffer, which a caller cuts into ever smaller views *)
(* while it passes over the data once, in place or from one buffer to the  *)
(* other.                                                                  *)
(*                                                                         *)
(* A byte is the set of the values that were XORed into it, so that every  *)
(* byte tells where it comes from.  `at` is a history field: the place in  *)
(* the message that, by its documentation, a view stands for.              *)
(***************************************************************************)
EXTENDS Integers, FiniteSets

CONSTANTS
    MaxLen,     \* bound: longest buffer, and largest array of into_chunks
    MaxViews,   \* bound: how many views the caller holds at a time
    N           \* the array length of into_chunks, try_into and InOut<Array>

ASSUME ViewsAssumption == {MaxLen, MaxViews, N} \subseteq Nat \ {0}

VARIABLES
    len,        \* the length of the buffers
    in_place,   \* input and output are the same buffer
    mem,        \* the memory: the input at 0, the output at 0 or behind it
    views,      \* the views the caller holds
    done,       \* history: the offsets of the message that were processed
    lost,       \* history: those whose view was dropped before that, or in a failed call
    result      \* how the last call ended: ok, err (a Result) or panic

vars == <<len, in_place, mem, views, done, lost, result>>

-----------------------------------------------------------------------------
Xor(a, b) == (a \ b) \cup (b \ a)
Message(o) == {<<"message", o>>}
Key(o) == {<<"key", o>>}
Stale(o) == {<<"stale", o>>}

OutBase == IF in_place THEN 0 ELSE len

(* A pair of pointers to n elements of `size` bytes, of which the first    *)
(* `pos` are already given away (iterators only).                          *)
View(kind, at, in_ptr, out_ptr, size, n, pos) ==
    [kind |-> kind, at |-> at, in_ptr |-> in_ptr, out_ptr |-> out_ptr,
     size |-> size, len |-> n, pos |-> pos]
Buf(at, in_ptr, out_ptr, size, n) == View("buf", at, in_ptr, out_ptr, size, n, 0)
One(at, in_ptr, out_ptr, size) == View("one", at, in_ptr, out_ptr, size, 1, 0)

(* The offsets a view still gives access to, for the caller and in memory. *)
Extent(v) == v.size * v.pos .. v.size * v.len - 1
Offsets(v) == {v.at + i : i \in Extent(v)}
InCells(v) == {v.in_ptr + i : i \in Extent(v)}
OutCells(v) == {v.out_ptr + i : i \in Extent(v)}

-----------------------------------------------------------------------------
Init ==
    /\ len = 0 /\ in_place = TRUE
    /\ mem = [a \in 0..2*MaxLen-1 |-> Stale(a)]
    /\ views = {} /\ done = {} /\ lost = {}
    /\ result = "ok"

Start(place, n, v) ==
    /\ len' = n
    /\ in_place' = place
    /\ mem' = [a \in 0..2*MaxLen-1 |-> IF a < n THEN Message(a) ELSE Stale(a)]
    /\ views' = {v}
    /\ done' = {} /\ lost' = {}
    /\ result' = "ok"

Refuse(how) == result' = how /\ UNCHANGED <<len, in_place, mem, views, done, lost>>

(* From<&mut [T]>, and from_mut when n = 1.                                *)
FromSlice(n) == views = {} /\ Start(TRUE, n, Buf(0, 0, 0, 1, n))

(* new, and from_ref_mut when both are 1.                                  *)
New(in_len, out_len) ==
    /\ views = {}
    /\ IF in_len # out_len
       THEN Refuse("err")
       ELSE Start(FALSE, in_len, Buf(0, 0, in_len, 1, in_len))

(* InOut: From<&mut T> and From<(&T, &mut T)>, T an array of N bytes.      *)
FromArray(place) ==
    /\ views = {} /\ N <= MaxLen
    /\ Start(place, N, One(0, 0, IF place THEN 0 ELSE N, N))

-----------------------------------------------------------------------------
(* Calls that consume a view and return others.                            *)
Become(v, new) ==
    /\ views' = (views \ {v}) \cup new
    /\ Cardinality(views') <= MaxViews
    /\ result' = "ok"
    /\ UNCHANGED <<len, in_place, mem, done, lost>>
Lose(v, how) ==
    /\ views' = views \ {v}
    /\ lost' = lost \cup (Offsets(v) \ done)
    /\ result' = how
    /\ UNCHANGED <<len, in_place, mem, done>>

SplitAtUnchecked(v, mid) ==    \* a bug: mid is not tested
    /\ v.kind = "buf"
    /\ Become(v, {Buf(v.at, v.in_ptr, v.out_ptr, v.size, mid),
                  Buf(v.at + v.size * mid, v.in_ptr + v.size * mid, v.out_ptr + v.size * mid,
                      v.size, v.len - mid)})
SplitAtOverlaps(v, mid) ==    \* a bug: the first part keeps its length
    /\ v.kind = "buf" /\ mid <= v.len
    /\ Become(v, {v, Buf(v.at + v.size * mid, v.in_ptr + v.size * mid,
                         v.out_ptr + v.size * mid, v.size, v.len - mid)})
SplitAt(v, mid) ==
    /\ v.kind = "buf"
    /\ IF mid > v.len
       THEN Lose(v, "panic")
       ELSE Become(v, {Buf(v.at, v.in_ptr, v.out_ptr, v.size, mid),
                       Buf(v.at + v.size * mid, v.in_ptr + v.size * mid, v.out_ptr + v.size * mid,
                           v.size, v.len - mid)})

IntoChunksForgetsOut(v) ==    \* a bug: the tail's output pointer counts chunks
    LET chunks == v.len \div N
    IN  /\ v.kind = "buf"
        /\ v.size * N <= MaxLen
        /\ Become(v, {Buf(v.at, v.in_ptr, v.out_ptr, v.size * N, chunks),
                      Buf(v.at + v.size * N * chunks, v.in_ptr + v.size * N * chunks,
                          v.out_ptr + v.size * chunks, v.size, v.len - N * chunks)})
IntoChunks(v) ==
    LET chunks == v.len \div N
        tail_pos == N * chunks
    IN  /\ v.kind = "buf"
        /\ v.size * N <= MaxLen
        /\ Become(v, {Buf(v.at, v.in_ptr, v.out_ptr, v.size * N, chunks),
                      Buf(v.at + v.size * tail_pos, v.in_ptr + v.size * tail_pos,
                          v.out_ptr + v.size * tail_pos, v.size, v.len - tail_pos)})

(* InOutBuf::try_into and InOut::into_buf: N elements as one, and back.    *)
TryInto(v) ==
    /\ v.kind = "buf"
    /\ IF v.len = N
       THEN Become(v, {One(v.at, v.in_ptr, v.out_ptr, v.size * N)})
       ELSE Lose(v, "err")
IntoBuf(v) ==
    /\ v.kind = "one" /\ v.size % N = 0
    /\ Become(v, {Buf(v.at, v.in_ptr, v.out_ptr, v.size \div N, N)})

IntoIter(v) == v.kind = "buf" /\ Become(v, {[v EXCEPT !.kind = "iter"]})

Elem(v, i) == One(v.at + v.size * i, v.in_ptr + v.size * i, v.out_ptr + v.size * i, v.size)

(* Iterator::next; at the end the iterator is dropped.                     *)
IterNextEarly(v) ==    \* a bug: ends one element early
    /\ v.kind = "iter"
    /\ Become(v, IF v.pos + 1 >= v.len THEN {} ELSE {Elem(v, v.pos), [v EXCEPT !.pos = @ + 1]})
IterNext(v) ==
    /\ v.kind = "iter"
    /\ Become(v, IF v.pos = v.len THEN {} ELSE {Elem(v, v.pos), [v EXCEPT !.pos = @ + 1]})

-----------------------------------------------------------------------------
(* Processing.  The caller does not process a byte twice; the data it XORs *)
(* is the key of the place its view stands for.                            *)
Fresh(v) == Offsets(v) # {} /\ Offsets(v) \cap done = {}

(* The loop of InOutBuf::xor_in2out: byte by byte, reading through in_ptr  *)
(* what earlier rounds may have written through out_ptr.                   *)
XorLoop(v) ==
    LET round[i \in 0..v.len] ==
            IF i = 0 THEN mem
            ELSE [round[i-1] EXCEPT ![v.out_ptr + i - 1] =
                     Xor(round[i-1][v.in_ptr + i - 1], Key(v.at + i - 1))]
    IN  round[v.len]

(* InOut::xor_in2out reads the whole array before it writes one byte.      *)
XorArray(v) ==
    [a \in DOMAIN mem |->
        LET i == a - v.out_ptr
        IN  IF i \in 0..v.size-1 THEN Xor(mem[v.in_ptr + i], Key(v.at + i)) ELSE mem[a]]

Processed(v) == done' = done \cup Offsets(v) /\ result' = "ok"

(* xor_in2out of a buffer of bytes with data of length n.                  *)
XorBuf(v, n) ==
    /\ v.kind = "buf" /\ v.size = 1 /\ Fresh(v)
    /\ IF n # v.len
       THEN Refuse("panic")
       ELSE /\ mem' = XorLoop(v)
            /\ Processed(v)
            /\ UNCHANGED <<len, in_place, views, lost>>

(* xor_in2out of an array; through clone_in and get_out of a single byte.  *)
XorOne(v) ==
    /\ v.kind = "one" /\ Fresh(v)
    /\ mem' = XorArray(v)
    /\ Processed(v)
    /\ UNCHANGED <<len, in_place, views, lost>>

(* get(i) of a buffer, or of an array, and the same on the element.        *)
XorElem(e) ==
    /\ Fresh(e)
    /\ mem' = XorArray(e)
    /\ Processed(e)
    /\ UNCHANGED <<len, in_place, views, lost>>
Get(v, i) ==
    /\ v.kind = "buf"
    /\ IF i >= v.len THEN Refuse("panic") ELSE XorElem(Elem(v, i))
GetOfArray(v, i) ==
    /\ v.kind = "one" /\ v.size % N = 0
    /\ IF i >= N
       THEN Refuse("panic")
       ELSE XorElem(Elem([v EXCEPT !.size = v.size \div N], i))

(* The caller drops a view, and with it what it has not processed.         *)
Drop(v) == Lose(v, "ok")

-----------------------------------------------------------------------------
Next ==
    \/ \E n \in 0..MaxLen : FromSlice(n)
    \/ \E in_len, out_len \in 0..MaxLen : New(in_len, out_len)
    \/ \E place \in BOOLEAN : FromArray(place)
    \/ \E v \in views :
          \/ \E mid \in 0..MaxLen+1 : SplitAt(v, mid)
          \/ IntoChunks(v)
          \/ TryInto(v)
          \/ IntoBuf(v)
          \/ IntoIter(v)
          \/ IterNext(v)
          \/ \E n \in {v.len, v.len + 1} : XorBuf(v, n)
          \/ XorOne(v)
          \/ \E i \in 0..v.len : Get(v, i)
          \/ \E i \in 0..N : GetOfArray(v, i)
          \/ Drop(v)

Spec == Init /\ [][Next]_vars

-----------------------------------------------------------------------------
(* Every view has a length and pointers of its type.                       *)
TypeOK ==
    /\ len \in 0..MaxLen
    /\ in_place \in BOOLEAN
    /\ DOMAIN mem = 0..2*MaxLen-1
    /\ \A v \in views :
          /\ v.kind \in {"buf", "one", "iter"}
          /\ v.in_ptr \in Nat /\ v.out_ptr \in Nat
          /\ v.len \in Nat /\ v.size \in Nat \ {0} /\ v.pos \in 0..v.len
    /\ done \subseteq 0..len-1 /\ lost \subseteq 0..len-1
    /\ result \in {"ok", "err", "panic"}

(* "Input and output slices are either the same or do not overlap": of one *)
(* view; no two views of split_at, into_chunks or the iterator share a     *)
(* byte; and none reaches out of the buffers it was made from.             *)
ViewsDisjoint ==
    /\ \A v \in views :
          /\ InCells(v) = OutCells(v) \/ InCells(v) \cap OutCells(v) = {}
          /\ InCells(v) \subseteq 0..len-1
          /\ OutCells(v) \subseteq OutBase..OutBase+len-1
    /\ \A v, w \in views : v # w => OutCells(v) \cap (OutCells(w) \cup InCells(w)) = {}

(* However the buffer was cut up and in whatever order the parts were      *)
(* processed: a processed byte of the output is the message's byte XORed   *)
(* with the key of the same place, all other bytes are as they were, and a *)
(* separate input is untouched.                                            *)
EveryByteXored ==
    /\ \A o \in 0..len-1 :
          mem[OutBase + o] =
              IF o \in done THEN Xor(Message(o), Key(o))
              ELSE IF in_place THEN Message(o) ELSE Stale(OutBase + o)
    /\ \A a \in DOMAIN mem \ (OutBase..OutBase+len-1) :
          mem[a] = IF a < len THEN Message(a) ELSE Stale(a)

(* No part of the buffer falls between two views: a byte that is not       *)
(* processed yet is in reach of a view, unless the caller dropped the view *)
(* or a call that takes the view failed.                                   *)
NothingLeftOut ==
    0..len-1 \subseteq done \cup lost \cup UNION {Offsets(v) : v \in views}
=============================================================================
