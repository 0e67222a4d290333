------------------------------- MODULE Blobby -------------------------------
(***************************************************************************)
(* blobby: a sequence of binary blobs as one byte string.  Numbers are     *)
(* git-flavoured variable-length quantities of up to 4 bytes; blobs that   *)
(* occur more than once are stored in an index at the front and referred   *)
(* to by number.                                                           *)
(*                                                                         *)
(* Base is 128 in the code (7 value bits and NEXT_MASK); a small Base      *)
(* reaches quantities of every length with few bytes.                      *)
(***************************************************************************)
EXTENDS Integers, Sequences, SequencesExt, FiniteSets

CONSTANTS
    Base,       \* NEXT_MASK: what the value bits of a byte count to
    Blobs,      \* the blobs the caller encodes
    MaxBlobs,   \* bound: how many of them at a time
    MaxData,    \* bound: length of data that encode_blobs did not make
    MaxItems,   \* bound: calls of next on one iterator
    Groups      \* the sizes of groups: 1 for BlobIterator, N for BlobNIterator

u8 == 0..2*Base-1

ASSUME BlobbyAssumption ==
    /\ Base \in Nat \ {0, 1}
    /\ Blobs \subseteq Seq(u8)
    /\ MaxBlobs \in Nat /\ MaxData \in Nat /\ MaxItems \in Nat
    /\ Groups \subseteq Nat \ {0}

VARIABLES
    phase,      \* how far the caller is: start, data, reading, or the end
    blobs,      \* history: what was encoded
    encoded,    \* history: data comes from encode_blobs
    idx_len,    \* the index length encode_blobs returned
    data,       \* the encoded bytes
    rest,       \* BlobIterator::data, the bytes behind the index
    dedup,      \* BlobIterator::dedup
    pos,        \* BlobIterator::pos
    group,      \* the size of the groups that are read
    items       \* history: what next() returned

vars == <<phase, blobs, encoded, idx_len, data, rest, dedup, pos, group, items>>

Errors == {"InvalidIndex", "UnexpectedEnd", "NotEnoughElements"}

-----------------------------------------------------------------------------
(* Variable-length quantities.                                             *)
HasNext(b) == b >= Base
Val(b) == b % Base

(* d from position p: the result, the value, and the new position.         *)
read_vlq(d, p) ==
    LET more(i) == p + i < Len(d) /\ HasNext(d[p + i + 1])
        last == CHOOSE i \in 0..3 : (i = 3 \/ ~more(i)) /\ \A j \in 0..i-1 : more(j)
        val[i \in 0..3] ==
            IF i = 0 THEN Val(d[p + 1]) ELSE (val[i-1] + 1) * Base + Val(d[p + i + 1])
    IN  IF p + last >= Len(d)
        THEN [res |-> "UnexpectedEnd", val |-> 0, pos |-> Len(d)]
        ELSE IF more(last)
        THEN [res |-> "InvalidVlq", val |-> 0, pos |-> p + 4]
        ELSE [res |-> "ok", val |-> val[last], pos |-> p + last + 1]

(* The value left when i bytes are written, from the last to the first.    *)
Left(v, i) ==
    LET left[j \in 0..4] ==
            IF j = 0 THEN v ELSE (left[j-1] - (IF j = 1 THEN 0 ELSE 1)) \div Base
    IN  left[i]
Fits(v) == \E i \in 1..4 : Left(v, i) = 0    \* else "integer is too big"
encode_vlqUnbiased(v) ==    \* a bug: 1 is not subtracted
    LET size == CHOOSE k \in 1..4 : Left(v, k) = 0
    IN  [j \in 1..size |-> IF j = size THEN Val(v) ELSE Base + Val(Left(v, size - j))]
encode_vlq(v) ==
    LET size == CHOOSE k \in 1..4 : Left(v, k) = 0
    IN  [j \in 1..size |-> IF j = size THEN Val(v)
                           ELSE Base + Val(Left(v, size - j) - 1)]

-----------------------------------------------------------------------------
(* encode_blobs.                                                           *)
Count(bs, b) == Cardinality({i \in DOMAIN bs : bs[i] = b})
Special(b) == IF b = <<0>> THEN 2 ELSE IF b = <<1>> THEN 1 ELSE 0

(* The order of Rust's slices, which BTreeMap iterates in.                 *)
Less(a, b) ==
    \E i \in 0..Len(a) :
        /\ i < Len(b)
        /\ SubSeq(a, 1, i) = SubSeq(b, 1, i)
        /\ i = Len(a) \/ a[i+1] < b[i+1]

(* The stable sort by (special, count), reversed.                          *)
Before(bs, a, b) ==
    \/ Special(a) > Special(b)
    \/ Special(a) = Special(b) /\ Count(bs, a) > Count(bs, b)
    \/ Special(a) = Special(b) /\ Count(bs, a) = Count(bs, b) /\ Less(b, a)

Index(bs) ==
    LET repeated == {b \in ToSet(bs) : b # <<>> /\ Count(bs, b) > 1}
    IN  [i \in 1..Cardinality(repeated) |->
            CHOOSE b \in repeated :
                Cardinality({c \in repeated : Before(bs, c, b)}) = i - 1]

(* The number an entry starts with: a reference or a length.               *)
EntryNumberOneBased(idx, b) ==    \* a bug: dup_pos starts at 1
    IF \E i \in DOMAIN idx : idx[i] = b
    THEN 2 * (CHOOSE i \in DOMAIN idx : idx[i] = b) + 1
    ELSE 2 * Len(b)
EntryNumber(idx, b) ==
    IF \E i \in DOMAIN idx : idx[i] = b
    THEN 2 * ((CHOOSE i \in DOMAIN idx : idx[i] = b) - 1) + 1
    ELSE 2 * Len(b)
Entry(idx, b) ==
    encode_vlq(EntryNumber(idx, b)) \o (IF b \in ToSet(idx) THEN <<>> ELSE b)

Encodable(idx, bs) ==
    /\ Fits(Len(idx))
    /\ \A i \in DOMAIN idx : Fits(Len(idx[i]))
    /\ \A i \in DOMAIN bs : Fits(EntryNumber(idx, bs[i]))

encode_blobs(idx, bs) ==
    encode_vlq(Len(idx))
        \o FlattenSeq([i \in DOMAIN idx |-> encode_vlq(Len(idx[i])) \o idx[i]])
        \o FlattenSeq([i \in DOMAIN bs |-> Entry(idx, bs[i])])

-----------------------------------------------------------------------------
Init ==
    /\ phase = "start"
    /\ blobs = <<>> /\ encoded = FALSE /\ idx_len = 0 /\ data = <<>>
    /\ rest = <<>> /\ dedup = <<>> /\ pos = 0 /\ group = 1 /\ items = <<>>

(* encode_blobs of bs.                                                     *)
Encodes(bs) ==
    LET idx == Index(bs)
    IN  /\ blobs' = bs
        /\ IF Encodable(idx, bs)
           THEN /\ phase' = "data" /\ encoded' = TRUE
                /\ idx_len' = Len(idx) /\ data' = encode_blobs(idx, bs)
           ELSE phase' = "panic" /\ UNCHANGED <<encoded, idx_len, data>>
        /\ UNCHANGED <<rest, dedup, pos, group, items>>

Encode(bs) == phase = "start" /\ Encodes(bs)

(* Data from elsewhere, cut off or wrong.                                  *)
Foreign(d) ==
    /\ phase = "start"
    /\ phase' = "data" /\ data' = d
    /\ UNCHANGED <<blobs, encoded, idx_len, rest, dedup, pos, group, items>>

-----------------------------------------------------------------------------
(* Op of x, in a form in which TLC evaluates x once.                       *)
Once(Op(_), x) == CHOOSE y \in {Op(v) : v \in {x}} : TRUE

(* The loop of BlobIterator::new: one entry, and all n from position p.    *)
ReadIndexEntry(before) ==
    LET m == read_vlq(data, before.pos)
        end == m.pos + m.val
    IN  IF ~before.ok \/ m.res # "ok" \/ end > Len(data)
        THEN [before EXCEPT !.ok = FALSE]
        ELSE [ok |-> TRUE, pos |-> end,
              entries |-> Append(before.entries, SubSeq(data, m.pos + 1, end))]
ReadIndex(n, p) ==
    LET load[i \in 0..n] ==
            IF i = 0 THEN [ok |-> TRUE, pos |-> p, entries |-> <<>>]
            ELSE Once(ReadIndexEntry, load[i-1])
    IN  load[n]

New(k) ==
    LET n == read_vlq(data, 0)
    IN  /\ phase = "data"
        /\ group' = k
        /\ \E index \in {ReadIndex(n.val, n.pos)} :
           IF n.res # "ok"
           THEN phase' = "refused" /\ UNCHANGED <<rest, dedup>>
           ELSE IF ~index.ok
           THEN phase' = "panic" /\ UNCHANGED <<rest, dedup>>
           ELSE /\ phase' = "reading"
                /\ rest' = SubSeq(data, index.pos + 1, Len(data))
                /\ dedup' = index.entries
        /\ UNCHANGED <<blobs, encoded, idx_len, data, pos, items>>

(* Where an error leaves the iterator that had come to p.                  *)
error_blockForgotten(p) == p    \* a bug: reads on behind the error
error_blockRewinds(p) == IF p < Len(rest) THEN 0 ELSE p    \* a bug: begins anew
error_block(p) == Len(rest)

(* BlobIterator::next at position p.                                       *)
ReadUnchecked(p) ==    \* a bug: the length of the blob is not tested
    LET n == read_vlq(rest, p)
        v == n.val \div 2
    IN  IF p >= Len(rest) THEN [res |-> "None", blob |-> <<>>, pos |-> p]
        ELSE IF n.res # "ok" THEN [res |-> "panic", blob |-> <<>>, pos |-> n.pos]
        ELSE IF n.val % 2 = 1 /\ v >= Len(dedup)
        THEN [res |-> "InvalidIndex", blob |-> <<>>, pos |-> error_block(n.pos)]
        ELSE IF n.val % 2 = 1
        THEN [res |-> "ok", blob |-> dedup[v + 1], pos |-> n.pos]
        ELSE [res |-> "ok", blob |-> <<>>, pos |-> n.pos + v]
Read(p) ==
    LET n == read_vlq(rest, p)
        v == n.val \div 2
    IN  IF p >= Len(rest) THEN [res |-> "None", blob |-> <<>>, pos |-> p]
        ELSE IF n.res # "ok" THEN [res |-> "panic", blob |-> <<>>, pos |-> n.pos]
        ELSE IF n.val % 2 = 1
        THEN IF v >= Len(dedup)
             THEN [res |-> "InvalidIndex", blob |-> <<>>, pos |-> error_block(n.pos)]
             ELSE [res |-> "ok", blob |-> dedup[v + 1], pos |-> n.pos]
        ELSE IF n.pos + v > Len(rest)
             THEN [res |-> "UnexpectedEnd", blob |-> <<>>, pos |-> error_block(n.pos + v)]
             ELSE [res |-> "ok", blob |-> SubSeq(rest, n.pos + 1, n.pos + v), pos |-> n.pos + v]

(* BlobNIterator::next: one more blob, and `group` of them; BlobIterator's *)
(* own when it is 1.                                                       *)
ReadNext(before) ==
    LET r == Read(before.pos)
    IN  IF before.res # "ok" THEN before
        ELSE IF r.res = "ok"
        THEN [res |-> "ok", blobs |-> Append(before.blobs, r.blob), pos |-> r.pos]
        ELSE IF r.res = "None" /\ before.blobs # <<>>
        THEN [res |-> "NotEnoughElements", blobs |-> <<>>, pos |-> error_block(r.pos)]
        ELSE [res |-> r.res, blobs |-> <<>>, pos |-> r.pos]
ReadGroup ==
    LET fill[i \in 0..group] ==
            IF i = 0 THEN [res |-> "ok", blobs |-> <<>>, pos |-> pos]
            ELSE Once(ReadNext, fill[i-1])
    IN  fill[group]

IterNext ==
    /\ phase \in {"reading", "ended"}
    /\ \E r \in {ReadGroup} :
          /\ pos' = r.pos
          /\ IF r.res \in {"None", "panic"}
             THEN phase' = (IF r.res = "None" THEN "ended" ELSE "panic") /\ UNCHANGED items
             ELSE items' = Append(items, [res |-> r.res, blobs |-> r.blobs]) /\ UNCHANGED phase
    /\ UNCHANGED <<blobs, encoded, idx_len, data, rest, dedup, group>>

(* The caller is done, and takes up other data.                            *)
Close ==
    /\ phase \in {"ended", "refused", "panic"}
    /\ phase' = "start"
    /\ blobs' = <<>> /\ encoded' = FALSE /\ idx_len' = 0 /\ data' = <<>>
    /\ rest' = <<>> /\ dedup' = <<>> /\ pos' = 0 /\ group' = 1 /\ items' = <<>>

Next ==
    \/ \E bs \in SeqOf(Blobs, MaxBlobs) : Encode(bs)
    \/ \E d \in SeqOf(u8, MaxData) : Foreign(d)
    \/ \E k \in Groups : New(k)
    \/ Len(items) < MaxItems /\ IterNext
    \/ Close

Spec == Init /\ [][Next]_vars

-----------------------------------------------------------------------------
(* The iterator stays inside its data, every blob is a byte string, and a  *)
(* group that is returned is complete.                                     *)
TypeOK ==
    /\ phase \in {"start", "data", "reading", "ended", "refused", "panic"}
    /\ pos \in 0..Len(rest)
    /\ \A i \in DOMAIN dedup : \A j \in DOMAIN dedup[i] : dedup[i][j] \in u8
    /\ \A i \in DOMAIN items :
          \/ items[i].res \in Errors /\ items[i].blobs = <<>>
          \/ items[i].res = "ok" /\ Len(items[i].blobs) = group

(* What encode_blobs wrote, the iterators read back: new accepts it and    *)
(* finds the index encode_blobs announced, next returns the blobs in       *)
(* order, whole groups of them, and complains about an incomplete last     *)
(* group and nothing else.                                                 *)
RoundTrip ==
    LET read == FlattenSeq([i \in DOMAIN items |-> items[i].blobs])
    IN  encoded =>
           /\ phase \in {"data", "reading", "ended"}
           /\ phase # "data" => Len(dedup) = idx_len
           /\ IsPrefix(read, blobs)
           /\ \A i \in DOMAIN items : items[i].res \in {"ok", "NotEnoughElements"}
           /\ (\E i \in DOMAIN items : items[i].res # "ok") => Len(blobs) % group # 0
           /\ phase = "ended" =>
                 /\ Len(read) = group * (Len(blobs) \div group)
                 /\ Len(items) = (Len(blobs) + group - 1) \div group

(* An error is the last thing an iterator returns: it never resumes in the *)
(* middle of a blob, and no group mixes blobs from before and after it.    *)
ErrorIsLast ==
    \A i \in DOMAIN items : items[i].res \in Errors => i = Len(items)

(* read_vlq and encode_vlq are inverse: every value that fits is read back *)
(* in as many bytes, and no two byte strings stand for the same value.     *)
VlqExact ==
    /\ phase = "start" =>
          \A v \in 0..Base * (1 + Base * (1 + Base * (1 + Base))) - 1 :
              LET r == read_vlq(encode_vlq(v), 0)
              IN  Fits(v) /\ r.res = "ok" /\ r.val = v /\ r.pos = Len(encode_vlq(v))
    /\ phase = "data" =>
          \A p \in 0..Len(data)-1 :
              LET r == read_vlq(data, p)
              IN  r.res = "ok" => encode_vlq(r.val) = SubSeq(data, p + 1, r.pos)
=============================================================================
