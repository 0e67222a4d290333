# A TLA+ development for the RustCrypto utility crates

This directory holds TLA+ models of the crates in this repository that keep
state or carry an algorithm that is easy to get wrong, TLC configurations that
check them on small instances, and TLAPS proofs that hold for every value of
the constants.  `PROJECT.json` records, for every definition, the source lines
it stands for.

## 1. The system and its parts

The repository is a collection of small crates.  Most are independent; the
interaction that matters is the path of a message:

    caller -> block-buffer (digests)      cuts a byte stream into blocks
    caller -> inout + block-padding       pads a message and walks over its blocks,
                                          in place or from one buffer to another
    any of them -> cpufeatures            which implementation may run on this CPU
    wycheproof2blb -> blobby -> tests     test vectors; hex-literal writes others
    zeroize_derive -> zeroize             generated code calls the fields' zeroize

| Crate | State it keeps | Operations | What is hard | What makes it correct |
|---|---|---|---|---|
| block-buffer, `BlockBuffer` | a block, a cursor (for `Eager` inside the block's last byte) | `new`, `try_new`, `digest_blocks`, `reset`, `pad_with_zeros`, `set`, `digest_pad` and its three wrappers, `serialize`, `deserialize` | off-by-one at a full block; the cursor overwrites data; stale bytes; a panicking compression function | nothing of the stream is lost, doubled or reordered; the cursor is always valid; images are canonical and load |
| block-buffer, `ReadBuffer` | a block, the cursor inside its first byte | `read`, `serialize`, `deserialize` | the cursor overwrites generated data; reads that end at a block's end; a panicking generator | each generated byte is handed out once, in order, and no block is generated early |
| block-padding | none | `pad`, `unpad`, `raw_pad`, `raw_unpad`, `unpad_blocks`, six schemes | counts of 0 or above the block size, empty input | unpad undoes pad; a strict scheme accepts only what it would have written |
| inout, `InOutBufReserved`, `PaddedInOutBuf` | two raw pointers, two lengths, the padded tail | `from_mut_slice`, `from_slices`, `into_padded_blocks`, `get_blocks`, `get_tail_block`, `into_out` | aliasing of input and output, blocks taken in any order, output too short | a block's input is untouched until it is processed; nothing outside the blocks is written |
| inout, `InOut`, `InOutBuf` | two raw pointers and a length | `split_at`, `into_chunks`, iterators, `xor_in2out` | disjointness of views | views are disjoint and cover the buffer |
| cpufeatures | one relaxed `AtomicU8` per `new!` | `init_get`, `init`, `get`, `InitToken::get` | racing initialisers, stale relaxed loads, a stopped thread | all answers agree; a token proves initialisation; nobody waits |
| blobby | an iterator over encoded data | `encode_blobs`, `Blob2Iterator` ... `Blob6Iterator` | VLQ boundaries, truncated data | decode undoes encode; after an error the iterator ends |
| hex-literal | a tokenizer state machine | `hex!` | comments that open and close on shared characters | the bytes are those of the text without comments |
| zeroize | the memory of the value | `zeroize` of every container, `Zeroizing` | capacity beyond the length; the order of zeroizing, dropping and overwriting | no byte of the value survives |
| zeroize_derive | what it has parsed | `derive(Zeroize)`, `derive(ZeroizeOnDrop)` with `drop`, `bound` and `skip` | attributes on three levels; structs that are their own variant; fields that erase themselves | every field that is not skipped is erased; an attribute where it is not documented is refused |
| wycheproof2blb | two files | `main`, eight generators | a number of blobs per case that no file states; two files that belong together | reading the blobs in groups gives the described cases |
| dbl, cmov | none | `dbl`, `inv_dbl`; `cmovz`, `cmovnz` | carries from word to word; masks; undefined register bits | they are multiplication and division by x, and `if` |
| collectable, hybrid-array, opaque-debug | none of their own | forwarding | nothing | |
| fiat-constify | a syntax tree | file to file | the meaning of Rust code | |

The hazards, each at its line and with the properties aimed at it, are the
`hazards` of `PROJECT.json`.

## 2. The modules

| Module | Models |
|---|---|
| `ByteArrays` | slice assignment, zeroing and slicing, used by all that follow |
| `BlockSizes` | the block size, and the data and bounds of the buffers' callers |
| `BlockBuffer` | `BlockBuffer<BS, K>` for both kinds |
| `BlockStream` | the abstract specification of `BlockBuffer`: a stream, and the blocks of it that were emitted |
| `BlockBufferUnwind` | `BlockBuffer` with a compression function that may panic while the caller catches the unwinding |
| `ReadBuffer` | `ReadBuffer<BS>` |
| `MCBlockBuffer` | an eager buffer, a lazy one and a reader side by side, for TLC; a behaviour uses one of them, and `LazyX` and `ReaderX` are the property `X` of those two |
| `BlockPadding` | the six padding schemes, as operators |
| `PaddedInOut` | composes `BlockPadding` with inout's `InOutBufReserved` and `PaddedInOutBuf` and a caller that seals and opens messages |
| `InOutViews` | inout's `InOut`, `InOutBuf` and its iterator, as views of one or two memories |
| `Blobby` | blobby's encoder and iterators |
| `Wycheproof`, `MCBlobby` | extends `Blobby` with wycheproof2blb, whose output is read by blobby's iterators; the instance of both for TLC |
| `HexLiteral`, `MCHexLiteral` | the `hex!` macro; its instances for TLC |
| `Zeroize` | zeroize's containers and `Zeroizing`, as memory cells |
| `ZeroizeDerive` | extends `Zeroize` with the derive macros, the code they generate and the values it runs on |
| `Words`, `Dbl`, `Cmov` | unsigned integers as bit vectors, and the two crates that compute with them, as operators |
| `CpuFeatures`, `MCCpuFeatures` | the module that `cpufeatures::new!` generates, run by several threads; its instance for TLC |
| `ByteArrays_proofs`, `BlockBuffer_proofs`, `ReadBuffer_proofs`, `PaddedInOut_proofs`, `InOutViews_proofs`, `Blobby_proofs`, `Zeroize_proofs`, `Standalone_proofs` | lemmas and theorems; `PaddedInOut_proofs` also those about `BlockPadding`, `Blobby_proofs` those about `Wycheproof`, `Zeroize_proofs` those about `ZeroizeDerive`; `Standalone_proofs` those about `CpuFeatures`, `Dbl`, `Cmov` and `HexLiteral`, on which nothing else builds |

An operator whose name and comment say "a bug" is a deliberately wrong variant
of the definition after it.  It is used by no specification: putting it in
place of that definition must break a property, which shows that the property
is able to fail.

### BlockBuffer

`buffer` and `pos` are the struct's fields; `GetPosOf`, `PosInBuffer`,
`PosField`, `Invariant` and `SplitBlocks` are the methods of `sealed.rs`.
`Eager` keeps its cursor in the last byte of `buffer`, so a state of an eager
buffer has no `pos` beyond the constant 0, exactly as `K::Pos = ()`.  Cursors
are stored modulo 256.  Every public method that writes is an action, with its
error or panic path (`Reject`).  `digest_blocks` is `DigestFits` or
`DigestSpills`, after the early return of the source.  `digest_pad` covers
`len128_padding_be`, `len64_padding_be` and `len64_padding_le`, which call it
with delimiter 0x80 and suffixes of 16 or 8 bytes.  `set` and `try_new` begin a
new stream whose first bytes are the ones given.

Two history variables state what a digest is about: `msg`, the bytes that were
to be digested (with the padding that `digest_pad` is documented to append,
computed from the length of the stream alone), and `delivered`, the bytes that
the compression function has seen.  `saved` is the last image together with the
data it was made from.

### BlockStream

No buffer and no cursor: `pending` and `emitted`.  Absorbing input emits as many
whole blocks as the length of the stream commands (`Cut`), and nothing depends
on how the input was cut into calls.  Either kind may end a stream with zeros
(`pad_with_zeros`), an eager one also with any tail (`digest_pad`).  `StreamSpec` in `BlockBuffer` maps
`emitted` to `delivered` and `pending` to `get_data()`.

### ReadBuffer

`buffer` is the struct's field.  The generator is the caller's closure: a read
may receive any bytes from it (`\E gen, last`), or the closure may panic, which
drops the slice being read into.  `stream` is what was generated, `out` what
was read.

### BlockPadding and PaddedInOut

The schemes are operators on blocks; a slice returned by `unpad` is given by
its length because it always starts at the block's first byte.  In
`PaddedInOut`, `out` is the memory behind `out_ptr`, and in place the input is
read from that same memory.  The caller may process the blocks and the tail in
any order.  Its block operation is not part of this repository; it is an
addition to each byte, which makes a processed block different from one still
to come.  A receiver inverts it and calls `unpad_blocks`, or calls
`unpad_blocks` on arbitrary text.

### InOutViews

A view is a pair of pointers, an element size and a length, as in the source,
plus `at`, the place in the message it stands for by its documentation.  A byte
is the set of the values XORed into it, so every byte of the memory tells where
it comes from and whether it was processed twice.  `InOutBuf::xor_in2out` is the
byte-by-byte loop of the source; `InOut::xor_in2out` reads the whole array
first.  The caller may hold several views, process them in any order and drop
them unprocessed (`lost`).

### Blobby

`read_vlq` and `encode_vlq` are the arithmetic of the source with 128 as the
constant `Base`.  `Index` is the sort and the reversal of `encode_blobs` as one
order.  The caller encodes a list or brings data of its own, opens it with an
iterator for groups of 1 (`BlobIterator`) to N, and calls `next`.  `new` and
`read` unwrap `read_vlq`: on data cut off inside a number they panic, and the
model does.

### Wycheproof

The tool runs in place of the caller that encodes a list: `Describe` is `main`
up to the descriptions file, with the generator it chose, `WriteBlobs` the rest,
`WriteFails` a file that cannot be written, after which the descriptions are
left without their blobs.  A suite is the parsed JSON.  What the assertions of
the generators compare (curve and hash, sizes in whole bytes, the algorithm's
name) is one Boolean each, and `case_result` stops the tool at a case that is
neither valid nor invalid.  A generator is a row of `Selected`, `CaseFields` and
`HasResult`.  A failure between two lines of the descriptions file is not told
apart from one before its first line.

### HexLiteral

One action per character: it passes the comment filter, then the digit reader,
then the token iterator, as one call of `next` does.  A token is a string
literal, a group without delimiters, which holds a stream of tokens, or
something else; the texts of the literals are chosen as they are read.
`IgnoreGroups` follows the code, which goes on iterating over the outer stream
after it has replaced it: an empty group, one with several tokens and a group in
a group are all the same to it.  `Meaning` is the reference: comments are cut out of the whole text, the
rest is read in pairs.  It shares nothing with the filter's states.  Outside a
comment only digits and white space mean something (`IsAllowed`): an asterisk
there passes the filter and is refused by the digit reader.

### Zeroize

A value is its memory cells.  A cell is blank or holds a secret, or it is an
element that owns memory of its own, with a secret in it (`owner`) or erased
(`emptied`).  Every `zeroize` is the sequence of the source: what is dropped
before it is erased, or freed while it holds a secret, sets `exposed`.  What the
standard library leaves behind when it moves a growing `Vec`, and what the
caller moves out, is not zeroize's to erase and does not count.

### ZeroizeDerive

`decl` is a type as it is written: a struct or an enum of two variants, the
variant of each field, attributes on the item, on variants and on fields, what
the fields' types implement, and the traits derived.  `Parse` folds the
attributes in the order of `ZeroizeAttrs::parse`; `generate_fields` says which
fields get a call.  A declaration panics in a macro, is rejected by rustc (two
`Drop` implementations; `zeroize()` on a type that has none), or compiles.  A
value of it then has the memory cells of `Zeroize` as fields, is used as these
allow, and `ItemZeroize` and `ItemDrop` run the generated code; `DropGlue` is
the drop of each field after it.  `SaysSkip` and `SaysErased` read the
declaration itself, not what was generated for it.

### Words, Dbl, Cmov

Bit i of a word is the coefficient of 2^i.  `dblWord` and `inv_dblWord` are one
word of the result for any of the three block sizes, where the source has a
function per size; `to_be_bytes` and `from_be_bytes` put the words' bytes in
the order of the block.  `cmov` has the casts and the halves of `lib.rs` and
`portable.rs` around the mask of `u64`.  2^64 occurs only as a modulus; the
operators take it as a parameter of which the proofs use that 256 divides it.
On aarch64 the condition's register holds bits above the byte that `asm!` does
not define: `upper` is any number.

### CpuFeatures

`written` is the modification order of `STORAGE`.  A relaxed load may return
any entry that is not older than what the thread has already read, written or
been told of by a thread that synchronised with it: `Ordering::Relaxed`
promises coherence of one location and nothing else.  `init_get` is two steps,
the load and (when it found `UNINIT`) detection with the store, so that any
number of threads may be between them.  On macOS detection asserts what
`sysctlbyname` returned, and may unwind instead of storing (`InitPanics`).  A token may be sent to another thread
over a synchronising channel.  `build` and `cpu` range over targets (x86, SGX,
aarch64 Linux, aarch64 macOS, aarch64 elsewhere, Miri), the features enabled at
compile time and the capability bits present.

## 3. The runs

| Run | Instance | Shows |
|---|---|---|
| `block_buffers` | blocks of 3 bytes, bytes {0, 7}, inputs and reads up to 5, streams up to 7; one eager buffer, lazy buffer or reader in use | for the eager buffer and the reader, with a panicking generator: cursor valid, stream conserved, images load and are canonical; for both kinds of buffer: stream conserved, the stream specification is implemented; the rest is proved for both kinds |
| `padded_inout` | blocks of 2 bytes, bytes {0, 2, 128}, messages up to 4, up to 2 bytes of room | blocks independent of order and aliasing, memory outside untouched, unpadding inverts padding, strict unpadding is exact |
| `inout_views` | buffers up to 4 bytes, arrays of 2, up to 3 views at a time | views stay inside and apart, every processed byte is right, nothing falls between views |
| `blobby` | values of 1 bit per byte, lists of up to 3 of 7 blobs, foreign data up to 5 bytes, groups of 1 to 6; 109 suites of up to two cases, all generators, all key sizes or 128 bits | decoding undoes encoding, errors end the iteration, quantities have one encoding, the tool's cases are read back, reading ends |
| `hex_literal` | up to 2 tokens, 6 characters of 7 kinds, seven tokens: a string, another token, groups with nothing, with one or two strings, with a string and another token, with a group | the bytes are what the texts mean, also in a group, other texts are refused, the tokens form an array |
| `zeroize` | two variables of up to 4 cells; types of two fields of one cell (a `Vec` or an `Option` of an array) with up to 2 attributes | secrets are erased, live owners are not overwritten, `derive(Zeroize)` refuses what it must and nothing else, `derive(ZeroizeOnDrop)` skip twice, the generated code erases every field not skipped |
| `cpufeatures` | three threads, 18 builds, every set of capability bits | answers agree, tokens prove initialisation, no thread detects again, calls return |
| `blockbuffer_unwind` | blocks of 3 bytes, bytes {0, 7}, inputs up to 4, streams up to 7; eager | a violation, see 5 |
| `hex_block_comments`, `hex_groups` | as `hex_literal` | a violation each, see 5 |
| `zeroize_on_drop_skip` | as `zeroize`, with one attribute | a violation, see 5 |
| `cpufeatures_masks` | as `cpufeatures` | a violation, see 5 |

Why the bounds are enough.  A block of 3 bytes has a first, a middle and a last
position, so the byte under the cursor is neither always the only data byte nor
always the neighbour of both ends.  Inputs of 5 bytes can complete a started
block, fill the next and begin a third; reads of 5 take held bytes, a whole block
and a part of another; streams of 7 bytes have two whole blocks and a tail,
and suffixes of 0 to 5 bytes make `digest_pad` use one block, two, or panic.
The bytes are 0 and a byte larger than any cursor: 0 is what zeroizing leaves
and what images are tested for, and 7 read as a cursor is invalid.  In
`padded_inout` the byte 2 is a valid padding count for the block, 128 the
ISO 7816 delimiter, 0 the filler; foreign text also contains 1.  Messages of 0
to 4 bytes in buffers of 0 to 6 bytes cover too short, exact and ample.  Three
threads are one that stores, one that holds a stale load, and one that receives
a token.

Buffers of 4 bytes with arrays of 2 have chunks of chunks, and chunks with a
tail; 3 views are a view that is cut while another waits, or an iterator with
the element it gave.  With 1 value bit per byte, quantities of 1 to 4 bytes
begin at 0, 2, 6 and 14 and 30 is too big; the blobs have lengths 0 to 2, 7 and
15, so that all of these occur.  A case of the tool has up to 6 blobs, so the
suites of two cases make lists of 12, with indices of several entries that tie,
and with result bytes, the blobs `[0]` and `[1]` that the sort treats apart.
The suites have cases in one group and in two, groups of either key and nonce
size, every result, and every assertion failing.  14 items are more than any of
these data hold, so no reading stops at the bound.
6 characters hold a digit on either side of a block comment, or an unfinished
line comment in one literal and a byte in the next.  Two tokens are a group
beside a literal, or beside another group.  4 cells are a `Vec` that
grew twice.  Two attributes are what it takes to be refused as a duplicate, on
one place or on two; two fields are a field that is skipped beside one that is
not, in the same variant or in another.

Deadlock is checked in all runs; none of the systems can stop.

Fairness.  `CallsReturn` of `CpuFeatures` assumes weak fairness of `InitStore`
or `InitPanics` for one thread, `Runner`: a thread that is scheduled and past the
load goes on, because detection and store are straight-line code that stores or
unwinds.  All other threads may stop
anywhere, also between load and store.  `ReadingEnds` of `Wycheproof` assumes
weak fairness of `ReadOn`: a `for` loop over an iterator calls `next` until it
returns `None`.  Nothing else is fair: whether the caller opens data, or closes
it, is the caller's choice.

## 4. What is proved

With TLAPS, for every value of the constants that satisfies their assumptions
(block sizes 1 to 255, as `crypto_common::BlockSizes` admits; any data, any
bounds; any set of threads, any builds):

* `BlockBuffer_proofs`: `TypeCorrect`, `CursorValid`, `StreamSafe`,
  `ImagesLoad`, `ImagesCanonical`, all from `Invariance`: `Spec => []IInv`; and
  `ImplementsStream`: `Spec => StreamSpec`, the refinement of `BlockStream`.
* `ReadBuffer_proofs`: the same five for the reader.
* `PaddedInOut_proofs`: `PaddedTypeCorrect`, `BlocksStayInside`,
  `BlocksDoNotInterfere`, `UnpadRecovers`, `UnpadIsStrict`, from
  `PaddedInvariance`, for any message, any room, any order of the blocks.
* `InOutViews_proofs`: `ViewsTypeCorrect`, `ViewsAreDisjoint`,
  `EveryByteIsXored`, `NothingIsLeftOut`, from `ViewsInvariance`, for any buffer
  and array sizes and any number of views.
* `Blobby_proofs`: `BlobbyTypeCorrect`, `BlobbyErrorIsLast`, `BlobbyVlqExact`,
  `BlobbyRoundTrip` and `WycheproofCasesReadBack`, from `ToolInvariant`, for any
  base of the quantities above 1, any blobs and any data of the caller's own,
  groups of any size, any suites.
* `Zeroize_proofs`: `ZeroizeTypeCorrect` and `NoSecretSurvives` for any number
  of variables of any capacity; `DeriveTypeCorrect`, `DerivedZeroizeErases`,
  `DerivedNoSecretSurvives` and `DeriveAttributesChecked` for any declaration,
  with any finite number of fields and any number of attributes.
* `Standalone_proofs`, cpufeatures: `FeaturesTypeCorrect`, `Agreement`,
  `TokenProves` and the action property `CachedForGood`, all from
  `FeaturesInvariance`.
* `Standalone_proofs`, dbl and cmov: `CmovIsIf` and `VariantsAgree` for all
  integers of 8 to 128 bits and all conditions; `DblMultipliesByX` and
  `InvDblUndoesDbl` for all blocks of the three sizes.
* `Standalone_proofs`, hex-literal: `HexArrayWellFormed` for any tokens and
  groups and literals of any length, `HexLiteralsMeanBytes` for calls without
  groups or with one group around all their tokens, from `HexInvariant`.

`TypeCorrect` of the two buffers says what Rust's types say of their fields; it
is part of their invariants and has no run of its own.

The argument for the block buffer.  `IInv` is the conjunction of the stream part
(types, cursor valid, `delivered \o get_data() = msg`, whole blocks) and the
image part (the saved image is well formed, accepted and holds its data).  None
of these is inductive alone: that the stream is conserved needs the cursor to be
in range, a valid cursor after `Restore` needs the saved image to be accepted,
and the padding of `digest_pad`, which is defined from the length of `msg`, fits
the buffer only because `Len(msg)` and the cursor agree modulo the block size,
which follows from conservation and whole blocks.  Each action has its own
lemma.  Canonicity is then a state predicate that follows from `IInv`: an
accepted image is determined by its data.

The argument for the refinement.  Conservation says that `delivered` followed by
`get_data()` is the stream, and how much of it is delivered is a function of its
length (`Cut`).  So a step that appends to the stream emits what the abstract
one does, and the cursor and the bytes behind it are invisible.

The argument for the reader is of the same shape.  Every read moves the border
between what is handed out and what is held: the held bytes followed by the
generated ones are the bytes handed out followed by the new held ones
(`StreamStep`).  The cursor's byte is never among the held ones because the
cursor is at least 1, so writing it disturbs nothing.

The argument for padding.  `At(i)` is where block i begins, and every length is
`At(q) + r` for one q and one r below the block size (`Quotient`).  Whatever the
scheme, the padded message is the message and then `PadByte` at each place of
its last block (`PaddedMessageProps`), and `Pad` writes the same into the tail
(`PadProps`); so blocks and tail together read as the padded message, `Whole`.
`IInv` says where the blocks lie, that the tail is the last block of `Whole`,
and byte by byte what each block of the output holds: that of `Whole`,
transformed if it is done, untouched if it is in place and not done
(`BlocksOK`).  A write to one block keeps this because blocks are disjoint
(`WriteBlock`), and when all are done the receiver reads `Whole` (`Opened`).
Unpadding is then a question about one block: a reversible scheme finds where it
was padded (`UnpadFinds`), zero padding stops at most before zeros
(`UnpadZerosProps`), and a strict scheme accepts a block only if it is padded
where it says (`UnpadExact`).

The argument for the views.  Disjointness of memory cells is not inductive: it
is lost with the first split unless both pointers of a view are known to stand
for the same place.  `ViewsOK` says that they do (`in_ptr` is `at`, `out_ptr` is
`at` behind the start of the output) and that the view ends inside the buffer;
the places of different views are then disjoint (`OffsetsDisjoint`), each call
replaces a view by views of parts of it, and a step that processes a view
changes the bytes of its places and no others.

The argument for zeroize.  `ValuesOK` says that every value has the shape of its
kind (the live cells of a `Vec` come first, only live cells own memory) and that
the variables zeroized since their last write hold nothing.  One lemma for each
implementation then says that it erases all cells, those behind the length
included, and that nothing was dropped before it was erased.  For derived types,
`DeriveOK` adds that the code which runs is the one generated for the
declaration, and `GeneratedFields` that a field is in it exactly if no attribute
on the way to it says skip.

The argument for the attributes.  `DeclInv` says that the declaration in hand is
one a program can have (`DeclOK`) and that `item` is "panicked" exactly if a
macro panics about it; with `DeriveOK` and `~exposed` it is inductive.  What
parsing finds after k attributes is said without the fold (`Means`): `drop` and
`bound` are set if they occurred, and all is well if every attribute fits its
level and none of these two occurred twice (`ParseMeans`, by induction on k).
The attributes behind the item's own are those of the variants and fields,
whatever order `SetToSeq` lists the fields in (`OrderParts`), so what fits is
what the documentation allows (`ParseAllowed`); `FieldsChecked` is the same for
skip.  `derive(ZeroizeOnDrop)` alone does not parse, so for it `FieldsChecked` is
all there is.  That `drop` is found is also what `SecretsErased` needs for types with
`#[zeroize(drop)]`: their `Drop` then calls `zeroize` (`ZeroizeDropGlue`).

The argument for blobby.  `BlobbyInv` has the types, the order of events (an
ended iterator, and one that returned an error, is at the end of its data), and
for encoded data `Decodes`: the index that was read is the one that was written,
what is left is the entries of the blobs, and for some n the first n groups were
returned and the position is where the next group's entries begin, or the last
group was incomplete and was complained about (`Progress`).  Without the
position, that the next group is right does not follow from the groups before
it.  Three facts carry the steps: a quantity is read back from wherever it stands
in the data and nothing of what follows is touched (`ReadVlqCases`,
`VlqIsEncoded`; at most four bytes, one case for each length); the order of
`encode_blobs` lists every blob of the index once (`Ranks`), so a reference
finds its blob; and an entry read at its place is its blob (`ReadEntry`).
`ToolInv` adds that the descriptions are those of the call, and the blobs the
data of the described cases, all of one width; so groups of that width are the
cases.

The argument for hex-literal.  `HexInv` has four parts.  `HexArray`: commas are
at even positions and `is_punct` says whether one is due.  `HexQueue`: the texts
belong to the first tokens that `IgnoreGroups` leaves, and the queue is the rest.
`HexMeans`: between literals the array holds what the texts mean; inside one
(`Inside`) it holds what those before mean and the pairs of the digits so far,
and a nibble is pending if their number is odd.  What the digits so far have to
do with a text whose comments may not be closed yet is `Scanned`: the reference,
which works on whole texts, reads exactly these digits up to some place n, and
the filter's state says what begins at n: nothing, a slash, an open line or
block comment.  One more character keeps this whatever the state (`ScanChar`);
it fails only for two asterisks in a row in a block comment, which is the
disagreement of section 5, and is why these texts are set apart.

The argument for the cache.  `Cached` says that the modification order is
`UNINIT` followed by copies of the one value this build detects on this CPU;
`TokenHasSeen` that a token holder's view is past the first entry;
`DetectingHasBody` that only builds with run-time detection detect.  With these
a stale load can only be a load of entry 1, which no token holder can make.

The argument for dbl.  Everything is said of coefficients: `Coefficient(b, n, m)`
is the bit of the block that stands for x^m, which lies in word
`n \div 8 - 1 - m \div 64` at position `m % 64`.  Inside a word doubling moves it
by one; at a word's border it is the carry; at the top it comes back as `C`.
These cases together are the one equation of `DblMultipliesByX`, and the same
for `inv_dbl`; that the two undo each other follows from the equations, because
`C` has the coefficient of x^0, and because a block is determined by its
coefficients.

The argument for cmov.  `is_non_zero` shifts by `size_of::<u64>() - 1`, which is
7 and not 63; it is still right because a condition has 8 bits: if bit 7 of c is
not set and c is not 0, then -c has it (`IsNonZero`).  A mask is all ones or all
zeros, so `Masked` is an `if`, and casting to `u64` and back, or into halves and
together again, changes nothing.

`ByteArrays_proofs` has the facts about slices, concatenation, `FlattenSeq` and
division they use, and `NatSetInduction`: induction over the numbers stated for a set in place
of a predicate, which the provers can instantiate with a set comprehension.

Only model-checked:

* `CallsReturn` and `ReadingEnds`: liveness, beyond the prover;
* the five disagreements of section 5, which are counterexamples.

Every invariant and every action property of the passing runs is also a theorem,
and so is the refinement.

## 5. Disagreements met

* A block comment in a `hex!` literal that ends with two asterisks and a slash
  is not recognised as ended (`hex_block_comments`).
* `ignore_groups` in hex-literal says that it "Strips any outer
  `Delimiter::None` groups" and returns "the innermost" tokens
  (`lib.rs:63-65`).  It strips one level: a literal in a group in a group is
  refused (`hex_groups`).  Of literals that are in a group each, as
  `macro_rules!` may pass them, it keeps the last, and the others are lost
  without an error, although several literals "will be concatenated"
  (`lib.rs:32`); a literal in a group behind a bare one is refused.
  `GroupsStripped` rules all of these out, and the trace is one of them.
* `#[derive(ZeroizeOnDrop)]` with `#[zeroize(skip)]` on the struct itself
  compiles and erases nothing (`zeroize_on_drop_skip`).  Only `derive(Zeroize)`
  parses the attributes and says that skip "is not allowed on a `struct` or
  `enum`" (`derive lib.rs:246`).  Where only `ZeroizeOnDrop` is derived, skip on
  an enum, and `drop`, `bound` or malformed attributes anywhere, are ignored,
  although the documentation has skip on fields and variants only
  (`derive lib.rs:39-42`); `AttributesChecked` requires neither their refusal
  nor their acceptance.
* When the compression function unwinds, an eager buffer has a message byte
  where its cursor belongs, and the SAFETY comment of `get_pos` no longer holds
  if the caller keeps the buffer (`blockbuffer_unwind`).
* On aarch64 Linux a feature with two capability bits is reported when one is
  present (`cpufeatures_masks`).

Seen while modelling, without a run of their own:

* `InOutBufReserved::get_out_len` is documented "Get output buffer length."
  (`reserved.rs:91`) and returns `in_len`.
* The hkdf generator prints "Skipping case" for a case whose size is not the
  length of its output (`hkdf.rs:50-57`) and then keeps the case.
* `Cmov::cmovnz` is documented to move when the condition "is equal to zero"
  (`cmov lib.rs:31-33`); it moves when it is not.
* The aarch64 `cmov` compares a whole register although only a byte of it is
  defined (`aarch64.rs:24`); `VariantsAgree` says when that matters.

## 6. What is not modelled

Constant-time execution, volatile writes and compiler fences (not properties of
states); formatting and `Debug` output; pointer provenance.  `BlockBuffer::clone`
copies a state that is modelled.  A `new!` whose name is used by two crates is
two independent instances.  The trait bounds that zeroize_derive adds to generic
types decide which programs compile, not what compiled ones do.

Left out as whole crates, because there is nothing in them for a model to
follow: collectable's traits call the methods of the same names of `Vec`;
hybrid-array is type-level arithmetic and forwarding to core arrays;
opaque-debug prints a fixed text; fiat-constify rewrites Rust syntax trees, and
what it must preserve is the meaning of Rust.

## 7. State of the work

All crates with state or an algorithm of their own are modelled, and what the
runs check of safety is proved.  What could follow: the where-clauses of zeroize_derive
for generic types, and a second abstract specification, of `PaddedInOutBuf` as a
function from messages to blocks.
