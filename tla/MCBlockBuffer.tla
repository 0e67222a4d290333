--------------------------- MODULE MCBlockBuffer ---------------------------
(***************************************************************************)
(* The buffers of the block-buffer crate for TLC: an eager and a lazy      *)
(* BlockBuffer and a ReadBuffer, of which a caller uses one.  The eager    *)
(* one is BlockBuffer's own (Kind is "Eager").                             *)
(***************************************************************************)
EXTENDS BlockBuffer

VARIABLES
    used,   \* the buffer in use
    lazy_buffer, lazy_pos, lazy_result, lazy_saved, lazy_msg, lazy_delivered,
    read_buffer, read_result, read_saved, read_stream, read_out

Lazy == INSTANCE BlockBuffer WITH
    Kind <- "Lazy", buffer <- lazy_buffer, pos <- lazy_pos, result <- lazy_result,
    saved <- lazy_saved, msg <- lazy_msg, delivered <- lazy_delivered

Reader == INSTANCE ReadBuffer WITH
    buffer <- read_buffer, result <- read_result, saved <- read_saved,
    stream <- read_stream, out <- read_out

lazyVars == <<lazy_buffer, lazy_pos, lazy_result, lazy_saved, lazy_msg, lazy_delivered>>
readVars == <<read_buffer, read_result, read_saved, read_stream, read_out>>
allVars == <<used, vars, lazyVars, readVars>>

MCInit ==
    /\ used \in {"eager", "lazy", "reader"}
    /\ Init /\ Lazy!Init /\ Reader!Init

UseEager == used = "eager" /\ Next /\ UNCHANGED <<used, lazyVars, readVars>>
UseLazy == used = "lazy" /\ Lazy!Next /\ UNCHANGED <<used, vars, readVars>>
UseReader == used = "reader" /\ Reader!Next /\ UNCHANGED <<used, vars, lazyVars>>

MCSpec == MCInit /\ [][UseEager \/ UseLazy \/ UseReader]_allVars

-----------------------------------------------------------------------------
(* A lazy buffer, which keeps a full last block until more input comes,    *)
(* loses, repeats and reorders no byte of the stream either.               *)
LazyStreamConserved == Lazy!StreamConserved

(* The lazy buffer implements the lazy stream: the last block seen is      *)
(* never given to compress by digest_blocks.                               *)
LazyStreamSpec == Lazy!StreamSpec

(* The cursor of the reader is never 0 and never past the block, whatever  *)
(* bytes the generator put where the cursor lives.                         *)
ReaderPosNeverBreaksInvariant == Reader!PosNeverBreaksInvariant

(* read hands out the generator's bytes in order, each once, and generates *)
(* no block early, also when the generator panics.                         *)
ReaderStreamConserved == Reader!StreamConserved

(* Every image the reader's serialize wrote is accepted by deserialize and *)
(* leaves the same bytes to read.                                          *)
ReaderSavedImageLoads == Reader!SavedImageLoads

(* Readers with the same bytes left have the same image: it holds no byte  *)
(* that was read already.                                                  *)
ReaderImageIsCanonical == Reader!ImageIsCanonical
=============================================================================
