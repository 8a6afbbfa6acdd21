# A verification of xrif

xrif compresses cubes of images losslessly.  This directory models the library
in TLA+, checks the models with TLC on small instances, and proves the most
important results with TLAPS for instances of any size.

## The system

A program creates a *handle*, tells it the size and type of its cubes, chooses
three methods, and gives it three buffers, its own or ones the library
allocates.  `xrif_encode` then runs three stages over these buffers, and
`xrif_decode` runs their inverses in the opposite order:

    raw --difference (in place)--> raw --reorder--> reordered --compress--> raw or compressed

| Component | State | Operations | What makes it correct |
| --- | --- | --- | --- |
| Handle (`xrif.c`, `xrif.h`) | sizes, methods, three buffers with pointer, size and `own_` flag | new, set_size, configure, set_X, allocate_X, allocate, read_header, reset, delete | owned blocks are freed once and never lost; the caller's blocks are never freed; sizes never exceed blocks |
| Size arithmetic (`xrif_min_X_size`) | none | minimum size per buffer | every stage stays inside a buffer of the minimum size |
| Difference (`xrif_difference_*.c`) | the raw buffer, in place | difference and undifference by previous, first, pixel | the inverse gives back the cube; no result depends on thread timing |
| Reorder (`xrif.c`, lookup tables and their generators) | raw to reordered buffer | none, bytepack, renibble, bitpack and inverses | invertible; inside the buffers; no lost update between threads |
| Compress (`xrif.c`) | reordered to raw or compressed buffer, `compressed_size` | none, LZ4 and inverses | the whole reordered data is stored, or an error is returned |
| LZ4 block codec (`lz4/lz4.c`, vendored) | source, destination, hash table, decoder position | `LZ4_compress_fast`, `LZ4_decompress_safe` | the block comes back; no copy leaves its destination or reads what is not yet written |
| Encode, decode | all of the above | the stages in order | decode after encode is the identity; an error leaves a state the caller can recover from |
| Header | 48 bytes | write, read | a reader is configured as the writer was |
| Metrics, names, tests | - | - | not modelled (see below) |

The library has no threads of its own, but each pixel loop of the difference
and reorder stages is an OpenMP loop: with `omp_parallel` set, a team of
threads shares the iterations of a loop.  The hard parts are therefore

  * loops whose iterations depend on each other, or share a byte, on a team;
  * in-place rewriting, where the order of the loops decides what is lost;
  * copies in chunks that run past the end of what is copied, where only the
    arithmetic of the bounds keeps them inside the buffer;
  * wrap-around: of pixels, where the round trip relies on it, and of
    `uint32_t` products of dimensions, where nothing checks it;
  * ownership of buffers across errors, and of sizes changed under buffers.

`PROJECT.json` lists each of these at its line.

## The modules

`XrifInPlace` is the abstract specification of the difference stage: the
caller's cube is replaced by its differenced form in one step, and given back
in one step.

`XrifDifference` is the stage itself.  `n`, `kk` are the counters of the two
sequential loops; a parallel region starts with `Fork`, which deals the
iterations of a plane out to the threads, and ends with `Join`.  A thread runs
each of its iterations in two steps: `Load` reads the target pixel and its
reference and computes, `Store` writes.  The target is written by its own
iteration only, so one step for both reads loses no behaviour.  A pixel is an
unsigned word of `Word` values: the code subtracts and adds in `int` and
converts back to the pixel type, or in the type itself for the wide ones, and
the builds wrap around.  The three methods and four integer widths of the code
are one model, parameterised by `Methods` and `Word`.  A difference or
undifference call starts after the checks of the dispatching function.

`XrifSizes` is the arithmetic of buffer sizes, without state: the minimum
sizes as the library computes them, with their `uint32_t` wrap-around, and
next to them what each stage touches.

`XrifHandle` is the life of a handle on a heap of few blocks.  Every public
function that sets up, fills or clears a handle is an action; `xrif_allocate`
is its entry followed by the three allocations it calls, and `malloc` may fail
each time.  A block has a holder: the library, the caller, or nobody; a buffer
that points to a block nobody holds is a dangling pointer.  The program
may lend blocks, take them back when no buffer points to them, and read
headers.  Calls on a null handle only return an error and are left out.

`XrifArchive` is the abstract store: a handle stands for a cube, encoding hides
it, decoding shows it, a file keeps it, and nothing else ever comes back.

`XrifCodec` is `xrif_encode` and `xrif_decode` on whole buffers.  Each call is
its entry followed by its stages, one action each, and `call` is the stage that
runs next; an error returns at once and leaves the buffers as the stage left
them.  The contents of a buffer are a cube and the transformations applied to
it; `Unknown` stands for anything else: fresh memory, the rest of a failed LZ4
run, the outcome of taking off a transformation that is not the outermost one,
and contents the program has given up.  `holds` is what the program takes the
buffers to hold, `loaded` the cube it expects back.  Files are written and read
behind the header of `xrif_write_header`; the file is the only thing handles
share, so one handle that writes and reads covers two.  Buffer sizes are real
byte counts, since they are what the checks compare.  LZ4 is a black box here:
it makes between 1 and its bound of bytes of a source, fails when they do not
fit, and accepts only what it made.  `LZ4Block` opens the box.  Two constants
tell disciplined programs from others: `ChecksRoom` (encode and decode are
called with room for the data) and `Retries` (a cube is encoded again after an
error without reloading it).

`XrifReorder` is the reorder stage with its parallel loops, which `XrifCodec`
takes as one step, on pixels of 16 bits, the only ones the code has layouts for.
`Updates` says what an iteration does to the reordered buffer, statement by
statement: bytepack stores into bytes of its own, while renibble and bitpack add
to bytes and words that neighbouring pixels add to as well.  A store is one
step, an addition two (`LoadCell`, `StoreCell`); in the inverse loops an
iteration reads its cells (`GatherPixel`) and writes its pixel (`PutPixel`).
`owner` deals the iterations to the threads, `pending` are those not finished,
and `at`, `step` and `val` are what each thread is doing.  `Carry` stands for
the compress stages: it takes the minimum number of bytes to a decoder whose
buffer may have another size.  Beside the loops stands the layout they are to
compute, `Layout`, cell by cell from the algorithms the code gives in comments.
The lookup tables are functions that follow their generators.  The reference
frame precedes the cells, is copied as it is and is left out; so are the size
checks, which `XrifCodec` has.

`LZ4Block` is what LZ4 does for xrif: `LZ4_compress_fast` from a cleared state
and `LZ4_decompress_safe`.  `stage` is the place in the code.  The encoder
searches (`Find`), writes literals and matches, tries the position behind a
match at once (`NextPosition`) and ends with literals; the decoder has its fast
loop, its safe loop with the shortcut, and the jumps from the first into the
second.  Every copy of the decoder yields the bytes it really would: a chunk
that reads a byte not yet written yields `Unwritten`.  `reach` follows the last
byte written, overshoot included.  The instance is the one xrif runs on a 64 bit
x86 build: no dictionary, full blocks, checked input, fast loop.  Reads ahead of
what is used, and the position a negative result names, are left out.

`MCXrifDifference`, `MCXrifHandle`, `MCXrifCodec`, `MCXrifReorder` and
`MCLZ4Block` define the small instances.  The theorems are in `XrifSizesProofs`,
`XrifDifferenceProofs`, `XrifHandleProofs`, `XrifCodecProofs`,
`XrifReorderProofs` and `LZ4BlockProofs`, each about the module it is named
after, and `LZ4RoundTripProofs`, about `LZ4Block` as well.  The MC modules extend
them, so that TLC evaluates the hypotheses of the theorems on its instances and
checks their inductive invariants.

Definitions marked as variants are faulty versions of the definition that
follows them; no specification uses them.  With each put in place of the right
one, the property `PROJECT.json` names for it fails.

## What the runs show

| Run | Bounds | Shows |
| --- | --- | --- |
| `difference_frame_parallel` | 3 frames, depth 2, planes of 3 pixels of 4 values, two threads, 3 cubes | the in-place stage is lossless, deterministic, race-free, implements `XrifInPlace`, and returns |
| `handle_ownership` | 3 addresses, uint32_t of 256 values, LZ4 limit 126 | no double free, no leak, no size beyond its block; `HandleInv` |
| `handle_room` | the same | allocated buffers suffice; stale ones are refused; `AllocateInv` |
| `codec_round_trip` | one handle, two cubes, five set-ups, two longer buffers to lend | the encoded cube always comes back; nothing is lost on the way; `XrifArchive` is implemented; `CodecInv` |
| `reorder_whole_cells` | 4 bit pixels, 3 to 5 of them, five jobs, two threads, chunks that split no shared byte or word | every layout is undone exactly, depends on the cube alone, stays in what is compressed; the calls return; `ReorderInv` |
| `lz4_block` | 116 blocks of up to 321 bytes in 1093 calls, with the bound's room and less, decoder room -1, 0, 1, +70 | every block comes back; no write outside, no read too early; the format's limits hold; the calls return; `BlockInv`; the sequences of the stream (`BordersWalked`) |
| `difference_pixel_parallel` | as the first, pixel method on two threads | violation: pixel differencing on a team loses data |
| `handle_large_cube` | a cube beyond the LZ4 limit | violation: a freed buffer stays owned |
| `handle_uncompressed_room` | renibble without compression | violation: allocated buffers do not suffice |
| `codec_retry` | two set-ups, up to two differences | violation: a second encode after an error corrupts the cube |
| `codec_room` | a raw buffer of more bytes than pixels, but not enough | violation: differencing leaves it |
| `reorder_split_cells` | renibble, any chunks | violation: half of a shared byte is lost |

Why these bounds are enough.  The order of the difference loops matters from
three frames on, a plane of three pixels has a first, an inner and a last one,
and four pixel values wrap in both directions.  All static schedules are
initial choices, so two threads include an idle one and every border between
chunks.  Three addresses allow three buffers at once and a `malloc` that fails
for lack of a fourth; addresses are interchangeable, so they are symmetric.
The scaled `U32` and `LZ4Max` keep the order of the real limits: a few pixels
lie within both, 128 bytes beyond LZ4's only.  The cubes of the codec have an
odd number of pixels per frame, which is where the spare frame and the rounding
of renibble show, and a 32 bit one that bytepack refuses after it has been
differenced.  A raw buffer left from an uncompressed set-up is shorter than
LZ4's bound, so that LZ4 fails in the middle of the only copy of the raw data;
the longer lent buffer makes an uncompressed stream that another reordered
buffer cannot take.  With more set-ups the run only repeats these cases.

With four bits a pixel still has two bytes and four nibbles, and every word can
be tried at every place: the least word, whose magnitude overflows, both signs,
and the exchanged high bytes.  Odd and even numbers of pixels leave a nibble
over or not, five share two words of bitpack, and every border between the
chunks of two threads is tried.  Spare bytes are given to bytepack and renibble
only: bitpack spreads its planes over the buffer it finds, so with a larger one
they do not fit what is compressed, and with a frame of less pixels than bits
the buffer has no place for them.  The library's README calls bitpack broken.

The blocks of `lz4_block` lie on both sides of each of the code's limits: block
lengths around 12 and 13, literal runs around 15 and 270 and match lengths
around 19 and 274, which need one more length byte, offsets 1 to 9, 15 to 17,
40 and 256, which the copies tell apart, tails of 0 to 9 bytes, matches behind
matches, and matches as far back as they may be and one byte further.  All
limits are the code's but two: `MaxDistance` is 271, so that wide positions
start at 283 bytes instead of 65547, and `MaxInput` is 320.  The hash has 16
values, so that different bytes collide.  Branches that only refuse streams
which the encoder never makes are not reached.

The deadlock check is on in every run.

## Findings

  * Pixel differencing under OpenMP loses data: its loop carries a dependence
    (`difference_pixel_parallel`).
  * `xrif_allocate_compressed` frees before it checks, and on its early return
    keeps pointer and flag (`handle_large_cube`).
  * `xrif_min_compressed_size` without compression forgets the spare frame
    that `xrif_compress_none` copies (`handle_uncompressed_room`).
  * An `xrif_encode` that fails leaves the raw buffer differenced; encoding
    again differences it twice, and decoding reports success (`codec_retry`).
  * The difference functions compare bytes with pixels, and the unreorder
    functions but one compare nothing, although `xrif_encode` and `xrif_decode`
    are documented to return `XRIF_ERROR_INSUFFICIENT_SIZE` (`codec_room`).
  * Renibble under OpenMP loses data: its loop adds to bytes that two pixels
    share, without atomicity (`reorder_split_cells`).  Bitpack's words are
    shared by 16 pixels in the same way.

`PROJECT.json` quotes the lines.

## Fairness

Three modules claim liveness, that a call that has started returns.
`XrifDifference` assumes weak fairness of `Fork`, of every thread's `Load` and
`Store`, of `Join` and of `Return`, and `XrifReorder` of every step of every
thread and of `Return`: the operating system runs every thread of an OpenMP
team, and a sequential function goes on.  `LZ4Block` assumes weak fairness of
the encoder's and of the decoder's steps.  Programs owe no call.  `XrifHandle`
and `XrifCodec` claim safety only.

## The proofs

Every theorem holds for all values of the constants that meet the assumptions
of its module and the hypotheses named here.  Each proof rests on an inductive
invariant, which a run checks too.

**Sizes** (`XrifSizesProofs`).  Lemmas about the minimum sizes, their products
and remainders.  `ReorderedFits` and `RawFits`: no reorder function leaves a
reordered buffer of the minimum size, or reads behind the data, as long as the
sizes do not wrap and a pixel has the two bytes that the functions take of it.
`XrifHandleProofs` and `XrifCodecProofs` get from it that the stages fit.

**Difference** (`XrifDifferenceProofs`).  Hypothesis `PixelSerial`: the pixel
method is not run on a team, which `difference_pixel_parallel` shows to be
needed.  `Lossless` is not inductive, since in the middle of a call the buffer
is neither cube.  `IInv` says, pixel by pixel, which have been rewritten: those
of the planes behind `n` and `kk`, and in the current plane those of the
iterations the threads have stored; every other pixel is as it was before the
call.  From it follow the type invariant, `Lossless`, `DifferenceDeterministic`,
`NoDataRace`, `ReferenceStable`, and that every step is a step of `XrifInPlace`
or a stutter.

**Handle** (`XrifHandleProofs`).  Hypothesis `ValidInputs`: the sizes that
callers set and the headers they read name no cube with a zero or wrapped size,
or beyond LZ4's limit, and only methods there are.  `HandleInv` adds to
`BuffersLive`, `NoLeak` and `SizeWithinBlock` that nothing is owned before a
size is set (`SizedOrEmpty`): so no allocation stops between its `free` and its
`malloc`.  `handle_large_cube` shows what happens without the hypothesis.
`ReorderStaysInside` combines it with the lemmas on sizes.
`AllocateGivesRoom` has the further hypothesis `EncodableInputs`, two bytes a
pixel or more and no wrap-around, and rests on `SpecAllocateInv`, the theorem
about the invariant `AllocateInv`: between the
three allocations of `xrif_allocate`, the buffers allocated so far have their
minimum sizes, which no other step can change.

**Codec** (`XrifCodecProofs`).  Hypothesis `CarefulPrograms`: the set-ups are
those the stages are written for (fewer than 2^32 pixels, renibble on pixels of
two bytes, no bitpack), buffers are below 4 GiB, programs give the calls room
and reload a cube after an error.  The first two exclude what the library
rejects only in part, the others what `codec_room` and `codec_retry` show to go
wrong.  `CodecInv` says for each stage which buffer holds which form of the
cube, that the rest of a call finds its room, and that a file is what its header
says; so it is `RoundTrip` and `CubeNeverLost` in the middle of calls.  From it
follow all invariants of `codec_round_trip`, and the refinement: `VisibleIsShown`
says what `XrifArchive` sees of a handle in terms of the program's bookkeeping,
and then every stage but the last of a decode is a stutter, the end of a decode
shows the cube, and every other step is the store's of the same kind.  The run
has one handle; the theorems have any number of handles, cubes and set-ups.

**Reorder** (`XrifReorderProofs`).  The theorems are about bytepack and
renibble.  Hypotheses: `TwoBytesOfTwoNibbles` spells out powers of two that the
provers do not evaluate, and `PairsTogether` says that the two pixels which
share a byte of renibble go to the same thread.  The code provides that only
with `omp_parallel` off, the default, or with chunks that happen to be of even
length; `reorder_split_cells` shows what is lost otherwise.  `ReorderInv` says
what every cell holds in terms of the updates that each pixel has made
(`Made`, `Filled`), and that what a thread has loaded is still there when it
stores (`Loaded`), since the only other pixel that adds to the cell is its own.
From it follow the type invariant, `ReorderLossless`, `LayoutDeterministic`,
`NoDataRace` and `UpdatesCarried`.  Lemmas show, for every word, that
the two exchanges of bits undo each other, the word whose magnitude overflows
included.

**LZ4** (`LZ4BlockProofs`).  `WritesInside` and `ParsingRestrictions` for every
hash function, acceleration and decoder room, every block with the bound's room,
and every block of up to 128 KiB with less.  `BlockInv` has for every stage how
far the positions are from the ends (of the block, the stream and the
destination), and for the encoder that `i` bytes of source have become at most
`i + i / 255` bytes: that is why an encoder that never looks at the end of a
destination of the bound's size stays inside it.  Hypothesis
`ShortWhenLimited`: with less room than the bound, a block has at most 131072
bytes.  The check before a match reserves a length byte for each 256 bytes where
one is written for each 255, and its spare bytes make good for the difference
only up to about this length; xrif gives the room of the bound unless a program
lends a smaller buffer.  That no match ends before a position in the hash table
needs more than positions, namely that the match goes on at least to the last
one entered (`AtMatch`), which is where `ParsingRestrictions` gets the order of
`match` and `ip` from when the encoder tests the next position at once.
What `Count` and the two copies of the decoder's fast loop return is proved from
the order of the numbers: the provers have no induction over data, but they
accept that a set of numbers has a least one (`LeastNumber`).  The proof made two
definitions exact: `Count` now names one number, and `FastCopy` also says what
it does with an offset of 0, which the decoder refuses first.

`BlockRoundTrip` and `TypeOK`, which here says that the decoder never yields
`Unwritten`, are proved in `LZ4RoundTripProofs` for the same calls.  Neither is
about positions only: they need to know what the bytes of the stream mean.  A
set of *borders*, pairs of a position in the source and one in the stream, says
so (`Borders`): it has the beginning of both and where the encoder is, and from
every other border a sequence leads to a further one, that is a token, length
bytes and literals, an offset and length bytes (`SequenceStands`), such that the
literals are the source's and the match repeats the source at that offset
(`Repeats`).  `RoundTripInv` says that there are such borders, that the stream
is complete once the encoder has returned (`Complete`), that what the decoder
has put down is the beginning of the source (`Prefix`), and that the decoder is
at a border, or at a place within a sequence which its variables describe
(`AtOffset`, `AtLiteralBytes`, `AtMatchLength`).  The encoder's steps add a
border, and what stands before it keeps standing (`BordersKept`); the decoder's
go from one place to the next.  That the decoder reads back the lengths the
encoder wrote, of one byte or many, is `LengthReadExact`, and that none of its
checks refuses such a stream but for want of room follows from the format's
margins at the end of the block.

The rest is the copies.  `CopiesRepeat` states what the copies of the decoder
are for: by chunks of 8 or 16 bytes, with a source that overlaps the
destination, moved by a table when the offset is below 8, or by a pattern of 8
bytes, each yields the last `o` bytes over and over, for every offset and
length, and reads no byte before it is written.  Its argument: the distance
between source and destination, which the tables enlarge for offsets below 8, is
at least a chunk and a multiple of the offset, so the source of byte `k` was
written with an earlier chunk and is as far into its period as `k`.

A set of borders exists in every state, but it is no variable, and a walk over
the stream that collects them is a recursion the provers have no induction for.
So the theorems say that there is one, and `BordersWalked` in `MCLZ4Block`, which
`lz4_block` checks, that it is the one found by walking.  For the proofs
`ChunkBytes` is written with nested conditions in place of three cases, and the
assumption on `MaxDistance` with inequalities in place of an interval, of which
the provers make little.

Only model-checked:

  * `CallsReturn`, three times: liveness under fairness is out of the prover's
    reach.
  * Bitpack, in `XrifReorder` and `XrifCodec`.  Its planes overlap when a frame
    has fewer pixels than a word has bits, so the invariant of the other two
    does not hold for it; and where they do not overlap, a cell is a sum over
    the pixels of a word and a pixel one over its bits, weighed with powers of
    two.  Such sums and powers are defined by recursion, which the provers
    cannot unfold.
  * `BordersWalked`, which names a recursively computed set, for the reason
    above.  What follows from there being such a set is proved.

## Not modelled, and why

  * Signed overflow in the pixel arithmetic is undefined in C for the widest
    types; the model has what the builds do, wrapping.
  * `size_t` products beyond 2^64, and calls on null handles, which only return
    an error.
  * Metrics and timestamps, names, tests; `xrif_difference_sint16_rgb`, never
    called.
  * The rest of LZ4, which xrif never calls: dictionaries, streams, `destSize`,
    partial decoding, `LZ4_decompress_fast`, the HC compressor.  Streams that
    the encoder did not make.
  * The entries of the generated tables, one by one: the model has what their
    generators compute.
  * Of the header, the refusal of a wrong magic number or version, and the
    acceleration, cut to 16 bits: `lz4_block` tries 0, 1 and 3, and none matters
    to the round trip.  `raw_size`, which reading a header leaves as it was:
    only the metrics use it.
  * Bitpack's round trip with buffers larger than the minimum or frames smaller
    than a word, and that of renibble and bitpack on pixels of other than two
    bytes: the library's README calls bitpack broken and supports only `int16`
    fully.  `XrifCodec` models these losses; no property asks for more.

## Plan

Done: `XrifInPlace`, `XrifDifference`, `XrifSizes`, `XrifHandle`,
`XrifArchive`, `XrifCodec`, `XrifReorder`, `LZ4Block`, and the proofs about all
of them that are described above.  Left:

  1. The header's remaining fields: magic and version checks, signed methods
     in fields the README calls unsigned; in `XrifCodec`.
