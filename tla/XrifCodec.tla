------------------------------ MODULE XrifCodec ------------------------------
(***************************************************************************)
(* xrif_encode and xrif_decode: the order of their stages, the checks and  *)
(* early returns of each, and what the three buffers of a handle hold      *)
(* between them.  A program sets handles up, encodes, stores the encoded   *)
(* cube behind its header in a file, and decodes with any handle.          *)
(*                                                                         *)
(* The contents of a buffer are a cube and the transformations applied to  *)
(* it, innermost first.  A stage adds its transformation; its inverse      *)
(* takes it off when it is the outermost one, and leaves no known contents *)
(* otherwise.  How the loops of a stage do that is the subject of          *)
(* XrifDifference; here a stage is one step.                               *)
(*                                                                         *)
(* Allocation succeeds (XrifHandle has the failing malloc), and a program  *)
(* reads a complete file.                                                  *)
(***************************************************************************)
EXTENDS XrifSizes, Sequences

CONSTANTS
  Writers,       \* the handles that cubes are loaded into and stored from
  Readers,       \* the handles that files are read with
  Cubes,         \* the data that programs load
  None,          \* no cube
  Setups,        \* the pairs of size and methods that programs encode with
  Loans,         \* the buffers that they lend, with their sizes
  ChecksRoom,    \* programs call encode and decode with room for the data
  Retries,       \* programs encode again, without a reload, after an error
  MaxLayers      \* bound: transformations on a cube that is encoded again

Handles == Writers \cup Readers

Buffers == {"raw", "reordered", "compressed"}

ASSUME CodecAssumption ==
  /\ None \notin Cubes
  /\ Setups \subseteq
       [size : SizeRecords,
        methods : [difference : Differences, reorder : Reorders,
                   compress : Compressors]]
  /\ Loans \subseteq [buffer : Buffers, bytes : Nat]
  /\ ChecksRoom \in BOOLEAN
  /\ Retries \in BOOLEAN
  /\ MaxLayers \in Nat

VARIABLES
  size,              \* width, height, depth, frames and type_code
  methods,           \* difference_method, reorder_method, compress_method
  compress_on_raw,
  compressed_size,
  bytes,             \* the sizes of the buffers
  data,              \* their contents
  call,              \* the stage that runs next, or "idle"
  holds,             \* what the program takes the buffers to hold
  loaded,            \* the cube the program loaded or fetched, or None
  file,              \* the file that xrif_encode's output was last stored in
  reading,           \* the file whose header the handle has read
  rv                 \* what the last encode or decode returned

settings == <<size, methods, compress_on_raw, bytes>>
files == <<file, reading>>
vars == <<settings, compressed_size, data, call, holds, loaded, files, rv>>

NoMethods == [difference |-> "none", reorder |-> "none", compress |-> "none"]
DefaultMethods ==
  [difference |-> "previous", reorder |-> "bytepack", compress |-> "lz4"]

Unknown == [cube |-> None, layers |-> <<>>]
Plain(c) == [cube |-> c, layers |-> <<>>]

NoData == [b \in Buffers |-> Unknown]

\* No file.
NoFile == [size |-> Unsized, methods |-> NoMethods, compressed_size |-> 0,
           bytes |-> 0, data |-> Unknown, of |-> None]

Init ==
  /\ size = [h \in Handles |-> Unsized]
  /\ methods = [h \in Handles |-> DefaultMethods]
  /\ compress_on_raw = [h \in Handles |-> TRUE]
  /\ compressed_size = [h \in Handles |-> 0]
  /\ bytes = [h \in Handles |-> [b \in Buffers |-> 0]]
  /\ data = [h \in Handles |-> NoData]
  /\ call = [h \in Handles |-> "idle"]
  /\ holds = [h \in Handles |-> "nothing"]
  /\ loaded = [h \in Handles |-> None]
  /\ file = NoFile
  /\ reading = [h \in Handles |-> NoFile]
  /\ rv = [h \in Handles |-> "noerror"]

-----------------------------------------------------------------------------
(* Short names for what a handle is set up for.                            *)

Diff(h) == methods[h].difference
Reor(h) == methods[h].reorder
Comp(h) == methods[h].compress

Data(h) == DataBytes(size[h])

MinSize(h, b) ==
  CASE b = "raw" -> MinRaw(size[h], Reor(h), Comp(h), compress_on_raw[h])
    [] b = "reordered" -> MinReordered(size[h], Reor(h))
    [] b = "compressed" -> MinCompressed(size[h], Reor(h), Comp(h))

\* Where the compressor writes and the decompressor reads.
Target(h) == IF compress_on_raw[h] THEN "raw" ELSE "compressed"

\* Where the program finds the encoded cube: with all methods none
\* xrif_encode leaves it where it was.
StreamBuffer(h) == IF methods[h] = NoMethods THEN "raw" ELSE Target(h)

Idle(h) == call[h] = "idle"

\* The program moves on from the last result.
Hold(h, what, c) ==
  /\ holds' = [holds EXCEPT ![h] = what]
  /\ loaded' = [loaded EXCEPT ![h] = c]
  /\ rv' = [rv EXCEPT ![h] = "noerror"]

Put(h, b, contents) == data' = [data EXCEPT ![h][b] = contents]

\* Contents that the program has given up are not followed any further.
GiveUp(h) ==
  /\ Hold(h, "nothing", None)
  /\ data' = [data EXCEPT ![h] = NoData]

-----------------------------------------------------------------------------
(* The program sets handles up.  It does not change the methods of an      *)
(* encoded cube, and gives up a cube with the buffer that holds it.        *)

SetSize(h, s) ==
  /\ Idle(h)
  /\ size' = [size EXCEPT ![h] = s]
  /\ GiveUp(h)
  /\ reading' = [reading EXCEPT ![h] = NoFile]
  /\ UNCHANGED <<methods, compress_on_raw, compressed_size, bytes, call, file>>

Configure(h, m) ==
  /\ Idle(h)
  /\ holds[h] # "stream"
  /\ methods' = [methods EXCEPT ![h] = m]
  /\ reading' = [reading EXCEPT ![h] = NoFile]
  /\ UNCHANGED <<size, compress_on_raw, compressed_size, bytes, data, call, holds,
                 loaded, file, rv>>

SetCompressOnRaw(h, onRaw) ==
  /\ Idle(h)
  /\ holds[h] # "stream"
  /\ compress_on_raw' = [compress_on_raw EXCEPT ![h] = onRaw]
  /\ UNCHANGED <<size, methods, compressed_size, bytes, data, call, holds, loaded,
                 files, rv>>

\* xrif_allocate.
Allocate(h) ==
  LET new == {"raw", "reordered"} \cup {Target(h)}
  IN /\ Idle(h)
     /\ Data(h) # 0
     /\ \A b \in new : MinSize(h, b) # 0
     /\ bytes' = [bytes EXCEPT ![h] =
                    [b \in Buffers |-> IF b \in new THEN MinSize(h, b) ELSE @[b]]]
     /\ GiveUp(h)
     /\ UNCHANGED <<size, methods, compress_on_raw, compressed_size, call, files>>

\* The handle still holds what it held without this buffer.
KeepsWithout(h, b) ==
  \/ holds[h] = "cube" /\ b # "raw"
  \/ holds[h] = "stream" /\ b # StreamBuffer(h)

\* xrif_set_raw, xrif_set_reordered, xrif_set_compressed.
SetBuffer(h, b, length) ==
  /\ Idle(h)
  /\ bytes' = [bytes EXCEPT ![h][b] = length]
  /\ IF KeepsWithout(h, b)
     THEN Put(h, b, Unknown) /\ UNCHANGED <<holds, loaded, rv>>
     ELSE GiveUp(h)
  /\ UNCHANGED <<size, methods, compress_on_raw, compressed_size, call, files>>

\* The program writes the pixels of a cube to raw_buffer.
LoadCube(h, c) ==
  /\ Idle(h)
  /\ Data(h) # 0
  /\ ChecksRoom => bytes[h]["raw"] >= Data(h)
  /\ data' = [data EXCEPT ![h] =
                [NoData EXCEPT !["raw"] =
                   IF bytes[h]["raw"] >= Data(h) THEN Plain(c) ELSE Unknown]]
  /\ Hold(h, "cube", c)
  /\ reading' = [reading EXCEPT ![h] = NoFile]
  /\ UNCHANGED <<settings, compressed_size, call, file>>

-----------------------------------------------------------------------------
(* Files.  xrif_write_header stores the low 32 bits of compressed_size.    *)

\* Variant: the method fields are read as unsigned, and lose "none", -1.
StoredUnsigned(h) ==
  [size |-> size[h],
   methods |-> [field \in DOMAIN methods[h] |->
                  IF methods[h][field] = "none" THEN "unknown" ELSE methods[h][field]],
   compressed_size |-> compressed_size[h] % U32,
   bytes |-> compressed_size[h], data |-> data[h][StreamBuffer(h)],
   of |-> loaded[h]]

\* Variant: the difference method is left out of the header.
StoredWithoutDifference(h) ==
  [size |-> size[h],
   methods |-> [methods[h] EXCEPT !.difference = "previous"],
   compressed_size |-> compressed_size[h] % U32,
   bytes |-> compressed_size[h], data |-> data[h][StreamBuffer(h)],
   of |-> loaded[h]]

\* The header that xrif_write_header fills, and the bytes after it.
Stored(h) ==
  [size |-> size[h], methods |-> methods[h],
   compressed_size |-> compressed_size[h] % U32,
   bytes |-> compressed_size[h], data |-> data[h][StreamBuffer(h)],
   of |-> loaded[h]]

Store(h) ==
  /\ Idle(h)
  /\ holds[h] = "stream"
  /\ file' = Stored(h)
  /\ UNCHANGED <<settings, compressed_size, data, call, holds, loaded, reading, rv>>

\* Variant: the reorder method is not read.
OpenWithoutReorder(h) ==
  /\ Idle(h)
  /\ file # NoFile
  /\ reading' = [reading EXCEPT ![h] = file]
  /\ size' = [size EXCEPT ![h] = file.size]
  /\ methods' = [methods EXCEPT ![h].difference = file.methods.difference,
                                ![h].compress = file.methods.compress]
  /\ compressed_size' = [compressed_size EXCEPT ![h] = file.compressed_size]
  /\ GiveUp(h)
  /\ UNCHANGED <<compress_on_raw, bytes, call, file>>

\* xrif_read_header.
Open(h) ==
  /\ Idle(h)
  /\ file # NoFile
  /\ reading' = [reading EXCEPT ![h] = file]
  /\ size' = [size EXCEPT ![h] = file.size]
  /\ methods' = [methods EXCEPT ![h] = file.methods]
  /\ compressed_size' = [compressed_size EXCEPT ![h] = file.compressed_size]
  /\ GiveUp(h)
  /\ UNCHANGED <<compress_on_raw, bytes, call, file>>

\* The program reads compressed_size bytes after the header.
Fetch(h) ==
  /\ Idle(h)
  /\ reading[h] # NoFile
  /\ compressed_size[h] <= bytes[h][StreamBuffer(h)]
  /\ Put(h, StreamBuffer(h),
         IF compressed_size[h] = reading[h].bytes THEN reading[h].data ELSE Unknown)
  /\ Hold(h, "stream", reading[h].of)
  /\ reading' = [reading EXCEPT ![h] = NoFile]
  /\ UNCHANGED <<settings, compressed_size, call, file>>

-----------------------------------------------------------------------------
(* Stages.  Each either returns an error from xrif_encode or xrif_decode,  *)
(* or goes on to the next.                                                 *)

\* What a stage did: for a reorder method, how many bytes it only copied and
\* the distance of its planes; for LZ4, how many bytes it made into how many.
Layer(by, from, param) == [by |-> by, from |-> from, param |-> param]

Add(contents, layer) ==
  IF contents = Unknown THEN Unknown
  ELSE [contents EXCEPT !.layers = Append(@, layer)]

Outermost(contents) == contents.layers[Len(contents.layers)]

TakeOff(contents, layer) ==
  IF contents.layers # <<>> /\ Outermost(contents) = layer
  THEN [contents EXCEPT !.layers = SubSeq(@, 1, Len(@) - 1)]
  ELSE Unknown

Going(h, next) ==
  /\ call' = [call EXCEPT ![h] = next]
  /\ UNCHANGED <<holds, loaded, rv>>

Return(h, code, what) ==
  /\ call' = [call EXCEPT ![h] = "idle"]
  /\ rv' = [rv EXCEPT ![h] = code]
  /\ holds' = [holds EXCEPT ![h] = what]
  /\ UNCHANGED loaded

\* Room for the data and for what the reorder stage writes.
HasRoom(h) ==
  /\ bytes[h]["raw"] >= Data(h)
  /\ bytes[h]["reordered"] >= MinSize(h, "reordered")

-----------------------------------------------------------------------------
(* xrif_encode.                                                            *)

Encode(h) ==
  /\ Idle(h)
  /\ \/ holds[h] = "cube"
     \/ Retries /\ holds[h] = "failed"
  /\ [size |-> size[h], methods |-> methods[h]] \in Setups
  /\ Len(data[h]["raw"].layers) < MaxLayers
  /\ ChecksRoom => HasRoom(h)
  /\ \/ /\ methods[h] = NoMethods
        /\ compressed_size' = [compressed_size EXCEPT ![h] = Data(h)]
        /\ Return(h, "noerror", "stream")
     \/ /\ methods[h] # NoMethods
        /\ Going(h, "difference")
        /\ UNCHANGED compressed_size
  /\ UNCHANGED <<settings, data, files>>

\* The types that the difference functions are written for.
Differenced(difference, type) ==
  \/ type \in {"int16", "uint16", "int32", "uint32", "int64", "uint64"}
  \/ type \in {"int8", "uint8"} /\ difference = "pixel"

\* What both directions check: the raw buffer, by pixels.
DifferenceError(h, unsupported) ==
  IF Diff(h) = "none" THEN "noerror"
  ELSE IF bytes[h]["raw"] = 0 \/ Pixels(size[h]) = 0 THEN "not_setup"
  ELSE IF bytes[h]["raw"] < Pixels(size[h]) THEN "insufficient_size"
  ELSE IF Differenced(Diff(h), size[h].type) THEN "noerror"
  ELSE unsupported

Difference(h) ==
  LET error == DifferenceError(h, "notimpl")
  IN /\ call[h] = "difference"
     /\ \/ error # "noerror" /\ Return(h, error, "failed") /\ UNCHANGED data
        \/ /\ error = "noerror"
           /\ Going(h, "reorder")
           /\ IF Diff(h) = "none"
              THEN UNCHANGED data
              ELSE Put(h, "raw", IF bytes[h]["raw"] < Data(h) THEN Unknown
                                 ELSE Add(data[h]["raw"], Layer(Diff(h), 0, 0)))
     /\ UNCHANGED <<settings, compressed_size, files>>

\* The bytes of one_frame + npix * data_size.
Payload(h) ==
  CopiedBytes(size[h], Diff(h)) + ReorderedPixels(size[h], Diff(h)) * TypeSize(size[h].type)

\* Distance between the 16 bit planes of bitpack, in words.
Stride(h) == (bytes[h]["reordered"] - CopiedBytes(size[h], Diff(h))) \div 32

ReorderLayer(h) ==
  Layer(Reor(h), CopiedBytes(size[h], Diff(h)), IF Reor(h) = "bitpack" THEN Stride(h) ELSE 0)

\* The reorder functions take two bytes of a pixel, and the planes of
\* bitpack must not overlap.
ReordersAll(h) ==
  /\ RawTouched(size[h], Diff(h), Reor(h)) >= Data(h)
  /\ Reor(h) = "bitpack" => ReorderedPixels(size[h], Diff(h)) <= 16 * Stride(h)

ReorderInside(h) ==
  /\ bytes[h]["raw"] >= RawTouched(size[h], Diff(h), Reor(h))
  /\ bytes[h]["reordered"] >=
       ReorderedTouched(size[h], Diff(h), Reor(h), bytes[h]["reordered"])

ReorderError(h) ==
  CASE Reor(h) = "none" ->
         IF bytes[h]["raw"] < Data(h) \/ bytes[h]["reordered"] < Data(h)
         THEN "insufficient_size" ELSE "noerror"
    [] Reor(h) = "bytepack" ->
         IF size[h].type \notin {"int16", "uint16"} THEN "notimpl"
         ELSE IF bytes[h]["raw"] < Payload(h) \/ bytes[h]["reordered"] < Payload(h)
         THEN "insufficient_size" ELSE "noerror"
    [] Reor(h) = "renibble" ->
         IF bytes[h]["raw"] < Payload(h)
              \/ bytes[h]["reordered"] < MinSize(h, "reordered")
         THEN "insufficient_size" ELSE "noerror"
    [] Reor(h) = "bitpack" -> "noerror"

Reorder(h) ==
  LET error == ReorderError(h)
  IN /\ call[h] = "reorder"
     /\ \/ error # "noerror" /\ Return(h, error, "failed") /\ UNCHANGED data
        \/ /\ error = "noerror"
           /\ Going(h, "compress")
           /\ Put(h, "reordered",
                  IF Reor(h) = "none" THEN data[h]["raw"]
                  ELSE IF ReorderInside(h) /\ ReordersAll(h)
                  THEN Add(data[h]["raw"], ReorderLayer(h))
                  ELSE Unknown)
     /\ UNCHANGED <<settings, compressed_size, files>>

\* Variant: the destination only needs room for the data.
CompressNoneByData(h) ==
  /\ IF bytes[h][Target(h)] < Data(h)
     THEN /\ Return(h, "insufficient_size", "failed")
          /\ UNCHANGED <<data, compressed_size>>
     ELSE /\ Return(h, "noerror", "stream")
          /\ compressed_size' = [compressed_size EXCEPT ![h] = bytes[h]["reordered"]]
          /\ Put(h, Target(h), data[h]["reordered"])

CompressNone(h) ==
  /\ IF bytes[h][Target(h)] < bytes[h]["reordered"]
     THEN /\ Return(h, "insufficient_size", "failed")
          /\ UNCHANGED <<data, compressed_size>>
     ELSE /\ Return(h, "noerror", "stream")
          /\ compressed_size' = [compressed_size EXCEPT ![h] = bytes[h]["reordered"]]
          /\ Put(h, Target(h), data[h]["reordered"])

\* Variant: LZ4 is given as many bytes as there are pixels.
SourceOfData(h) == Data(h) % U32

\* The bytes that LZ4 is given: xrif_min_reordered_size as an int.
SourceBytes(h) == MinSize(h, "reordered") % U32

\* LZ4 makes anything between a few bytes and its bound of a source.
CompressedSizes(source) == {1, CompressBound(source)}

\* LZ4_compress_fast returns 0, without a look at the destination when the
\* source is too large, and with part of the output in it otherwise.
CompressLZ4(h) ==
  \/ /\ SourceBytes(h) > LZ4Max
     /\ compressed_size' = [compressed_size EXCEPT ![h] = 0]
     /\ Return(h, "insufficient_size", "failed")
     /\ UNCHANGED data
  \/ /\ SourceBytes(h) <= LZ4Max
     /\ \E output \in CompressedSizes(SourceBytes(h)) :
          \/ /\ output > bytes[h][Target(h)]
             /\ compressed_size' = [compressed_size EXCEPT ![h] = 0]
             /\ Return(h, "insufficient_size", "failed")
             /\ Put(h, Target(h), Unknown)
          \/ /\ output <= bytes[h][Target(h)]
             /\ compressed_size' = [compressed_size EXCEPT ![h] = output]
             /\ Return(h, "noerror", "stream")
             /\ Put(h, Target(h),
                    IF SourceBytes(h) >= ReorderedTouched(size[h], Diff(h), Reor(h),
                                                          bytes[h]["reordered"])
                    THEN Add(data[h]["reordered"], Layer("lz4", SourceBytes(h), output))
                    ELSE Unknown)

Compress(h) ==
  /\ call[h] = "compress"
  /\ \/ Comp(h) = "none" /\ CompressNone(h)
     \/ Comp(h) = "lz4" /\ CompressLZ4(h)
  /\ UNCHANGED <<settings, files>>

-----------------------------------------------------------------------------
(* xrif_decode.                                                            *)

Decode(h) ==
  /\ Idle(h)
  /\ holds[h] = "stream"
  /\ ChecksRoom => HasRoom(h)
  /\ IF methods[h] = NoMethods
     THEN Return(h, "noerror", "cube")
     ELSE Going(h, "decompress")
  /\ UNCHANGED <<settings, compressed_size, data, files>>

\* Variant: the extra bytes are zeroed first, in the wrong buffer.
DecompressNoneClearing(h) ==
  IF bytes[h]["reordered"] < compressed_size[h]
  THEN Return(h, "insufficient_size", "stream") /\ Put(h, Target(h), Unknown)
  ELSE Going(h, "unreorder") /\ Put(h, "reordered", data[h][Target(h)])

DecompressNone(h) ==
  IF bytes[h]["reordered"] < compressed_size[h]
  THEN Return(h, "insufficient_size", "stream") /\ UNCHANGED data
  ELSE Going(h, "unreorder") /\ Put(h, "reordered", data[h][Target(h)])

\* LZ4 rejects bytes it did not write, or only part of what it wrote, and
\* stops at the end of the destination.
LZ4Accepts(h) ==
  LET stream == data[h][Target(h)]
  IN /\ stream.layers # <<>>
     /\ Outermost(stream).by = "lz4"
     /\ Outermost(stream).param = compressed_size[h]
     /\ Outermost(stream).from <= bytes[h]["reordered"]

DecompressLZ4(h) ==
  LET layer == Outermost(data[h][Target(h)])
  IN IF LZ4Accepts(h)
     THEN /\ Put(h, "reordered", TakeOff(data[h][Target(h)], layer))
          /\ IF layer.from # MinSize(h, "reordered")
             THEN Return(h, "invalid_size", "stream")
             ELSE Going(h, "unreorder")
     ELSE /\ Put(h, "reordered", Unknown)
          /\ Return(h, "liberr", "stream")

Decompress(h) ==
  /\ call[h] = "decompress"
  /\ \/ Comp(h) = "none" /\ DecompressNone(h)
     \/ Comp(h) = "lz4" /\ DecompressLZ4(h)
  /\ UNCHANGED <<settings, compressed_size, files>>

\* Only xrif_unreorder_none looks at the sizes of the buffers.
UnreorderError(h) ==
  IF /\ Reor(h) = "none"
     /\ bytes[h]["raw"] < Data(h) \/ bytes[h]["reordered"] < Data(h)
  THEN "insufficient_size"
  ELSE IF Reor(h) = "bytepack" /\ size[h].type \notin {"int16", "uint16"}
  THEN "notimpl"
  ELSE "noerror"

\* Variant: the first frame is taken as copied, also by pixel differencing.
UnreorderAfterFirst(h) ==
  LET error == UnreorderError(h)
  IN /\ call[h] = "unreorder"
     /\ \/ error # "noerror" /\ Return(h, error, "stream") /\ UNCHANGED data
        \/ /\ error = "noerror"
           /\ Going(h, "undifference")
           /\ Put(h, "raw",
                  IF Reor(h) = "none" THEN data[h]["reordered"]
                  ELSE IF ReorderInside(h)
                  THEN TakeOff(data[h]["reordered"], Layer(Reor(h), FrameBytes(size[h]), 0))
                  ELSE Unknown)
     /\ UNCHANGED <<settings, compressed_size, files>>

Unreorder(h) ==
  LET error == UnreorderError(h)
  IN /\ call[h] = "unreorder"
     /\ \/ error # "noerror" /\ Return(h, error, "stream") /\ UNCHANGED data
        \/ /\ error = "noerror"
           /\ Going(h, "undifference")
           /\ Put(h, "raw",
                  IF Reor(h) = "none" THEN data[h]["reordered"]
                  ELSE IF ReorderInside(h)
                  THEN TakeOff(data[h]["reordered"], ReorderLayer(h))
                  ELSE Unknown)
     /\ UNCHANGED <<settings, compressed_size, files>>

Undifference(h) ==
  LET error == DifferenceError(h, "nullptr")
  IN /\ call[h] = "undifference"
     /\ \/ error # "noerror" /\ Return(h, error, "stream") /\ UNCHANGED data
        \/ /\ error = "noerror"
           /\ Return(h, "noerror", "cube")
           /\ IF Diff(h) = "none"
              THEN UNCHANGED data
              ELSE Put(h, "raw", IF bytes[h]["raw"] < Data(h) THEN Unknown
                                 ELSE TakeOff(data[h]["raw"], Layer(Diff(h), 0, 0)))
     /\ UNCHANGED <<settings, compressed_size, files>>

-----------------------------------------------------------------------------
Prepare(h) ==
  \/ \E onRaw \in BOOLEAN : SetCompressOnRaw(h, onRaw)
  \/ Allocate(h)
  \/ \E loan \in Loans : SetBuffer(h, loan.buffer, loan.bytes)

Write(h) ==
  \/ \E setup \in Setups : SetSize(h, setup.size)
  \/ \E setup \in Setups : Configure(h, setup.methods)
  \/ \E c \in Cubes : LoadCube(h, c)
  \/ Encode(h)
  \/ Store(h)

Read(h) ==
  \/ Open(h)
  \/ Fetch(h)

Stage(h) ==
  \/ Difference(h)
  \/ Reorder(h)
  \/ Compress(h)
  \/ Decompress(h)
  \/ Unreorder(h)
  \/ Undifference(h)

Next ==
  \/ \E h \in Handles : Prepare(h) \/ Decode(h) \/ Stage(h)
  \/ \E h \in Writers : Write(h)
  \/ \E h \in Readers : Read(h)

Spec == Init /\ [][Next]_vars

-----------------------------------------------------------------------------
EncodeStages == {"difference", "reorder", "compress"}
DecodeStages == {"decompress", "unreorder", "undifference"}

LayerRecords == [by : Differences \cup Reorders \cup Compressors, from : Int, param : Int]

Contents == [cube : Cubes \cup {None}, layers : Seq(LayerRecords)]

ReturnCodes == {"noerror", "not_setup", "insufficient_size", "invalid_size",
                "notimpl", "nullptr", "liberr"}

TypeOK ==
  /\ size \in [Handles -> SizeRecords]
  /\ methods \in [Handles -> [difference : Differences, reorder : Reorders,
                              compress : Compressors]]
  /\ compress_on_raw \in [Handles -> BOOLEAN]
  /\ compressed_size \in [Handles -> Nat]
  /\ bytes \in [Handles -> [Buffers -> Nat]]
  /\ data \in [Handles -> [Buffers -> Contents]]
  /\ call \in [Handles -> {"idle"} \cup EncodeStages \cup DecodeStages]
  /\ holds \in [Handles -> {"nothing", "cube", "stream", "failed"}]
  /\ loaded \in [Handles -> Cubes \cup {None}]
  /\ rv \in [Handles -> ReturnCodes]

(* After xrif_decode has returned XRIF_NOERROR, whichever handle encoded   *)
(* the cube, and as long as it is not encoded again, the raw buffer holds  *)
(* the loaded cube: a decode gives that back, or an error.                 *)
RoundTrip ==
  \A h \in Handles :
    Idle(h) /\ holds[h] = "cube" => data[h]["raw"] = Plain(loaded[h])

(* At every moment, between any two stages, and after any error, some      *)
(* buffer of a handle determines the cube that was loaded or fetched.      *)
CubeNeverLost ==
  \A h \in Handles :
    loaded[h] # None => \E b \in Buffers : data[h][b].cube = loaded[h]

(* A decode that fails leaves the encoded cube, as it was encoded, for a   *)
(* caller to decode again with more room.                                  *)
Encoded(h, c) ==
  LET differenced == IF Diff(h) = "none" THEN {} ELSE {Diff(h)}
      reordered == IF Reor(h) = "none" THEN {} ELSE {Reor(h)}
      compressed == IF Comp(h) = "none" THEN {} ELSE {Comp(h)}
      contents == data[h][StreamBuffer(h)]
  IN /\ contents.cube = c
     /\ {contents.layers[i].by : i \in DOMAIN contents.layers}
          = differenced \cup reordered \cup compressed

StreamKept ==
  \A h \in Handles :
    Idle(h) /\ holds[h] = "stream" => Encoded(h, loaded[h])

(* The program finds compressed_size bytes of encoded data in the buffer   *)
(* they are said to be in.                                                 *)
StreamWithinBuffer ==
  \A h \in Handles :
    Idle(h) /\ holds[h] = "stream" =>
      compressed_size[h] <= bytes[h][StreamBuffer(h)]

(* xrif_encode returns XRIF_ERROR_INSUFFICIENT_SIZE before a stage leaves  *)
(* the raw or the reordered buffer.                                        *)
EncodeStaysInside ==
  \A h \in Handles :
    /\ call[h] = "difference" /\ Diff(h) # "none"
         /\ DifferenceError(h, "notimpl") = "noerror"
       => bytes[h]["raw"] >= Data(h)
    /\ call[h] = "reorder" /\ ReorderError(h) = "noerror" => ReorderInside(h)

(* xrif_decode returns XRIF_ERROR_INSUFFICIENT_SIZE before a stage leaves  *)
(* the raw or the reordered buffer.                                        *)
DecodeStaysInside ==
  \A h \in Handles :
    /\ call[h] = "unreorder" /\ UnreorderError(h) = "noerror" => ReorderInside(h)
    /\ call[h] = "undifference" /\ Diff(h) # "none"
         /\ DifferenceError(h, "nullptr") = "noerror"
       => bytes[h]["raw"] >= Data(h)

\* What the program sees of contents: their cube when it is plain.
Seen(contents) == IF contents.layers = <<>> THEN contents.cube ELSE contents

(* With room for the data in both, no stage of an encode or a decode       *)
(* leaves the raw or the reordered buffer.                                 *)
StagesStayInside == EncodeStaysInside /\ DecodeStaysInside

(* A stream is never refused by a handle that was configured by its        *)
(* header: only an uncompressed one may need a longer reordered buffer.    *)
NoStreamRejected ==
  \A h \in Handles :
    holds[h] = "stream" => rv[h] \in {"noerror", "insufficient_size"}

\* What the programs see in raw buffers, and the cubes behind the headers read.
Visible == [h \in Handles |-> IF Idle(h) /\ holds[h] = "cube"
                              THEN Seen(data[h]["raw"]) ELSE None]
Opened == [h \in Handles |-> reading[h].data.cube]

(* The codec implements the store of XrifArchive, for which encoding and   *)
(* decoding are single steps and nothing but the loaded cube comes back.   *)
Archive == INSTANCE XrifArchive WITH
  cube <- loaded, visible <- Visible, stored <- file.data.cube, opened <- Opened

ImplementsArchive == Archive!Spec

=============================================================================
