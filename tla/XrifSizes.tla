------------------------------ MODULE XrifSizes ------------------------------
(***************************************************************************)
(* The size arithmetic of an xrif handle: the minimum sizes of its three   *)
(* buffers, and how many bytes each stage of the pipeline really touches.  *)
(*                                                                         *)
(* The dimensions are uint32_t, so a product of dimensions alone wraps     *)
(* modulo U32 before data_size, a size_t, widens it.  A size_t product     *)
(* past 2^64 needs a cube whose uint32_t product has wrapped already, and  *)
(* is not modelled.                                                        *)
(***************************************************************************)
EXTENDS Integers

CONSTANTS
  U32,      \* number of values of a uint32_t, 2^32
  LZ4Max    \* LZ4_MAX_INPUT_SIZE, 0x7E000000

ASSUME SizesAssumption ==
  /\ U32 \in Nat \ {0}
  /\ LZ4Max \in 0 .. U32 - 1

Differences == {"none", "previous", "first", "pixel"}
Reorders == {"none", "bytepack", "renibble", "bitpack"}
Compressors == {"none", "lz4"}

TypeCodes == {"uint8", "int8", "uint16", "int16", "uint32", "int32",
              "uint64", "int64", "half", "float", "double", "cfloat", "cdouble"}

\* sizeof the type, 0 for a code that names none.
TypeSize(type) ==
  CASE type \in {"uint8", "int8"} -> 1
    [] type \in {"uint16", "int16", "half"} -> 2
    [] type \in {"uint32", "int32", "float"} -> 4
    [] type \in {"uint64", "int64", "double", "cfloat"} -> 8
    [] type = "cdouble" -> 16
    [] OTHER -> 0

-----------------------------------------------------------------------------
(* A size s is a record of the dimensions and the type code; "none" is a   *)
(* code that names no type.                                                *)

SizeRecords ==
  [width : 0 .. U32 - 1, height : 0 .. U32 - 1, depth : 0 .. U32 - 1,
   frames : 0 .. U32 - 1, type : TypeCodes \cup {"none"}]

Unsized == [width |-> 0, height |-> 0, depth |-> 0, frames |-> 0, type |-> "none"]

FramePixels(s) == (s.width * s.height * s.depth) % U32
Pixels(s) == (s.width * s.height * s.depth * s.frames) % U32
FrameBytes(s) == FramePixels(s) * TypeSize(s.type)
DataBytes(s) == Pixels(s) * TypeSize(s.type)

\* frames + 1, a uint32_t sum: a spare frame for an odd number of pixels.
FramesAndSpare(s) == (s.frames + 1) % U32

AtLeast(a, b) == IF a < b THEN b ELSE a

\* Variant: renibble and bitpack without the spare frame.
MinReorderedNoSpare(s, reorder) ==
  IF reorder \in Reorders THEN FrameBytes(s) * s.frames ELSE 0

MinReordered(s, reorder) ==
  CASE reorder = "none" -> DataBytes(s)
    [] reorder = "bytepack" -> FrameBytes(s) * s.frames
    [] reorder = "renibble" -> FrameBytes(s) * FramesAndSpare(s)
    [] reorder = "bitpack" -> AtLeast(FrameBytes(s), 16) * FramesAndSpare(s)
    [] OTHER -> 0

\* LZ4_compressBound: its argument is an int, compared as unsigned.
CompressBound(bytes) ==
  LET isize == bytes % U32
  IN IF isize > LZ4Max THEN 0 ELSE isize + (isize \div 255) + 16

MinCompressed(s, reorder, compress) ==
  CASE compress = "none" -> DataBytes(s)
    [] compress = "lz4" -> CompressBound(MinReordered(s, reorder))
    [] OTHER -> 0

MinRaw(s, reorder, compress, onRaw) ==
  IF onRaw THEN AtLeast(MinCompressed(s, reorder, compress), DataBytes(s))
           ELSE DataBytes(s)

-----------------------------------------------------------------------------
(* What the stages touch.  With pixel differencing the first frame is      *)
(* reordered with the rest, otherwise it is copied as it is.               *)

CopiedBytes(s, difference) == IF difference = "pixel" THEN 0 ELSE FrameBytes(s)

ReorderedPixels(s, difference) ==
  IF difference = "pixel"
  THEN Pixels(s)
  ELSE (s.width * s.height * s.depth * ((s.frames - 1) % U32)) % U32

HalfUp(k) == (k + 1) \div 2

\* Bytes of the raw buffer read by a reorder function and written back by
\* its inverse: bytepack, renibble and bitpack take two bytes a pixel.
RawTouched(s, difference, reorder) ==
  IF reorder = "none"
  THEN DataBytes(s)
  ELSE CopiedBytes(s, difference) + 2 * ReorderedPixels(s, difference)

\* Bytes of the reordered buffer written by a reorder function.  renibble
\* splits the high bytes in two runs of half a byte a pixel, each rounded
\* up; bitpack, given a buffer of that size, spreads 16 planes over it.
ReorderedTouched(s, difference, reorder, bytes) ==
  LET npix == ReorderedPixels(s, difference)
      oneFrame == CopiedBytes(s, difference)
      stride == (bytes - oneFrame) \div 32
  IN CASE reorder = "none" -> DataBytes(s)
       [] reorder = "bytepack" -> oneFrame + 2 * npix
       [] reorder = "renibble" -> oneFrame + npix + 2 * HalfUp(npix)
       [] reorder = "bitpack" ->
            IF npix = 0 THEN oneFrame
            ELSE oneFrame + 2 * (((npix - 1) \div 16) + 15 * stride + 1)

\* Bytes the compressor needs room for.
CompressTouched(s, reorder, compress, reorderedBytes) ==
  IF compress = "lz4" THEN CompressBound(MinReordered(s, reorder))
                      ELSE reorderedBytes

=============================================================================
