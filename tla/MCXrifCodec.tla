----------------------------- MODULE MCXrifCodec -----------------------------
(* Small instances of XrifCodec.                                           *)
EXTENDS XrifCodecProofs, TLC

\* The theorems are about these instances, but for the two that show what
\* happens to careless programs.
ASSUME ChecksRoom /\ ~ Retries => CarefulPrograms

Cube(w, h, d, f, t) ==
  [width |-> w, height |-> h, depth |-> d, frames |-> f, type |-> t]

\* Two frames of an odd number of pixels, and a type that bytepack rejects.
OddCube == Cube(3, 1, 1, 2, "int16")
WideCube == Cube(1, 1, 1, 2, "int32")

Setup(s, d, r, c) ==
  [size |-> s, methods |-> [difference |-> d, reorder |-> r, compress |-> c]]

CubeSymmetry == Permutations(Cubes)

MixedSetups ==
  {Setup(OddCube, "pixel", "bytepack", "lz4"),
   Setup(OddCube, "previous", "renibble", "lz4"),
   Setup(OddCube, "first", "none", "none"),
   Setup(OddCube, "none", "none", "none"),
   Setup(WideCube, "previous", "bytepack", "lz4")}

\* The second is what a program falls back on when the first is refused.
FallbackSetups ==
  {Setup(WideCube, "previous", "bytepack", "lz4"),
   Setup(WideCube, "previous", "none", "lz4")}

OneSetup == {Setup(OddCube, "previous", "bytepack", "lz4")}

\* Longer than the library would allocate for an odd cube.
LongBuffers == [buffer : {"raw", "compressed"}, bytes : {34}]

\* Longer than the pixels of an odd cube are many, but not than their bytes.
ShortBuffer == [buffer : {"raw"}, bytes : {8}]

NoLoans == {}

=============================================================================
