---------------------------- MODULE MCXrifReorder ----------------------------
(* Small instances of XrifReorder: pixels of four bits, so that a byte is  *)
(* two bits, a nibble is one and a word of bitpack is shared by four       *)
(* pixels.                                                                 *)
EXTENDS XrifReorderProofs, TLC

CONSTANTS t1, t2

\* A job whose handles own buffers of the minimum size and spare cells.
Job(m, d, pixels, frames, encoderSpare, decoderSpare) ==
  LET j == [method |-> m, difference |-> d,
            framePixels |-> pixels, frames |-> frames]
  IN j @@ ("encoderCells" :> MinCells(j) + encoderSpare)
       @@ ("decoderCells" :> MinCells(j) + decoderSpare)

\* Odd and even numbers of pixels, a reference frame or none, and for the
\* byte methods spare cells.  bitpack's frames have at least Bits pixels.
EveryMethod ==
  {Job("bytepack", "previous", 3, 2, 1, 2),
   Job("renibble", "first", 3, 2, 2, 1),
   Job("renibble", "pixel", 2, 2, 0, 0),
   Job("bitpack", "previous", 5, 2, 0, 0),
   Job("bitpack", "pixel", 4, 1, 0, 0)}

RenibbleOnly == {Job("renibble", "previous", 3, 2, 0, 0)}

\* schedule(static) on two threads, with the second chunk at pixel b.
Chunks(j, b) == [p \in Pixels(j) |-> IF p < b THEN t1 ELSE t2]

\* The pixels that share a cell: none, two, or a word full.
Shared(j) == CASE j.method = "bytepack" -> 1
               [] j.method = "renibble" -> 2
               [] j.method = "bitpack" -> Bits

Borders(j) == 0 .. Npix(j)

\* Chunks of the reorder loops that do not split a shared cell.
WholeCells ==
  [j \in Jobs |->
     [d \in Directions |->
        {Chunks(j, b) : b \in {b \in Borders(j) :
           d = "reorder" => b % Shared(j) = 0 \/ b = Npix(j)}}]]

\* Whatever chunks the number of pixels and threads gives.
AnyChunks ==
  [j \in Jobs |-> [d \in Directions |-> {Chunks(j, b) : b \in Borders(j)}]]

\* Every word at every pixel, with a neighbour of the other sign or parity.
Ramp(npix, w, slope) == [p \in 0 .. npix - 1 |-> (w + slope * p) % 2 ^ Bits]

Ramps ==
  {Ramp(npix, w, 7) : npix \in {3, 4, 5}, w \in 0 .. 2 ^ Bits - 1}

FewRamps == {Ramp(3, w, 9) : w \in {7, 8, 15}}

\* The hypotheses of XrifReorderProofs on this instance.
ASSUME TwoBytesOfTwoNibbles
ASSUME Schedules = WholeCells => PairsTogether

=============================================================================
