----------------------------- MODULE XrifReorder -----------------------------
(***************************************************************************)
(* The reorder stage of xrif on 16 bit pixels: bytepack, renibble and      *)
(* bitpack, and their inverses.                                            *)
(*                                                                         *)
(* A pixel is taken apart into bytes, nibbles or bits, and the parts are   *)
(* gathered so that those of equal significance lie together.  The loop    *)
(* over the pixels is under `#pragma omp parallel if (omp_parallel > 0)`   *)
(* and `#pragma omp for`.  An iteration makes a few updates of the         *)
(* reordered buffer, one after the other: a plain store, or an addition to *)
(* a cell that other pixels add to as well, which loads the cell and       *)
(* stores the sum.  Between reordering and its inverse the compress stage  *)
(* carries the first xrif_min_reordered_size bytes to the reordered buffer *)
(* of the handle that decodes.                                             *)
(*                                                                         *)
(* The words are held as their unsigned values, Bits = 16 wide in the      *)
(* code.  A cell of the reordered buffer is a byte, for bitpack a word.    *)
(* The reference frame, which is copied as it is when the difference       *)
(* method is not pixel, precedes the cells and is left out, as are the     *)
(* size checks (see XrifCodec): the loops start on buffers that passed.    *)
(***************************************************************************)
EXTENDS Integers, Sequences, FiniteSetsExt

CONSTANTS
  Bits,       \* bits of a pixel, 16
  Jobs,       \* the configurations callers choose, with the buffers they own
  Cubes,      \* the sequences of pixels to be reordered
  Threads,    \* the threads of an OpenMP team
  Schedules   \* per job and direction, how a loop may be dealt to the team

HalfBits == Bits \div 2
Word == 2 ^ Bits
Byte == 2 ^ HalfBits
Nibble == 2 ^ (Bits \div 4)

Methods == {"bytepack", "renibble", "bitpack"}
Directions == {"reorder", "unreorder"}

-----------------------------------------------------------------------------
(* A job j: method, difference method, framePixels, frames, and the cells  *)
(* of the reordered buffers of the handles that encode and decode.         *)

\* npix: with pixel differencing the first frame is reordered with the rest.
Npix(j) == j.framePixels *
           (IF j.difference = "pixel" THEN j.frames ELSE j.frames - 1)

Pixels(j) == 0 .. Npix(j) - 1

HalfUp(n) == (n + 1) \div 2

\* one_frame, in cells.
OneFrame(j) ==
  IF j.difference = "pixel" THEN 0
  ELSE IF j.method = "bitpack" THEN j.framePixels ELSE 2 * j.framePixels

\* xrif_min_reordered_size, in cells after the reference frame.
MinCells(j) ==
  CASE j.method = "bytepack" -> 2 * j.framePixels * j.frames - OneFrame(j)
    [] j.method = "renibble" -> 2 * j.framePixels * (j.frames + 1) - OneFrame(j)
    [] j.method = "bitpack" ->
         (IF j.framePixels < HalfBits THEN HalfBits ELSE j.framePixels)
            * (j.frames + 1) - OneFrame(j)

\* Variant: the division rounds up.
StrideRoundedUp(words) == (words + Bits - 1) \div Bits

(* bitpack spreads its planes, one per bit, over a whole reordered buffer  *)
(* of the given number of words.                                           *)
Stride(words) == words \div Bits

ASSUME ReorderAssumption ==
  /\ Bits \in Nat /\ Bits >= 4 /\ Bits % 4 = 0
  /\ Jobs \subseteq
       [method : Methods, difference : {"none", "previous", "first", "pixel"},
        framePixels : Nat \ {0}, frames : Nat \ {0},
        encoderCells : Nat, decoderCells : Nat]
  /\ \A j \in Jobs : /\ j.encoderCells >= MinCells(j)
                     /\ j.decoderCells >= MinCells(j)
  /\ \A c \in Cubes : \E j \in Jobs : c \in [Pixels(j) -> 0 .. Word - 1]
  /\ \A j \in Jobs : \A d \in Directions :
       Schedules[j][d] \subseteq [Pixels(j) -> Threads]


VARIABLES
  job,      \* the configuration of both handles
  orig,     \* history: the pixels given to the reorder stage
  raw,      \* the raw buffer, by pixel
  mem,      \* the reordered buffer, by cell
  phase,    \* "raw", "reorder", "reordered", "carried", "unreorder"
  owner,    \* which thread runs which iteration of the loop
  pending,  \* iterations that are not finished
  at,       \* per thread, the iteration in flight
  step,     \* per thread, the update of that iteration that is next
  val       \* per thread, the value it loaded or assembled

vars == <<job, orig, raw, mem, phase, owner, pending, at, step, val>>

Idle == -1       \* a thread with no iteration in flight
Nothing == -1    \* a thread that has loaded no value

-----------------------------------------------------------------------------
(* Words and their parts.                                                  *)

Bit(w, b) == (w \div 2 ^ b) % 2
LowByte(w) == w % Byte
HighByte(w) == w \div Byte
LowNibble(c) == c % Nibble
HighNibble(c) == c \div Nibble

(* bytepack: with a low byte of a negative sign the high bytes 0 and -1    *)
(* trade places, so that small values of either sign have a zero there.    *)
(* The exchange undoes itself.                                             *)
SwapSign(low, high) ==
  IF low < Byte \div 2 THEN high
  ELSE CASE high = Byte - 1 -> 0
         [] high = 0 -> Byte - 1
         [] OTHER -> high

\* renibble and bitpack: the magnitude, shifted up by one, and the sign in
\* the lowest bit.  The least word, whose magnitude overflows, becomes 1.
SignLast(w) == IF w >= Word \div 2 THEN (2 * (Word - w) + 1) % Word
                                   ELSE (2 * w) % Word

\* Variants: the inverse without the case of a sign without magnitude, with
\* and without the cut to the width of a word.
SignFirstNoMinimum(u) ==
  LET s == u \div 2 IN IF u % 2 = 1 THEN (Word - s) % Word ELSE s

SignFirstUncut(u) ==
  LET s == u \div 2 IN IF u % 2 = 1 THEN Word - s ELSE s

SignFirst(u) ==
  LET s == u \div 2
  IN IF u % 2 = 0 THEN s
     ELSE IF s = 0 THEN Word \div 2 ELSE Word - s

(* The lookup table bitshift_and_nibbles, by word and parity of the pixel: *)
(* the low byte, and the two nibbles of the high byte, each moved to the   *)
(* half that an even or odd pixel has in the byte it shares.               *)
BitshiftAndNibbles(w, parity) ==
  LET us == SignLast(w)
      high == HighByte(us)
  IN IF parity = 0
     THEN <<LowByte(us), LowNibble(high) * Nibble, HighNibble(high) * Nibble>>
     ELSE <<LowByte(us), LowNibble(high), HighNibble(high)>>

\* The lookup table bit_to_position: bit b of byte c, moved to position p.
BitToPosition(c, p, b) == Bit(c, b) * 2 ^ p

\* The lookup table set_bits: the positions of the bits set in a byte.
SetBits(c) == SelectSeq([i \in 1 .. HalfBits |-> i - 1],
                        LAMBDA b : Bit(c, b) = 1)

-----------------------------------------------------------------------------
(* What an iteration does to the reordered buffer: updates of a cell, "set"*)
(* for a store and "add" for the load and store of an addition.            *)

Set(cell, value) == [cell |-> cell, how |-> "set", by |-> value]
Add(cell, value) == [cell |-> cell, how |-> "add", by |-> value]

BytepackUpdates(j, pix, w) ==
  <<Set(pix, LowByte(w)),
    Set(Npix(j) + pix, SwapSign(LowByte(w), HighByte(w)))>>

\* Variant: the half byte offset rounds down.
RenibbleUpdatesRoundedDown(j, pix, w) ==
  LET bsn == BitshiftAndNibbles(w, pix % 2)
      shared == Npix(j) + pix \div 2
  IN <<Set(pix, bsn[1]),
       Add(shared, bsn[2]),
       Add(shared + Npix(j) \div 2, bsn[3])>>

\* halfoff is half the number of pixels, rounded up.
RenibbleUpdates(j, pix, w) ==
  LET bsn == BitshiftAndNibbles(w, pix % 2)
      shared == Npix(j) + pix \div 2
  IN <<Set(pix, bsn[1]),
       Add(shared, bsn[2]),
       Add(shared + HalfUp(Npix(j)), bsn[3])>>

\* All bits of the low byte, but only the bits set in the high byte.
BitpackUpdates(j, pix, w) ==
  LET us == SignLast(w)
      sbyte == pix \div Bits
      bit == pix % Bits
      stride == Stride(j.encoderCells)
      bits2 == SetBits(HighByte(us))
  IN [i \in 1 .. HalfBits |->
        Add(sbyte + (i - 1) * stride, BitToPosition(LowByte(us), bit, i - 1))]
     \o
     [i \in 1 .. Len(bits2) |->
        Add(sbyte + (HalfBits + bits2[i]) * stride,
            BitToPosition(HighByte(us), bit, bits2[i]))]

Updates(j, pix, w) ==
  CASE j.method = "bytepack" -> BytepackUpdates(j, pix, w)
    [] j.method = "renibble" -> RenibbleUpdates(j, pix, w)
    [] j.method = "bitpack" -> BitpackUpdates(j, pix, w)

\* The sum is cut to the width of the cell.
CellSize(j) == IF j.method = "bitpack" THEN Word ELSE Byte

(* What an iteration of the inverse makes of the reordered buffer m.       *)
BytepackGather(j, pix, m) ==
  LET low == m[pix]
      high == m[Npix(j) + pix]
  IN low + Byte * SwapSign(low, high)

RenibbleGather(j, pix, m) ==
  LET shared == Npix(j) + pix \div 2
      Half(c) == IF pix % 2 = 0 THEN HighNibble(c) ELSE LowNibble(c)
      nib1 == Half(m[shared])
      nib2 == Half(m[shared + HalfUp(Npix(j))])
  IN SignFirst(m[pix] + Byte * (nib1 + Nibble * nib2))

BitpackGather(j, pix, m) ==
  LET sbyte == pix \div Bits
      bit == pix % Bits
      stride == Stride(j.decoderCells)
  IN SignFirst(MapThenSumSet(LAMBDA b : Bit(m[sbyte + b * stride], bit) * 2 ^ b,
                             0 .. Bits - 1))

Gather(j, pix, m) ==
  CASE j.method = "bytepack" -> BytepackGather(j, pix, m)
    [] j.method = "renibble" -> RenibbleGather(j, pix, m)
    [] j.method = "bitpack" -> BitpackGather(j, pix, m)

-----------------------------------------------------------------------------
(* The layout of a reordered cube, cell by cell: the reference for what    *)
(* the loops compute update by update.                                     *)

\* One nibble of the high bytes of two pixels, the one that counts the given
\* unit; that of the even pixel comes in the upper half.
NibblePair(j, cube, pair, unit) ==
  LET NibbleOf(w) == (SignLast(w) \div unit) % Nibble
  IN Nibble * NibbleOf(cube[2 * pair])
     + IF 2 * pair + 1 < Npix(j) THEN NibbleOf(cube[2 * pair + 1]) ELSE 0

BytepackCell(j, cube, c) ==
  IF c < Npix(j) THEN LowByte(cube[c])
  ELSE LET w == cube[c - Npix(j)] IN SwapSign(LowByte(w), HighByte(w))

RenibbleCell(j, cube, c) ==
  LET npix == Npix(j)
      half == HalfUp(npix)
  IN CASE c < npix -> LowByte(SignLast(cube[c]))
       [] c \in npix .. npix + half - 1 ->
            NibblePair(j, cube, c - npix, Byte)
       [] c \in npix + half .. npix + 2 * half - 1 ->
            NibblePair(j, cube, c - npix - half, Byte * Nibble)
       [] c >= npix + 2 * half -> 0

BitpackCell(j, cube, c) ==
  LET stride == Stride(j.encoderCells)
      first == Bits * (c % stride)
      inWord == {p \in 0 .. Bits - 1 : first + p < Npix(j)}
  IN IF c >= Bits * stride THEN 0
     ELSE MapThenSumSet(
            LAMBDA p : Bit(SignLast(cube[first + p]), c \div stride) * 2 ^ p,
            inWord)

Layout(j, cube) ==
  [c \in 0 .. MinCells(j) - 1 |->
     CASE j.method = "bytepack" -> BytepackCell(j, cube, c)
       [] j.method = "renibble" -> RenibbleCell(j, cube, c)
       [] j.method = "bitpack" -> BitpackCell(j, cube, c)]

-----------------------------------------------------------------------------
\* What a buffer holds before anything is written to it.
Stale(size) == size - 1

Inputs(j) == {cube \in Cubes : DOMAIN cube = Pixels(j)}

Init ==
  /\ job \in Jobs
  /\ orig \in Inputs(job)
  /\ raw = orig
  /\ mem = [c \in 0 .. job.encoderCells - 1 |-> Stale(CellSize(job))]
  /\ phase = "raw"
  /\ owner \in Schedules[job]["reorder"]
  /\ pending = {}
  /\ at = [t \in Threads |-> Idle]
  /\ step = [t \in Threads |-> 1]
  /\ val = [t \in Threads |-> Nothing]

\* The caller fills the raw buffer with the next cube.
LoadCube(cube) ==
  /\ phase = "raw"
  /\ orig' = cube
  /\ raw' = cube
  /\ UNCHANGED <<job, mem, phase, owner, pending, at, step, val>>

\* Variant: no function clears the buffer.
ClearedNever(j, m) == m

\* memset: renibble and bitpack add to cells that must be zero.  renibble
\* clears the minimum size, bitpack the whole buffer.
Cleared(j, m) ==
  CASE j.method = "bytepack" -> m
    [] j.method = "renibble" ->
         [c \in DOMAIN m |-> IF c < MinCells(j) THEN 0 ELSE m[c]]
    [] j.method = "bitpack" -> [c \in DOMAIN m |-> 0]

StartReorder ==
  /\ phase = "raw"
  /\ phase' = "reorder"
  /\ mem' = Cleared(job,
              [c \in 0 .. job.encoderCells - 1 |-> Stale(CellSize(job))])
  /\ owner' \in Schedules[job]["reorder"]
  /\ pending' = Pixels(job)
  /\ UNCHANGED <<job, orig, raw, at, step, val>>

Running == phase \in {"reorder", "unreorder"}

\* The next iteration in thread t's share.
Takes(t, i) ==
  /\ Running
  /\ at[t] = Idle
  /\ owner[i] = t
  /\ \A k \in pending : owner[k] = t => i <= k

\* Thread t starts its next iteration of a reorder loop.
Take(t) ==
  /\ phase = "reorder"
  /\ \E i \in pending : Takes(t, i) /\ at' = [at EXCEPT ![t] = i]
  /\ step' = [step EXCEPT ![t] = 1]
  /\ UNCHANGED <<job, orig, raw, mem, phase, owner, pending, val>>

InFlight(t) == at[t] # Idle

\* The update that thread t makes next.
Current(t) == Updates(job, at[t], raw[at[t]])[step[t]]

\* Thread t loads the cell it is going to add to.
LoadCell(t) ==
  /\ phase = "reorder"
  /\ InFlight(t)
  /\ Current(t).how = "add"
  /\ val[t] = Nothing
  /\ val' = [val EXCEPT ![t] = mem[Current(t).cell]]
  /\ UNCHANGED <<job, orig, raw, mem, phase, owner, pending, at, step>>

Sum(u, loaded, size) == IF u.how = "set" THEN u.by ELSE (loaded + u.by) % size

\* Thread t stores; with its last update the iteration ends.
StoreCell(t) ==
  /\ phase = "reorder"
  /\ InFlight(t)
  /\ Current(t).how = "add" => val[t] # Nothing
  /\ mem' = [mem EXCEPT ![Current(t).cell] =
                          Sum(Current(t), val[t], CellSize(job))]
  /\ val' = [val EXCEPT ![t] = Nothing]
  /\ IF step[t] < Len(Updates(job, at[t], raw[at[t]]))
     THEN /\ step' = [step EXCEPT ![t] = @ + 1]
          /\ UNCHANGED <<pending, at>>
     ELSE /\ pending' = pending \ {at[t]}
          /\ at' = [at EXCEPT ![t] = Idle]
          /\ step' = [step EXCEPT ![t] = 1]
  /\ UNCHANGED <<job, orig, raw, phase, owner>>

(* The compress stage of the encoder and the decompress stage of the       *)
(* decoder carry the minimum number of cells; the rest of the decoder's    *)
(* reordered buffer and its raw buffer hold what was there.                *)
Carry ==
  /\ phase = "reordered"
  /\ phase' = "carried"
  /\ mem' = [c \in 0 .. job.decoderCells - 1 |->
               IF c < MinCells(job) THEN mem[c] ELSE Stale(CellSize(job))]
  /\ raw' = [p \in Pixels(job) |-> Stale(Word)]
  /\ UNCHANGED <<job, orig, owner, pending, at, step, val>>

StartUnreorder ==
  /\ phase = "carried"
  /\ phase' = "unreorder"
  /\ owner' \in Schedules[job]["unreorder"]
  /\ pending' = Pixels(job)
  /\ UNCHANGED <<job, orig, raw, mem, at, step, val>>

\* Thread t starts its next iteration of an inverse loop and assembles the
\* pixel from the cells it reads.
GatherPixel(t) ==
  /\ phase = "unreorder"
  /\ \E i \in pending :
       /\ Takes(t, i)
       /\ at' = [at EXCEPT ![t] = i]
       /\ val' = [val EXCEPT ![t] = Gather(job, i, mem)]
  /\ UNCHANGED <<job, orig, raw, mem, phase, owner, pending, step>>

\* Variant: the iteration is done but not counted as done.
PutPixelAgain(t) ==
  /\ phase = "unreorder"
  /\ InFlight(t)
  /\ raw' = [raw EXCEPT ![at[t]] = val[t]]
  /\ at' = [at EXCEPT ![t] = Idle]
  /\ val' = [val EXCEPT ![t] = Nothing]
  /\ UNCHANGED <<job, orig, mem, phase, owner, pending, step>>

\* Thread t writes the pixel to the raw buffer.
PutPixel(t) ==
  /\ phase = "unreorder"
  /\ InFlight(t)
  /\ raw' = [raw EXCEPT ![at[t]] = val[t]]
  /\ pending' = pending \ {at[t]}
  /\ at' = [at EXCEPT ![t] = Idle]
  /\ val' = [val EXCEPT ![t] = Nothing]
  /\ UNCHANGED <<job, orig, mem, phase, owner, step>>

\* The barrier at the end of the loop, and the return with XRIF_NOERROR.
Return ==
  /\ Running
  /\ pending = {}
  /\ phase' = IF phase = "reorder" THEN "reordered" ELSE "raw"
  /\ UNCHANGED <<job, orig, raw, mem, owner, pending, at, step, val>>

Next ==
  \/ \E cube \in Inputs(job) : LoadCube(cube)
  \/ StartReorder
  \/ \E t \in Threads : Take(t)
  \/ \E t \in Threads : LoadCell(t)
  \/ \E t \in Threads : StoreCell(t)
  \/ Carry
  \/ StartUnreorder
  \/ \E t \in Threads : GatherPixel(t)
  \/ \E t \in Threads : PutPixel(t)
  \/ Return

Spec == Init /\ [][Next]_vars

(* A call that has started runs on: the operating system schedules every   *)
(* thread of the team.  Callers owe no call.                               *)
Fairness ==
  /\ \A t \in Threads :
       /\ WF_vars(Take(t)) /\ WF_vars(LoadCell(t)) /\ WF_vars(StoreCell(t))
       /\ WF_vars(GatherPixel(t)) /\ WF_vars(PutPixel(t))
  /\ WF_vars(Return)

FairSpec == Spec /\ Fairness

-----------------------------------------------------------------------------
TypeOK ==
  /\ job \in Jobs
  /\ orig \in Inputs(job)
  /\ raw \in [Pixels(job) -> 0 .. Word - 1]
  /\ \E cells \in {job.encoderCells, job.decoderCells} :
       mem \in [0 .. cells - 1 -> 0 .. CellSize(job) - 1]
  /\ phase \in {"raw", "reorder", "reordered", "carried", "unreorder"}
  /\ owner \in [Pixels(job) -> Threads]
  /\ pending \subseteq Pixels(job)
  /\ at \in [Threads -> Pixels(job) \cup {Idle}]
  /\ step \in [Threads -> 1 .. Bits]
  /\ val \in [Threads -> {Nothing} \cup 0 .. Word - 1]

(* Lossless: when no call is running and every reordering has been undone, *)
(* the raw buffer holds the pixels the caller loaded, for every method and *)
(* every word, the least word and an odd number of pixels included.        *)
ReorderLossless == phase = "raw" => raw = orig

(* The reordered buffer is a function of the cube alone: no update of a    *)
(* byte or word that pixels share is lost, whatever the threads did.       *)
LayoutDeterministic ==
  phase = "reordered" =>
    \A c \in 0 .. MinCells(job) - 1 : mem[c] = Layout(job, orig)[c]

(* No two threads are about to update the same cell of the reordered       *)
(* buffer, or to write the same pixel: the additions are not atomic.       *)
NoDataRace ==
  \A t, u \in Threads :
    t # u /\ InFlight(t) /\ InFlight(u) =>
      /\ at[t] # at[u]
      /\ phase = "reorder" => Current(t).cell # Current(u).cell

(* Every update falls in the part of the reordered buffer that the         *)
(* compress stage carries to the decoder, xrif_min_reordered_size bytes:   *)
(* neither the rounded halves of renibble nor the planes of bitpack, whose *)
(* distance depends on the size of the whole buffer, reach past it.        *)
UpdatesCarried ==
  \A t \in Threads :
    phase = "reorder" /\ InFlight(t) => Current(t).cell \in 0 .. MinCells(job) - 1

(* A reorder or unreorder call that has started returns.                   *)
CallsReturn ==
  /\ phase = "reorder" ~> phase = "reordered"
  /\ phase = "unreorder" ~> phase = "raw"

=============================================================================
