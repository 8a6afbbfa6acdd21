------------------------------ MODULE MCLZ4Block ------------------------------
(* Small instances of LZ4Block.  The distances and lengths at which the    *)
(* code decides are those of the source, but for MaxDistance: a block of   *)
(* 283 bytes is long enough for wide positions, and a match may be at most *)
(* 271 bytes back.                                                         *)
EXTENDS LZ4RoundTripProofs, TLC

MCMaxDistance == 271
MCMaxInput == 320

MCHashValues == 0 .. 15

\* Few entries, so that blocks collide.
MCHash(bytes) == (bytes[1] + 2 * bytes[2] + 3 * bytes[4] + bytes[Len(bytes)]) % 16

Constant(n, b) == [i \in 1 .. n |-> b]

\* n bytes that do not repeat themselves.
Noise(n, seed) == [i \in 1 .. n |-> (seed + i * (i + 3) * 7 + i \div 2) % 251]

\* i bytes of noise, n bytes that repeat those k before, and a tail.
Repeat(i, k, n, tail) ==
  LET f[p \in 1 .. i + k + n] == IF p <= i + k THEN Noise(i + k, 5)[p] ELSE f[p - k]
  IN [p \in 1 .. i + k + n |-> f[p]] \o Noise(tail, 101)

\* Two letters, up to the length at which a block is searched and beyond.
ShortWords == {Constant(n, 7) : n \in {0, 1, 5, 12, 13, 14, 17}}
Words == {[Constant(20, 7) EXCEPT ![p] = 8, ![q] = 8] :
            p \in {1, 2, 6, 11}, q \in {3, 7, 8, 12, 16, 20}}

\* Literal runs and matches around the lengths that need another byte.
Lengths ==
  {Repeat(i, 8, 4, 13) : i \in {0, 6, 7, 8}}
    \cup {Repeat(0, 8, n, 13) : n \in {17, 18, 19, 20}}
    \cup {Repeat(i, 8, 4, 13) : i \in {261, 262, 263}}
    \cup {Repeat(1, 3, n, 13) : n \in {272, 273, 274, 275}}

\* Every offset the copies tell apart, with room for the fast loop or not.
Offsets == {Repeat(1, k, n, 15) :
              k \in 1 .. 9 \cup {15, 16, 17, 40, 256}, n \in {6, 18, 31}}

\* Tails of every length, behind a match that could reach to the end.
Tails == {Repeat(0, k, 21, n) : k \in {1, 9}, n \in 0 .. 9}

\* A match behind a match, with no literals between.
Runs == {Constant(20, 7) \o Constant(20, 8) \o Constant(26, 7)}

\* A match that begins far from the end of the room and ends near it.
LongMatches == {Repeat(1, k, 80, 20) : k \in {3, 8}}

\* Eight bytes that come again k bytes later, behind one long match: in the
\* longest block with narrow positions, and near and too far with wide ones.
Recurring(k, tail) ==
  Noise(8, 5) \o Constant(k - 8, 7) \o Noise(8, 5) \o Noise(tail, 101)

Far == {Recurring(262, 12), Recurring(270, 12), Recurring(271, 12), Recurring(272, 12)}

\* Larger than LZ4_MAX_INPUT_SIZE.
TooLarge == {Constant(MCMaxInput + 1, 7)}

Call(s, most, a) == [source |-> s, maxOutputSize |-> most, acceleration |-> a]

\* The room xrif gives, by the bound, and every room that is too small.
Bounded(blocks, accelerations) ==
  {Call(s, CompressBound(Len(s)), a) : s \in blocks, a \in accelerations}
Tight(blocks, sizes) == {Call(s, most, 1) : s \in blocks, most \in sizes}

MCCalls ==
  Bounded(ShortWords \cup Words \cup Lengths \cup Offsets \cup Tails \cup Runs
            \cup LongMatches \cup Far, {1})
    \cup Bounded(Words \cup TooLarge, {0, 3})
    \cup Tight(ShortWords \cup Words, 0 .. 24)
    \cup Tight(Runs, 10 .. 30)
    \cup Tight(Lengths, {9, 14, 20, 29, 30, 31, 32, 44, 45})

MCRooms == {-1, 0, 1, 70}

\* The borders of the sequences so far, found by walking over the stream
\* from token to token.
Walked ==
  LET end == IF stage = "match" THEN token ELSE Len(dst)
      LengthFrom(half, p) ==
        IF half = RunMask THEN RunMask + LengthSum(p, StreamEnd) ELSE half
      After(b) ==
        LET t == dst[b[2] + 1]
            n == LengthFrom(t \div 16, b[2] + 1)
            p == b[2] + HeadLength(n) + n
            m == LengthFrom(t % 16, p + 2)
        IN IF b[2] >= end \/ p >= end
             THEN b
             ELSE <<b[1] + n + m + MinMatch, p + 2 + TailLength(m)>>
      f[k \in 0 .. Len(dst) \div 3] == IF k = 0 THEN <<0, 0>> ELSE After(f[k - 1])
  IN {f[k] : k \in 0 .. Len(dst) \div 3}

\* The inductive invariant of the round trip, with these borders for those
\* it says there are: between any two steps of LZ4_compress_fast the stream
\* is a chain of sequences that stand for the source up to the anchor, and
\* LZ4_decompress_safe is at a border of two, or at a known place within one.
BordersWalked == StreamInv(Walked)

\* What the theorems assume of the calls.
ASSUME CallsShortWhenLimited == ShortWhenLimited

=============================================================================
