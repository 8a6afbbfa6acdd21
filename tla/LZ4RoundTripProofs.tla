-------------------------- MODULE LZ4RoundTripProofs --------------------------
(***************************************************************************)
(* Proofs about LZ4Block: LZ4_decompress_safe gives back every block that  *)
(* LZ4_compress_fast compressed, byte by byte, and refuses it only for     *)
(* want of room; no copy of the decoder uses a byte not yet written.       *)
(*                                                                         *)
(* The argument is about the stream: between the first byte and the last   *)
(* literals it consists of sequences, each of which stands for a part of   *)
(* the source.  The encoder adds one at a time; the decoder is always at   *)
(* the border of two sequences, or at a known place inside of one.         *)
(***************************************************************************)
EXTENDS LZ4BlockProofs

-----------------------------------------------------------------------------
(* What stands in a stream d for a source s.                               *)

\* What a length leaves in its half of the token.
Half(n) == IF n < RunMask THEN n ELSE RunMask

\* The bytes from a token to its n literals, and behind an offset.
HeadLength(n) == IF n >= RunMask THEN 2 + (n - RunMask) \div 255 ELSE 1
TailLength(m) == IF m >= MatchMask THEN (m - MatchMask) \div 255 + 1 ELSE 0

\* The length bytes of n at p.
LengthStands(d, p, n) ==
  /\ \A k \in 1 .. n \div 255 : d[p + k] = 255
  /\ d[p + n \div 255 + 1] = n % 255

\* At p a token with n literals, those of the source from i on.
LiteralsStand(s, d, i, p, n) ==
  /\ i + n <= Len(s) /\ p + HeadLength(n) + n <= Len(d)
  /\ d[p + 1] \div 16 = Half(n)
  /\ n >= RunMask => LengthStands(d, p + 1, n - RunMask)
  /\ \A k \in 1 .. n : d[p + HeadLength(n) + k] = s[i + k]

\* The n bytes of the source from i on repeat those o before.
Repeats(s, i, n, o) ==
  /\ o \in 1 .. MaxDistance /\ o <= i
  /\ i + MatchFindLimit <= Len(s) /\ i + n <= Len(s) - LastLiteralBytes
  /\ \A k \in 1 .. n : s[i + k] = s[i + k - o]

\* At p an offset and the length code m of a match.
MatchStands(s, d, i, p, m) ==
  /\ m >= MatchMask => LengthStands(d, p + 2, m - MatchMask)
  /\ Repeats(s, i, m + MinMatch, d[p + 1] + 256 * d[p + 2])

\* From p to q a sequence for the source from i to j.
SequenceStands(s, d, i, p, j, q) ==
  \E n \in 0 .. j - i - MinMatch :
    LET m == j - i - n - MinMatch
        behind == p + HeadLength(n) + n
    IN /\ q = behind + 2 + TailLength(m) /\ q <= Len(d)
       /\ LiteralsStand(s, d, i, p, n)
       /\ d[p + 1] % 16 = Half(m)
       /\ MatchStands(s, d, i + n, behind, m)

\* From p on the last literals, and nothing behind them.
LastStand(s, d, i, p) ==
  LET n == Len(s) - i
  IN /\ LiteralsStand(s, d, i, p, n)
     /\ d[p + 1] = Half(n) * 16
     /\ Len(d) = p + HeadLength(n) + n

\* Borders, pairs of positions in source and stream: from each but the last,
\* which is at i and p, a sequence leads to another.
Borders(B, s, d, i, p) ==
  /\ <<0, 0>> \in B /\ <<i, p>> \in B
  /\ \A b \in B :
       /\ b[1] <= i /\ b[2] <= p
       /\ \/ b = <<i, p>>
          \/ \E c \in B : SequenceStands(s, d, b[1], b[2], c[1], c[2])

-----------------------------------------------------------------------------
(* The inductive invariant.  B are the borders of the sequences so far.    *)

\* The sequence in progress has its literals.
InSequence ==
  LET n == ip - anchor
  IN /\ LiteralsStand(src, dst, anchor, token, n)
     /\ dst[token + 1] = Half(n) * 16
     /\ Len(dst) = token + HeadLength(n) + n
     /\ \A k \in 1 .. MinMatch : src[ip + k] = src[match + k]

EncoderBorders(B) ==
  /\ stage \in {"find", "literals", "next", "last"} =>
       Borders(B, src, dst, anchor, Len(dst))
  /\ stage = "match" => Borders(B, src, dst, anchor, token) /\ InSequence

Complete(B) ==
  \E b \in B : /\ b[1] = 0 \/ b[1] <= MatchEnd
               /\ Borders(B, src, dst, b[1], b[2])
               /\ LastStand(src, dst, b[1], b[2])

\* out is what stands at the beginning of the source.
Prefix == Op <= Len(src) /\ \A k \in 1 .. Op : out[k] = src[k]

\* At p an offset and the rest of a sequence with the token t, that goes on
\* from i and leads to a border.
AtOffset(B, t, i, p) ==
  \E c \in B : LET m == c[1] - i - MinMatch
               IN /\ m >= 0 /\ c[2] = p + 2 + TailLength(m)
                  /\ t % 16 = Half(m)
                  /\ MatchStands(src, dst, i, p, m)

\* Literals of the given length are to be copied, and then comes an offset,
\* or the end.
AtLiteralBytes(B) ==
  /\ Op + length <= Len(src) /\ rp + length <= StreamEnd
  /\ \A k \in 1 .. length : dst[rp + k] = src[Op + k]
  /\ \/ Op + length = Len(src) /\ rp + length = StreamEnd
     \/ AtOffset(B, code, Op + length, rp + length)

\* Behind the offset.
AtMatchLength(B) ==
  \E c \in B : LET m == c[1] - Op - MinMatch
               IN /\ m >= 0 /\ c[2] = rp + TailLength(m)
                  /\ length = Half(m)
                  /\ m >= MatchMask => LengthStands(dst, rp, m - MatchMask)
                  /\ Repeats(src, Op, m + MinMatch, offset)

DecoderBorders(B) ==
  /\ stage \in DecoderStages \cup {"decoded", "rejected"} => Prefix
  /\ stage \in {"fast", "safe"} => <<Op, rp>> \in B
  /\ stage \in {"fastMatch", "shortcut", "safeOffset"} => AtOffset(B, code, Op, rp)
  /\ stage = "safeLiterals" => AtLiteralBytes(B)
  /\ stage = "copyMatch" => AtMatchLength(B)
  /\ stage = "safeCopy" => /\ <<Op + length, rp>> \in B
                           /\ Repeats(src, Op, length, offset)

StreamInv(B) ==
  /\ EncoderBorders(B)
  /\ stage \in {"compressed"} \cup DecoderStages => Complete(B)
  /\ DecoderBorders(B)
  /\ BlockRoundTrip
  /\ offset \in 0 .. MaxDistance

RoundTripInv == \E B \in SUBSET (Nat \X Nat) : StreamInv(B)

-----------------------------------------------------------------------------
(* The copies of the decoder.  In chunks, with a source that overlaps the  *)
(* destination, each does what one byte at a time would do: it repeats the *)
(* last o bytes, for every offset o and every length.                      *)

LEMMA Modulus ==
  ASSUME NEW k \in Nat, NEW d \in Nat, d > 0
  PROVE  /\ k % d \in Nat /\ k % d < d
         /\ k < d => k % d = k
         /\ k >= d => (k - d) % d = k % d
<1>1. /\ k \div d \in Nat /\ k % d \in Nat /\ k % d < d
      /\ k = d * (k \div d) + (k % d)
  OBVIOUS
<1>2. k < d => k % d = k
  OBVIOUS
<1>3. ASSUME k >= d PROVE (k - d) % d = k % d
  <2> DEFINE j == k - d
  <2>1. j \in Nat
    BY <1>3
  <2>2. /\ j \div d \in Nat /\ j % d \in Nat /\ j % d < d
        /\ j = d * (j \div d) + (j % d)
    BY <2>1
  <2> DEFINE q == k \div d
             r == k % d
             x == j \div d
             y == j % d
  <2>3. d * q + r = d * x + y + d
    BY <1>1, <1>3, <2>2
  <2> HIDE DEF q, r, x, y, j
  <2>4. q \in Nat /\ r \in Nat /\ r < d /\ x \in Nat /\ y \in Nat /\ y < d
    BY <1>1, <2>2 DEF q, r, x, y
  <2>5. ~ q < x + 1
    <3> SUFFICES ASSUME q < x + 1 PROVE FALSE
      OBVIOUS
    <3>1. PICK e \in Nat : x = q + e
      BY <2>4
    <3>2. d * x = d * q + d * e /\ d * e \in Nat /\ d * q \in Nat
      BY <2>4, <3>1
    <3> QED
      BY <2>3, <2>4, <3>2
  <2>6. ~ q > x + 1
    <3> SUFFICES ASSUME q > x + 1 PROVE FALSE
      OBVIOUS
    <3>1. PICK e \in Nat : q = x + 2 + e
      BY <2>4
    <3>2. d * q = d * x + d + d + d * e /\ d * e \in Nat /\ d * x \in Nat
      BY <2>4, <3>1
    <3> QED
      BY <2>3, <2>4, <3>2
  <2>7. q = x + 1
    BY <2>4, <2>5, <2>6
  <2>8. d * q = d * x + d /\ d * x \in Nat
    BY <2>4, <2>7
  <2>9. y = r
    BY <2>3, <2>4, <2>8
  <2> QED
    BY <2>9 DEF y, r, j
<1> QED
  BY <1>1, <1>2, <1>3

\* Functions that agree wherever they agree before are equal.
LEMMA Determined ==
  ASSUME NEW I \in SUBSET Nat, NEW f, NEW w,
         \A k \in I : (\A j \in I : j < k => f[j] = w[j]) => f[k] = w[k]
  PROVE  \A k \in I : f[k] = w[k]
<1> DEFINE S == {k \in I : f[k] # w[k]}
<1> SUFFICES ASSUME S # {} PROVE FALSE
  OBVIOUS
<1>1. PICK k \in S : \A j \in S : k <= j
  <2>1. S \in SUBSET Nat
    OBVIOUS
  <2> HIDE DEF S
  <2> QED
    BY <2>1, LeastNumber
<1>2. k \in I /\ f[k] # w[k]
  OBVIOUS
<1>3. ASSUME NEW j \in I, j < k PROVE f[j] = w[j]
  <2>1. j \in Nat /\ k \in Nat
    BY <1>2
  <2>2. ~ k <= j
    BY <1>3, <2>1
  <2> QED
    BY <1>1, <2>2
<1> QED
  BY <1>2, <1>3

\* The byte k places behind out when the last o are repeated.
Again(o, k) == Decoded((k % o) - o)

(* A source that is at least a chunk away is always written before it is   *)
(* read.                                                                   *)
LEMMA ChunkedRepeats ==
  ASSUME NEW d \in Nat, NEW chunk \in Nat, chunk > 0, d >= chunk, NEW n \in Nat
  PROVE  \A k \in 0 .. n - 1 : ChunkBytes(d, chunk, n)[k] = Again(d, k)
<1> DEFINE I == 0 .. n - 1
           G(g) == [k \in I |->
                      IF k < d THEN Decoded(k - d)
                      ELSE IF k - d < (k \div chunk) * chunk THEN g[k - d]
                           ELSE Unwritten]
           w == [k \in I |-> Again(d, k)]
           f == ChunkBytes(d, chunk, n)
<1>1. ASSUME NEW k \in I
      PROVE  /\ k \in Nat
             /\ k < d => Again(d, k) = Decoded(k - d)
             /\ k >= d => /\ k - d \in I /\ k - d < k
                          /\ k - d < (k \div chunk) * chunk
                          /\ Again(d, k) = Again(d, k - d)
  <2>1. k \in Nat /\ d > 0
    OBVIOUS
  <2>2. k < d => k % d = k
    BY <2>1
  <2>3. k >= d => (k - d) % d = k % d
    BY <2>1, Modulus
  <2>4. k - chunk < (k \div chunk) * chunk
    <3> DEFINE q == k \div chunk
    <3>1. q \in Nat /\ k < chunk * q + chunk
      BY <2>1
    <3> HIDE DEF q
    <3>2. chunk * q = q * chunk /\ q * chunk \in Nat
      BY <3>1
    <3>3. k - chunk < q * chunk
      BY <2>1, <3>1, <3>2
    <3> QED
      BY <3>3 DEF q
  <2>5. (k \div chunk) * chunk \in Nat
    BY <2>1
  <2>6. k >= d => k - d \in I /\ k - d < k /\ k - d < (k \div chunk) * chunk
    BY <2>1, <2>4, <2>5
  <2> QED
    BY <2>1, <2>2, <2>3, <2>6 DEF Again
<1>2. w = G(w)
  <2> SUFFICES ASSUME NEW k \in I PROVE w[k] = G(w)[k]
    OBVIOUS
  <2>1. CASE k < d
    <3>1. ~ k >= d
      BY <1>1, <2>1
    <3>2. G(w)[k] = Decoded(k - d)
      BY <2>1, <3>1
    <3> QED
      BY <1>1, <2>1, <3>2
  <2>2. CASE k >= d
    <3>1. ~ k < d /\ k - d \in I /\ k - d < (k \div chunk) * chunk
          /\ ~ k - d >= (k \div chunk) * chunk
      <4>1. k \in Nat /\ k - d \in Int /\ (k \div chunk) * chunk \in Int
        BY <1>1
      <4> QED
        BY <1>1, <2>2, <4>1
    <3>2. G(w)[k] = w[k - d]
      BY <2>2, <3>1
    <3> QED
      BY <1>1, <2>2, <3>1, <3>2
  <2> QED
    BY <1>1, <2>1, <2>2
<1>3. f = CHOOSE g : g = G(g)
  BY DEF ChunkBytes
<1>4. f = G(f)
  <2> HIDE DEF G
  <2> QED
    BY <1>2, <1>3
<1> HIDE DEF f
<1>5. ASSUME NEW k \in I, \A j \in I : j < k => f[j] = w[j]
      PROVE  f[k] = w[k]
  <2>1. f[k] = G(f)[k] /\ w[k] = G(w)[k]
    BY <1>2, <1>4
  <2>2. CASE k < d
    <3>1. G(f)[k] = Decoded(k - d) /\ G(w)[k] = Decoded(k - d)
      BY <2>2
    <3> QED
      BY <2>1, <3>1
  <2>3. CASE k >= d
    <3>1. ~ k < d /\ k - d \in I /\ k - d < k /\ k - d < (k \div chunk) * chunk
      BY <1>1, <2>3
    <3>2. G(f)[k] = f[k - d] /\ G(w)[k] = w[k - d]
      BY <3>1
    <3> QED
      BY <1>5, <2>1, <3>1, <3>2
  <2> QED
    BY <1>1, <2>2, <2>3
<1>6. \A k \in I : f[k] = w[k]
  <2>0. \A k \in I : (\A j \in I : j < k => f[j] = w[j]) => f[k] = w[k]
    BY <1>5
  <2> HIDE DEF w, I
  <2>1. I \in SUBSET Nat
    BY DEF I
  <2> QED
    BY <2>0, <2>1, Determined
<1> QED
  BY <1>6 DEF f

(* A source less than a chunk away: where the byte k comes from, and how   *)
(* many bytes are written by then.                                         *)
CloseFrom(o, k) == CASE k < 4 -> k - o
                     [] k \in 4 .. 7 -> k - 4 - o + Inc32(o)
                     [] k >= 8 -> k - (8 + o - Inc32(o) + Dec64(o))
CloseKnown(k) == CASE k < 4 -> k
                   [] k \in 4 .. 7 -> 4
                   [] k >= 8 -> (k \div 8) * 8

LEMMA Tables ==
  /\ Inc32(1) = 1 /\ Inc32(2) = 2 /\ Inc32(3) = 1 /\ Inc32(4) = 0
  /\ Inc32(5) = 4 /\ Inc32(6) = 4 /\ Inc32(7) = 4
  /\ Dec64(1) = 0 /\ Dec64(2) = 0 /\ Dec64(3) = -1 /\ Dec64(4) = -4
  /\ Dec64(5) = 1 /\ Dec64(6) = 2 /\ Dec64(7) = 3
BY DEF Inc32, Dec64

\* inc32table and dec64table keep the source a multiple of the offset away.
LEMMA CloseFromIs ==
  ASSUME NEW o \in 1 .. 7, NEW k \in Nat
  PROVE  /\ CloseFrom(o, k) \in Int /\ CloseFrom(o, k) < k
         /\ CloseFrom(o, k) < 0 => CloseFrom(o, k) = (k % o) - o
         /\ CloseFrom(o, k) >= 0 =>
              CloseFrom(o, k) < CloseKnown(k) /\ CloseFrom(o, k) % o = k % o
<1>0. o = 1 \/ o = 2 \/ o = 3 \/ o = 4 \/ o = 5 \/ o = 6 \/ o = 7
  OBVIOUS
<1>1. CASE k < 4
  <2>1. CloseFrom(o, k) = k - o /\ CloseKnown(k) = k
    BY <1>1 DEF CloseFrom, CloseKnown
  <2> QED
    BY <1>0, <1>1, <2>1
<1>2. CASE k \in 4 .. 7
  <2>1. CloseFrom(o, k) = k - 4 - o + Inc32(o) /\ CloseKnown(k) = 4
    BY <1>2 DEF CloseFrom, CloseKnown
  <2>2. \/ o = 1 /\ Inc32(o) = 1
        \/ o = 2 /\ Inc32(o) = 2
        \/ o = 3 /\ Inc32(o) = 1
        \/ o = 4 /\ Inc32(o) = 0
        \/ o = 5 /\ Inc32(o) = 4
        \/ o = 6 /\ Inc32(o) = 4
        \/ o = 7 /\ Inc32(o) = 4
    BY <1>0, Tables
  <2> QED
    BY <1>2, <2>1, <2>2
<1>3. CASE k >= 8
  <2> DEFINE d == 8 + o - Inc32(o) + Dec64(o)
  <2>1. CloseFrom(o, k) = k - d /\ CloseKnown(k) = (k \div 8) * 8
    BY <1>3 DEF CloseFrom, CloseKnown
  <2>2. \/ o = 1 /\ d = 8
        \/ o = 2 /\ d = 8
        \/ o = 3 /\ d = 9
        \/ o = 4 /\ d = 8
        \/ o = 5 /\ d = 10
        \/ o = 6 /\ d = 12
        \/ o = 7 /\ d = 14
    BY <1>0, Tables
  <2> HIDE DEF d
  <2> QED
    BY <1>3, <2>1, <2>2
<1> QED
  BY <1>1, <1>2, <1>3

LEMMA CloseRepeats ==
  ASSUME NEW o \in 1 .. 7, NEW n \in Nat
  PROVE  \A k \in 0 .. n - 1 : CloseBytes(o, n)[k] = Again(o, k)
<1> DEFINE I == 0 .. Furthest(n, 8) - 1
           G(g) == [k \in I |->
                      IF CloseFrom(o, k) < 0 THEN Decoded(CloseFrom(o, k))
                      ELSE IF CloseFrom(o, k) < CloseKnown(k)
                           THEN g[CloseFrom(o, k)] ELSE Unwritten]
           w == [k \in I |-> Again(o, k)]
           f == CloseBytes(o, n)
<1>1. ASSUME NEW k \in I
      PROVE  /\ k \in Nat
             /\ CloseFrom(o, k) < 0 => Again(o, k) = Decoded(CloseFrom(o, k))
             /\ ~ CloseFrom(o, k) < 0 =>
                  /\ CloseFrom(o, k) \in I /\ CloseFrom(o, k) < k
                  /\ CloseFrom(o, k) < CloseKnown(k)
                  /\ Again(o, k) = Again(o, CloseFrom(o, k))
  <2>1. Furthest(n, 8) \in Nat /\ k \in Nat /\ k <= Furthest(n, 8) - 1
    BY DEF Furthest
  <2> DEFINE c == CloseFrom(o, k)
  <2>2. /\ c \in Int /\ c < k
        /\ c < 0 => c = (k % o) - o
        /\ c >= 0 => c < CloseKnown(k) /\ c % o = k % o
    BY <2>1, CloseFromIs
  <2> HIDE DEF c
  <2>3. c < 0 => Again(o, k) = Decoded(c)
    BY <2>2 DEF Again
  <2>4. ~ c < 0 => c \in I /\ Again(o, k) = Again(o, c)
    BY <2>1, <2>2 DEF Again
  <2> QED
    BY <2>1, <2>2, <2>3, <2>4 DEF c
<1>2. w = G(w)
  <2> SUFFICES ASSUME NEW k \in I PROVE w[k] = G(w)[k]
    OBVIOUS
  <2>1. w[k] = Again(o, k) /\ \A j \in I : w[j] = Again(o, j)
    OBVIOUS
  <2> HIDE DEF I
  <2>2. G(w)[k] = IF CloseFrom(o, k) < 0 THEN Decoded(CloseFrom(o, k))
                  ELSE IF CloseFrom(o, k) < CloseKnown(k)
                       THEN w[CloseFrom(o, k)] ELSE Unwritten
    OBVIOUS
  <2> HIDE DEF w, G
  <2> QED
    BY <1>1, <2>1, <2>2
<1>3. f = CHOOSE g : g = G(g)
  BY DEF CloseBytes, CloseFrom, CloseKnown
<1>4. f = G(f)
  <2> HIDE DEF G
  <2> QED
    BY <1>2, <1>3
<1> HIDE DEF f
<1>5. ASSUME NEW k \in I, \A j \in I : j < k => f[j] = w[j]
      PROVE  f[k] = w[k]
  <2> DEFINE c == CloseFrom(o, k)
  <2>1. f[k] = G(f)[k] /\ w[k] = G(w)[k]
    BY <1>2, <1>4
  <2>2. CASE c < 0
    <3>1. G(f)[k] = Decoded(c) /\ G(w)[k] = Decoded(c)
      BY <2>2
    <3> QED
      BY <2>1, <3>1
  <2>3. CASE ~ c < 0
    <3>1. c \in I /\ c < k /\ c < CloseKnown(k)
      BY <1>1, <2>3
    <3>2. G(f)[k] = f[c] /\ G(w)[k] = w[c]
      BY <2>3, <3>1
    <3> QED
      BY <1>5, <2>1, <3>1, <3>2
  <2> QED
    BY <2>2, <2>3
<1>6. \A k \in I : f[k] = w[k]
  <2>0. \A k \in I : (\A j \in I : j < k => f[j] = w[j]) => f[k] = w[k]
    BY <1>5
  <2> HIDE DEF w, I
  <2>1. I \in SUBSET Nat
    BY DEF I, Furthest
  <2> QED
    BY <2>0, <2>1, Determined
<1>7. \A k \in 0 .. n - 1 : k \in I
  BY DEF Furthest
<1> QED
  BY <1>6, <1>7 DEF f

(* Every way to copy a match, in chunks or as a pattern, gives what copying *)
(* one byte at a time would: the last o bytes over and over, for every     *)
(* offset and every length, and never a byte that is not yet written.      *)
THEOREM CopiesRepeat ==
  ASSUME NEW o \in Nat, o >= 1, NEW n \in Nat
  PROVE  /\ FastCopy(o, n) = RepeatedCopy(o, n)
         /\ SafeCopyBytes(o, n) = RepeatedCopy(o, n)
         /\ o >= 8 => Chunked(o, 8, n) = RepeatedCopy(o, n)
<1>1. ASSUME NEW f, \A k \in 0 .. n - 1 : f[k] = Again(o, k)
      PROVE  FromZero(f, n) = RepeatedCopy(o, n)
  <2>1. \A i \in 1 .. n : f[i - 1] = Decoded(((i - 1) % o) - o)
    BY <1>1 DEF Again
  <2> QED
    BY <2>1 DEF FromZero, RepeatedCopy
<1>2. ASSUME NEW chunk \in {8, 16}, o >= chunk
      PROVE  Chunked(o, chunk, n) = RepeatedCopy(o, n)
  BY <1>1, <1>2, ChunkedRepeats DEF Chunked
<1>3. o \in 1 .. 7 => CloseCopy(o, n) = RepeatedCopy(o, n)
  BY <1>1, CloseRepeats DEF CloseCopy
<1>4. SafeCopyBytes(o, n) = RepeatedCopy(o, n)
  BY <1>2, <1>3 DEF SafeCopyBytes
<1>5. FastCopy(o, n) = RepeatedCopy(o, n)
  <2>1. CASE o \in {1, 2, 4}
    BY <2>1 DEF FastCopy
  <2>2. CASE o \in {3, 5, 6, 7}
    <3>1. FastCopy(o, n) = CloseCopy(o, n)
      BY <2>2 DEF FastCopy
    <3> QED
      BY <1>3, <2>2, <3>1
  <2>3. CASE o \in 8 .. 15
    <3>1. FastCopy(o, n) = Chunked(o, 8, n)
      BY <2>3 DEF FastCopy
    <3> QED
      BY <1>2, <2>3, <3>1
  <2>4. CASE o >= 16
    <3>1. FastCopy(o, n) = Chunked(o, 16, n)
      BY <2>4 DEF FastCopy
    <3> QED
      BY <1>2, <2>4, <3>1
  <2> QED
    BY <2>1, <2>2, <2>3, <2>4
<1> QED
  BY <1>2, <1>4, <1>5

-----------------------------------------------------------------------------
(* Copies and literals put down what stands in the source.                 *)

USE DEF MinMatch, WildLength, LastLiteralBytes, MatchFindLimit, MinLength,
        SafeguardDistance, FastDistance, RunMask, MatchMask, SkipTrigger

\* Bytes that repeat those o before are the last o over and over.
LEMMA RepeatsBack ==
  ASSUME NEW s, NEW i \in Nat, NEW n \in Nat, NEW o \in Nat, Repeats(s, i, n, o)
  PROVE  \A k \in 0 .. n - 1 : s[i + k + 1] = s[i + (k % o) - o + 1]
<1> DEFINE I == 0 .. n - 1
           f == [k \in I |-> s[i + k + 1]]
           w == [k \in I |-> s[i + (k % o) - o + 1]]
<1>1. o >= 1 /\ \A k \in 1 .. n : s[i + k] = s[i + k - o]
  BY DEF Repeats
<1>2. ASSUME NEW k \in I, \A j \in I : j < k => f[j] = w[j]
      PROVE  f[k] = w[k]
  <2>1. k \in Nat /\ k + 1 \in 1 .. n /\ i + (k + 1) = i + k + 1
    OBVIOUS
  <2>2. f[k] = s[i + k + 1] /\ s[i + k + 1] = s[i + (k + 1) - o]
    BY <1>1, <2>1
  <2>3. CASE k < o
    <3>1. k % o = k
      BY <1>1, <2>1, <2>3, Modulus
    <3>2. i + (k + 1) - o = i + k - o + 1
      BY <2>1
    <3> QED
      BY <2>2, <3>1, <3>2
  <2>4. CASE k >= o
    <3>1. k - o \in I /\ k - o < k /\ i + (k - o) + 1 = i + (k + 1) - o
      BY <1>1, <2>1, <2>4
    <3>2. (k - o) % o = k % o
      <4>1. k \in Nat /\ o > 0
        BY <1>1, <2>1
      <4> QED
        BY <2>4, <4>1, Modulus
    <3>3. f[k - o] = w[k - o]
      BY <1>2, <3>1
    <3>4. f[k - o] = s[i + (k - o) + 1] /\ w[k - o] = s[i + (k % o) - o + 1]
      BY <3>1, <3>2
    <3>5. w[k] = s[i + (k % o) - o + 1]
      OBVIOUS
    <3> QED
      BY <2>2, <3>1, <3>3, <3>4, <3>5
  <2> QED
    BY <1>1, <2>1, <2>3, <2>4
<1>3. \A k \in I : f[k] = w[k]
  <2>1. \A k \in I : (\A j \in I : j < k => f[j] = w[j]) => f[k] = w[k]
    BY <1>2
  <2>2. I \in SUBSET Nat
    OBVIOUS
  <2> HIDE DEF f, w, I
  <2> QED
    BY <2>1, <2>2, Determined
<1>4. \A k \in I : f[k] = s[i + k + 1] /\ w[k] = s[i + (k % o) - o + 1]
  OBVIOUS
<1> HIDE DEF f, w
<1> QED
  BY <1>3, <1>4

LEMMA RepeatsHere ==
  ASSUME Op \in Nat, NEW n \in Nat, NEW o \in Nat, Repeats(src, Op, n, o)
  PROVE  \A k \in 0 .. n - 1 : src[Op + k + 1] = src[Op + (k % o) - o + 1]
<1> DEFINE x == Op
<1>1. x \in Nat /\ Repeats(src, x, n, o)
  OBVIOUS
<1> HIDE DEF x
<1>2. \A k \in 0 .. n - 1 : src[x + k + 1] = src[x + (k % o) - o + 1]
  BY <1>1, RepeatsBack
<1> QED
  BY <1>2 DEF x

LEMMA PrefixGrows ==
  ASSUME src \in Seq(Bytes), IsSeq(out), Prefix,
         NEW n \in Nat, Op + n <= Len(src),
         NEW s, IsSeq(s), Len(s) = n, \A k \in 1 .. n : s[k] = src[Op + k],
         out' = out \o s, src' = src
  PROVE  Prefix' /\ Op' = Op + n /\ Op \in Nat
<1>1. IsSeq(out \o s) /\ Len(out \o s) = Op + n /\ Op \in Nat
  BY OutGrows
<1>2. \A k \in 1 .. Op + n : (out \o s)[k] = IF k <= Op THEN out[k] ELSE s[k - Op]
  <2> DEFINE S == Range(out) \cup Range(s)
  <2>1. out \in Seq(S) /\ s \in Seq(S)
    BY SeqMonotonic DEF IsSeq
  <2> HIDE DEF S
  <2> QED
    BY <2>1, ConcatProperties DEF Op
<1>3. ASSUME NEW k \in 1 .. Op + n PROVE (out \o s)[k] = src[k]
  <2>1. CASE k <= Op
    <3>1. k \in 1 .. Op
      BY <1>1, <2>1
    <3> QED
      BY <1>2, <2>1, <3>1 DEF Prefix
  <2>2. CASE ~ k <= Op
    <3>1. k - Op \in 1 .. n /\ Op + (k - Op) = k
      BY <1>1, <2>2
    <3> QED
      BY <1>2, <2>2, <3>1
  <2> QED
    BY <2>1, <2>2
<1>4. Op' = Op + n
  BY <1>1 DEF Op
<1> QED
  BY <1>1, <1>3, <1>4 DEF Prefix

LEMMA CopyGrows ==
  ASSUME src \in Seq(Bytes), IsSeq(out), Prefix,
         NEW n \in Nat, NEW o \in Nat, Repeats(src, Op, n, o),
         NEW s, s = RepeatedCopy(o, n), out' = out \o s, src' = src
  PROVE  Prefix' /\ Op' = Op + n /\ Op \in Nat
<1>1. Op \in Nat /\ Len(src) \in Nat
  BY LenProperties DEF Op, IsSeq
<1>2. o >= 1 /\ o <= Op /\ Op + n <= Len(src)
  BY <1>1 DEF Repeats
<1>3. IsSeq(s) /\ Len(s) = n
  <2>1. s = [i \in 1 .. n |-> s[i]]
    BY DEF RepeatedCopy
  <2> QED
    BY <2>1, FunctionIsSeq
<1>4. ASSUME NEW k \in 1 .. n PROVE s[k] = src[Op + k]
  <2> DEFINE r == (k - 1) % o
  <2>1. k - 1 \in 0 .. n - 1 /\ k - 1 \in Nat /\ Op + (k - 1) + 1 = Op + k
    BY <1>1
  <2>2. r \in Nat /\ r < o
    BY <1>2, <2>1, Modulus
  <2>3. s[k] = Decoded(r - o)
    BY DEF RepeatedCopy
  <2>4. src[Op + (k - 1) + 1] = src[Op + r - o + 1]
    <3>1. \A j \in 0 .. n - 1 : src[Op + j + 1] = src[Op + (j % o) - o + 1]
      BY <1>1, RepeatsHere
    <3> QED
      BY <2>1, <3>1
  <2> HIDE DEF r
  <2>5. Op + r - o + 1 \in 1 .. Op /\ Op + (r - o) + 1 = Op + r - o + 1
    BY <1>1, <1>2, <2>2
  <2>6. Decoded(r - o) = src[Op + r - o + 1]
    BY <2>5 DEF Decoded, Prefix, Op
  <2> QED
    BY <2>1, <2>3, <2>4, <2>6
<1> QED
  BY <1>2, <1>3, <1>4, PrefixGrows

LEMMA LiteralsGrow ==
  ASSUME src \in Seq(Bytes), dst \in Seq(Bytes), IsSeq(out), Prefix,
         NEW p \in Nat, NEW n \in Nat, Op + n <= Len(src), p + n <= StreamEnd,
         \A k \in 1 .. n : dst[p + k] = src[Op + k],
         out' = out \o Literals(p, n), src' = src
  PROVE  Prefix' /\ Op' = Op + n /\ Op \in Nat
<1>1. StreamEnd \in Nat /\ Len(dst) = StreamEnd
  BY LenProperties DEF StreamEnd
<1>2. IsSeq(Literals(p, n)) /\ Len(Literals(p, n)) = n
  BY LiteralsAre
<1>3. \A k \in 1 .. n : Literals(p, n)[k] = dst[p + k]
  <2>1. \A i \in p + 1 .. p + n : dst[i] \in Bytes
    BY <1>1, ElementOfSeq
  <2>2. \A k \in 1 .. (p + n) - (p + 1) + 1 :
          SubSeq(dst, p + 1, p + n)[k] = dst[(p + 1) + k - 1]
    BY <2>1, SubSeqProperties
  <2>3. (p + n) - (p + 1) + 1 = n /\ \A k \in 1 .. n : (p + 1) + k - 1 = p + k
    OBVIOUS
  <2> QED
    BY <2>2, <2>3 DEF Literals
<1> HIDE DEF Literals
<1> DEFINE s == Literals(p, n)
<1>4. \A k \in 1 .. n : s[k] = src[Op + k]
  BY <1>3
<1> HIDE DEF s
<1>5. IsSeq(s) /\ Len(s) = n /\ out' = out \o s
  BY <1>2 DEF s
<1> QED
  BY <1>4, <1>5, PrefixGrows

-----------------------------------------------------------------------------
(* Lengths: what the encoder puts down is what the decoder reads.          *)

LEMMA Parts ==
  ASSUME NEW n \in Nat
  PROVE  /\ Half(n) \in 0 .. 15 /\ (n < 15 => Half(n) = n) /\ (n >= 15 => Half(n) = 15)
         /\ HeadLength(n) \in Nat /\ HeadLength(n) >= 1
         /\ n < 15 => HeadLength(n) = 1
         /\ n >= 15 => HeadLength(n) = 2 + (n - 15) \div 255
         /\ TailLength(n) \in Nat
         /\ n < 15 => TailLength(n) = 0
         /\ n >= 15 => TailLength(n) = 1 + (n - 15) \div 255
BY DEF Half, HeadLength, TailLength

LEMMA Token ==
  ASSUME NEW h \in 0 .. 15, NEW m \in 0 .. 15
  PROVE  /\ (h * 16 + m) \div 16 = h /\ (h * 16 + m) % 16 = m
         /\ (h * 16) \div 16 = h /\ (h * 16) % 16 = 0
OBVIOUS

LEMMA LengthReadExact ==
  ASSUME dst \in Seq(Bytes), NEW p \in Nat, NEW n \in Nat, NEW limit \in Int,
         LengthStands(dst, p, n), p + n \div 255 < limit,
         p + n \div 255 + 1 <= StreamEnd
  PROVE  /\ LengthRead(p, limit) = n \div 255 + 1
         /\ LengthSum(p, limit) = n
<1> DEFINE q == n \div 255
           r == n % 255
           P(j) == /\ dst[p + j] # 255 \/ p + j >= limit
                   /\ \A i \in 1 .. j - 1 : dst[p + i] = 255 /\ p + i < limit
<1>1. q \in Nat /\ r \in Nat /\ r < 255 /\ n = q * 255 + r
  OBVIOUS
<1>2. (\A k \in 1 .. q : dst[p + k] = 255) /\ dst[p + q + 1] = r
  BY DEF LengthStands
<1>3. StreamEnd \in Nat
  BY LenProperties DEF StreamEnd
<1>4. p + q < limit /\ p + q + 1 <= StreamEnd
  OBVIOUS
<1> HIDE DEF q, r
<1>5. p + (q + 1) = p + q + 1 /\ q + 1 \in 1 .. StreamEnd - p /\ (q + 1) - 1 = q
  BY <1>1, <1>3, <1>4
<1>6. P(q + 1)
  <2>1. dst[p + (q + 1)] # 255
    BY <1>1, <1>2, <1>5
  <2>2. \A i \in 1 .. q : dst[p + i] = 255 /\ p + i < limit
    <3> SUFFICES ASSUME NEW i \in 1 .. q PROVE dst[p + i] = 255 /\ p + i < limit
      OBVIOUS
    <3>1. p + i < limit
      BY <1>1, <1>4
    <3> QED
      BY <1>2, <3>1
  <2> QED
    BY <1>5, <2>1, <2>2
<1>7. ASSUME NEW j \in 1 .. StreamEnd - p, P(j) PROVE j = q + 1
  <2>1. j \in Nat /\ j >= 1
    BY <1>3
  <2>2. ~ j < q + 1
    <3> SUFFICES ASSUME j < q + 1 PROVE FALSE
      OBVIOUS
    <3>1. j \in 1 .. q /\ p + j < limit
      BY <1>1, <1>4, <2>1
    <3>2. ~ p + j >= limit
      BY <2>1, <3>1
    <3> QED
      BY <1>2, <1>7, <3>1, <3>2
  <2>3. ~ j > q + 1
    <3> SUFFICES ASSUME j > q + 1 PROVE FALSE
      OBVIOUS
    <3>1. q + 1 \in 1 .. j - 1
      BY <1>1, <2>1
    <3>2. dst[p + (q + 1)] = 255
      <4>1. P(j)
        BY <1>7
      <4>2. \A i \in 1 .. j - 1 : dst[p + i] = 255 /\ p + i < limit
        BY <4>1
      <4> DEFINE x == q + 1
      <4>3. x \in 1 .. j - 1
        BY <3>1
      <4> HIDE DEF P, x
      <4>4. dst[p + x] = 255
        BY <4>2, <4>3
      <4> QED
        BY <4>4 DEF x
    <3>3. dst[p + (q + 1)] = r
      BY <1>2, <1>5
    <3> QED
      BY <1>1, <3>2, <3>3
  <2> QED
    BY <1>1, <2>1, <2>2, <2>3
<1>8. LengthRead(p, limit) = CHOOSE j \in 1 .. StreamEnd - p : P(j)
  BY DEF LengthRead
<1>9. LengthRead(p, limit) = q + 1
  <2> HIDE DEF P
  <2> QED
    BY <1>5, <1>6, <1>7, <1>8
<1>10. LengthSum(p, limit) = ((q + 1) - 1) * 255 + r
  BY <1>2, <1>5, <1>9 DEF LengthSum
<1> QED
  BY <1>1, <1>9, <1>10 DEF q

\* The length of literals that stand at p is read as what it is.
LEMMA LiteralsRead ==
  ASSUME dst \in Seq(Bytes), NEW i \in Nat, NEW p \in Nat, NEW n \in Nat,
         LiteralsStand(src, dst, i, p, n)
  PROVE  /\ dst[p + 1] \in Bytes /\ dst[p + 1] \div 16 = Half(n)
         /\ ~ LiteralLengthCut(dst[p + 1], p + 1)
         /\ LiteralLength(dst[p + 1], p + 1) = n
         /\ BehindLiteralLength(dst[p + 1], p + 1) = p + HeadLength(n)
<1> DEFINE c == dst[p + 1]
           h == HeadLength(n)
<1>1. StreamEnd \in Nat /\ Len(dst) = StreamEnd
  BY LenProperties DEF StreamEnd
<1>2. /\ p + h + n <= StreamEnd /\ c \div 16 = Half(n)
      /\ n >= RunMask => LengthStands(dst, p + 1, n - RunMask)
  BY <1>1 DEF LiteralsStand
<1>3. h \in Nat /\ h >= 1
  BY Parts
<1>4. c \in Bytes
  <2> HIDE DEF h
  <2>1. p < StreamEnd
    BY <1>1, <1>2, <1>3
  <2> QED
    BY <2>1, ByteOfStream
<1>5. CASE n < 15
  <2>1. h = 1 /\ Half(n) = n
    BY <1>5, Parts
  <2> HIDE DEF c, h
  <2>2. c \div 16 # RunMask /\ c \div 16 = n
    BY <1>2, <1>5, <2>1
  <2>3. /\ ~ LiteralLengthCut(c, p + 1)
        /\ LiteralLength(c, p + 1) = n
        /\ BehindLiteralLength(c, p + 1) = p + 1
    BY <2>2 DEF LiteralLengthCut, LiteralLength, BehindLiteralLength
  <2> QED
    BY <1>2, <1>4, <2>1, <2>3 DEF c, h
<1>6. CASE n >= 15
  <2> DEFINE e == (n - 15) \div 255
             m == n - 15
             limit == StreamEnd - RunMask
  <2>1. h = 2 + e /\ Half(n) = 15 /\ e \in Nat /\ m \in Nat /\ m + 15 = n
    BY <1>6, Parts
  <2>2. LengthStands(dst, p + 1, m)
    BY <1>2, <1>6
  <2>3. limit \in Int /\ (p + 1) + m \div 255 < limit /\ (p + 1) + m \div 255 + 1 <= StreamEnd
    <3> HIDE DEF e, h
    <3>1. p + 2 + e + n <= StreamEnd
      BY <1>2, <2>1
    <3>2. (p + 1) + e < limit /\ (p + 1) + e + 1 <= StreamEnd
      BY <1>1, <1>6, <2>1, <3>1
    <3> QED
      BY <1>1, <3>2 DEF e
  <2> HIDE DEF e, h, c, m, limit
  <2>4. p + 1 \in Nat
    OBVIOUS
  <2>5. LengthRead(p + 1, limit) = m \div 255 + 1 /\ LengthSum(p + 1, limit) = m
    BY <2>1, <2>2, <2>3, <2>4, LengthReadExact, SMTT(60)
  <2>6. c \div 16 = RunMask
    BY <1>2, <2>1
  <2>7. LiteralLength(c, p + 1) = RunMask + m
    BY <2>5, <2>6 DEF LiteralLength, limit
  <2>8. BehindLiteralLength(c, p + 1) = p + 1 + (e + 1)
    BY <2>5, <2>6 DEF BehindLiteralLength, limit, m, e
  <2>9. ~ LiteralLengthCut(c, p + 1)
    <3>1. p + 1 < StreamEnd - RunMask
      <4>1. m \div 255 \in Nat
        BY <2>1
      <4> QED
        BY <1>1, <2>3, <4>1 DEF limit
    <3>2. ~ p + 1 >= StreamEnd - RunMask
      BY <1>1, <3>1
    <3> QED
      BY <3>2 DEF LiteralLengthCut
  <2>10. RunMask + m = n /\ p + 1 + (e + 1) = p + h
    BY <2>1
  <2> QED
    BY <1>2, <1>4, <2>7, <2>8, <2>9, <2>10 DEF c, h
<1> QED
  BY <1>5, <1>6

\* The same for the length of a match, not too close to the end.
LEMMA MatchRead ==
  ASSUME dst \in Seq(Bytes), NEW p \in Nat, NEW m \in Nat,
         m >= MatchMask => LengthStands(dst, p, m - MatchMask),
         p + TailLength(m) + 6 <= StreamEnd
  PROVE  /\ ~ MatchLengthCut(Half(m), p)
         /\ MatchLength(Half(m), p) = m + MinMatch
         /\ BehindMatchLength(Half(m), p) = p + TailLength(m)
<1>1. StreamEnd \in Nat /\ MatchLengthLimit = StreamEnd - 4
  BY LenProperties DEF StreamEnd, MatchLengthLimit
<1>2. CASE m < 15
  <2>1. Half(m) = m /\ TailLength(m) = 0
    BY <1>2, Parts
  <2>2. m # MatchMask
    BY <1>2
  <2>3. /\ ~ MatchLengthCut(m, p)
        /\ MatchLength(m, p) = MinMatch + m
        /\ BehindMatchLength(m, p) = p
    BY <2>2 DEF MatchLengthCut, MatchLength, BehindMatchLength
  <2> QED
    BY <2>1, <2>3
<1>3. CASE m >= 15
  <2> DEFINE e == (m - 15) \div 255
             k == m - 15
             t == TailLength(m)
  <2>1. t = 1 + e /\ Half(m) = 15 /\ e \in Nat /\ k \in Nat /\ k + 15 = m
    BY <1>3, Parts
  <2>2. LengthStands(dst, p, k)
    BY <1>3
  <2>3. /\ MatchLengthLimit \in Int /\ p + k \div 255 < MatchLengthLimit
        /\ p + k \div 255 + 1 <= StreamEnd
    <3>1. p + (1 + e) + 6 <= StreamEnd
      BY <2>1
    <3> HIDE DEF e, t
    <3>2. p + e < MatchLengthLimit /\ p + e + 1 <= StreamEnd
      BY <1>1, <2>1, <3>1
    <3> QED
      BY <1>1, <3>2 DEF e
  <2> HIDE DEF k, t
  <2>4. LengthRead(p, MatchLengthLimit) = k \div 255 + 1
        /\ LengthSum(p, MatchLengthLimit) = k
    <3> DEFINE limit == MatchLengthLimit
    <3>1. limit \in Int /\ p + k \div 255 < limit /\ p + k \div 255 + 1 <= StreamEnd
      BY <2>3
    <3> HIDE DEF limit
    <3>2. LengthRead(p, limit) = k \div 255 + 1 /\ LengthSum(p, limit) = k
      <4>1. k \in Nat
        BY <2>1
      <4> QED
        BY <2>2, <3>1, <4>1, LengthReadExact, SMTT(60)
    <3> QED
      BY <3>2 DEF limit
  <2>5. LengthRead(p, MatchLengthLimit) = e + 1
    BY <2>4 DEF k
  <2>6. ~ p + (e + 1) >= MatchLengthLimit
    <3>1. p + (1 + e) + 6 <= StreamEnd
      BY <2>1 DEF t
    <3> HIDE DEF e
    <3> QED
      BY <1>1, <2>1, <3>1
  <2> HIDE DEF e
  <2>7. /\ ~ MatchLengthCut(15, p)
        /\ MatchLength(15, p) = MinMatch + (MatchMask + k)
        /\ BehindMatchLength(15, p) = p + (e + 1)
    BY <2>4, <2>5, <2>6 DEF MatchLengthCut, MatchLength, BehindMatchLength
  <2>8. MinMatch + (MatchMask + k) = m + MinMatch /\ p + (e + 1) = p + t
    BY <2>1
  <2> QED
    BY <2>1, <2>7, <2>8 DEF t
<1> QED
  BY <1>2, <1>3

-----------------------------------------------------------------------------
(* What stands in the stream keeps standing while the stream grows.        *)

LEMMA LengthKept ==
  ASSUME NEW d, NEW e, NEW p \in Nat, NEW n \in Nat, NEW q \in Nat,
         \A k \in p + 1 .. q : e[k] = d[k], p + n \div 255 + 1 <= q,
         LengthStands(d, p, n)
  PROVE  LengthStands(e, p, n)
<1> DEFINE u == n \div 255
<1>1. u \in Nat /\ p + u + 1 <= q
  OBVIOUS
<1>2. (\A k \in 1 .. u : d[p + k] = 255) /\ d[p + u + 1] = n % 255
  BY DEF LengthStands
<1> HIDE DEF u
<1>3. ASSUME NEW k \in 1 .. u PROVE e[p + k] = 255
  <2>1. p + k \in p + 1 .. q
    BY <1>1
  <2> QED
    BY <1>2, <2>1
<1>4. e[p + u + 1] = n % 255
  <2>1. p + u + 1 \in p + 1 .. q
    BY <1>1
  <2> QED
    BY <1>2, <2>1
<1> QED
  BY <1>3, <1>4 DEF LengthStands, u

LEMMA LiteralsKept ==
  ASSUME NEW s, NEW d, NEW e, NEW i \in Nat, NEW p \in Nat, NEW n \in Nat,
         NEW q \in Nat, q <= Len(e), Len(e) \in Nat,
         e[p + 1] \div 16 = Half(n), \A k \in p + 2 .. q : e[k] = d[k],
         LiteralsStand(s, d, i, p, n), p + HeadLength(n) + n <= q
  PROVE  LiteralsStand(s, e, i, p, n)
<1> DEFINE h == HeadLength(n)
<1>1. h \in Nat /\ h >= 1 /\ p + h + n <= q
  BY Parts
<1>2. /\ i + n <= Len(s) /\ \A k \in 1 .. n : d[p + h + k] = s[i + k]
      /\ n >= RunMask => LengthStands(d, p + 1, n - RunMask)
  BY DEF LiteralsStand
<1> HIDE DEF h
<1>3. ASSUME NEW k \in 1 .. n PROVE e[p + h + k] = s[i + k]
  <2>1. p + h + k \in p + 2 .. q
    BY <1>1
  <2> QED
    BY <1>2, <2>1
<1>4. ASSUME n >= RunMask PROVE LengthStands(e, p + 1, n - RunMask)
  <2>1. h = 2 + (n - 15) \div 255
    BY <1>4, Parts DEF h
  <2> DEFINE u == (n - 15) \div 255
             m == n - 15
             x == p + 1
  <2>2. u \in Nat /\ m \in Nat /\ x \in Nat
    BY <1>4
  <2>3. p + 1 + u + 1 <= q
    <3>1. h = 2 + u
      BY <2>1
    <3> HIDE DEF u
    <3> QED
      BY <1>1, <2>2, <3>1
  <2>4. x + m \div 255 + 1 <= q
    BY <2>3
  <2>5. \A k \in x + 1 .. q : e[k] = d[k]
    <3>1. x + 1 = p + 2
      OBVIOUS
    <3> QED
      BY <3>1
  <2>6. LengthStands(d, x, m)
    BY <1>2, <1>4
  <2> HIDE DEF u, m, x
  <2>7. LengthStands(e, x, m)
    BY <2>2, <2>4, <2>5, <2>6, LengthKept
  <2> QED
    BY <2>7 DEF x, m
<1>5. p + h + n <= Len(e)
  BY <1>1
<1> QED
  BY <1>2, <1>3, <1>4, <1>5 DEF LiteralsStand, h

LEMMA MatchKept ==
  ASSUME NEW s, NEW d, NEW e, NEW i \in Nat, NEW p \in Nat, NEW m \in Nat,
         NEW q \in Nat, \A k \in p + 1 .. q : e[k] = d[k],
         MatchStands(s, d, i, p, m), p + 2 + TailLength(m) <= q
  PROVE  MatchStands(s, e, i, p, m)
<1> DEFINE t == TailLength(m)
<1>1. t \in Nat /\ p + 2 + t <= q
  BY Parts
<1> HIDE DEF t
<1>2. e[p + 1] = d[p + 1] /\ e[p + 2] = d[p + 2]
  <2>1. p + 1 \in p + 1 .. q /\ p + 2 \in p + 1 .. q
    BY <1>1
  <2> QED
    BY <2>1
<1>3. ASSUME m >= MatchMask PROVE LengthStands(e, p + 2, m - MatchMask)
  <2> DEFINE u == (m - 15) \div 255
             k == m - 15
             x == p + 2
  <2>1. t = 1 + u
    BY <1>3, Parts DEF t
  <2>2. u \in Nat /\ k \in Nat /\ x \in Nat
    BY <1>3
  <2>3. p + 2 + u + 1 <= q
    <3> HIDE DEF u
    <3> QED
      BY <1>1, <2>1, <2>2
  <2>4. x + k \div 255 + 1 <= q
    BY <2>3
  <2>5. \A y \in x + 1 .. q : e[y] = d[y]
    OBVIOUS
  <2>6. LengthStands(d, x, k)
    BY <1>3 DEF MatchStands
  <2> HIDE DEF u, k, x
  <2>7. LengthStands(e, x, k)
    BY <2>2, <2>4, <2>5, <2>6, LengthKept
  <2> QED
    BY <2>7 DEF x, k
<1> QED
  BY <1>2, <1>3 DEF MatchStands

\* The parts of a sequence, in numbers.
LEMMA SequenceIs ==
  ASSUME NEW s, NEW d, NEW i \in Nat, NEW p \in Nat, NEW j \in Nat, NEW q \in Nat,
         SequenceStands(s, d, i, p, j, q)
  PROVE  \E n \in Nat, m \in Nat, r \in Nat :
           /\ r = p + HeadLength(n) + n /\ j = i + n + m + MinMatch
           /\ q = r + 2 + TailLength(m) /\ q <= Len(d) /\ r >= p + 1 /\ q >= r + 2
           /\ LiteralsStand(s, d, i, p, n)
           /\ d[p + 1] % 16 = Half(m)
           /\ MatchStands(s, d, i + n, r, m)
<1>1. PICK n \in 0 .. j - i - MinMatch :
        LET m == j - i - n - MinMatch
            behind == p + HeadLength(n) + n
        IN /\ q = behind + 2 + TailLength(m) /\ q <= Len(d)
           /\ LiteralsStand(s, d, i, p, n)
           /\ d[p + 1] % 16 = Half(m)
           /\ MatchStands(s, d, i + n, behind, m)
  BY DEF SequenceStands
<1> DEFINE m == j - i - n - MinMatch
           r == p + HeadLength(n) + n
<1>2. n \in Nat /\ m \in Nat /\ j = i + n + m + MinMatch
  OBVIOUS
<1>3. r \in Nat /\ r >= p + 1
  <2>1. HeadLength(n) \in Nat /\ HeadLength(n) >= 1
    BY <1>2, Parts
  <2> QED
    BY <1>2, <2>1
<1>4. /\ q = r + 2 + TailLength(m) /\ q <= Len(d)
      /\ LiteralsStand(s, d, i, p, n) /\ d[p + 1] % 16 = Half(m)
      /\ MatchStands(s, d, i + n, r, m)
  BY <1>1
<1>5. r = p + HeadLength(n) + n
  OBVIOUS
<1> HIDE DEF m, r
<1>6. q >= r + 2
  <2>1. TailLength(m) \in Nat
    BY <1>2, Parts
  <2> QED
    BY <1>3, <1>4, <2>1
<1> QED
  BY <1>2, <1>3, <1>4, <1>5, <1>6

LEMMA SequenceFrom ==
  ASSUME NEW s, NEW d, NEW i \in Nat, NEW p \in Nat, NEW n \in Nat, NEW m \in Nat,
         NEW r, NEW j, NEW q,
         r = p + HeadLength(n) + n, j = i + n + m + MinMatch,
         q = r + 2 + TailLength(m), q <= Len(d),
         LiteralsStand(s, d, i, p, n), d[p + 1] % 16 = Half(m),
         MatchStands(s, d, i + n, r, m)
  PROVE  SequenceStands(s, d, i, p, j, q)
<1>1. n \in 0 .. j - i - MinMatch /\ j - i - n - MinMatch = m
  OBVIOUS
<1> QED
  BY <1>1 DEF SequenceStands

LEMMA SequenceKept ==
  ASSUME NEW s, NEW d, NEW e, NEW i \in Nat, NEW p \in Nat, NEW j \in Nat, NEW q \in Nat,
         SequenceStands(s, d, i, p, j, q),
         Len(e) \in Nat, q <= Len(e), \A k \in 1 .. q : e[k] = d[k]
  PROVE  SequenceStands(s, e, i, p, j, q)
<1>1. PICK n \in Nat, m \in Nat, r \in Nat :
        /\ r = p + HeadLength(n) + n /\ j = i + n + m + MinMatch
        /\ q = r + 2 + TailLength(m) /\ q <= Len(d) /\ r >= p + 1 /\ q >= r + 2
        /\ LiteralsStand(s, d, i, p, n)
        /\ d[p + 1] % 16 = Half(m)
        /\ MatchStands(s, d, i + n, r, m)
  BY SequenceIs
<1>2. e[p + 1] = d[p + 1]
  <2>1. p + 1 \in 1 .. q
    BY <1>1, SMTT(30)
  <2> QED
    BY <2>1
<1>3. LiteralsStand(s, e, i, p, n)
  <2>1. e[p + 1] \div 16 = Half(n)
    BY <1>1, <1>2 DEF LiteralsStand
  <2>2. \A k \in p + 2 .. q : e[k] = d[k]
    OBVIOUS
  <2>3. p + HeadLength(n) + n <= q
    <3>1. r <= q
      BY <1>1
    <3> QED
      BY <1>1, <3>1
  <2>4. LiteralsStand(s, d, i, p, n)
    BY <1>1
  <2> QED
    BY <2>1, <2>2, <2>3, <2>4, LiteralsKept
<1>4. MatchStands(s, e, i + n, r, m)
  <2> DEFINE x == i + n
  <2>1. x \in Nat /\ MatchStands(s, d, x, r, m)
    BY <1>1
  <2>2. \A k \in r + 1 .. q : e[k] = d[k]
    OBVIOUS
  <2>3. r + 2 + TailLength(m) <= q
    BY <1>1
  <2> HIDE DEF x
  <2>4. MatchStands(s, e, x, r, m)
    BY <2>1, <2>2, <2>3, MatchKept
  <2> QED
    BY <2>4 DEF x
<1>5. /\ r = p + HeadLength(n) + n /\ j = i + n + m + MinMatch
      /\ q = r + 2 + TailLength(m) /\ e[p + 1] % 16 = Half(m)
  BY <1>1, <1>2
<1> QED
  BY <1>3, <1>4, <1>5, SequenceFrom

LEMMA BordersKept ==
  ASSUME NEW B \in SUBSET (Nat \X Nat), NEW s, NEW d, NEW e, NEW i \in Nat, NEW p \in Nat,
         Borders(B, s, d, i, p),
         Len(e) \in Nat, p <= Len(e), \A k \in 1 .. p : e[k] = d[k]
  PROVE  Borders(B, s, e, i, p)
<1> SUFFICES ASSUME NEW b \in B, b # <<i, p>>,
                    NEW c \in B, SequenceStands(s, d, b[1], b[2], c[1], c[2])
             PROVE  SequenceStands(s, e, b[1], b[2], c[1], c[2])
  BY DEF Borders
<1>1. b[1] \in Nat /\ b[2] \in Nat /\ c[1] \in Nat /\ c[2] \in Nat
  OBVIOUS
<1>2. c[2] <= p
  BY DEF Borders
<1> DEFINE b1 == b[1]
           b2 == b[2]
           c1 == c[1]
           c2 == c[2]
<1>3. /\ b1 \in Nat /\ b2 \in Nat /\ c1 \in Nat /\ c2 \in Nat /\ c2 <= p
      /\ SequenceStands(s, d, b1, b2, c1, c2)
  BY <1>1, <1>2
<1> HIDE DEF b1, b2, c1, c2
<1>4. c2 <= Len(e) /\ \A k \in 1 .. c2 : e[k] = d[k]
  BY <1>3
<1>5. SequenceStands(s, e, b1, b2, c1, c2)
  BY <1>3, <1>4, SequenceKept
<1> QED
  BY <1>5 DEF b1, b2, c1, c2

LEMMA BordersGrow ==
  ASSUME NEW B \in SUBSET (Nat \X Nat), NEW s, NEW d, NEW i \in Nat, NEW p \in Nat,
         NEW j \in Nat, NEW q \in Nat,
         Borders(B, s, d, i, p), SequenceStands(s, d, i, p, j, q)
  PROVE  /\ B \cup {<<j, q>>} \in SUBSET (Nat \X Nat)
         /\ Borders(B \cup {<<j, q>>}, s, d, j, q)
<1> DEFINE C == B \cup {<<j, q>>}
<1>1. C \in SUBSET (Nat \X Nat) /\ <<0, 0>> \in C /\ <<j, q>> \in C
  BY DEF Borders
<1>2. i <= j /\ p <= q
  <2>1. PICK n \in Nat, m \in Nat, r \in Nat :
          /\ r = p + HeadLength(n) + n /\ j = i + n + m + MinMatch
          /\ q = r + 2 + TailLength(m) /\ q <= Len(d) /\ r >= p + 1 /\ q >= r + 2
          /\ LiteralsStand(s, d, i, p, n)
          /\ d[p + 1] % 16 = Half(m)
          /\ MatchStands(s, d, i + n, r, m)
    BY SequenceIs
  <2> QED
    BY <2>1
<1>3. ASSUME NEW b \in C
      PROVE  /\ b[1] <= j /\ b[2] <= q
             /\ \/ b = <<j, q>>
                \/ \E c \in C : SequenceStands(s, d, b[1], b[2], c[1], c[2])
  <2>1. CASE b = <<j, q>>
    BY <2>1
  <2>2. CASE b = <<i, p>>
    <3>1. SequenceStands(s, d, b[1], b[2], <<j, q>>[1], <<j, q>>[2])
      BY <2>2
    <3> QED
      BY <1>1, <1>2, <2>2, <3>1
  <2>3. CASE b # <<j, q>> /\ b # <<i, p>>
    <3>1. b \in B /\ b[1] \in Nat /\ b[2] \in Nat
      BY <2>3
    <3>2. /\ b[1] <= i /\ b[2] <= p
          /\ \E c \in B : SequenceStands(s, d, b[1], b[2], c[1], c[2])
      BY <2>3, <3>1 DEF Borders
    <3> QED
      BY <1>2, <3>1, <3>2
  <2> QED
    BY <2>1, <2>2, <2>3
<1> HIDE DEF C
<1>4. Borders(C, s, d, j, q)
  BY <1>1, <1>3 DEF Borders
<1> QED
  BY <1>1, <1>4 DEF C

-----------------------------------------------------------------------------
(* What the decoder finds in a complete stream.                            *)

\* Behind a match there are the last literals, at least.
LEMMA BordersInside ==
  ASSUME src \in Seq(Bytes), dst \in Seq(Bytes), NEW B \in SUBSET (Nat \X Nat), Complete(B)
  PROVE  \A c \in B : c[1] > 0 => c[2] + 6 <= StreamEnd
<1>1. Len(src) \in Nat /\ StreamEnd \in Nat /\ Len(dst) = StreamEnd
  BY LenProperties DEF StreamEnd
<1>2. PICK b \in B : /\ b[1] = 0 \/ b[1] <= MatchEnd
                     /\ Borders(B, src, dst, b[1], b[2])
                     /\ LastStand(src, dst, b[1], b[2])
  BY Zenon DEF Complete
<1>3. b[1] \in Nat /\ b[2] \in Nat
  OBVIOUS
<1> SUFFICES ASSUME NEW c \in B, c[1] > 0 PROVE c[2] + 6 <= StreamEnd
  OBVIOUS
<1>4. c[1] \in Nat /\ c[2] \in Nat /\ c[1] <= b[1] /\ c[2] <= b[2]
  BY <1>2 DEF Borders
<1> DEFINE n == Len(src) - b[1]
           h == HeadLength(n)
<1>5. n \in Nat /\ n >= 5
  BY <1>1, <1>2, <1>3, <1>4 DEF MatchEnd
<1>6. h \in Nat /\ h >= 1
  BY <1>5, Parts
<1>7. StreamEnd = b[2] + h + n
  BY <1>1, <1>2 DEF LastStand
<1> HIDE DEF n, h
<1> QED
  BY <1>1, <1>3, <1>4, <1>5, <1>6, <1>7

\* From every border there are literals, and an offset or the end.
LEMMA AtBorder ==
  ASSUME src \in Seq(Bytes), dst \in Seq(Bytes), NEW B \in SUBSET (Nat \X Nat), Complete(B),
         NEW i \in Nat, NEW p \in Nat, <<i, p>> \in B
  PROVE  \E n \in Nat :
           /\ LiteralsStand(src, dst, i, p, n)
           /\ \/ i + n = Len(src) /\ p + HeadLength(n) + n = StreamEnd
              \/ AtOffset(B, dst[p + 1], i + n, p + HeadLength(n) + n)
<1>1. Len(src) \in Nat /\ StreamEnd \in Nat /\ Len(dst) = StreamEnd
  BY LenProperties DEF StreamEnd
<1>2. PICK b \in B : /\ b[1] = 0 \/ b[1] <= MatchEnd
                     /\ Borders(B, src, dst, b[1], b[2])
                     /\ LastStand(src, dst, b[1], b[2])
  BY ZenonT(60) DEF Complete
<1>3. CASE <<i, p>> = <<b[1], b[2]>>
  <2> DEFINE n == Len(src) - i
  <2>1. i = b[1] /\ p = b[2]
    BY <1>3
  <2>2. LiteralsStand(src, dst, i, p, n) /\ Len(dst) = p + HeadLength(n) + n
    BY <1>2, <2>1 DEF LastStand
  <2>3. i <= Len(src)
    BY <1>1, <1>2, <2>1 DEF MatchEnd
  <2>4. n \in Nat /\ i + n = Len(src)
    BY <1>1, <2>3
  <2> QED
    BY <1>1, <2>2, <2>4
<1>4. CASE <<i, p>> # <<b[1], b[2]>>
  <2>1. PICK c \in B : SequenceStands(src, dst, i, p, c[1], c[2])
    BY <1>2, <1>4 DEF Borders
  <2> DEFINE j == c[1]
             q == c[2]
  <2>2. j \in Nat /\ q \in Nat /\ SequenceStands(src, dst, i, p, j, q) /\ c = <<j, q>>
    BY <2>1
  <2> HIDE DEF j, q
  <2>3. PICK n \in Nat, m \in Nat, r \in Nat :
          /\ r = p + HeadLength(n) + n /\ j = i + n + m + MinMatch
          /\ q = r + 2 + TailLength(m) /\ q <= Len(dst) /\ r >= p + 1 /\ q >= r + 2
          /\ LiteralsStand(src, dst, i, p, n)
          /\ dst[p + 1] % 16 = Half(m)
          /\ MatchStands(src, dst, i + n, r, m)
    BY <2>2, SequenceIs, SMTT(60)
  <2>4. AtOffset(B, dst[p + 1], i + n, r)
    <3>1. j - (i + n) - MinMatch = m /\ m >= 0
      BY <2>2, <2>3
    <3>2. c[1] = j /\ c[2] = q
      BY <2>2
    <3> QED
      BY <2>3, <3>1, <3>2 DEF AtOffset
  <2> QED
    BY <2>3, <2>4
<1> QED
  BY <1>3, <1>4

\* At an offset: it lies behind, the match is not too close to an end, and
\* its length is read as what it is.
LEMMA OffsetStands ==
  ASSUME src \in Seq(Bytes), dst \in Seq(Bytes), NEW B \in SUBSET (Nat \X Nat), Complete(B),
         NEW t \in Bytes, NEW i \in Nat, NEW p \in Nat, AtOffset(B, t, i, p)
  PROVE  \E m \in Nat :
           /\ t % 16 = Half(m) /\ OffsetAt(p) \in 1 .. MaxDistance
           /\ p + 2 + TailLength(m) + 6 <= StreamEnd /\ p + 8 <= StreamEnd
           /\ i + 12 <= Len(src)
           /\ <<i + m + MinMatch, p + 2 + TailLength(m)>> \in B
           /\ Repeats(src, i, m + MinMatch, OffsetAt(p))
           /\ m >= MatchMask => LengthStands(dst, p + 2, m - MatchMask)
           /\ ~ MatchLengthCut(t % 16, p + 2)
           /\ MatchLength(t % 16, p + 2) = m + MinMatch
           /\ BehindMatchLength(t % 16, p + 2) = p + 2 + TailLength(m)
<1>1. PICK c \in B : LET m == c[1] - i - MinMatch
                     IN /\ m >= 0 /\ c[2] = p + 2 + TailLength(m)
                        /\ t % 16 = Half(m)
                        /\ MatchStands(src, dst, i, p, m)
  BY DEF AtOffset
<1> DEFINE m == c[1] - i - MinMatch
<1>2. c[1] \in Nat /\ c[2] \in Nat /\ c = <<c[1], c[2]>>
  OBVIOUS
<1>3. m \in Nat /\ c[1] = i + m + MinMatch /\ c[1] > 0
  BY <1>1, <1>2
<1>4. c[2] = p + 2 + TailLength(m) /\ t % 16 = Half(m) /\ MatchStands(src, dst, i, p, m)
  BY <1>1
<1>5. c[2] + 6 <= StreamEnd
  BY <1>3, BordersInside
<1> HIDE DEF m
<1>6. <<i + m + MinMatch, p + 2 + TailLength(m)>> \in B
  BY <1>2, <1>3, <1>4
<1>7. /\ Repeats(src, i, m + MinMatch, OffsetAt(p))
      /\ m >= MatchMask => LengthStands(dst, p + 2, m - MatchMask)
  BY <1>4 DEF MatchStands, OffsetAt
<1>8. OffsetAt(p) \in 1 .. MaxDistance /\ i + 12 <= Len(src)
  BY <1>7 DEF Repeats
<1>9. TailLength(m) \in Nat /\ StreamEnd \in Nat
  BY <1>3, Parts, LenProperties DEF StreamEnd
<1>10. p + 2 + TailLength(m) + 6 <= StreamEnd /\ p + 8 <= StreamEnd
  BY <1>2, <1>4, <1>5, <1>9
<1>11. /\ ~ MatchLengthCut(Half(m), p + 2)
       /\ MatchLength(Half(m), p + 2) = m + MinMatch
       /\ BehindMatchLength(Half(m), p + 2) = p + 2 + TailLength(m)
  <2> DEFINE x == p + 2
  <2>1. x \in Nat /\ (m >= MatchMask => LengthStands(dst, x, m - MatchMask))
        /\ x + TailLength(m) + 6 <= StreamEnd
    BY <1>7, <1>10
  <2> HIDE DEF x
  <2>2. /\ ~ MatchLengthCut(Half(m), x)
        /\ MatchLength(Half(m), x) = m + MinMatch
        /\ BehindMatchLength(Half(m), x) = x + TailLength(m)
    BY <1>3, <2>1, MatchRead
  <2> QED
    BY <2>2 DEF x
<1> QED
  BY <1>3, <1>4, <1>6, <1>7, <1>8, <1>10, <1>11

-----------------------------------------------------------------------------
(* What the encoder puts down.                                             *)

LEMMA JoinThree ==
  ASSUME NEW a \in Seq(Bytes), NEW b \in Seq(Bytes), NEW c \in Seq(Bytes)
  PROVE  /\ a \o b \o c \in Seq(Bytes) /\ Len(a) \in Nat /\ Len(b) \in Nat /\ Len(c) \in Nat
         /\ Len(a \o b \o c) = Len(a) + Len(b) + Len(c)
         /\ \A k \in 1 .. Len(a) : (a \o b \o c)[k] = a[k]
         /\ \A k \in 1 .. Len(b) : (a \o b \o c)[Len(a) + k] = b[k]
         /\ \A k \in 1 .. Len(c) : (a \o b \o c)[Len(a) + Len(b) + k] = c[k]
<1> DEFINE t == a \o b
           x == Len(a)
           y == Len(b)
           z == Len(c)
<1>1. x \in Nat /\ y \in Nat /\ z \in Nat
  BY LenProperties
<1>2. /\ t \in Seq(Bytes) /\ Len(t) = x + y
      /\ \A k \in 1 .. x + y : t[k] = IF k <= x THEN a[k] ELSE b[k - x]
  BY ConcatProperties
<1> HIDE DEF t
<1>3. /\ t \o c \in Seq(Bytes) /\ Len(t \o c) = Len(t) + z
      /\ \A k \in 1 .. Len(t) + z : (t \o c)[k] = IF k <= Len(t) THEN t[k] ELSE c[k - Len(t)]
  <2>1. t \in Seq(Bytes)
    BY <1>2
  <2> QED
    BY <2>1, ConcatProperties
<1> DEFINE u == t \o c
<1> HIDE DEF u, x, y, z
<1>4. /\ u \in Seq(Bytes) /\ Len(u) = x + y + z
      /\ \A k \in 1 .. x + y + z : u[k] = IF k <= x + y THEN t[k] ELSE c[k - (x + y)]
  BY <1>1, <1>2, <1>3 DEF u, z
<1>5. ASSUME NEW k \in 1 .. x PROVE u[k] = a[k]
  <2>1. k \in 1 .. x + y + z /\ k \in 1 .. x + y /\ k <= x + y /\ k <= x
    BY <1>1
  <2> QED
    BY <1>2, <1>4, <2>1
<1>6. ASSUME NEW k \in 1 .. y PROVE u[x + k] = b[k]
  <2> DEFINE j == x + k
  <2>1. j \in 1 .. x + y + z /\ j \in 1 .. x + y /\ j <= x + y /\ ~ j <= x /\ j - x = k
    BY <1>1
  <2> HIDE DEF j
  <2>2. u[j] = b[k]
    BY <1>2, <1>4, <2>1
  <2> QED
    BY <2>2 DEF j
<1>7. ASSUME NEW k \in 1 .. z PROVE u[x + y + k] = c[k]
  <2> DEFINE j == x + y + k
  <2>1. j \in 1 .. x + y + z /\ ~ j <= x + y /\ j - (x + y) = k
    BY <1>1
  <2> HIDE DEF j
  <2>2. u[j] = c[k]
    BY <1>4, <2>1
  <2> QED
    BY <2>2 DEF j
<1> QED
  BY <1>1, <1>4, <1>5, <1>6, <1>7 DEF u, t, x, y, z

LEMMA LengthPut ==
  ASSUME NEW d, NEW p \in Nat, NEW n \in Nat,
         \A k \in 1 .. n \div 255 + 1 : d[p + k] = LengthBytes(n)[k]
  PROVE  LengthStands(d, p, n)
<1> DEFINE u == n \div 255
           r == n % 255
<1>1. u \in Nat /\ \A k \in 1 .. u + 1 : d[p + k] = LengthBytes(n)[k]
  OBVIOUS
<1>2. \A k \in 1 .. u + 1 : LengthBytes(n)[k] = IF k <= u THEN 255 ELSE r
  BY DEF LengthBytes
<1> HIDE DEF u, r
<1>3. ASSUME NEW k \in 1 .. u PROVE d[p + k] = 255
  <2>1. k \in 1 .. u + 1 /\ k <= u
    BY <1>1
  <2> QED
    BY <1>1, <1>2, <2>1
<1>4. d[p + u + 1] = r
  <2> DEFINE k == u + 1
  <2>1. k \in 1 .. u + 1 /\ ~ k <= u /\ p + u + 1 = p + k
    BY <1>1
  <2> HIDE DEF k
  <2>2. d[p + k] = r
    BY <1>1, <1>2, <2>1
  <2> QED
    BY <2>1, <2>2
<1> QED
  BY <1>3, <1>4 DEF LengthStands, u, r

LEMMA HeadPut ==
  ASSUME NEW d, NEW p \in Nat, NEW n \in Nat,
         \A k \in 1 .. HeadLength(n) : d[p + k] = LiteralHead(n)[k]
  PROVE  /\ d[p + 1] = Half(n) * 16
         /\ n >= RunMask => LengthStands(d, p + 1, n - RunMask)
<1>1. CASE n < 15
  <2>1. HeadLength(n) = 1 /\ Half(n) = n
    BY <1>1, Parts
  <2>2. LiteralHead(n) = <<n * 16>>
    BY <1>1 DEF LiteralHead
  <2>3. LiteralHead(n)[1] = n * 16 /\ 1 \in 1 .. HeadLength(n)
    BY <2>1, <2>2
  <2> QED
    BY <1>1, <2>1, <2>3
<1>2. CASE n >= 15
  <2> DEFINE u == (n - 15) \div 255
             m == n - 15
             h == <<RunMask * 16>>
             b == LengthBytes(m)
             x == p + 1
             t == LiteralHead(n)
  <2>1. HeadLength(n) = 2 + u /\ Half(n) = 15 /\ u \in Nat /\ m \in Nat
        /\ u = m \div 255
    BY <1>2, Parts
  <2>2. t = h \o b
    BY <1>2 DEF LiteralHead
  <2>3. h \in Seq(Bytes) /\ Len(h) = 1 /\ h[1] = 240
    BY DEF Bytes
  <2>4. b \in Seq(Bytes) /\ Len(b) = u + 1
    BY <2>1, LengthBytesIs, ZenonT(60)
  <2> HIDE DEF u, m, h, b, t
  <2>5. \A k \in 1 .. 1 + (u + 1) : t[k] = IF k <= 1 THEN h[k] ELSE b[k - 1]
    <3>1. h \in Seq(Bytes) /\ b \in Seq(Bytes)
      BY <2>3, <2>4
    <3>2. \A k \in 1 .. Len(h) + Len(b) :
            (h \o b)[k] = IF k <= Len(h) THEN h[k] ELSE b[k - Len(h)]
      BY <3>1, ConcatProperties
    <3> DEFINE y == Len(h)
               z == Len(b)
    <3>3. y = 1 /\ z = u + 1 /\ \A k \in 1 .. y + z : t[k] = IF k <= y THEN h[k] ELSE b[k - y]
      BY <2>2, <2>3, <2>4, <3>2
    <3> HIDE DEF y, z
    <3> QED
      BY <3>3
  <2>6. \A k \in 1 .. 2 + u : d[p + k] = t[k]
    BY <2>1 DEF t
  <2>7. d[p + 1] = 240
    <3>1. 1 \in 1 .. 1 + (u + 1) /\ 1 \in 1 .. 2 + u
      BY <2>1
    <3>2. t[1] = h[1]
      BY <2>5, <3>1
    <3> QED
      BY <2>3, <2>6, <3>1, <3>2
  <2>8. ASSUME NEW k \in 1 .. u + 1 PROVE d[x + k] = b[k]
    <3> DEFINE j == k + 1
    <3>1. j \in 1 .. 1 + (u + 1) /\ j \in 1 .. 2 + u /\ ~ j <= 1 /\ j - 1 = k
          /\ x + k = p + j
      BY <2>1
    <3> HIDE DEF j, x
    <3>2. d[p + j] = b[k]
      BY <2>5, <2>6, <3>1
    <3> QED
      BY <3>1, <3>2
  <2>9. LengthStands(d, x, m)
    <3>1. x \in Nat
      OBVIOUS
    <3>2. \A k \in 1 .. m \div 255 + 1 : d[x + k] = LengthBytes(m)[k]
      BY <2>1, <2>8 DEF b
    <3> HIDE DEF x
    <3> QED
      BY <2>1, <3>1, <3>2, LengthPut
  <2> QED
    BY <2>1, <2>7, <2>9 DEF m
<1> QED
  BY <1>1, <1>2

LEMMA PartOfSource ==
  ASSUME src \in Seq(Bytes), NEW i \in Nat, NEW j \in Nat, i <= j, j <= Len(src)
  PROVE  /\ SubSeq(src, i + 1, j) \in Seq(Bytes)
         /\ Len(SubSeq(src, i + 1, j)) = j - i
         /\ \A k \in 1 .. j - i : SubSeq(src, i + 1, j)[k] = src[i + k]
<1>1. Len(src) \in Nat
  BY LenProperties
<1>2. \A x \in i + 1 .. j : src[x] \in Bytes
  BY <1>1, ElementOfSeq
<1>3. /\ SubSeq(src, i + 1, j) \in Seq(Bytes)
      /\ Len(SubSeq(src, i + 1, j)) = IF i + 1 <= j THEN j - (i + 1) + 1 ELSE 0
      /\ \A k \in 1 .. j - (i + 1) + 1 : SubSeq(src, i + 1, j)[k] = src[(i + 1) + k - 1]
  BY <1>2, SubSeqProperties
<1>4. j - (i + 1) + 1 = j - i /\ \A k \in 1 .. j - i : (i + 1) + k - 1 = i + k
  OBVIOUS
<1> QED
  BY <1>3, <1>4

\* A token, the length and the literals behind what is there.
WithLiterals(i, n) == dst \o LiteralHead(n) \o SubSeq(src, i + 1, i + n)

LEMMA LiteralsPut ==
  ASSUME src \in Seq(Bytes), dst \in Seq(Bytes),
         NEW i \in Nat, NEW n \in Nat, i + n <= Len(src)
  PROVE  /\ Len(dst) \in Nat /\ Len(WithLiterals(i, n)) \in Nat
         /\ Len(WithLiterals(i, n)) = Len(dst) + HeadLength(n) + n
         /\ \A k \in 1 .. Len(dst) : WithLiterals(i, n)[k] = dst[k]
         /\ WithLiterals(i, n)[Len(dst) + 1] = Half(n) * 16
         /\ LiteralsStand(src, WithLiterals(i, n), i, Len(dst), n)
<1> DEFINE t == WithLiterals(i, n)
           head == LiteralHead(n)
           literals == SubSeq(src, i + 1, i + n)
           l == Len(dst)
           h == HeadLength(n)
<1>1. head \in Seq(Bytes) /\ Len(head) = h
  BY LiteralHeadIs DEF HeadLength
<1>2. literals \in Seq(Bytes) /\ Len(literals) = n
      /\ \A k \in 1 .. n : literals[k] = src[i + k]
  <2> DEFINE j == i + n
  <2>1. j \in Nat /\ i <= j /\ j <= Len(src) /\ j - i = n
    OBVIOUS
  <2> HIDE DEF j
  <2>2. /\ SubSeq(src, i + 1, j) \in Seq(Bytes)
        /\ Len(SubSeq(src, i + 1, j)) = j - i
        /\ \A k \in 1 .. j - i : SubSeq(src, i + 1, j)[k] = src[i + k]
    BY <2>1, PartOfSource
  <2> QED
    BY <2>1, <2>2 DEF j
<1>3. t = dst \o head \o literals
  BY DEF WithLiterals
<1> HIDE DEF t, head, literals, h
<1>4. /\ l \in Nat /\ h \in Nat /\ t \in Seq(Bytes)
      /\ Len(t) = l + h + n
      /\ \A k \in 1 .. l : t[k] = dst[k]
      /\ \A k \in 1 .. h : t[l + k] = head[k]
      /\ \A k \in 1 .. n : t[l + h + k] = literals[k]
  <2>1. dst \in Seq(Bytes) /\ head \in Seq(Bytes) /\ literals \in Seq(Bytes)
    BY <1>1, <1>2
  <2> DEFINE u == dst \o head \o literals
  <2>2. /\ u \in Seq(Bytes) /\ Len(dst) \in Nat /\ Len(head) \in Nat
        /\ Len(u) = Len(dst) + Len(head) + Len(literals)
        /\ \A k \in 1 .. Len(dst) : u[k] = dst[k]
        /\ \A k \in 1 .. Len(head) : u[Len(dst) + k] = head[k]
        /\ \A k \in 1 .. Len(literals) : u[Len(dst) + Len(head) + k] = literals[k]
    BY <2>1, JoinThree
  <2>3. t = u /\ Len(head) = h /\ Len(literals) = n
    BY <1>1, <1>2, <1>3
  <2> HIDE DEF u
  <2> QED
    BY <2>2, <2>3
<1> HIDE DEF l
<1>5. /\ t[l + 1] = Half(n) * 16
      /\ n >= RunMask => LengthStands(t, l + 1, n - RunMask)
  <2>1. \A k \in 1 .. HeadLength(n) : t[l + k] = LiteralHead(n)[k]
    BY <1>4 DEF head, h
  <2>2. l \in Nat
    BY <1>4
  <2> QED
    BY <2>1, <2>2, HeadPut
<1>6. t[l + 1] \div 16 = Half(n)
  <2>1. Half(n) \in 0 .. 15
    BY Parts
  <2> QED
    BY <1>5, <2>1, Token
<1>7. i + n <= Len(src) /\ l + h + n <= Len(t) /\ Len(t) \in Nat
  BY <1>4
<1>8. \A k \in 1 .. n : t[l + h + k] = src[i + k]
  BY <1>2, <1>4
<1>9. LiteralsStand(src, t, i, l, n)
  BY <1>5, <1>6, <1>7, <1>8 DEF LiteralsStand, h
<1> QED
  BY <1>4, <1>5, <1>7, <1>9 DEF l, h, t

LEMMA TailPut ==
  ASSUME NEW d, NEW p \in Nat, NEW m \in Nat,
         \A k \in 1 .. TailLength(m) : d[p + k] = MatchTail(m)[k]
  PROVE  m >= MatchMask => LengthStands(d, p, m - MatchMask)
<1> SUFFICES ASSUME m >= 15 PROVE LengthStands(d, p, m - 15)
  OBVIOUS
<1> DEFINE u == (m - 15) \div 255
           k == m - 15
<1>1. TailLength(m) = 1 + u /\ u \in Nat /\ k \in Nat /\ u = k \div 255
  BY Parts
<1>2. MatchTail(m) = LengthBytes(k)
  BY DEF MatchTail
<1> HIDE DEF u, k
<1>3. k \div 255 + 1 = TailLength(m)
  BY <1>1
<1>4. \A j \in 1 .. k \div 255 + 1 : d[p + j] = LengthBytes(k)[j]
  BY <1>2, <1>3
<1>5. LengthStands(d, p, k)
  BY <1>1, <1>4, LengthPut
<1> QED
  BY <1>5 DEF k

\* The token of a sequence, when its match is known.
LEMMA TokenPut ==
  ASSUME dst \in Seq(Bytes), NEW x \in 1 .. Len(dst), NEW h \in 0 .. 15, NEW m \in 0 .. 15,
         dst[x] = h * 16
  PROVE  /\ [dst EXCEPT ![x] = @ + m] \in Seq(Bytes)
         /\ Len([dst EXCEPT ![x] = @ + m]) = Len(dst)
         /\ [dst EXCEPT ![x] = @ + m][x] = h * 16 + m
         /\ \A k \in 1 .. Len(dst) : k # x => [dst EXCEPT ![x] = @ + m][k] = dst[k]
<1> DEFINE v == h * 16 + m
<1>1. v \in Bytes
  BY DEF Bytes
<1>2. [dst EXCEPT ![x] = @ + m] = [dst EXCEPT ![x] = v]
  OBVIOUS
<1> HIDE DEF v
<1> DEFINE d == [dst EXCEPT ![x] = v]
<1>3. d \in Seq(Bytes) /\ Len(d) = Len(dst)
      /\ \A k \in 1 .. Len(dst) : d[k] = IF k = x THEN v ELSE dst[k]
  BY <1>1, ExceptSeq
<1> HIDE DEF d
<1>4. d[x] = v /\ \A k \in 1 .. Len(dst) : k # x => d[k] = dst[k]
  BY <1>3
<1> QED
  BY <1>2, <1>3, <1>4 DEF d, v


\* u is d, the two elements of o, and c.
Joins(u, d, o, c) ==
  /\ Len(u) = Len(d) + 2 + Len(c)
  /\ \A k \in 1 .. Len(d) : u[k] = d[k]
  /\ u[Len(d) + 1] = o[1] /\ u[Len(d) + 2] = o[2]
  /\ \A k \in 1 .. Len(c) : u[Len(d) + 2 + k] = c[k]

LEMMA TwoBetween ==
  ASSUME NEW d \in Seq(Bytes), NEW o \in Seq(Bytes), NEW c \in Seq(Bytes)
  PROVE  Len(o) = 2 => Joins(d \o o \o c, d, o, c)
<1> DEFINE u == d \o o \o c
           l == Len(d)
           e == Len(c)
           two == Len(o)
<1>1. /\ u \in Seq(Bytes) /\ Len(d) \in Nat /\ Len(c) \in Nat
      /\ Len(u) = Len(d) + Len(o) + Len(c)
      /\ \A k \in 1 .. Len(d) : u[k] = d[k]
      /\ \A k \in 1 .. Len(o) : u[Len(d) + k] = o[k]
      /\ \A k \in 1 .. Len(c) : u[Len(d) + Len(o) + k] = c[k]
  BY JoinThree
<1>2. /\ u \in Seq(Bytes) /\ l \in Nat /\ e \in Nat
      /\ Len(u) = l + two + e
      /\ \A k \in 1 .. l : u[k] = d[k]
      /\ \A k \in 1 .. two : u[l + k] = o[k]
      /\ \A k \in 1 .. e : u[l + two + k] = c[k]
  BY <1>1
<1> HIDE DEF u, l, e, two
<1>3. ASSUME two = 2
      PROVE  /\ Len(u) = l + 2 + e
             /\ u[l + 1] = o[1] /\ u[l + 2] = o[2]
             /\ \A k \in 1 .. e : u[l + 2 + k] = c[k]
  <2>1. 1 \in 1 .. 2 /\ 2 \in 1 .. 2
    OBVIOUS
  <2>2. \A k \in 1 .. 2 : u[l + k] = o[k]
    BY <1>2, <1>3
  <2>3. u[l + 1] = o[1] /\ u[l + 2] = o[2]
    BY <2>1, <2>2
  <2> QED
    BY <1>2, <1>3, <2>3
<1>4. two = 2 => /\ Len(u) = l + 2 + e
                 /\ \A k \in 1 .. l : u[k] = d[k]
                 /\ u[l + 1] = o[1] /\ u[l + 2] = o[2]
                 /\ \A k \in 1 .. e : u[l + 2 + k] = c[k]
  BY <1>2, <1>3
<1> QED
  BY <1>4 DEF Joins, u, l, e, two

\* The offset and the length of a match behind the literals in progress
\* make a sequence.
LEMMA MatchPlaced ==
  ASSUME NEW s, NEW d, NEW t, NEW i \in Nat, NEW p \in Nat, NEW n \in Nat, NEW m \in Nat,
         NEW l \in Nat, NEW q \in Nat, NEW back,
         LiteralsStand(s, d, i, p, n), l = p + HeadLength(n) + n,
         Repeats(s, i + n, m + MinMatch, back),
         q = l + 2 + TailLength(m), Len(t) = q,
         t[p + 1] = Half(n) * 16 + Half(m),
         \A k \in 1 .. l : k # p + 1 => t[k] = d[k],
         t[l + 1] + 256 * t[l + 2] = back,
         \A k \in 1 .. TailLength(m) : t[l + 2 + k] = MatchTail(m)[k]
  PROVE  SequenceStands(s, t, i, p, i + n + m + MinMatch, q)
<1>1. /\ Half(n) \in 0 .. 15 /\ Half(m) \in 0 .. 15 /\ TailLength(m) \in Nat
      /\ HeadLength(n) \in Nat /\ HeadLength(n) >= 1
  BY Parts
<1>2. t[p + 1] \div 16 = Half(n) /\ t[p + 1] % 16 = Half(m)
  <2>1. /\ (Half(n) * 16 + Half(m)) \div 16 = Half(n)
        /\ (Half(n) * 16 + Half(m)) % 16 = Half(m)
    BY <1>1, Token
  <2> QED
    BY <2>1
<1>3. LiteralsStand(s, t, i, p, n)
  <2>1. ASSUME NEW k \in p + 2 .. l PROVE t[k] = d[k]
    <3>1. k \in 1 .. l /\ k # p + 1
      OBVIOUS
    <3> QED
      BY <3>1
  <2>2. l <= q /\ p + HeadLength(n) + n <= l
    <3> DEFINE e == TailLength(m)
    <3>1. e \in Nat /\ q = l + 2 + e
      BY <1>1
    <3> HIDE DEF e
    <3>2. l <= q
      BY <3>1
    <3> QED
      BY <3>2
  <2>3. l <= Len(t) /\ Len(t) \in Nat
    BY <2>2
  <2> QED
    BY <1>2, <2>1, <2>2, <2>3, LiteralsKept
<1>4. MatchStands(s, t, i + n, l, m)
  <2>1. m >= MatchMask => LengthStands(t, l + 2, m - MatchMask)
    <3> DEFINE x == l + 2
    <3>1. x \in Nat /\ \A k \in 1 .. TailLength(m) : t[x + k] = MatchTail(m)[k]
      BY SMTT(30)
    <3> HIDE DEF x
    <3>2. m >= MatchMask => LengthStands(t, x, m - MatchMask)
      BY <3>1, TailPut
    <3> QED
      BY <3>2 DEF x
  <2>2. Repeats(s, i + n, m + MinMatch, t[l + 1] + 256 * t[l + 2])
    OBVIOUS
  <2> QED
    BY <2>1, <2>2 DEF MatchStands
<1> DEFINE j == i + n + m + MinMatch
<1>5. j = i + n + m + MinMatch /\ q <= Len(t)
  OBVIOUS
<1> HIDE DEF j
<1>6. SequenceStands(s, t, i, p, j, q)
  BY <1>2, <1>3, <1>4, <1>5, SequenceFrom
<1> QED
  BY <1>6 DEF j

-----------------------------------------------------------------------------
(* The steps of the encoder keep the stream.                               *)

LEMMA LimitsAre ==
  MaxDistance \in Nat /\ MaxDistance <= 65535 /\ MaxInput \in Nat
BY LimitsAssumption

LEMMA StartBorders ==
  ASSUME NEW s, NEW d
  PROVE  {<<0, 0>>} \in SUBSET (Nat \X Nat) /\ Borders({<<0, 0>>}, s, d, 0, 0)
BY DEF Borders

\* What a step must keep that stays with the encoder.
LEMMA EncoderKeeps ==
  ASSUME NEW B \in SUBSET (Nat \X Nat),
         stage' \in EncoderStages \cup {"idle", "failed", "compressed"},
         offset' \in 0 .. MaxDistance,
         EncoderBorders(B)', stage' = "compressed" => Complete(B)'
  PROVE  RoundTripInv'
<1>1. stage' \notin DecoderStages \cup {"decoded", "rejected"}
  BY DEF EncoderStages, DecoderStages
<1>2. DecoderBorders(B)' /\ BlockRoundTrip'
  BY <1>1 DEF DecoderBorders, BlockRoundTrip, DecoderStages
<1>3. StreamInv(B)'
  BY <1>1, <1>2 DEF StreamInv
<1> QED
  BY <1>3 DEF RoundTripInv

LEMMA InitStream == Init => RoundTripInv
<1> SUFFICES ASSUME Init PROVE RoundTripInv
  OBVIOUS
<1> DEFINE B == {<<0, 0>>}
<1>1. stage = "idle" /\ offset = 0
  BY DEF Init
<1>2. EncoderBorders(B) /\ DecoderBorders(B) /\ BlockRoundTrip
  BY <1>1 DEF EncoderBorders, DecoderBorders, BlockRoundTrip, DecoderStages
<1>3. offset \in 0 .. MaxDistance
  BY <1>1, LimitsAre
<1>4. stage \notin {"compressed"} \cup DecoderStages
  BY <1>1 DEF DecoderStages
<1>5. B \in SUBSET (Nat \X Nat)
  BY StartBorders
<1> HIDE DEF B
<1>6. StreamInv(B)
  BY <1>2, <1>3, <1>4 DEF StreamInv
<1> QED
  BY <1>5, <1>6 DEF RoundTripInv

LEMMA CompressStream ==
  ASSUME BlockInv, RoundTripInv, NEW c \in Calls,
         Compress(c.source, c.maxOutputSize, c.acceleration)
  PROVE  RoundTripInv'
<1> DEFINE B == {<<0, 0>>}
<1>1. /\ stage' \in {"failed", "last", "find"}
      /\ UNCHANGED <<anchor, dst, offset>>
  <2>1. c.source \in Seq(0 .. 255)
    BY CallsAssumption
  <2> DEFINE n == Len(c.source)
  <2>2. n \in Nat /\ MaxInput \in Nat
    <3>1. n \in Nat
      BY <2>1, LenProperties
    <3> QED
      BY <3>1, LimitsAre
  <2>3. stage' = CASE n > MaxInput -> "failed"
                   [] n <= MaxInput /\ n < MinLength -> "last"
                   [] n <= MaxInput /\ n >= MinLength -> "find"
    BY DEF Compress
  <2>4. UNCHANGED <<anchor, dst, offset>>
    BY DEF Compress, encoderVars, decoderVars
  <2> QED
    BY <2>2, <2>3, <2>4
<1>2. anchor = 0 /\ dst = <<>> /\ Len(dst) = 0
  BY EmptySeq DEF BlockInv, Compress, Fresh
<1>3. offset \in 0 .. MaxDistance
  BY DEF RoundTripInv, StreamInv
<1>4. B \in SUBSET (Nat \X Nat) /\ Borders(B, src', dst', 0, 0)
  BY StartBorders
<1> HIDE DEF B
<1>5. Borders(B, src', dst', anchor', Len(dst'))
  BY <1>1, <1>2, <1>4
<1>6. EncoderBorders(B)'
  BY <1>1, <1>5 DEF EncoderBorders
<1> QED
  BY <1>1, <1>3, <1>4, <1>6, EncoderKeeps DEF EncoderStages

LEMMA FindStream ==
  ASSUME BlockInv, RoundTripInv, Find
  PROVE  RoundTripInv'
<1>1. PICK B \in SUBSET (Nat \X Nat) : StreamInv(B)
  BY DEF RoundTripInv
<1>2. /\ stage = "find" /\ stage' \in {"last", "literals", "find"}
      /\ UNCHANGED <<src, anchor, dst, offset>>
  BY DEF Find, callVars, encoderVars, decoderVars
<1>3. Borders(B, src, dst, anchor, Len(dst)) /\ offset \in 0 .. MaxDistance
  BY <1>1, <1>2 DEF StreamInv, EncoderBorders
<1>4. EncoderBorders(B)'
  BY <1>2, <1>3 DEF EncoderBorders
<1> QED
  BY <1>2, <1>3, <1>4, EncoderKeeps DEF EncoderStages

\* The bytes that the catch up finds, and the four of the match.
LEMMA CaughtUp ==
  ASSUME Types, Encoding, AtLiterals
  PROVE  /\ CatchUp(ip, match) \in Nat
         /\ anchor <= ip - CatchUp(ip, match) /\ match - CatchUp(ip, match) >= 0
         /\ \A j \in 1 .. MinMatch :
              src[ip - CatchUp(ip, match) + j] = src[match - CatchUp(ip, match) + j]
<1> DEFINE k == CatchUp(ip, match)
<1>3. Len(src) \in Nat
  BY EncodingRoom
<1>4. /\ anchor \in Nat /\ ip \in Nat /\ match \in Nat /\ anchor <= ip
      /\ ip <= Len(src) /\ match < ip
  BY <1>3 DEF Types, AtLiterals, AtMatchFound
<1>5. /\ k \in 0 .. Len(src)
      /\ \A m \in 1 .. k : /\ ip - m >= anchor /\ match - m >= 0
                           /\ src[ip - m + 1] = src[match - m + 1]
  BY <1>3, <1>4, CatchUpIs
<1> HIDE DEF k
<1>6. k \in Nat /\ anchor <= ip - k /\ match - k >= 0
  BY <1>4, <1>5
<1>7. \A x \in ip .. ip + 3 : src[x + 1] = src[x - (ip - match) + 1]
  BY <1>4, FourIs DEF AtLiterals
<1>8. ASSUME NEW j \in 1 .. 4 PROVE src[ip - k + j] = src[match - k + j]
  <2> DEFINE x == ip - k + j - 1
  <2>1. x \in Int /\ x <= ip + 3
    BY <1>4, <1>6
  <2>2. x + 1 = ip - k + j /\ x - (ip - match) + 1 = match - k + j
    BY <1>4, <1>6
  <2>3. CASE x >= ip
    <3>1. x \in ip .. ip + 3
      BY <1>4, <2>1, <2>3
    <3> HIDE DEF x
    <3>2. src[x + 1] = src[x - (ip - match) + 1]
      BY <1>7, <3>1
    <3> QED
      BY <2>2, <3>2
  <2>4. CASE x < ip
    <3> DEFINE m == ip - x
    <3>1. m \in 1 .. k /\ ip - m + 1 = ip - k + j /\ match - m + 1 = match - k + j
      BY <1>4, <1>6, <2>4
    <3> HIDE DEF m
    <3>2. src[ip - m + 1] = src[match - m + 1]
      BY <1>5, <3>1
    <3> QED
      BY <3>1, <3>2
  <2> QED
    BY <1>4, <2>1, <2>3, <2>4
<1> QED
  BY <1>6, <1>8 DEF k

LEMMA EncodeLiteralsStream ==
  ASSUME BlockInv, RoundTripInv, EncodeLiterals
  PROVE  RoundTripInv'
<1>1. stage = "literals" /\ Types /\ Fresh /\ Encoding /\ AtLiterals
  BY DEF BlockInv, EncodeLiterals, EncoderStages
<1>2. PICK B \in SUBSET (Nat \X Nat) : StreamInv(B)
  BY DEF RoundTripInv
<1>3. Borders(B, src, dst, anchor, Len(dst)) /\ offset \in 0 .. MaxDistance
  BY <1>1, <1>2 DEF StreamInv, EncoderBorders
<1> DEFINE k == CatchUp(ip, match)
           n == Len(SubSeq(src, anchor + 1, ip - k))
<1>4. /\ ip' = ip - k /\ match' = match - k
      /\ UNCHANGED <<src, anchor, offset>>
  BY DEF EncodeLiterals, callVars, decoderVars
<1>5. src \in Seq(Bytes) /\ Len(src) \in Nat /\ dst \in Seq(Bytes)
  BY <1>1, EncodingRoom DEF Types
<1>6. anchor \in Nat /\ ip \in Nat /\ match \in Nat /\ ip <= Len(src)
  BY <1>1, <1>5 DEF Types
<1>7. /\ k \in Nat /\ anchor <= ip - k /\ match - k >= 0
      /\ \A j \in 1 .. MinMatch : src[ip - k + j] = src[match - k + j]
  BY <1>1, CaughtUp
<1>8. stage' \in {"failed", "match"}
  BY DEF EncodeLiterals, Fail
<1>9. CASE stage' = "failed"
  <2>1. EncoderBorders(B)'
    BY <1>9 DEF EncoderBorders
  <2> QED
    BY <1>3, <1>4, <1>9, <2>1, EncoderKeeps
<1>10. CASE stage' = "match"
  <2>1. token' = Len(dst) /\ dst' = dst \o LiteralHead(n) \o SubSeq(src, anchor + 1, ip - k)
    BY <1>10 DEF EncodeLiterals, Fail
  <2> DEFINE i == anchor
  <2> HIDE DEF k
  <2>2. n = ip - k - i /\ n \in Nat /\ ip - k = i + n /\ i + n <= Len(src)
    <3> DEFINE j == ip - k
    <3>1. j \in Nat /\ i \in Nat /\ i <= j /\ j <= Len(src)
      BY <1>6, <1>7, SMTT(30)
    <3> HIDE DEF j, i
    <3>2. Len(SubSeq(src, i + 1, j)) = j - i
      BY <1>5, <3>1, PartOfSource
    <3>3. i <= ip - k
      BY <3>1 DEF j
    <3> QED
      BY <1>6, <1>7, <3>1, <3>2, <3>3 DEF j, i
  <2>3. dst' = dst \o LiteralHead(n) \o SubSeq(src, anchor + 1, anchor + n)
    BY <2>1, <2>2
  <2> HIDE DEF n, i
  <2>4. /\ Len(dst) \in Nat /\ Len(dst') \in Nat /\ Len(dst') = Len(dst) + HeadLength(n) + n
        /\ \A x \in 1 .. Len(dst) : dst'[x] = dst[x]
        /\ dst'[Len(dst) + 1] = Half(n) * 16
        /\ LiteralsStand(src, dst', anchor, Len(dst), n)
    <3>1. anchor + n <= Len(src)
      BY <2>2 DEF i
    <3> DEFINE a == anchor
    <3>2. a \in Nat /\ n \in Nat /\ a + n <= Len(src)
      BY <1>6, <2>2, <3>1
    <3>3. dst' = WithLiterals(a, n)
      BY <2>3 DEF WithLiterals
    <3> HIDE DEF a
    <3>4. /\ Len(dst) \in Nat /\ Len(WithLiterals(a, n)) \in Nat
          /\ Len(WithLiterals(a, n)) = Len(dst) + HeadLength(n) + n
          /\ \A x \in 1 .. Len(dst) : WithLiterals(a, n)[x] = dst[x]
          /\ WithLiterals(a, n)[Len(dst) + 1] = Half(n) * 16
          /\ LiteralsStand(src, WithLiterals(a, n), a, Len(dst), n)
      BY <1>5, <3>2, LiteralsPut
    <3> QED
      BY <3>3, <3>4 DEF a
  <2>5. ip' - anchor' = n
    BY <1>4, <1>6, <2>2 DEF i
  <2>6. InSequence'
    <3>1. \A j \in 1 .. MinMatch : src'[ip' + j] = src'[match' + j]
      BY <1>4, <1>7
    <3>2. LiteralsStand(src', dst', anchor', token', ip' - anchor')
      BY <1>4, <2>1, <2>4, <2>5
    <3>3. dst'[token' + 1] = Half(ip' - anchor') * 16
          /\ Len(dst') = token' + HeadLength(ip' - anchor') + (ip' - anchor')
      BY <2>1, <2>4, <2>5
    <3> QED
      BY <3>1, <3>2, <3>3 DEF InSequence
  <2>7. Borders(B, src', dst', anchor', token')
    <3> DEFINE l == Len(dst)
    <3>1. l \in Nat /\ l <= Len(dst')
      <4> DEFINE h == HeadLength(n)
      <4>1. h \in Nat /\ n \in Nat
        BY <2>2, Parts
      <4> HIDE DEF h
      <4> QED
        BY <2>4, <4>1 DEF h
    <3>2. Borders(B, src, dst, anchor, l) /\ \A x \in 1 .. l : dst'[x] = dst[x]
      BY <1>3, <2>4
    <3> HIDE DEF l
    <3>3. Borders(B, src, dst', anchor, l)
      BY <1>6, <2>4, <3>1, <3>2, BordersKept
    <3> QED
      BY <1>4, <2>1, <3>3 DEF l
  <2>8. EncoderBorders(B)'
    BY <1>10, <2>6, <2>7 DEF EncoderBorders
  <2> QED
    BY <1>3, <1>4, <1>10, <2>8, EncoderKeeps DEF EncoderStages
<1> QED
  BY <1>8, <1>9, <1>10

\* The stream with the token of its last sequence changed, and an offset and
\* the length of a match behind it.
WithMatch(x, v, o, n) == [dst EXCEPT ![x] = v] \o o \o MatchTail(n)

PutsMatch(t, x, v, o, n) ==
  /\ Len(t) = Len(dst) + 2 + TailLength(n)
  /\ t[x] = v
  /\ \A k \in 1 .. Len(dst) : k # x => t[k] = dst[k]
  /\ t[Len(dst) + 1] = o[1] /\ t[Len(dst) + 2] = o[2]
  /\ \A k \in 1 .. TailLength(n) : t[Len(dst) + 2 + k] = MatchTail(n)[k]

LEMMA MatchPut ==
  ASSUME dst \in Seq(Bytes), NEW x \in 1 .. Len(dst), NEW v \in Bytes,
         NEW o \in Seq(Bytes), NEW n \in Nat
  PROVE  Len(o) = 2 => PutsMatch(WithMatch(x, v, o, n), x, v, o, n)
<1> DEFINE d == [dst EXCEPT ![x] = v]
           c == MatchTail(n)
           t == WithMatch(x, v, o, n)
           l == Len(dst)
           e == TailLength(n)
<1>1. l \in Nat
  BY LenProperties
<1>2. /\ d \in Seq(Bytes) /\ Len(d) = l
      /\ \A k \in 1 .. l : d[k] = IF k = x THEN v ELSE dst[k]
  BY ExceptSeq
<1>3. c \in Seq(Bytes) /\ Len(c) = e
  BY MatchTailIs DEF TailLength
<1>4. t = d \o o \o c
  BY DEF WithMatch
<1> HIDE DEF d, c, t, e
<1>5. Len(o) = 2 => Joins(d \o o \o c, d, o, c)
  <2>1. d \in Seq(Bytes) /\ c \in Seq(Bytes)
    BY <1>2, <1>3
  <2> QED
    BY <2>1, TwoBetween
<1>6. x \in 1 .. l
  OBVIOUS
<1> HIDE DEF l
<1> SUFFICES ASSUME Len(o) = 2
             PROVE  /\ Len(t) = l + 2 + e
                    /\ t[x] = v
                    /\ \A k \in 1 .. l : k # x => t[k] = dst[k]
                    /\ t[l + 1] = o[1] /\ t[l + 2] = o[2]
                    /\ \A k \in 1 .. e : t[l + 2 + k] = c[k]
  BY DEF PutsMatch, t, l, e, c
<1> DEFINE ld == Len(d)
           lc == Len(c)
<1>7. /\ Len(t) = ld + 2 + lc
      /\ \A k \in 1 .. ld : t[k] = d[k]
      /\ t[ld + 1] = o[1] /\ t[ld + 2] = o[2]
      /\ \A k \in 1 .. lc : t[ld + 2 + k] = c[k]
  BY <1>4, <1>5 DEF Joins
<1>8. ld = l /\ lc = e
  BY <1>2, <1>3
<1> HIDE DEF ld, lc
<1>9. /\ Len(t) = l + 2 + e
      /\ \A k \in 1 .. l : t[k] = d[k]
      /\ t[l + 1] = o[1] /\ t[l + 2] = o[2]
      /\ \A k \in 1 .. e : t[l + 2 + k] = c[k]
  BY <1>7, <1>8
<1>10. t[x] = v /\ \A k \in 1 .. l : k # x => t[k] = dst[k]
  BY <1>2, <1>6, <1>9
<1> QED
  BY <1>1, <1>9, <1>10

\* How far the match goes on.
LEMMA MatchCounted ==
  ASSUME Types, Encoding, AtMatch, \A k \in 1 .. MinMatch : src[ip + k] = src[match + k]
  PROVE  /\ Count(ip + MinMatch, match + MinMatch) \in Nat
         /\ ip - match \in 1 .. MaxDistance
         /\ Repeats(src, ip, Count(ip + MinMatch, match + MinMatch) + MinMatch, ip - match)
<1> DEFINE n == Count(ip + MinMatch, match + MinMatch)
           N == Len(src)
<1>1. N \in Nat
  BY EncodingRoom
<1>2. /\ ip \in Nat /\ match \in Nat /\ ip + 12 <= N
      /\ match < ip /\ ip - match <= MaxDistance
  BY <1>1 DEF Types, AtMatch, AtMatchFound, MatchFindEnd
<1>3. /\ n \in 0 .. N
      /\ \A m \in 0 .. n - 1 : ip + 4 + m < N - 5 /\ src[ip + 4 + m + 1] = src[match + 4 + m + 1]
  <2>1. ip + MinMatch \in Nat /\ match + MinMatch \in Nat
    BY <1>2
  <2> QED
    BY <1>1, <2>1, CountIs DEF MatchEnd
<1> HIDE DEF n, N
<1>4. n \in Nat /\ ip + (n + 4) <= N - 5
  <2>1. n \in Nat
    BY <1>1, <1>3
  <2>2. CASE n = 0
    BY <1>1, <1>2, <2>2
  <2>3. CASE n # 0
    <3> DEFINE m == n - 1
    <3>1. m \in 0 .. n - 1 /\ n = m + 1
      BY <2>1, <2>3
    <3> HIDE DEF m
    <3>2. ip + 4 + m < N - 5
      BY <1>3, <3>1
    <3> QED
      BY <1>1, <1>2, <2>1, <3>1, <3>2
  <2> QED
    BY <2>1, <2>2, <2>3
<1> DEFINE o == ip - match
<1>5. MaxDistance \in Nat
  BY LimitsAre
<1>6. o \in 1 .. MaxDistance /\ o <= ip
  BY <1>2, <1>5
<1>7. ASSUME NEW k \in 1 .. n + 4 PROVE src[ip + k] = src[ip + k - o]
  <2>1. ip + k - o = match + k
    BY <1>2, <1>4
  <2> HIDE DEF o
  <2>2. CASE k <= 4
    <3>1. k \in 1 .. 4
      BY <1>4, <2>2
    <3> QED
      BY <2>1, <3>1
  <2>3. CASE k > 4
    <3> DEFINE m == k - 5
    <3>1. m \in 0 .. n - 1 /\ ip + 4 + m + 1 = ip + k /\ match + 4 + m + 1 = match + k
      BY <1>2, <1>4, <2>3
    <3> HIDE DEF m
    <3>2. src[ip + 4 + m + 1] = src[match + 4 + m + 1]
      BY <1>3, <3>1
    <3> QED
      BY <2>1, <3>1, <3>2
  <2> QED
    BY <1>4, <2>2, <2>3
<1>8. Repeats(src, ip, n + MinMatch, o)
  BY <1>2, <1>4, <1>6, <1>7 DEF Repeats, N
<1> QED
  BY <1>4, <1>6, <1>8 DEF n

LEMMA EncodeMatchStream ==
  ASSUME BlockInv, RoundTripInv, EncodeMatch
  PROVE  RoundTripInv'
<1>0. MaxDistance \in Nat /\ MaxDistance <= 65535
  BY LimitsAre
<1>1. stage = "match" /\ Types /\ Encoding /\ AtMatch
  BY DEF BlockInv, EncodeMatch, EncoderStages
<1>2. PICK B \in SUBSET (Nat \X Nat) : StreamInv(B)
  BY DEF RoundTripInv
<1>3. /\ Borders(B, src, dst, anchor, token) /\ InSequence
      /\ offset \in 0 .. MaxDistance
  BY <1>1, <1>2 DEF StreamInv, EncoderBorders
<1> DEFINE n == Count(ip + MinMatch, match + MinMatch)
           back == ip - match
           op == Len(dst) + 2
           behind == ip + MinMatch + n
           l == Len(dst)
<1>4. stage' \in {"failed", "last", "next"} /\ UNCHANGED <<src, offset>>
  BY DEF EncodeMatch, callVars, decoderVars, Fail
<1>5. CASE stage' = "failed"
  <2>1. EncoderBorders(B)'
    BY <1>5 DEF EncoderBorders
  <2> QED
    BY <1>3, <1>4, <1>5, <2>1, EncoderKeeps
<1>6. CASE stage' \in {"last", "next"}
  <2>1. MatchFits(op, n) /\ anchor' = behind
        /\ dst' = [dst EXCEPT ![token + 1] =
                     @ + IF MatchFits(op, n)
                         THEN IF n < MatchMask THEN n ELSE MatchMask
                         ELSE 0]
                  \o <<back % 256, back \div 256>>
                  \o (IF MatchFits(op, n) THEN MatchTail(n) ELSE <<>>)
    BY <1>6 DEF EncodeMatch, Fail
  <2>2. /\ n \in Nat /\ back \in 1 .. MaxDistance
        /\ Repeats(src, ip, n + MinMatch, back)
    BY <1>1, <1>3, MatchCounted DEF InSequence
  <2>3. /\ src \in Seq(Bytes) /\ dst \in Seq(Bytes) /\ l \in Nat
        /\ anchor \in Nat /\ ip \in Nat /\ token \in Nat /\ token < l /\ anchor <= ip
    <3>1. Len(src) \in Nat /\ Len(dst) \in Nat /\ src \in Seq(Bytes)
      BY <1>1, EncodingRoom
    <3> QED
      BY <1>1, <3>1 DEF Types, AtMatch, AtMatchFound
  <2> DEFINE a == ip - anchor
             b == dst[token + 1]
             v == Half(a) * 16 + Half(n)
             o == <<back % 256, back \div 256>>
             x == token + 1
  <2>4. /\ a \in Nat /\ LiteralsStand(src, dst, anchor, token, a)
        /\ b = Half(a) * 16 /\ l = token + HeadLength(a) + a
    BY <1>3, <2>3 DEF InSequence
  <2>5. v \in Bytes
    <3>1. Half(a) \in 0 .. 15 /\ Half(n) \in 0 .. 15
      BY <2>2, <2>4, Parts
    <3> DEFINE g == Half(a)
               h == Half(n)
    <3> HIDE DEF g, h
    <3>2. g * 16 + h \in Bytes
      BY <3>1 DEF g, h, Bytes
    <3> QED
      BY <3>2 DEF g, h
  <2>6. o \in Seq(Bytes) /\ Len(o) = 2 /\ o[1] + 256 * o[2] = back
    <3>2. back \in Nat /\ back <= 65535
      BY <1>0, <2>2
    <3> HIDE DEF back
    <3>3. back % 256 \in Bytes /\ back \div 256 \in Bytes
          /\ (back % 256) + 256 * (back \div 256) = back
      BY <3>2 DEF Bytes
    <3> QED
      BY <3>3
  <2>7. dst' = WithMatch(x, v, o, n)
    <3>1. dst' = [dst EXCEPT ![token + 1] = @ + Half(n)] \o o \o MatchTail(n)
      BY <2>1 DEF Half
    <3>2. [dst EXCEPT ![token + 1] = @ + Half(n)] = [dst EXCEPT ![x] = b + Half(n)]
      OBVIOUS
    <3>3. b + Half(n) = v
      BY <2>4
    <3> HIDE DEF b, o, v
    <3> QED
      BY <3>1, <3>2, <3>3 DEF WithMatch
  <2>8. x \in 1 .. Len(dst) /\ x \in Nat
    BY <2>3
  <2> HIDE DEF n, back, a, b, o, v
  <2> DEFINE q == Len(dst')
  <2>9. /\ q = l + 2 + TailLength(n)
        /\ dst'[token + 1] = v
        /\ \A k \in 1 .. l : k # token + 1 => dst'[k] = dst[k]
        /\ dst'[l + 1] + 256 * dst'[l + 2] = back
        /\ \A k \in 1 .. TailLength(n) : dst'[l + 2 + k] = MatchTail(n)[k]
    <3> HIDE DEF x
    <3>1. PutsMatch(WithMatch(x, v, o, n), x, v, o, n)
      <4>1. /\ dst \in Seq(Bytes) /\ x \in 1 .. Len(dst) /\ v \in Bytes
            /\ o \in Seq(Bytes) /\ n \in Nat /\ Len(o) = 2
        BY <2>2, <2>3, <2>5, <2>6, <2>8
      <4> QED
        BY <4>1, MatchPut
    <3> DEFINE t == WithMatch(x, v, o, n)
    <3> HIDE DEF t
    <3>2. /\ Len(t) = Len(dst) + 2 + TailLength(n)
          /\ t[x] = v
          /\ \A k \in 1 .. Len(dst) : k # x => t[k] = dst[k]
          /\ t[Len(dst) + 1] + 256 * t[Len(dst) + 2] = back
          /\ \A k \in 1 .. TailLength(n) : t[Len(dst) + 2 + k] = MatchTail(n)[k]
      BY <2>6, <3>1 DEF PutsMatch, t
    <3>3. dst' = t
      BY <2>7 DEF t
    <3> QED
      BY <3>2, <3>3 DEF x
  <2> HIDE DEF x, q
  <2>10. q \in Nat /\ l <= q /\ q = Len(dst')
    <3> DEFINE e == TailLength(n)
    <3>1. e \in Nat
      BY <2>2, Parts
    <3> HIDE DEF e, l
    <3>2. q = l + 2 + e
      BY <2>9 DEF e
    <3>3. q \in Nat /\ l <= q
      BY <2>3, <3>1, <3>2
    <3> QED
      BY <3>3 DEF q
  <2> HIDE DEF l
  <2>11. anchor + a = ip /\ behind = anchor + a + n + MinMatch /\ behind \in Nat
    BY <2>2, <2>3 DEF a
  <2>12. SequenceStands(src, dst', anchor, token, behind, q)
    <3> DEFINE t == dst'
               i == anchor
               p == token
    <3>1. /\ i \in Nat /\ p \in Nat /\ a \in Nat /\ n \in Nat /\ l \in Nat /\ q \in Nat
          /\ LiteralsStand(src, dst, i, p, a) /\ l = p + HeadLength(a) + a
          /\ Repeats(src, i + a, n + MinMatch, back)
      BY <2>2, <2>3, <2>4, <2>10, <2>11
    <3>2. /\ q = l + 2 + TailLength(n) /\ Len(t) = q
          /\ t[p + 1] = Half(a) * 16 + Half(n)
          /\ \A k \in 1 .. l : k # p + 1 => t[k] = dst[k]
          /\ t[l + 1] + 256 * t[l + 2] = back
          /\ \A k \in 1 .. TailLength(n) : t[l + 2 + k] = MatchTail(n)[k]
      BY <2>9, <2>10 DEF v
    <3> HIDE DEF t, i, p
    <3>3. SequenceStands(src, t, i, p, i + a + n + MinMatch, q)
      BY <3>1, <3>2, MatchPlaced, ZenonT(60)
    <3> HIDE DEF behind
    <3>4. behind = i + a + n + MinMatch
      BY <2>11 DEF i
    <3> QED
      BY <3>3, <3>4 DEF t, i, p
  <2> HIDE DEF behind
  <2>13. Borders(B, src, dst', anchor, token)
    <3>1. ASSUME NEW k \in 1 .. token PROVE dst'[k] = dst[k]
      <4>1. k \in 1 .. l /\ k # token + 1
        BY <2>3
      <4> QED
        BY <2>9, <4>1
    <3>2. Len(dst') \in Nat /\ token <= Len(dst')
      BY <2>3, <2>10
    <3> QED
      BY <1>3, <2>3, <3>1, <3>2, BordersKept
  <2>14. PICK C \in SUBSET (Nat \X Nat) : Borders(C, src, dst', behind, q)
    <3>1. /\ B \cup {<<behind, q>>} \in SUBSET (Nat \X Nat)
          /\ Borders(B \cup {<<behind, q>>}, src, dst', behind, q)
      BY <2>3, <2>10, <2>11, <2>12, <2>13, BordersGrow, SMTT(60)
    <3> QED
      BY <3>1
  <2>15. Borders(C, src', dst', anchor', Len(dst'))
    BY <1>4, <2>1, <2>14 DEF q, behind, n
  <2>16. EncoderBorders(C)'
    BY <1>6, <2>15 DEF EncoderBorders
  <2> QED
    BY <1>3, <1>4, <1>6, <2>14, <2>16, EncoderKeeps DEF EncoderStages
<1> QED
  BY <1>4, <1>5, <1>6

LEMMA NextPositionStream ==
  ASSUME BlockInv, RoundTripInv, NextPosition
  PROVE  RoundTripInv'
<1>1. stage = "next" /\ Types /\ Encoding /\ AtNext
  BY DEF BlockInv, NextPosition, EncoderStages
<1>2. PICK B \in SUBSET (Nat \X Nat) : StreamInv(B)
  BY DEF RoundTripInv
<1>3. Borders(B, src, dst, anchor, Len(dst)) /\ offset \in 0 .. MaxDistance
  BY <1>1, <1>2 DEF StreamInv, EncoderBorders
<1> DEFINE filled == [table EXCEPT ![HashAt(ip - 2)] = Entry(ip - 2)]
           h == HashAt(ip)
<1>4. stage' \in {"match", "find"} /\ UNCHANGED <<src, anchor, offset>>
  BY DEF NextPosition, callVars, decoderVars
<1>5. CASE stage' = "find"
  <2>1. UNCHANGED dst
    BY <1>5 DEF NextPosition
  <2>2. EncoderBorders(B)'
    BY <1>3, <1>4, <1>5, <2>1 DEF EncoderBorders
  <2> QED
    BY <1>3, <1>4, <1>5, <2>2, EncoderKeeps DEF EncoderStages
<1>6. CASE stage' = "match"
  <2>1. /\ IsMatch(filled[h], ip) /\ match' = filled[h]
        /\ token' = Len(dst) /\ dst' = Append(dst, 0) /\ ip' = ip
    BY <1>6 DEF NextPosition
  <2>2. Four(match') = Four(ip)
    BY <2>1 DEF IsMatch
  <2>3. /\ src \in Seq(Bytes) /\ dst \in Seq(Bytes) /\ Len(dst) \in Nat
        /\ Len(src) \in Nat /\ anchor = ip /\ ip \in Nat /\ ip + 12 <= Len(src)
    <3>1. Len(src) \in Nat /\ Len(dst) \in Nat /\ src \in Seq(Bytes)
      BY <1>1, EncodingRoom
    <3> QED
      BY <1>1, <3>1 DEF Types, AtNext, MatchFindEnd
  <2>4. match' \in Int
    <3>1. Types'
      BY NextPositionStep DEF BlockInv
    <3>2. Len(src') \in Nat
      BY <1>4, <2>3
    <3> QED
      BY <3>1, <3>2 DEF Types
  <2>5. \A k \in 1 .. MinMatch : src[ip + k] = src[match' + k]
    <3> DEFINE m == match'
    <3>1. m \in Int /\ ip \in Int /\ Four(m) = Four(ip)
      BY <2>2, <2>3, <2>4
    <3> HIDE DEF m
    <3>2. \A x \in ip .. ip + 3 : src[x + 1] = src[x - (ip - m) + 1]
      BY <3>1, FourIs
    <3>3. ASSUME NEW k \in 1 .. 4 PROVE src[ip + k] = src[m + k]
      <4> DEFINE x == ip + k - 1
      <4>1. x \in ip .. ip + 3 /\ x + 1 = ip + k /\ x - (ip - m) + 1 = m + k
        BY <3>1
      <4> HIDE DEF x
      <4>2. src[x + 1] = src[x - (ip - m) + 1]
        BY <3>2, <4>1
      <4> QED
        BY <4>1, <4>2
    <3> QED
      BY <3>3 DEF m
  <2> DEFINE l == Len(dst)
  <2>6. /\ Len(dst') = l + 1 /\ dst'[l + 1] = 0
        /\ \A k \in 1 .. l : dst'[k] = dst[k]
    <3>1. 0 \in Bytes
      BY DEF Bytes
    <3> QED
      BY <2>1, <2>3, <3>1, AppendProperties
  <2>7. l \in Nat
    BY <2>3
  <2> HIDE DEF l
  <2>8. Half(0) = 0 /\ HeadLength(0) = 1
    BY DEF Half, HeadLength
  <2>9. LiteralsStand(src, dst', ip, l, 0)
    BY <2>3, <2>6, <2>7, <2>8 DEF LiteralsStand
  <2>10. InSequence'
    <3>1. \A k \in 1 .. MinMatch : src'[ip' + k] = src'[match' + k]
      BY <1>4, <2>1, <2>5
    <3>2. ip' - anchor' = 0
      BY <1>4, <2>1, <2>3
    <3>3. LiteralsStand(src', dst', anchor', token', ip' - anchor')
      BY <1>4, <2>1, <2>3, <2>9, <3>2 DEF l
    <3>4. dst'[token' + 1] = Half(ip' - anchor') * 16
          /\ Len(dst') = token' + HeadLength(ip' - anchor') + (ip' - anchor')
      BY <2>1, <2>6, <2>7, <2>8, <3>2 DEF l
    <3> QED
      BY <3>1, <3>3, <3>4 DEF InSequence
  <2>11. Borders(B, src', dst', anchor', token')
    <3>1. Len(dst') \in Nat /\ l <= Len(dst') /\ anchor \in Nat
      BY <2>3, <2>6, <2>7
    <3>2. Borders(B, src, dst, anchor, l)
      BY <1>3 DEF l
    <3>3. Borders(B, src, dst', anchor, l)
      BY <2>6, <2>7, <3>1, <3>2, BordersKept
    <3> QED
      BY <1>4, <2>1, <3>3 DEF l
  <2>12. EncoderBorders(B)'
    BY <1>6, <2>10, <2>11 DEF EncoderBorders
  <2> QED
    BY <1>3, <1>4, <1>6, <2>12, EncoderKeeps DEF EncoderStages
<1> QED
  BY <1>4, <1>5, <1>6

LEMMA LastLiteralsStream ==
  ASSUME BlockInv, RoundTripInv, LastLiterals
  PROVE  RoundTripInv'
<1>1. stage = "last" /\ Types /\ Encoding
  BY DEF BlockInv, LastLiterals, EncoderStages
<1>2. PICK B \in SUBSET (Nat \X Nat) : StreamInv(B)
  BY DEF RoundTripInv
<1>3. Borders(B, src, dst, anchor, Len(dst)) /\ offset \in 0 .. MaxDistance
  BY <1>1, <1>2 DEF StreamInv, EncoderBorders
<1>4. stage' \in {"failed", "compressed"} /\ UNCHANGED <<src, anchor, offset>>
  BY DEF LastLiterals, callVars, searchVars, decoderVars, Fail
<1>5. EncoderBorders(B)'
  BY <1>4 DEF EncoderBorders
<1>6. CASE stage' = "failed"
  BY <1>3, <1>4, <1>5, <1>6, EncoderKeeps
<1>7. CASE stage' = "compressed"
  <2> DEFINE n == Len(SubSeq(src, anchor + 1, Len(src)))
             i == anchor
             l == Len(dst)
             N == Len(src)
             w == WithLiterals(i, n)
  <2>1. dst' = dst \o LiteralHead(n) \o SubSeq(src, anchor + 1, Len(src))
    BY <1>7 DEF LastLiterals, Fail
  <2>2. /\ src \in Seq(Bytes) /\ dst \in Seq(Bytes) /\ l \in Nat
        /\ i \in Nat /\ N \in Nat /\ i <= N
    <3>1. Len(src) \in Nat /\ Len(dst) \in Nat /\ src \in Seq(Bytes)
      BY <1>1, EncodingRoom
    <3> QED
      BY <1>1, <3>1 DEF Types, Encoding
  <2>3. n = N - i /\ n \in Nat /\ i + n = N
    <3>1. i \in Nat /\ N \in Nat /\ i <= N
      BY <1>1, <2>2 DEF Types
    <3> HIDE DEF i
    <3>2. Len(SubSeq(src, i + 1, N)) = N - i
      BY <2>2, <3>1, PartOfSource
    <3>3. N - i \in Nat /\ i + (N - i) = N
      BY <3>1
    <3> QED
      BY <3>2, <3>3 DEF i
  <2>4. dst' = w
    BY <2>1, <2>3 DEF WithLiterals
  <2>5. i \in Nat /\ i <= N /\ (i = 0 \/ i <= MatchEnd)
    BY <1>1, <2>2 DEF Types, Encoding
  <2> HIDE DEF n, i, w
  <2>6. /\ Len(w) \in Nat /\ Len(w) = l + HeadLength(n) + n
        /\ \A k \in 1 .. l : w[k] = dst[k]
        /\ w[l + 1] = Half(n) * 16
        /\ LiteralsStand(src, w, i, l, n)
    <3>1. i + n <= Len(src)
      BY <2>2, <2>3
    <3> QED
      BY <2>2, <2>3, <2>5, <3>1, LiteralsPut DEF w
  <2> HIDE DEF l, N
  <2>7. Borders(B, src, w, i, l)
    <3> DEFINE h == HeadLength(n)
    <3>1. h \in Nat
      BY <2>3, Parts
    <3>2. Len(w) \in Nat /\ Len(w) = l + h + n
      BY <2>6
    <3> HIDE DEF h
    <3>3. l <= Len(w)
      BY <2>2, <2>3, <3>1, <3>2
    <3>4. Borders(B, src, dst, i, l)
      BY <1>3 DEF i, l
    <3> QED
      BY <2>2, <2>5, <2>6, <3>3, <3>4, BordersKept
  <2>8. LastStand(src, w, i, l)
    BY <2>3, <2>6 DEF LastStand, N
  <2> DEFINE b == <<i, l>>
  <2>9. b \in B /\ b[1] = i /\ b[2] = l
    BY <2>7 DEF Borders
  <2> HIDE DEF b
  <2>10. \E x \in B : /\ x[1] = 0 \/ x[1] <= MatchEnd
                      /\ Borders(B, src, w, x[1], x[2])
                      /\ LastStand(src, w, x[1], x[2])
    BY <2>5, <2>7, <2>8, <2>9
  <2>11. Complete(B)'
    BY <1>4, <2>4, <2>10 DEF Complete, MatchEnd
  <2> QED
    BY <1>3, <1>4, <1>5, <1>7, <2>11, EncoderKeeps
<1> QED
  BY <1>4, <1>6, <1>7

LEMMA ReturnStream ==
  ASSUME Return
  PROVE  RoundTripInv'
<1> DEFINE B == {<<0, 0>>}
<1>1. stage' = "idle" /\ offset' = 0
  BY DEF Return
<1>2. EncoderBorders(B)'
  BY <1>1 DEF EncoderBorders
<1>3. B \in SUBSET (Nat \X Nat)
  BY StartBorders
<1>4. offset' \in 0 .. MaxDistance
  BY <1>1, LimitsAre
<1> HIDE DEF B
<1> QED
  BY <1>1, <1>2, <1>3, <1>4, EncoderKeeps

LEMMA StutterStream ==
  ASSUME RoundTripInv, UNCHANGED vars
  PROVE  RoundTripInv'
<1>1. PICK B \in SUBSET (Nat \X Nat) : StreamInv(B)
  BY DEF RoundTripInv
<1>2. UNCHANGED <<stage, src, ip, anchor, match, token, dst, result, room, rp, code,
                  length, offset, out>>
  BY DEF vars, callVars, searchVars, encoderVars, decoderVars
<1>3. EncoderBorders(B)'
  BY <1>1, <1>2 DEF StreamInv, EncoderBorders, InSequence
<1>4. stage' \in {"compressed"} \cup DecoderStages => Complete(B)'
  BY <1>1, <1>2 DEF StreamInv, Complete, MatchEnd
<1>5. DecoderBorders(B)'
  BY <1>1, <1>2 DEF StreamInv, DecoderBorders, Prefix, AtOffset, AtLiteralBytes,
                    AtMatchLength, Op, StreamEnd
<1>6. BlockRoundTrip' /\ offset' \in 0 .. MaxDistance
  BY <1>1, <1>2 DEF StreamInv, BlockRoundTrip
<1>7. StreamInv(B)'
  BY <1>3, <1>4, <1>5, <1>6 DEF StreamInv
<1> QED
  BY <1>7 DEF RoundTripInv

-----------------------------------------------------------------------------
(* The steps of the decoder keep its place in the stream.                  *)

\* What a step must keep that stays with the decoder, and how it may end.
LEMMA DecoderStays ==
  ASSUME NEW B \in SUBSET (Nat \X Nat), Complete(B), UNCHANGED <<src, dst>>,
         stage' \in DecoderStages, offset' \in 0 .. MaxDistance, DecoderBorders(B)'
  PROVE  RoundTripInv'
<1>1. EncoderBorders(B)' /\ BlockRoundTrip'
  BY DEF EncoderBorders, BlockRoundTrip, DecoderStages
<1>2. Complete(B)'
  BY DEF Complete, MatchEnd
<1>3. StreamInv(B)'
  BY <1>1, <1>2 DEF StreamInv
<1> QED
  BY <1>3 DEF RoundTripInv

LEMMA DecoderEnds ==
  ASSUME stage' \in {"decoded", "rejected"}, offset' \in 0 .. MaxDistance, Prefix',
         stage' = "decoded" => out' = src' /\ result' = Len(src'),
         stage' = "rejected" => room' < Len(src') /\ result' < 0
  PROVE  RoundTripInv'
<1> DEFINE B == {<<0, 0>>}
<1>1. EncoderBorders(B)' /\ BlockRoundTrip' /\ DecoderBorders(B)'
  BY DEF EncoderBorders, BlockRoundTrip, DecoderBorders
<1>2. stage' \notin {"compressed"} \cup DecoderStages
  BY DEF DecoderStages
<1>3. B \in SUBSET (Nat \X Nat)
  BY StartBorders
<1> HIDE DEF B
<1>4. StreamInv(B)'
  BY <1>1, <1>2 DEF StreamInv
<1> QED
  BY <1>3, <1>4 DEF RoundTripInv

\* The stream of no bytes is a single token.
LEMMA EmptyBlock ==
  ASSUME src \in Seq(Bytes), dst \in Seq(Bytes), NEW B \in SUBSET (Nat \X Nat), Complete(B)
  PROVE  dst = <<0>> <=> src = <<>>
<1>1. Len(src) \in Nat /\ Len(dst) \in Nat /\ StreamEnd = Len(dst)
  BY LenProperties DEF StreamEnd
<1>2. PICK b \in B : /\ Borders(B, src, dst, b[1], b[2])
                     /\ LastStand(src, dst, b[1], b[2])
  BY Zenon DEF Complete
<1>3. b[1] \in Nat /\ b[2] \in Nat /\ <<0, 0>> \in B
  BY <1>2 DEF Borders
<1>4. ASSUME dst = <<0>> PROVE src = <<>>
  <2>1. StreamEnd = 1 /\ dst[1] = 0 /\ dst[0 + 1] = 0
    BY <1>1, <1>4
  <2>2. PICK n \in Nat :
          /\ LiteralsStand(src, dst, 0, 0, n)
          /\ \/ 0 + n = Len(src) /\ 0 + HeadLength(n) + n = StreamEnd
             \/ AtOffset(B, dst[0 + 1], 0 + n, 0 + HeadLength(n) + n)
    BY <1>3, AtBorder
  <2> DEFINE h == HeadLength(n)
  <2>3. h \in Nat /\ h >= 1
    BY Parts
  <2>4. ~ AtOffset(B, dst[0 + 1], 0 + n, 0 + h + n)
    <3> SUFFICES ASSUME AtOffset(B, dst[0 + 1], 0 + n, 0 + h + n) PROVE FALSE
      OBVIOUS
    <3> DEFINE t == dst[0 + 1]
               i == 0 + n
               p == 0 + h + n
    <3>1. t \in Bytes /\ i \in Nat /\ p \in Nat /\ AtOffset(B, t, i, p)
      BY <2>1, <2>3 DEF Bytes
    <3> HIDE DEF t, i, p
    <3>2. p + 8 <= StreamEnd
      BY <3>1, OffsetStands
    <3> QED
      BY <2>1, <3>1, <3>2
  <2> HIDE DEF h
  <2>5. n = Len(src) /\ h + n = 1
    BY <2>1, <2>2, <2>3, <2>4 DEF h
  <2>6. Len(src) = 0
    BY <2>3, <2>5
  <2> QED
    BY <2>6, EmptySeq
<1>5. ASSUME src = <<>> PROVE dst = <<0>>
  <2>1. Len(src) = 0
    BY <1>5, EmptySeq
  <2>2. b = <<0, 0>>
    <3>1. ASSUME NEW c \in B, SequenceStands(src, dst, 0, 0, c[1], c[2]) PROVE FALSE
      <4>1. c[1] \in Nat /\ c[2] \in Nat
        OBVIOUS
      <4>2. PICK n \in Nat, m \in Nat, r \in Nat :
              MatchStands(src, dst, 0 + n, r, m)
        BY <3>1, <4>1, SequenceIs
      <4>3. 0 + n + 12 <= Len(src)
        BY <4>2 DEF MatchStands, Repeats
      <4> QED
        BY <2>1, <4>3
    <3>2. \A a \in B : \/ a = <<b[1], b[2]>>
                       \/ \E c \in B : SequenceStands(src, dst, a[1], a[2], c[1], c[2])
      BY <1>2 DEF Borders
    <3> DEFINE a == <<0, 0>>
    <3>3. a \in B /\ a[1] = 0 /\ a[2] = 0
      BY <1>3
    <3> HIDE DEF a
    <3>4. a = <<b[1], b[2]>>
      BY <3>1, <3>2, <3>3
    <3>5. b = <<b[1], b[2]>>
      OBVIOUS
    <3> QED
      BY <3>4, <3>5 DEF a
  <2>3. LastStand(src, dst, 0, 0)
    BY <1>2, <2>2
  <2>4. Half(0) = 0 /\ HeadLength(0) = 1
    BY DEF Half, HeadLength
  <2>5. Len(dst) = 1 /\ dst[1] = 0
    <3> DEFINE N == Len(src)
    <3>1. N - 0 = 0
      BY <2>1
    <3>2. dst[0 + 1] = Half(N - 0) * 16 /\ Len(dst) = 0 + HeadLength(N - 0) + (N - 0)
      BY <2>3 DEF LastStand
    <3> QED
      BY <2>4, <3>1, <3>2
  <2> QED
    BY <2>5
<1> QED
  BY <1>4, <1>5

\* What holds in every stage of the decoder.
LEMMA DecoderIs ==
  ASSUME BlockInv, RoundTripInv, stage \in DecoderStages
  PROVE  /\ src \in Seq(Bytes) /\ Len(src) \in Nat /\ dst \in Seq(Bytes) /\ IsSeq(out)
         /\ StreamEnd \in Nat /\ rp \in Nat /\ Op \in Nat /\ room \in Nat
         /\ code \in Bytes /\ length \in Nat /\ offset \in 0 .. MaxDistance
         /\ Prefix /\ Op <= Len(src)
         /\ \E B \in SUBSET (Nat \X Nat) : Complete(B) /\ DecoderBorders(B)
<1>1. PICK B \in SUBSET (Nat \X Nat) : StreamInv(B)
  BY DEF RoundTripInv
<1>2. Complete(B) /\ DecoderBorders(B) /\ offset \in 0 .. MaxDistance
  BY <1>1 DEF StreamInv
<1>3. Prefix /\ Op <= Len(src)
  BY <1>2 DEF DecoderBorders, Prefix
<1>4. Types /\ Decoding
  BY DEF BlockInv
<1>5. /\ dst \in Seq(Bytes) /\ IsSeq(out) /\ StreamEnd \in Nat /\ rp \in Nat /\ Op \in Nat
      /\ room \in Nat
  BY <1>4, DecodingIs
<1>6. src \in Seq(Bytes) /\ Len(src) \in Nat
  BY <1>4, SourceIsBytes DEF Types
<1>7. code \in Bytes /\ length \in Nat
  BY <1>4 DEF Types
<1> QED
  BY <1>2, <1>3, <1>5, <1>6, <1>7

\* The places the decoder may come to.
LEMMA ComesToBorder ==
  ASSUME NEW B \in SUBSET (Nat \X Nat), Complete(B), UNCHANGED <<src, dst>>,
         offset' \in 0 .. MaxDistance, Prefix', stage' \in {"fast", "safe"},
         <<Op', rp'>> \in B
  PROVE  RoundTripInv'
<1>1. DecoderBorders(B)' /\ stage' \in DecoderStages
  BY DEF DecoderBorders, DecoderStages
<1> QED
  BY <1>1, DecoderStays

LEMMA ComesToOffset ==
  ASSUME NEW B \in SUBSET (Nat \X Nat), Complete(B), UNCHANGED <<src, dst>>,
         offset' \in 0 .. MaxDistance, Prefix',
         stage' \in {"fastMatch", "shortcut", "safeOffset"},
         NEW t, NEW i, NEW p, AtOffset(B, t, i, p), code' = t, Op' = i, rp' = p
  PROVE  RoundTripInv'
<1>1. AtOffset(B, code, Op, rp)'
  BY DEF AtOffset
<1>2. DecoderBorders(B)' /\ stage' \in DecoderStages
  BY <1>1 DEF DecoderBorders, DecoderStages
<1> QED
  BY <1>2, DecoderStays

LEMMA ComesToLiterals ==
  ASSUME NEW B \in SUBSET (Nat \X Nat), Complete(B), UNCHANGED <<src, dst>>,
         offset' \in 0 .. MaxDistance, Prefix', stage' = "safeLiterals",
         NEW t, NEW i, NEW p, NEW n, code' = t, Op' = i, rp' = p, length' = n,
         i + n <= Len(src), p + n <= StreamEnd,
         \A k \in 1 .. n : dst[p + k] = src[i + k],
         (i + n = Len(src) /\ p + n = StreamEnd) \/ AtOffset(B, t, i + n, p + n)
  PROVE  RoundTripInv'
<1>1. AtOffset(B, t, i + n, p + n) => AtOffset(B, code, Op + length, rp + length)'
  BY DEF AtOffset
<1>2. AtLiteralBytes(B)'
  BY <1>1 DEF AtLiteralBytes, StreamEnd
<1>3. DecoderBorders(B)' /\ stage' \in DecoderStages
  BY <1>2 DEF DecoderBorders, DecoderStages
<1> QED
  BY <1>3, DecoderStays

LEMMA ComesToMatch ==
  ASSUME NEW B \in SUBSET (Nat \X Nat), Complete(B), UNCHANGED <<src, dst>>,
         offset' \in 0 .. MaxDistance, Prefix', stage' = "copyMatch",
         NEW i \in Nat, NEW p \in Nat, NEW m \in Nat,
         Op' = i, rp' = p, length' = Half(m),
         <<i + m + MinMatch, p + TailLength(m)>> \in B,
         m >= MatchMask => LengthStands(dst, p, m - MatchMask),
         Repeats(src, i, m + MinMatch, offset')
  PROVE  RoundTripInv'
<1> DEFINE c == <<i + m + MinMatch, p + TailLength(m)>>
<1>1. c \in B /\ c[1] - i - MinMatch = m /\ c[2] = p + TailLength(m)
  OBVIOUS
<1> HIDE DEF c
<1>2. /\ m >= 0 /\ length' = Half(m)
      /\ m >= MatchMask => LengthStands(dst', rp', m - MatchMask)
      /\ Repeats(src', Op', m + MinMatch, offset')
  OBVIOUS
<1>3. AtMatchLength(B)'
  BY <1>1, <1>2 DEF AtMatchLength
<1>4. DecoderBorders(B)' /\ stage' \in DecoderStages
  BY <1>3 DEF DecoderBorders, DecoderStages
<1> QED
  BY <1>4, DecoderStays

LEMMA ComesToCopy ==
  ASSUME NEW B \in SUBSET (Nat \X Nat), Complete(B), UNCHANGED <<src, dst>>,
         offset' \in 0 .. MaxDistance, Prefix', stage' = "safeCopy",
         <<Op' + length', rp'>> \in B, Repeats(src, Op', length', offset')
  PROVE  RoundTripInv'
<1>1. DecoderBorders(B)' /\ stage' \in DecoderStages
  BY DEF DecoderBorders, DecoderStages
<1> QED
  BY <1>1, DecoderStays

\* What the decoder reads at a border.
LEMMA BorderRead ==
  ASSUME src \in Seq(Bytes), dst \in Seq(Bytes), NEW B \in SUBSET (Nat \X Nat), Complete(B),
         NEW i \in Nat, NEW p \in Nat, <<i, p>> \in B
  PROVE  \E n \in Nat, q \in Nat :
           /\ dst[p + 1] \in Bytes /\ dst[p + 1] \div 16 = Half(n)
           /\ ~ LiteralLengthCut(dst[p + 1], p + 1)
           /\ LiteralLength(dst[p + 1], p + 1) = n
           /\ BehindLiteralLength(dst[p + 1], p + 1) = q
           /\ n < 15 => q = p + 1
           /\ i + n <= Len(src) /\ q + n <= StreamEnd
           /\ \A k \in 1 .. n : dst[q + k] = src[i + k]
           /\ \/ i + n = Len(src) /\ q + n = StreamEnd
              \/ AtOffset(B, dst[p + 1], i + n, q + n)
<1>1. PICK n \in Nat :
        /\ LiteralsStand(src, dst, i, p, n)
        /\ \/ i + n = Len(src) /\ p + HeadLength(n) + n = StreamEnd
           \/ AtOffset(B, dst[p + 1], i + n, p + HeadLength(n) + n)
  BY AtBorder
<1> DEFINE q == p + HeadLength(n)
<1>2. q \in Nat /\ (n < 15 => q = p + 1)
  <2> DEFINE h == HeadLength(n)
  <2>1. h \in Nat /\ (n < 15 => h = 1)
    BY Parts
  <2> HIDE DEF h
  <2>2. p + h \in Nat /\ (n < 15 => p + h = p + 1)
    BY <2>1
  <2> QED
    BY <2>2 DEF h
<1>3. /\ dst[p + 1] \in Bytes /\ dst[p + 1] \div 16 = Half(n)
      /\ ~ LiteralLengthCut(dst[p + 1], p + 1)
      /\ LiteralLength(dst[p + 1], p + 1) = n
      /\ BehindLiteralLength(dst[p + 1], p + 1) = q
  BY <1>1, LiteralsRead
<1>4. /\ i + n <= Len(src) /\ q + n <= StreamEnd
      /\ \A k \in 1 .. n : dst[q + k] = src[i + k]
  BY <1>1 DEF LiteralsStand, StreamEnd
<1>5. \/ i + n = Len(src) /\ q + n = StreamEnd
      \/ AtOffset(B, dst[p + 1], i + n, q + n)
  BY <1>1
<1> HIDE DEF q
<1> QED
  BY <1>2, <1>3, <1>4, <1>5

LEMMA DecompressStream ==
  ASSUME BlockInv, RoundTripInv, NEW r \in Rooms, Len(src) + r >= 0, Decompress(Len(src) + r)
  PROVE  RoundTripInv'
<1>1. stage = "compressed" /\ Types /\ Fresh /\ rp = 0 /\ out = <<>>
  BY DEF BlockInv, Decompress, Fresh
<1>2. PICK B \in SUBSET (Nat \X Nat) : StreamInv(B)
  BY DEF RoundTripInv
<1>3. Complete(B) /\ offset \in 0 .. MaxDistance
  BY <1>1, <1>2 DEF StreamInv
<1> DEFINE q == Len(src) + r
<1>4. /\ room' = q /\ UNCHANGED <<src, dst, rp, code, length, offset, out>>
      /\ \/ /\ q = 0 /\ stage' = (IF dst = <<0>> THEN "decoded" ELSE "rejected")
            /\ result' = IF dst = <<0>> THEN 0 ELSE -1
         \/ q # 0 /\ stage' \in {"safe", "fast"}
  BY DEF Decompress, callVars, searchVars, encoderVars
<1> HIDE DEF q
<1>5. src \in Seq(Bytes) /\ Len(src) \in Nat /\ dst \in Seq(Bytes)
  BY <1>1, SourceIsBytes DEF Types
<1>6. Op = 0 /\ Op' = 0 /\ rp' = 0
  BY <1>1, <1>4, EmptySeq DEF Op
<1>7. Prefix'
  BY <1>4, <1>5, <1>6 DEF Prefix
<1>8. <<0, 0>> \in B
  BY <1>3 DEF Complete, Borders
<1>9. dst = <<0>> <=> src = <<>>
  BY <1>3, <1>5, EmptyBlock
<1>10. CASE stage' \in {"safe", "fast"}
  BY <1>3, <1>4, <1>6, <1>7, <1>8, <1>10, ComesToBorder
<1>11. CASE stage' = "decoded"
  <2>1. dst = <<0>> /\ result' = 0
    BY <1>4, <1>11
  <2>2. src = <<>> /\ Len(src) = 0
    BY <1>9, <2>1, EmptySeq
  <2> QED
    BY <1>1, <1>3, <1>4, <1>7, <1>11, <2>1, <2>2, DecoderEnds
<1>12. CASE stage' = "rejected"
  <2>1. dst # <<0>> /\ result' = -1 /\ room' = 0
    BY <1>4, <1>12
  <2>2. Len(src) # 0
    BY <1>5, <1>9, <2>1, EmptySeq
  <2>3. 0 < Len(src)
    BY <1>5, <2>2
  <2> QED
    BY <1>3, <1>4, <1>7, <1>12, <2>1, <2>3, DecoderEnds
<1> QED
  BY <1>4, <1>10, <1>11, <1>12

LEMMA FastLiteralsStream ==
  ASSUME BlockInv, RoundTripInv, FastLiterals
  PROVE  RoundTripInv'
<1>1. stage = "fast" /\ stage \in DecoderStages
  BY DEF FastLiterals, DecoderStages
<1>2. /\ src \in Seq(Bytes) /\ Len(src) \in Nat /\ dst \in Seq(Bytes) /\ IsSeq(out)
      /\ StreamEnd \in Nat /\ rp \in Nat /\ Op \in Nat /\ room \in Nat
      /\ offset \in 0 .. MaxDistance /\ Prefix
  BY <1>1, DecoderIs
<1>3. PICK B \in SUBSET (Nat \X Nat) : Complete(B) /\ DecoderBorders(B)
  BY <1>1, DecoderIs
<1>4. <<Op, rp>> \in B
  BY <1>1, <1>3 DEF DecoderBorders
<1> DEFINE c == dst[rp + 1]
           p == rp + 1
<1>5. PICK n \in Nat, q \in Nat :
        /\ c \in Bytes /\ c \div 16 = Half(n)
        /\ ~ LiteralLengthCut(c, p)
        /\ LiteralLength(c, p) = n
        /\ BehindLiteralLength(c, p) = q
        /\ n < 15 => q = rp + 1
        /\ Op + n <= Len(src) /\ q + n <= StreamEnd
        /\ \A k \in 1 .. n : dst[q + k] = src[Op + k]
        /\ \/ Op + n = Len(src) /\ q + n = StreamEnd
           \/ AtOffset(B, c, Op + n, q + n)
  BY <1>2, <1>3, <1>4, BorderRead
<1> DEFINE close == IF c \div 16 = RunMask
                    THEN \/ Op + n > room - FastDistance
                         \/ q + n > StreamEnd - (2 + 1 + LastLiteralBytes)
                    ELSE q + 16 > StreamEnd - (2 + 1 + LastLiteralBytes)
<1>6. /\ UNCHANGED <<src, dst, offset>> /\ code' = c
      /\ IF close
         THEN stage' = "safeLiterals" /\ length' = n /\ rp' = q /\ UNCHANGED out
         ELSE stage' = "fastMatch" /\ out' = out \o Literals(q, n) /\ rp' = q + n
  <2>1. UNCHANGED <<src, dst, offset>>
    BY DEF FastLiterals, callVars, encoderVars
  <2> QED
    BY <1>5, <2>1 DEF FastLiterals
<1> HIDE DEF c, p
<1>7. CASE close
  <2>1. stage' = "safeLiterals" /\ length' = n /\ rp' = q /\ UNCHANGED out
    BY <1>6, <1>7
  <2>2. Op' = Op /\ Prefix'
    BY <1>2, <1>6, <2>1 DEF Op, Prefix
  <2> QED
    BY <1>2, <1>3, <1>5, <1>6, <2>1, <2>2, ComesToLiterals
<1>8. CASE ~ close
  <2>1. stage' = "fastMatch" /\ out' = out \o Literals(q, n) /\ rp' = q + n
    BY <1>6, <1>8
  <2>2. ~ (q + n = StreamEnd)
    <3>1. c \div 16 = 15 \/ n < 15
      BY <1>5, Parts
    <3> HIDE DEF close
    <3>2. CASE c \div 16 = 15
      BY <1>2, <1>5, <1>8, <3>2 DEF close
    <3>3. CASE c \div 16 # 15
      <4>1. n < 15 /\ ~ q + 16 > StreamEnd - 8
        BY <1>8, <3>1, <3>3 DEF close
      <4> QED
        BY <1>2, <4>1
    <3> QED
      BY <3>2, <3>3
  <2> HIDE DEF close
  <2>3. Prefix' /\ Op' = Op + n
    BY <1>2, <1>5, <1>6, <2>1, LiteralsGrow
  <2>4. AtOffset(B, c, Op + n, q + n)
    BY <1>5, <2>2
  <2> DEFINE i == Op + n
             x == q + n
  <2>5. AtOffset(B, c, i, x) /\ code' = c /\ Op' = i /\ rp' = x
    BY <1>6, <2>1, <2>3, <2>4
  <2> HIDE DEF i, x
  <2> QED
    BY <1>2, <1>3, <1>6, <2>1, <2>3, <2>5, ComesToOffset
<1> QED
  BY <1>7, <1>8

LEMMA FastMatchStream ==
  ASSUME BlockInv, RoundTripInv, FastMatch
  PROVE  RoundTripInv'
<1>1. stage = "fastMatch" /\ stage \in DecoderStages
  BY DEF FastMatch, DecoderStages
<1>2. /\ src \in Seq(Bytes) /\ Len(src) \in Nat /\ dst \in Seq(Bytes) /\ IsSeq(out)
      /\ StreamEnd \in Nat /\ rp \in Nat /\ Op \in Nat /\ room \in Nat /\ code \in Bytes
      /\ offset \in 0 .. MaxDistance /\ Prefix
  BY <1>1, DecoderIs
<1>3. PICK B \in SUBSET (Nat \X Nat) : Complete(B) /\ DecoderBorders(B)
  BY <1>1, DecoderIs
<1>4. AtOffset(B, code, Op, rp)
  BY <1>1, <1>3 DEF DecoderBorders
<1> DEFINE o == OffsetAt(rp)
           p == rp + 2
           ml == code % 16
<1>5. PICK m \in Nat :
        /\ o \in 1 .. MaxDistance
        /\ <<Op + m + MinMatch, p + TailLength(m)>> \in B
        /\ Repeats(src, Op, m + MinMatch, o)
        /\ ~ MatchLengthCut(ml, p)
        /\ MatchLength(ml, p) = m + MinMatch
        /\ BehindMatchLength(ml, p) = p + TailLength(m)
  <2> DEFINE i == Op
             x == rp
             t == code
  <2>1. t \in Bytes /\ i \in Nat /\ x \in Nat /\ AtOffset(B, t, i, x)
    BY <1>2, <1>4
  <2> HIDE DEF i, x, t
  <2>2. src \in Seq(Bytes) /\ dst \in Seq(Bytes) /\ Complete(B)
    BY <1>2, <1>3
  <2>3. \E m \in Nat :
          /\ t % 16 = Half(m) /\ OffsetAt(x) \in 1 .. MaxDistance
          /\ x + 2 + TailLength(m) + 6 <= StreamEnd /\ x + 8 <= StreamEnd
          /\ i + 12 <= Len(src)
          /\ <<i + m + MinMatch, x + 2 + TailLength(m)>> \in B
          /\ Repeats(src, i, m + MinMatch, OffsetAt(x))
          /\ m >= MatchMask => LengthStands(dst, x + 2, m - MatchMask)
          /\ ~ MatchLengthCut(t % 16, x + 2)
          /\ MatchLength(t % 16, x + 2) = m + MinMatch
          /\ BehindMatchLength(t % 16, x + 2) = x + 2 + TailLength(m)
    BY <2>1, <2>2, OffsetStands
  <2> QED
    BY <2>3 DEF i, x, t
<1> DEFINE n == m + MinMatch
           q == p + TailLength(m)
<1>6. o \in Nat /\ o >= 1 /\ ~ Op - o < 0 /\ n \in Nat
  <2>1. o <= Op
    BY <1>5 DEF Repeats
  <2>2. MaxDistance \in Nat
    BY LimitsAre
  <2> QED
    BY <1>2, <1>5, <2>1, <2>2
<1>7. /\ UNCHANGED <<src, dst>> /\ rp' = q
      /\ \/ /\ stage' = "safeCopy" /\ length' = n /\ offset' = o
            /\ UNCHANGED out
         \/ /\ stage' = "fast" /\ UNCHANGED offset
            /\ \/ o >= 8 /\ out' = out \o Chunked(o, 8, n)
               \/ out' = out \o FastCopy(o, n)
  <2>1. UNCHANGED <<src, dst>>
    BY DEF FastMatch, callVars, encoderVars
  <2> QED
    BY <1>5, <1>6, <2>1 DEF FastMatch
<1> HIDE DEF o, p, ml
<1>8. CASE stage' = "safeCopy"
  <2>1. length' = n /\ offset' = o /\ UNCHANGED out
    BY <1>7, <1>8
  <2>2. Op' = Op /\ Prefix'
    BY <1>2, <1>7, <2>1 DEF Op, Prefix
  <2>3. Op' + length' = Op + m + MinMatch
    BY <1>2, <2>1, <2>2
  <2>4. offset' \in 0 .. MaxDistance
    <3>1. MaxDistance \in Nat
      BY LimitsAre
    <3> QED
      BY <1>5, <2>1, <3>1
  <2>5. <<Op' + length', rp'>> \in B
    BY <1>5, <1>7, <2>3
  <2>6. Repeats(src, Op', length', offset')
    BY <1>5, <2>1, <2>2
  <2> QED
    BY <1>3, <1>7, <1>8, <2>2, <2>4, <2>5, <2>6, ComesToCopy
<1>9. CASE stage' = "fast"
  <2> DEFINE s == RepeatedCopy(o, n)
  <2>1. out' = out \o s /\ UNCHANGED offset
    <3>1. FastCopy(o, n) = s /\ (o >= 8 => Chunked(o, 8, n) = s)
      BY <1>6, CopiesRepeat
    <3> HIDE DEF s
    <3> QED
      BY <1>7, <1>9, <3>1
  <2> HIDE DEF s, n
  <2>2. Repeats(src, Op, n, o)
    BY <1>5 DEF n
  <2>3. Prefix' /\ Op' = Op + n
    BY <1>2, <1>6, <1>7, <2>1, <2>2, CopyGrows DEF s
  <2>4. <<Op', rp'>> \in B
    <3>1. Op' = Op + m + MinMatch
      BY <1>2, <2>3 DEF n
    <3> QED
      BY <1>5, <1>7, <3>1
  <2> QED
    BY <1>2, <1>3, <1>7, <1>9, <2>1, <2>3, <2>4, ComesToBorder
<1> QED
  BY <1>7, <1>8, <1>9

LEMMA SafeTokenStream ==
  ASSUME BlockInv, RoundTripInv, SafeToken
  PROVE  RoundTripInv'
<1>1. stage = "safe" /\ stage \in DecoderStages
  BY DEF SafeToken, DecoderStages
<1>2. /\ src \in Seq(Bytes) /\ Len(src) \in Nat /\ dst \in Seq(Bytes) /\ IsSeq(out)
      /\ StreamEnd \in Nat /\ rp \in Nat /\ Op \in Nat /\ room \in Nat
      /\ offset \in 0 .. MaxDistance /\ Prefix
  BY <1>1, DecoderIs
<1>3. PICK B \in SUBSET (Nat \X Nat) : Complete(B) /\ DecoderBorders(B)
  BY <1>1, DecoderIs
<1>4. <<Op, rp>> \in B
  BY <1>1, <1>3 DEF DecoderBorders
<1> DEFINE c == dst[rp + 1]
           p == rp + 1
           h == c \div 16
<1>5. PICK n \in Nat, q \in Nat :
        /\ c \in Bytes /\ h = Half(n)
        /\ ~ LiteralLengthCut(c, p)
        /\ LiteralLength(c, p) = n
        /\ BehindLiteralLength(c, p) = q
        /\ n < 15 => q = p
        /\ Op + n <= Len(src) /\ q + n <= StreamEnd
        /\ \A k \in 1 .. n : dst[q + k] = src[Op + k]
        /\ \/ Op + n = Len(src) /\ q + n = StreamEnd
           \/ AtOffset(B, c, Op + n, q + n)
  BY <1>2, <1>3, <1>4, BorderRead
<1>6. /\ UNCHANGED <<src, dst, offset>> /\ code' = c
      /\ \/ /\ h # RunMask /\ p < StreamEnd - (14 + 2)
            /\ stage' = "shortcut" /\ out' = out \o Literals(p, h) /\ rp' = p + h
         \/ stage' = "safeLiterals" /\ length' = n /\ rp' = q /\ UNCHANGED out
  <2>1. UNCHANGED <<src, dst, offset>>
    BY DEF SafeToken, callVars, encoderVars
  <2> QED
    BY <1>5, <2>1 DEF SafeToken
<1> HIDE DEF c, p, h
<1>7. CASE stage' = "safeLiterals"
  <2>1. length' = n /\ rp' = q /\ UNCHANGED out
    BY <1>6, <1>7
  <2>2. Op' = Op /\ Prefix'
    BY <1>2, <1>6, <2>1 DEF Op, Prefix
  <2> QED
    BY <1>2, <1>3, <1>5, <1>6, <1>7, <2>1, <2>2, ComesToLiterals
<1>8. CASE stage' = "shortcut"
  <2>1. h # 15 /\ p < StreamEnd - 16 /\ out' = out \o Literals(p, h) /\ rp' = p + h
    BY <1>6, <1>8
  <2>2. h = n /\ q = p /\ n < 15
    BY <1>5, <2>1, Parts
  <2>3. ~ (q + n = StreamEnd)
    BY <1>2, <1>5, <2>1, <2>2
  <2>4. Prefix' /\ Op' = Op + n
    BY <1>2, <1>5, <1>6, <2>1, <2>2, LiteralsGrow
  <2> DEFINE i == Op + n
             x == q + n
  <2>5. AtOffset(B, c, i, x) /\ code' = c /\ Op' = i /\ rp' = x
    BY <1>5, <1>6, <2>1, <2>2, <2>3, <2>4
  <2> HIDE DEF i, x
  <2> QED
    BY <1>2, <1>3, <1>6, <1>8, <2>4, <2>5, ComesToOffset
<1> QED
  BY <1>6, <1>7, <1>8

LEMMA ShortcutStream ==
  ASSUME BlockInv, RoundTripInv, Shortcut
  PROVE  RoundTripInv'
<1>1. stage = "shortcut" /\ stage \in DecoderStages
  BY DEF Shortcut, DecoderStages
<1>2. /\ src \in Seq(Bytes) /\ Len(src) \in Nat /\ dst \in Seq(Bytes) /\ IsSeq(out)
      /\ StreamEnd \in Nat /\ rp \in Nat /\ Op \in Nat /\ code \in Bytes
      /\ offset \in 0 .. MaxDistance /\ Prefix
  BY <1>1, DecoderIs
<1>3. PICK B \in SUBSET (Nat \X Nat) : Complete(B) /\ DecoderBorders(B)
  BY <1>1, DecoderIs
<1>4. AtOffset(B, code, Op, rp)
  BY <1>1, <1>3 DEF DecoderBorders
<1> DEFINE o == OffsetAt(rp)
           p == rp + 2
           ml == code % 16
<1>5. PICK m \in Nat :
        /\ ml = Half(m) /\ o \in 1 .. MaxDistance
        /\ <<Op + m + MinMatch, p + TailLength(m)>> \in B
        /\ Repeats(src, Op, m + MinMatch, o)
        /\ m >= MatchMask => LengthStands(dst, p, m - MatchMask)
  <2> DEFINE i == Op
             x == rp
             t == code
  <2>1. t \in Bytes /\ i \in Nat /\ x \in Nat /\ AtOffset(B, t, i, x)
    BY <1>2, <1>4
  <2> HIDE DEF i, x, t
  <2>2. src \in Seq(Bytes) /\ dst \in Seq(Bytes) /\ Complete(B)
    BY <1>2, <1>3
  <2>3. \E m \in Nat :
          /\ t % 16 = Half(m) /\ OffsetAt(x) \in 1 .. MaxDistance
          /\ x + 2 + TailLength(m) + 6 <= StreamEnd /\ x + 8 <= StreamEnd
          /\ i + 12 <= Len(src)
          /\ <<i + m + MinMatch, x + 2 + TailLength(m)>> \in B
          /\ Repeats(src, i, m + MinMatch, OffsetAt(x))
          /\ m >= MatchMask => LengthStands(dst, x + 2, m - MatchMask)
          /\ ~ MatchLengthCut(t % 16, x + 2)
          /\ MatchLength(t % 16, x + 2) = m + MinMatch
          /\ BehindMatchLength(t % 16, x + 2) = x + 2 + TailLength(m)
    BY <2>1, <2>2, OffsetStands
  <2> QED
    BY <2>3 DEF i, x, t
<1>6. /\ UNCHANGED <<src, dst>> /\ rp' = p
      /\ \/ /\ ml # MatchMask /\ o >= 8 /\ stage' = "safe" /\ UNCHANGED offset
            /\ out' = out \o Chunked(o, 8, ml + MinMatch)
         \/ /\ stage' = "copyMatch" /\ length' = ml /\ offset' = o
            /\ UNCHANGED out
  <2>1. UNCHANGED <<src, dst>>
    BY DEF Shortcut, callVars, encoderVars
  <2> QED
    BY <2>1 DEF Shortcut
<1>7. p \in Nat
  BY <1>2
<1>8. MaxDistance \in Nat
  BY LimitsAre
<1>9. o \in Nat /\ o >= 1 /\ o \in 0 .. MaxDistance
  BY <1>5, <1>8
<1> HIDE DEF o, p, ml
<1>10. CASE stage' = "copyMatch"
  <2>1. length' = ml /\ offset' = o /\ UNCHANGED out
    BY <1>6, <1>10
  <2>2. Op' = Op /\ Prefix'
    BY <1>2, <1>6, <2>1 DEF Op, Prefix
  <2> DEFINE i == Op
  <2>3. i \in Nat /\ Op' = i /\ <<i + m + MinMatch, p + TailLength(m)>> \in B
        /\ Repeats(src, i, m + MinMatch, offset')
        /\ length' = Half(m) /\ offset' \in 0 .. MaxDistance /\ rp' = p
    BY <1>2, <1>5, <1>6, <1>9, <2>1, <2>2
  <2> HIDE DEF i
  <2> QED
    BY <1>3, <1>5, <1>6, <1>7, <1>10, <2>2, <2>3, ComesToMatch, SMTT(60)
<1>11. CASE stage' = "safe"
  <2> DEFINE n == m + MinMatch
             s == RepeatedCopy(o, n)
  <2>1. ml = m /\ TailLength(m) = 0 /\ n \in Nat
    <3>1. Half(m) # 15
      BY <1>5, <1>6, <1>11
    <3> QED
      BY <1>5, <3>1, Parts
  <2>2. out' = out \o s /\ UNCHANGED offset
    <3>1. Chunked(o, 8, n) = s
      BY <1>6, <1>9, <1>11, <2>1, CopiesRepeat
    <3> HIDE DEF s
    <3> QED
      BY <1>6, <1>11, <2>1, <3>1
  <2>3. Repeats(src, Op, n, o) /\ <<Op + n, p + TailLength(m)>> \in B
    <3>1. Op + n = Op + m + MinMatch
      BY <1>2
    <3> QED
      BY <1>5, <3>1
  <2> HIDE DEF s, n
  <2>4. Prefix' /\ Op' = Op + n
    BY <1>2, <1>6, <1>9, <2>1, <2>2, <2>3, CopyGrows DEF s
  <2>5. <<Op', rp'>> \in B
    <3>1. p + TailLength(m) = p
      BY <1>7, <2>1
    <3> QED
      BY <1>6, <2>3, <2>4, <3>1
  <2> QED
    BY <1>2, <1>3, <1>6, <1>11, <2>2, <2>4, <2>5, ComesToBorder
<1> QED
  BY <1>6, <1>10, <1>11

LEMMA SafeOffsetStream ==
  ASSUME BlockInv, RoundTripInv, SafeOffset
  PROVE  RoundTripInv'
<1>1. stage = "safeOffset" /\ stage \in DecoderStages
  BY DEF SafeOffset, DecoderStages
<1>2. /\ src \in Seq(Bytes) /\ dst \in Seq(Bytes)
      /\ rp \in Nat /\ Op \in Nat /\ code \in Bytes /\ Prefix
  BY <1>1, DecoderIs
<1>3. PICK B \in SUBSET (Nat \X Nat) : Complete(B) /\ DecoderBorders(B)
  BY <1>1, DecoderIs
<1>4. AtOffset(B, code, Op, rp)
  BY <1>1, <1>3 DEF DecoderBorders
<1>5. /\ UNCHANGED <<src, dst, out>> /\ stage' = "copyMatch"
      /\ offset' = OffsetAt(rp) /\ length' = code % 16 /\ rp' = rp + 2
  BY DEF SafeOffset, callVars, encoderVars
<1> DEFINE i == Op
           x == rp
           t == code
<1>6. /\ t \in Bytes /\ i \in Nat /\ x \in Nat /\ AtOffset(B, t, i, x)
      /\ offset' = OffsetAt(x) /\ length' = t % 16 /\ rp' = x + 2 /\ Op' = i /\ Prefix'
  BY <1>2, <1>4, <1>5 DEF Op, Prefix
<1> HIDE DEF i, x, t
<1>7. src \in Seq(Bytes) /\ dst \in Seq(Bytes) /\ Complete(B)
  BY <1>2, <1>3
<1>8. \E m \in Nat :
        /\ t % 16 = Half(m) /\ OffsetAt(x) \in 1 .. MaxDistance
        /\ x + 2 + TailLength(m) + 6 <= StreamEnd /\ x + 8 <= StreamEnd
        /\ i + 12 <= Len(src)
        /\ <<i + m + MinMatch, x + 2 + TailLength(m)>> \in B
        /\ Repeats(src, i, m + MinMatch, OffsetAt(x))
        /\ m >= MatchMask => LengthStands(dst, x + 2, m - MatchMask)
        /\ ~ MatchLengthCut(t % 16, x + 2)
        /\ MatchLength(t % 16, x + 2) = m + MinMatch
        /\ BehindMatchLength(t % 16, x + 2) = x + 2 + TailLength(m)
  BY <1>6, <1>7, OffsetStands
<1> DEFINE p == x + 2
<1>9. PICK m \in Nat :
        /\ t % 16 = Half(m) /\ OffsetAt(x) \in 1 .. MaxDistance
        /\ <<i + m + MinMatch, p + TailLength(m)>> \in B
        /\ Repeats(src, i, m + MinMatch, OffsetAt(x))
        /\ m >= MatchMask => LengthStands(dst, p, m - MatchMask)
  BY <1>8
<1>10. p \in Nat /\ rp' = p
  BY <1>6
<1> HIDE DEF p
<1>11. MaxDistance \in Nat
  BY LimitsAre
<1>12. /\ length' = Half(m) /\ offset' \in 0 .. MaxDistance
       /\ Repeats(src, i, m + MinMatch, offset')
  BY <1>6, <1>9, <1>11
<1> QED
  BY <1>3, <1>5, <1>6, <1>9, <1>10, <1>12, ComesToMatch, SMTT(60)

LEMMA CopyMatchStream ==
  ASSUME BlockInv, RoundTripInv, CopyMatch
  PROVE  RoundTripInv'
<1>1. stage = "copyMatch" /\ stage \in DecoderStages
  BY DEF CopyMatch, DecoderStages
<1>2. /\ src \in Seq(Bytes) /\ dst \in Seq(Bytes) /\ StreamEnd \in Nat
      /\ rp \in Nat /\ Op \in Nat /\ offset \in 0 .. MaxDistance /\ Prefix
  BY <1>1, DecoderIs
<1>3. PICK B \in SUBSET (Nat \X Nat) : Complete(B) /\ DecoderBorders(B)
  BY <1>1, DecoderIs
<1>4. AtMatchLength(B)
  BY <1>1, <1>3 DEF DecoderBorders
<1>5. PICK c \in B : LET m == c[1] - Op - MinMatch
                     IN /\ m >= 0 /\ c[2] = rp + TailLength(m)
                        /\ length = Half(m)
                        /\ m >= MatchMask => LengthStands(dst, rp, m - MatchMask)
                        /\ Repeats(src, Op, m + MinMatch, offset)
  BY <1>4 DEF AtMatchLength
<1> DEFINE m == c[1] - Op - MinMatch
           q == rp + TailLength(m)
<1>6. c = <<c[1], c[2]>> /\ c[1] \in Nat /\ c[2] \in Nat
  <2>1. c \in Nat \X Nat
    OBVIOUS
  <2> QED
    BY <2>1
<1>7. /\ m \in Nat /\ c[1] = Op + (m + MinMatch) /\ c[1] > 0
  BY <1>2, <1>5, <1>6, SMTT(60)
<1>8. c[2] = q /\ q + 6 <= StreamEnd
  BY <1>2, <1>3, <1>5, <1>7, BordersInside
<1>9. /\ length = Half(m) /\ Repeats(src, Op, m + MinMatch, offset)
      /\ m >= MatchMask => LengthStands(dst, rp, m - MatchMask)
  BY <1>5
<1> HIDE DEF m
<1>10. /\ ~ MatchLengthCut(length, rp)
       /\ MatchLength(length, rp) = m + MinMatch
       /\ BehindMatchLength(length, rp) = q
  <2> DEFINE x == rp
  <2>1. /\ x \in Nat /\ x + TailLength(m) + 6 <= StreamEnd
        /\ m >= MatchMask => LengthStands(dst, x, m - MatchMask)
    BY <1>2, <1>8, <1>9
  <2> HIDE DEF x
  <2>2. /\ ~ MatchLengthCut(Half(m), x)
        /\ MatchLength(Half(m), x) = m + MinMatch
        /\ BehindMatchLength(Half(m), x) = x + TailLength(m)
    BY <1>2, <1>7, <2>1, MatchRead
  <2> QED
    BY <1>9, <2>2 DEF x
<1>11. ~ Op - offset < 0
  <2>1. offset <= Op /\ offset \in Nat
    <3>1. MaxDistance \in Nat
      BY LimitsAre
    <3>2. offset <= Op
      BY <1>9 DEF Repeats
    <3>3. offset \in Nat
      BY <1>2, <3>1
    <3> QED
      BY <3>2, <3>3
  <2> QED
    BY <1>2, <2>1
<1>12. /\ UNCHANGED <<src, dst, offset, out>> /\ stage' = "safeCopy"
       /\ length' = m + MinMatch /\ rp' = q
  <2>1. UNCHANGED <<src, dst, offset, out>>
    BY DEF CopyMatch, callVars, encoderVars
  <2> QED
    BY <1>10, <1>11, <2>1 DEF CopyMatch
<1> HIDE DEF q
<1>13. Op' = Op /\ Prefix'
  BY <1>2, <1>12 DEF Op, Prefix
<1>14. <<Op' + length', rp'>> \in B
  <2>1. Op' + length' = c[1] /\ rp' = c[2]
    BY <1>7, <1>8, <1>12, <1>13
  <2>2. c \in B
    OBVIOUS
  <2> QED
    BY <1>6, <2>1, <2>2
<1>15. Repeats(src, Op', length', offset')
  BY <1>9, <1>12, <1>13
<1> QED
  BY <1>2, <1>3, <1>12, <1>13, <1>14, <1>15, ComesToCopy

LEMMA SafeCopyStream ==
  ASSUME BlockInv, RoundTripInv, SafeCopy
  PROVE  RoundTripInv'
<1>1. stage = "safeCopy" /\ stage \in DecoderStages
  BY DEF SafeCopy, DecoderStages
<1>2. /\ src \in Seq(Bytes) /\ Len(src) \in Nat /\ dst \in Seq(Bytes) /\ IsSeq(out)
      /\ Op \in Nat /\ room \in Nat /\ length \in Nat
      /\ offset \in 0 .. MaxDistance /\ Prefix
  BY <1>1, DecoderIs
<1>3. PICK B \in SUBSET (Nat \X Nat) : Complete(B) /\ DecoderBorders(B)
  BY <1>1, DecoderIs
<1>4. <<Op + length, rp>> \in B /\ Repeats(src, Op, length, offset)
  BY <1>1, <1>3 DEF DecoderBorders
<1>5. /\ UNCHANGED <<src, dst, room, rp, length, offset>>
      /\ \/ /\ Op + length > room - LastLiteralBytes
            /\ stage' = "rejected" /\ result' = -1 /\ UNCHANGED out
         \/ stage' = "safe" /\ out' = out \o SafeCopyBytes(offset, length)
  <2>1. UNCHANGED <<src, dst, room, rp, length, offset>>
    BY DEF SafeCopy, callVars, encoderVars
  <2> QED
    BY <2>1 DEF SafeCopy, Reject
<1>6. CASE stage' = "rejected"
  <2>1. Op + length > room - 5 /\ result' = -1 /\ UNCHANGED out
    BY <1>5, <1>6
  <2>2. Op + length <= Len(src) - 5
    BY <1>4 DEF Repeats
  <2>3. room < Len(src)
    BY <1>2, <2>1, <2>2
  <2>4. Prefix'
    BY <1>2, <1>5, <2>1 DEF Op, Prefix
  <2>5. room' < Len(src') /\ result' < 0
    BY <1>5, <2>1, <2>3
  <2> QED
    BY <1>2, <1>5, <1>6, <2>4, <2>5, DecoderEnds
<1>7. CASE stage' = "safe"
  <2> DEFINE n == length
             o == offset
             s == RepeatedCopy(o, n)
  <2>1. o \in Nat /\ o >= 1 /\ n \in Nat
    <3>1. MaxDistance \in Nat
      BY LimitsAre
    <3>2. o \in 1 .. MaxDistance
      BY <1>4 DEF Repeats
    <3> HIDE DEF o
    <3> QED
      BY <1>2, <3>1, <3>2
  <2>2. SafeCopyBytes(o, n) = s
    <3> HIDE DEF o, n
    <3> QED
      BY <2>1, CopiesRepeat
  <2>3. out' = out \o s
    BY <1>5, <1>7, <2>2
  <2>4. Repeats(src, Op, n, o)
    BY <1>4
  <2> HIDE DEF o, n, s
  <2>5. Prefix' /\ Op' = Op + n
    BY <1>2, <1>5, <2>1, <2>3, <2>4, CopyGrows DEF s
  <2>6. <<Op', rp'>> \in B
    BY <1>4, <1>5, <2>5 DEF n
  <2> QED
    BY <1>2, <1>3, <1>5, <1>7, <2>5, <2>6, ComesToBorder
<1> QED
  BY <1>5, <1>6, <1>7

LEMMA SafeLiteralsStream ==
  ASSUME BlockInv, RoundTripInv, SafeLiterals
  PROVE  RoundTripInv'
<1>1. stage = "safeLiterals" /\ stage \in DecoderStages
  BY DEF SafeLiterals, DecoderStages
<1>2. /\ src \in Seq(Bytes) /\ Len(src) \in Nat /\ dst \in Seq(Bytes) /\ IsSeq(out)
      /\ StreamEnd \in Nat /\ rp \in Nat /\ Op \in Nat /\ room \in Nat /\ code \in Bytes
      /\ length \in Nat /\ offset \in 0 .. MaxDistance /\ Prefix
  BY <1>1, DecoderIs
<1>3. PICK B \in SUBSET (Nat \X Nat) : Complete(B) /\ DecoderBorders(B)
  BY <1>1, DecoderIs
<1>4. /\ Op + length <= Len(src) /\ rp + length <= StreamEnd
      /\ \A k \in 1 .. length : dst[rp + k] = src[Op + k]
      /\ \/ Op + length = Len(src) /\ rp + length = StreamEnd
         \/ AtOffset(B, code, Op + length, rp + length)
  BY <1>1, <1>3 DEF DecoderBorders, AtLiteralBytes
<1> DEFINE i == Op + length
           p == rp + length
           t == code
<1>5. i \in Nat /\ p \in Nat /\ t \in Bytes /\ (i = Op + length) /\ (p = rp + length)
  BY <1>2
<1>6. UNCHANGED <<src, dst, room, offset, code>>
  BY DEF SafeLiterals, callVars, encoderVars
<1>7. \/ /\ i > room - MatchFindLimit \/ p > StreamEnd - (2 + 1 + LastLiteralBytes)
         /\ p # StreamEnd \/ i > room
         /\ stage' = "rejected" /\ result' = -1 /\ UNCHANGED out
      \/ /\ p = StreamEnd /\ stage' = "decoded"
         /\ out' = out \o Literals(rp, length) /\ result' = Len(out')
      \/ /\ ~ p > StreamEnd - (2 + 1 + LastLiteralBytes)
         /\ stage' = "safeOffset" /\ out' = out \o Literals(rp, length) /\ rp' = p
  BY DEF SafeLiterals, Reject
<1>8. \/ i = Len(src) /\ p = StreamEnd
      \/ AtOffset(B, t, i, p)
  BY <1>4
<1> HIDE DEF i, p, t
<1>9. AtOffset(B, t, i, p) => i + 12 <= Len(src) /\ p + 8 <= StreamEnd
  <2> SUFFICES ASSUME AtOffset(B, t, i, p)
               PROVE  i + 12 <= Len(src) /\ p + 8 <= StreamEnd
    OBVIOUS
  <2> QED
    BY <1>2, <1>3, <1>5, OffsetStands
<1>10. out' = out \o Literals(rp, length) => Prefix' /\ Op' = i
  <2> SUFFICES ASSUME out' = out \o Literals(rp, length) PROVE Prefix' /\ Op' = i
    OBVIOUS
  <2>1. Prefix' /\ Op' = Op + length
    BY <1>2, <1>4, <1>6, LiteralsGrow
  <2> QED
    BY <1>5, <2>1
<1>11. CASE stage' = "rejected"
  <2>1. /\ i > room - 12 \/ p > StreamEnd - 8
        /\ p # StreamEnd \/ i > room
        /\ result' = -1 /\ UNCHANGED out
    BY <1>7, <1>11
  <2>2. room < Len(src)
    <3>1. CASE i = Len(src) /\ p = StreamEnd
      BY <1>2, <2>1, <3>1
    <3>2. CASE AtOffset(B, t, i, p)
      BY <1>2, <1>5, <1>9, <2>1, <3>2
    <3> QED
      BY <1>8, <3>1, <3>2
  <2>3. Prefix'
    BY <1>2, <1>6, <2>1 DEF Op, Prefix
  <2>4. room' < Len(src') /\ result' < 0
    BY <1>6, <2>1, <2>2
  <2> QED
    BY <1>2, <1>6, <1>11, <2>3, <2>4, DecoderEnds
<1>12. CASE stage' = "decoded"
  <2>1. p = StreamEnd /\ out' = out \o Literals(rp, length) /\ result' = Len(out')
    BY <1>7, <1>12
  <2>2. i = Len(src)
    BY <1>2, <1>5, <1>8, <1>9, <2>1
  <2>3. Prefix' /\ Op' = Len(src)
    BY <1>10, <2>1, <2>2
  <2>4. IsSeq(out') /\ Len(out') = Len(src)
    <3>1. IsSeq(Literals(rp, length)) /\ Len(Literals(rp, length)) = length
      BY <1>2, LiteralsAre
    <3>2. IsSeq(out')
      BY <1>2, <2>1, <3>1, JoinIsSeq
    <3> QED
      BY <2>3, <3>2 DEF Op
  <2>5. \A k \in 1 .. Len(src) : out'[k] = src[k]
    BY <1>6, <2>3, <2>4 DEF Prefix, Op
  <2> DEFINE e == out'
             n == Len(src)
  <2>6. e = src
    <3>1. e \in Seq(Range(e)) /\ Len(e) = n /\ n \in Nat /\ src \in Seq(Bytes) /\ Len(src) = n
          /\ \A k \in 1 .. n : e[k] = src[k]
      BY <1>2, <2>4, <2>5 DEF IsSeq
    <3> HIDE DEF e, n
    <3> QED
      BY <3>1, SeqEqual
  <2> QED
    BY <1>2, <1>6, <1>12, <2>1, <2>3, <2>6, DecoderEnds
<1>13. CASE stage' = "safeOffset"
  <2>1. /\ ~ p > StreamEnd - 8
        /\ out' = out \o Literals(rp, length) /\ rp' = p
    BY <1>7, <1>13
  <2>2. AtOffset(B, t, i, p)
    BY <1>2, <1>5, <1>8, <2>1
  <2>3. code' = t
    BY <1>6 DEF t
  <2> QED
    BY <1>2, <1>3, <1>6, <1>10, <1>13, <2>1, <2>2, <2>3, ComesToOffset
<1> QED
  BY <1>7, <1>11, <1>12, <1>13

-----------------------------------------------------------------------------
(* The round trip.                                                         *)

LEMMA StreamStep ==
  ASSUME ShortWhenLimited, BlockInv, RoundTripInv, [Next]_vars
  PROVE  RoundTripInv'
<1>1. ASSUME NEW c \in Calls, Compress(c.source, c.maxOutputSize, c.acceleration)
      PROVE  RoundTripInv'
  BY <1>1, CompressStream
<1>2. CASE Encode
  BY <1>2, FindStream, EncodeLiteralsStream, EncodeMatchStream, NextPositionStream,
     LastLiteralsStream DEF Encode
<1>3. ASSUME NEW r \in Rooms, Len(src) + r >= 0, Decompress(Len(src) + r)
      PROVE  RoundTripInv'
  BY <1>3, DecompressStream
<1>4. CASE Decode
  <2>1. CASE FastLiterals
    BY <2>1, FastLiteralsStream
  <2>2. CASE FastMatch
    BY <2>2, FastMatchStream
  <2>3. CASE SafeToken
    BY <2>3, SafeTokenStream
  <2>4. CASE Shortcut
    BY <2>4, ShortcutStream
  <2>5. CASE SafeLiterals
    BY <2>5, SafeLiteralsStream
  <2>6. CASE SafeOffset
    BY <2>6, SafeOffsetStream
  <2>7. CASE CopyMatch
    BY <2>7, CopyMatchStream
  <2>8. CASE SafeCopy
    BY <2>8, SafeCopyStream
  <2> QED
    BY <1>4, <2>1, <2>2, <2>3, <2>4, <2>5, <2>6, <2>7, <2>8 DEF Decode
<1>5. CASE Return
  BY <1>5, ReturnStream
<1>6. CASE UNCHANGED vars
  BY <1>6, StutterStream
<1> QED
  BY <1>1, <1>2, <1>3, <1>4, <1>5, <1>6 DEF Next

\* In every state the stream is made of sequences that stand for parts of
\* the source, and the decoder is where it should be in it.
THEOREM SpecRoundTripInv ==
  ASSUME ShortWhenLimited
  PROVE  Spec => []RoundTripInv
<1>1. Init => RoundTripInv
  BY InitStream
<1>2. BlockInv /\ RoundTripInv /\ [Next]_vars => RoundTripInv'
  BY StreamStep
<1>3. Spec => []BlockInv
  BY SpecBlockInv
<1> QED
  BY <1>1, <1>2, <1>3, PTL DEF Spec

\* A block that was compressed is decompressed to itself, and it is refused
\* only when its room is smaller than the source: what xrif_compress_lz4 and
\* xrif_decompress_lz4 need of the box, for every block.
THEOREM SpecBlockRoundTrip ==
  ASSUME ShortWhenLimited
  PROVE  Spec => []BlockRoundTrip
<1>1. RoundTripInv => BlockRoundTrip
  BY DEF RoundTripInv, StreamInv
<1> QED
  BY <1>1, SpecRoundTripInv, PTL

\* Types: no copy of LZ4_decompress_safe gives out a byte of the destination
\* that it has not yet written.
THEOREM SpecBlockTypeOK ==
  ASSUME ShortWhenLimited
  PROVE  Spec => []TypeOK
<1>1. ASSUME BlockInv, RoundTripInv PROVE TypeOK
  <2>1. Types
    BY <1>1 DEF BlockInv
  <2>2. PICK B \in SUBSET (Nat \X Nat) : StreamInv(B)
    BY <1>1 DEF RoundTripInv
  <2>3. offset \in 0 .. MaxDistance
    BY <2>2 DEF StreamInv
  <2>4. Range(dst) \subseteq Bytes
    BY <2>1, RangeOfSeq DEF Types
  <2>5. Range(out) \subseteq Bytes
    <3>1. CASE stage \in DecoderStages \cup {"decoded", "rejected"}
      <4>1. Prefix
        BY <2>2, <3>1 DEF StreamInv, DecoderBorders
      <4>2. src \in Seq(Bytes) /\ Len(src) \in Nat
        BY <2>1, SourceIsBytes DEF Types
      <4>3. IsSeq(out) /\ Op \in Nat /\ DOMAIN out = 1 .. Op
        BY <2>1, SeqIs DEF Types, IsSeq, Op
      <4>4. ASSUME NEW k \in 1 .. Op PROVE out[k] \in Bytes
        <5>1. k \in 1 .. Len(src) /\ out[k] = src[k]
          BY <4>1, <4>2, <4>3 DEF Prefix
        <5> QED
          BY <4>2, <5>1, ElementOfSeq
      <4> QED
        BY <4>3, <4>4 DEF Range
    <3>2. CASE stage \notin DecoderStages \cup {"decoded", "rejected"}
      <4>1. stage \in EncoderStages \cup {"idle", "failed", "compressed"}
        BY <2>1, <3>2 DEF Types, Stages
      <4>2. out = <<>>
        BY <1>1, <4>1 DEF BlockInv, Fresh
      <4> QED
        BY <4>2, EmptySeq, RangeOfSeq
    <3> QED
      BY <3>1, <3>2
  <2> QED
    BY <2>1, <2>3, <2>4, <2>5 DEF Types, TypeOK
<1> QED
  BY <1>1, SpecBlockInv, SpecRoundTripInv, PTL

=============================================================================
