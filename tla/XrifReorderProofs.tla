--------------------------- MODULE XrifReorderProofs ---------------------------
(***************************************************************************)
(* Proofs about XrifReorder, for every width of the pixels, cube, team and *)
(* schedule that keeps together the pixels that share a byte: bytepack and *)
(* renibble are lossless, and what they make of a cube is a function of    *)
(* the cube alone.  bitpack, whose planes overlap when the pixels are few, *)
(* is left to model checking.                                              *)
(***************************************************************************)
EXTENDS XrifReorder, TLAPS

-----------------------------------------------------------------------------
(* Hypotheses.  A word is two bytes and a byte is two nibbles, which the   *)
(* provers cannot take from the powers of two.  The team deals the two     *)
(* pixels that share a byte of renibble to one thread, as with a single    *)
(* thread or chunks of an even length.                                     *)

TwoBytesOfTwoNibbles ==
  /\ Word = Byte * Byte
  /\ Byte = Nibble * Nibble
  /\ Nibble \in Nat /\ Nibble >= 2 /\ (Nibble % 2) = 0

PairsTogether ==
  \A j \in Jobs :
    j.method = "renibble" =>
      \A s \in Schedules[j]["reorder"] :
        \A p, q \in Pixels(j) : p \div 2 = q \div 2 => s[p] = s[q]

-----------------------------------------------------------------------------
(* Arithmetic.                                                             *)

LEMMA Division ==
  ASSUME NEW a \in Nat, NEW d \in Nat, d > 0
  PROVE  /\ a \div d \in Nat /\ a % d \in Nat
         /\ a % d < d /\ a = d * (a \div d) + (a % d)
OBVIOUS

LEMMA QuotientIs ==
  ASSUME NEW d \in Nat, d > 0, NEW q \in Nat, NEW r \in Nat, r < d
  PROVE  (d * q + r) \div d = q /\ (d * q + r) % d = r
<1> DEFINE a == d * q + r
           x == a \div d
           y == a % d
<1>1. d * q \in Nat /\ a \in Nat
  OBVIOUS
<1>2. x \in Nat /\ y \in Nat /\ y < d /\ d * q + r = d * x + y
  BY <1>1, Division
<1> HIDE DEF a, x, y
<1>3. ~ x < q
  <2> SUFFICES ASSUME x < q PROVE FALSE
    OBVIOUS
  <2>1. PICK k \in Nat : q = x + 1 + k
    BY <1>2
  <2>2. d * q = d * x + d + d * k /\ d * k \in Nat /\ d * x \in Nat
    BY <1>2, <2>1
  <2> QED
    BY <1>2, <2>2
<1>4. ~ q < x
  <2> SUFFICES ASSUME q < x PROVE FALSE
    OBVIOUS
  <2>1. PICK k \in Nat : x = q + 1 + k
    BY <1>2
  <2>2. d * x = d * q + d + d * k /\ d * k \in Nat /\ d * q \in Nat
    BY <1>2, <2>1
  <2> QED
    BY <1>2, <2>2
<1>5. x = q
  BY <1>2, <1>3, <1>4
<1>6. y = r
  BY <1>1, <1>2, <1>5
<1> QED
  BY <1>5, <1>6 DEF a, x, y

LEMMA Remainder ==
  ASSUME NEW d \in Nat, d > 0, NEW r \in Nat, r < d
  PROVE  r % d = r /\ r \div d = 0 /\ (r + d) % d = r
<1>1. d * 0 = 0 /\ d * 1 = d
  OBVIOUS
<1>2. (d * 0 + r) \div d = 0 /\ (d * 0 + r) % d = r /\ (d * 1 + r) % d = r
  BY QuotientIs
<1> QED
  BY <1>1, <1>2

LEMMA QuotientBound ==
  ASSUME NEW a \in Nat, NEW d \in Nat, d > 0, NEW e \in Nat, a < d * e
  PROVE  a \div d < e
<1> DEFINE x == a \div d
<1>1. x \in Nat /\ d * x <= a
  BY Division
<1> HIDE DEF x
<1> SUFFICES ASSUME ~ x < e PROVE FALSE
  BY DEF x
<1>2. PICK k \in Nat : x = e + k
  BY <1>1
<1>3. d * x = d * e + d * k /\ d * k \in Nat /\ d * e \in Nat
  BY <1>2
<1> QED
  BY <1>1, <1>3

LEMMA DivideTwice ==
  ASSUME NEW a \in Nat, NEW d \in Nat, d > 0, NEW e \in Nat, e > 0
  PROVE  a \div (d * e) = (a \div d) \div e
<1> DEFINE q == a \div d
           r == a % d
           x == q \div e
           y == q % e
<1>1. q \in Nat /\ r \in Nat /\ r < d /\ a = d * q + r
  BY Division
<1>2. x \in Nat /\ y \in Nat /\ y < e /\ q = e * x + y
  BY <1>1, Division
<1> HIDE DEF q, r, x, y
<1>3. a = (d * e) * x + (d * y + r)
  BY <1>1, <1>2
<1>4. d * y + r \in Nat /\ d * y + r < d * e
  <2>1. PICK k \in Nat : e = y + 1 + k
    BY <1>2
  <2>2. d * e = d * y + d + d * k /\ d * k \in Nat /\ d * y \in Nat
    BY <1>2, <2>1
  <2> QED
    BY <1>1, <2>2
<1>5. d * e \in Nat /\ d * e > 0
  OBVIOUS
<1>6. a \div (d * e) = x
  BY <1>2, <1>3, <1>4, <1>5, QuotientIs
<1> QED
  BY <1>6 DEF x, q

LEMMA Sizes ==
  ASSUME TwoBytesOfTwoNibbles
  PROVE  /\ Nibble \in Nat /\ Nibble >= 2
         /\ Byte \in Nat /\ Byte >= 4
         /\ Word \in Nat /\ Word >= 16
         /\ Byte <= Word
         /\ Word \div 2 \in Nat /\ Word = 2 * (Word \div 2)
<1>1. Nibble \in Nat /\ Nibble >= 2 /\ Byte = Nibble * Nibble /\ Word = Byte * Byte
  BY DEF TwoBytesOfTwoNibbles
<1> HIDE DEF Nibble, Byte, Word
<1>2. Byte \in Nat /\ Byte >= 4
  <2>1. PICK k \in Nat : Nibble = 2 + k
    BY <1>1
  <2>2. Nibble * Nibble = 4 + 4 * k + k * k /\ k * k \in Nat
    BY <2>1
  <2> QED
    BY <1>1, <2>2
<1>3. Word \in Nat /\ Word >= 16 /\ Byte <= Word
  <2>1. PICK k \in Nat : Byte = 4 + k
    BY <1>2
  <2>2. Byte * Byte = 16 + 8 * k + k * k /\ k * k \in Nat
    BY <2>1
  <2> QED
    BY <1>1, <1>2, <2>1, <2>2
<1>4. Word \div 2 \in Nat /\ Word = 2 * (Word \div 2)
  <2>1. PICK k \in Nat : Nibble = 2 * k
    BY Division DEF TwoBytesOfTwoNibbles
  <2>2. Byte = 2 * (k * Nibble) /\ k * Nibble \in Nat
    BY <1>1, <2>1
  <2>3. Word = 2 * (k * Nibble * Byte) /\ k * Nibble * Byte \in Nat
    BY <1>1, <1>2, <2>1, <2>2
  <2> QED
    BY <2>3
<1> QED
  BY <1>1, <1>2, <1>3, <1>4

-----------------------------------------------------------------------------
(* Words and their parts: what the inverses put together again.            *)

LEMMA SwapSignBack ==
  ASSUME TwoBytesOfTwoNibbles, NEW low \in 0 .. Byte - 1, NEW high \in 0 .. Byte - 1
  PROVE  /\ SwapSign(low, high) \in 0 .. Byte - 1
         /\ SwapSign(low, SwapSign(low, high)) = high
<1> HIDE DEF Byte
<1> QED
  BY Sizes DEF SwapSign

LEMMA SignBack ==
  ASSUME TwoBytesOfTwoNibbles, NEW w \in 0 .. Word - 1
  PROVE  /\ SignLast(w) \in 0 .. Word - 1
         /\ SignFirst(SignLast(w)) = w
<1> DEFINE h == Word \div 2
<1>1. h \in Nat /\ Word = 2 * h /\ h >= 8
  BY Sizes
<1> HIDE DEF h, Word
<1>2. CASE w < h
  <2>1. SignLast(w) = 2 * w
    BY <1>1, <1>2, Remainder DEF SignLast, h
  <2>2. (2 * w) % 2 = 0 /\ (2 * w) \div 2 = w
    BY QuotientIs
  <2> QED
    BY <1>1, <1>2, <2>1, <2>2 DEF SignFirst
<1>3. CASE w = h
  <2>1. 2 * (Word - w) + 1 = 1 + Word
    BY <1>1, <1>3
  <2> DEFINE v == 2 * (Word - w) + 1
  <2>2. SignLast(w) = v % Word /\ v = 1 + Word
    BY <1>1, <1>3, <2>1 DEF SignLast, h
  <2> HIDE DEF v
  <2>4. (1 + Word) % Word = 1
    BY <1>1, Remainder
  <2>5. SignLast(w) = 1
    BY <2>2, <2>4
  <2>3. 1 % 2 = 1 /\ 1 \div 2 = 0
    OBVIOUS
  <2> QED
    BY <1>1, <1>3, <2>3, <2>5 DEF SignFirst, h
<1>4. CASE w > h
  <2> DEFINE m == Word - w
  <2>1. m \in Nat /\ m > 0 /\ m < h /\ w = Word - m
    BY <1>1, <1>4
  <2>2. 2 * m + 1 \in Nat /\ 2 * m + 1 < Word
    BY <1>1, <2>1
  <2>3. SignLast(w) = 2 * m + 1
    BY <1>1, <1>4, <2>2, Remainder DEF SignLast, h
  <2> HIDE DEF m
  <2>4. (2 * m + 1) % 2 = 1 /\ (2 * m + 1) \div 2 = m
    BY <2>1, QuotientIs
  <2>5. SignFirst(2 * m + 1) = w
    BY <2>1, <2>4 DEF SignFirst
  <2> QED
    BY <1>1, <2>2, <2>3, <2>5
<1> QED
  BY <1>1, <1>2, <1>3, <1>4

LEMMA WordBytes ==
  ASSUME TwoBytesOfTwoNibbles, NEW w \in 0 .. Word - 1
  PROVE  /\ LowByte(w) \in 0 .. Byte - 1
         /\ HighByte(w) \in 0 .. Byte - 1
         /\ LowByte(w) + Byte * HighByte(w) = w
<1>1. Word = Byte * Byte
  BY DEF TwoBytesOfTwoNibbles
<1> HIDE DEF Word, Byte
<1>2. Byte \in Nat /\ Byte > 0 /\ Word \in Nat
  BY Sizes
<1>3. w \in Nat /\ w < Byte * Byte
  BY <1>1, <1>2
<1>4. w \div Byte < Byte
  BY <1>2, <1>3, QuotientBound
<1> QED
  BY <1>2, <1>3, <1>4, Division DEF LowByte, HighByte

LEMMA ByteNibbles ==
  ASSUME TwoBytesOfTwoNibbles, NEW c \in 0 .. Byte - 1
  PROVE  /\ LowNibble(c) \in 0 .. Nibble - 1
         /\ HighNibble(c) \in 0 .. Nibble - 1
         /\ LowNibble(c) + Nibble * HighNibble(c) = c
<1>1. Byte = Nibble * Nibble
  BY DEF TwoBytesOfTwoNibbles
<1> HIDE DEF Nibble, Byte
<1>2. Nibble \in Nat /\ Nibble > 0 /\ Byte \in Nat
  BY Sizes
<1>3. c \in Nat /\ c < Nibble * Nibble
  BY <1>1, <1>2
<1>4. c \div Nibble < Nibble
  BY <1>2, <1>3, QuotientBound
<1> QED
  BY <1>2, <1>3, <1>4, Division DEF LowNibble, HighNibble

\* Two nibbles put into a byte.
LEMMA PairOfNibbles ==
  ASSUME TwoBytesOfTwoNibbles, NEW x \in 0 .. Nibble - 1, NEW y \in 0 .. Nibble - 1
  PROVE  /\ Nibble * x + y \in 0 .. Byte - 1
         /\ Nibble * x \in 0 .. Byte - 1
         /\ HighNibble(Nibble * x + y) = x
         /\ LowNibble(Nibble * x + y) = y
<1>1. Byte = Nibble * Nibble /\ Nibble \in Nat /\ Nibble >= 2
  BY DEF TwoBytesOfTwoNibbles
<1> HIDE DEF Nibble, Byte
<1>2. x \in Nat /\ y \in Nat /\ y < Nibble
  BY <1>1
<1>3. Nibble * x \in Nat /\ Nibble * x + Nibble <= Byte
  <2>1. PICK k \in Nat : Nibble = x + 1 + k
    BY <1>1
  <2>2. Nibble * Nibble = Nibble * x + Nibble + Nibble * k /\ Nibble * k \in Nat
    BY <1>1, <1>2, <2>1
  <2> QED
    BY <1>1, <1>2, <2>2
<1>4. Byte \in Nat
  BY Sizes
<1>5. (Nibble * x + y) \div Nibble = x /\ (Nibble * x + y) % Nibble = y
  BY <1>1, <1>2, QuotientIs
<1> QED
  BY <1>1, <1>2, <1>3, <1>4, <1>5 DEF HighNibble, LowNibble

\* The two units of NibblePair, and the nibbles they count.
LEMMA UnitNibbles ==
  ASSUME TwoBytesOfTwoNibbles, NEW u \in 0 .. Word - 1
  PROVE  /\ (u \div Byte) % Nibble = LowNibble(HighByte(u))
         /\ (u \div (Byte * Nibble)) % Nibble = HighNibble(HighByte(u))
<1>1. HighByte(u) \in 0 .. Byte - 1
  BY WordBytes
<1>2. HighNibble(HighByte(u)) \in 0 .. Nibble - 1
  BY <1>1, ByteNibbles
<1> HIDE DEF Nibble, Byte, Word
<1>3. /\ Nibble \in Nat /\ Nibble > 0 /\ Byte \in Nat /\ Byte > 0 /\ Word \in Nat
  BY Sizes
<1>4. u \div (Byte * Nibble) = HighNibble(HighByte(u))
  BY <1>3, DivideTwice DEF HighNibble, HighByte
<1> QED
  BY <1>2, <1>3, <1>4, Remainder DEF LowNibble, HighByte

-----------------------------------------------------------------------------
(* Jobs: where the updates of a pixel go and what they put there.          *)

ByteJobs == {j \in Jobs : j.method # "bitpack"}

LEMMA JobSizes ==
  ASSUME NEW j \in ByteJobs
  PROVE  /\ j \in Jobs /\ j.method \in {"bytepack", "renibble"}
         /\ Npix(j) \in Nat
         /\ j.method = "bytepack" => MinCells(j) = 2 * Npix(j)
         /\ j.method = "renibble" => MinCells(j) \in Nat /\ MinCells(j) > 2 * Npix(j)
         /\ MinCells(j) \in Nat
         /\ j.encoderCells \in Nat /\ j.decoderCells \in Nat
         /\ j.encoderCells >= MinCells(j) /\ j.decoderCells >= MinCells(j)
         /\ CellSize(j) = Byte
<1> DEFINE fp == j.framePixels
           f == j.frames
           whole == j.difference = "pixel"
<1>1. /\ j \in Jobs /\ j.method \in {"bytepack", "renibble"}
      /\ fp \in Nat \ {0} /\ f \in Nat \ {0}
      /\ j.encoderCells \in Nat /\ j.decoderCells \in Nat
      /\ j.encoderCells >= MinCells(j) /\ j.decoderCells >= MinCells(j)
  BY ReorderAssumption DEF ByteJobs, Methods
<1>2. /\ Npix(j) = fp * (IF whole THEN f ELSE f - 1)
      /\ OneFrame(j) = IF whole THEN 0 ELSE 2 * fp
      /\ j.method = "bytepack" => MinCells(j) = 2 * fp * f - OneFrame(j)
      /\ j.method = "renibble" => MinCells(j) = 2 * fp * (f + 1) - OneFrame(j)
  BY <1>1 DEF Npix, OneFrame, MinCells
<1> HIDE DEF fp, f, whole
<1>3. /\ fp * f \in Nat /\ fp * (f - 1) \in Nat
      /\ fp * (f - 1) = fp * f - fp
      /\ 2 * fp * f = 2 * (fp * f)
      /\ 2 * fp * (f + 1) = 2 * (fp * f) + 2 * fp
  BY <1>1
<1>4. Npix(j) \in Nat
  BY <1>2, <1>3
<1>5. j.method = "bytepack" => MinCells(j) = 2 * Npix(j)
  BY <1>1, <1>2, <1>3
<1>6. j.method = "renibble" => MinCells(j) = 2 * Npix(j) + 2 * fp
  BY <1>1, <1>2, <1>3
<1> QED
  BY <1>1, <1>4, <1>5, <1>6 DEF CellSize

\* How many updates a pixel makes, which are additions, where they go.
Count(j) == IF j.method = "bytepack" THEN 2 ELSE 3
Adds(j, k) == j.method = "renibble" /\ k # 1

CellOf(j, p, k) ==
  IF k = 1 THEN p
  ELSE IF j.method = "bytepack" THEN Npix(j) + p
  ELSE Npix(j) + (p \div 2) + (IF k = 2 THEN 0 ELSE HalfUp(Npix(j)))

\* The nibbles of the high byte as BitshiftAndNibbles gives them.
NibbleOf(w, k) ==
  LET high == HighByte(SignLast(w))
  IN IF k = 2 THEN LowNibble(high) ELSE HighNibble(high)

PartOf(j, p, k, w) ==
  IF j.method = "bytepack"
  THEN IF k = 1 THEN LowByte(w) ELSE SwapSign(LowByte(w), HighByte(w))
  ELSE IF k = 1 THEN LowByte(SignLast(w))
  ELSE IF p % 2 = 0 THEN Nibble * NibbleOf(w, k) ELSE NibbleOf(w, k)

LEMMA UpdatesAre ==
  ASSUME TwoBytesOfTwoNibbles, NEW j \in ByteJobs, NEW p \in Pixels(j),
         NEW w \in 0 .. Word - 1
  PROVE  /\ Len(Updates(j, p, w)) = Count(j)
         /\ \A k \in 1 .. Count(j) :
              LET u == Updates(j, p, w)[k]
              IN /\ u.cell = CellOf(j, p, k)
                 /\ u.how = IF Adds(j, k) THEN "add" ELSE "set"
                 /\ u.by = PartOf(j, p, k, w)
<1>1. p \in Nat /\ p % 2 \in {0, 1} /\ p \div 2 \in Nat /\ Npix(j) \in Nat
  BY JobSizes, Division DEF Pixels
<1>2. CASE j.method = "bytepack"
  BY <1>1, <1>2
  DEF Updates, BytepackUpdates, Count, CellOf, Adds, PartOf, Set
<1>3. CASE j.method = "renibble"
  <2> DEFINE high == HighByte(SignLast(w))
             bsn == BitshiftAndNibbles(w, p % 2)
             n == Npix(j)
             half == HalfUp(n)
             ups == <<Set(p, bsn[1]), Add(n + p \div 2, bsn[2]),
                      Add(n + p \div 2 + half, bsn[3])>>
  <2>1. /\ bsn[1] = LowByte(SignLast(w))
        /\ bsn[2] = IF p % 2 = 0 THEN LowNibble(high) * Nibble ELSE LowNibble(high)
        /\ bsn[3] = IF p % 2 = 0 THEN HighNibble(high) * Nibble ELSE HighNibble(high)
    BY <1>1 DEF BitshiftAndNibbles
  <2>2. /\ high \in 0 .. Byte - 1
        /\ LowNibble(high) \in Int /\ HighNibble(high) \in Int /\ Nibble \in Int
    BY SignBack, WordBytes, ByteNibbles, Sizes
  <2> HIDE DEF high, Nibble
  <2>3. /\ LowNibble(high) * Nibble = Nibble * LowNibble(high)
        /\ HighNibble(high) * Nibble = Nibble * HighNibble(high)
    BY <2>2
  <2>4. /\ bsn[2] = PartOf(j, p, 2, w)
        /\ bsn[3] = PartOf(j, p, 3, w)
        /\ bsn[1] = PartOf(j, p, 1, w)
    BY <1>3, <2>1, <2>3 DEF PartOf, NibbleOf, high
  <2>5. /\ p = CellOf(j, p, 1) /\ n + p \div 2 = CellOf(j, p, 2)
        /\ n + p \div 2 + half = CellOf(j, p, 3)
    BY <1>1, <1>3 DEF CellOf
  <2>6. Updates(j, p, w) = ups
    BY <1>3 DEF Updates, RenibbleUpdates
  <2> HIDE DEF bsn, n, half
  <2>7. /\ Len(ups) = 3
        /\ ups[1] = [cell |-> p, how |-> "set", by |-> bsn[1]]
        /\ ups[2] = [cell |-> n + p \div 2, how |-> "add", by |-> bsn[2]]
        /\ ups[3] = [cell |-> n + p \div 2 + half, how |-> "add", by |-> bsn[3]]
    BY DEF Set, Add
  <2> HIDE DEF ups
  <2>8. Count(j) = 3 /\ \A k \in 1 .. 3 : Adds(j, k) <=> k # 1
    BY <1>3 DEF Count, Adds
  <2>9. \A k \in 1 .. 3 : k = 1 \/ k = 2 \/ k = 3
    OBVIOUS
  <2> QED
    BY <2>4, <2>5, <2>6, <2>7, <2>8, <2>9
<1> QED
  BY <1>2, <1>3, JobSizes

LEMMA Halves ==
  ASSUME NEW n \in Nat
  PROVE  /\ HalfUp(n) \in Nat /\ n <= 2 * HalfUp(n) /\ 2 * HalfUp(n) <= n + 1
         /\ \A p \in 0 .. n - 1 : p \div 2 \in 0 .. HalfUp(n) - 1
BY DEF HalfUp

(* No two updates go to the same cell but those of two pixels of a pair.   *)
LEMMA CellsApart ==
  ASSUME NEW j \in ByteJobs, NEW p \in Pixels(j), NEW q \in Pixels(j),
         NEW k \in 1 .. Count(j), NEW l \in 1 .. Count(j),
         CellOf(j, p, k) = CellOf(j, q, l)
  PROVE  k = l /\ (p = q \/ (Adds(j, k) /\ p \div 2 = q \div 2))
<1> DEFINE n == Npix(j)
           x == p \div 2
           y == q \div 2
           half == HalfUp(n)
<1>1. /\ n \in Nat /\ p \in 0 .. n - 1 /\ q \in 0 .. n - 1
      /\ x \in 0 .. half - 1 /\ y \in 0 .. half - 1 /\ half \in Nat
  BY JobSizes, Halves DEF Pixels
<1>2. j.method \in {"bytepack", "renibble"}
  BY JobSizes
<1> HIDE DEF x, y, half
<1>3. CASE j.method = "bytepack"
  BY <1>1, <1>3 DEF CellOf, Count
<1>4. CASE j.method = "renibble"
  <2>1. /\ CellOf(j, p, k) = IF k = 1 THEN p ELSE n + x + (IF k = 2 THEN 0 ELSE half)
        /\ CellOf(j, q, l) = IF l = 1 THEN q ELSE n + y + (IF l = 2 THEN 0 ELSE half)
    BY <1>4 DEF CellOf, x, y, half
  <2> HIDE DEF n
  <2>2. k \in 1 .. 3 /\ l \in 1 .. 3
    BY <1>4 DEF Count
  <2> DEFINE same == k = l /\ (k = 1 => p = q) /\ (k # 1 => x = y)
  <2> SUFFICES same
    BY <1>4 DEF Adds, x, y
  <2>3. CASE k = 1
    <3>1. CellOf(j, q, l) = p
      BY <2>1, <2>3
    <3> QED
      BY <1>1, <2>1, <2>2, <2>3, <3>1
  <2>4. CASE k = 2
    <3>1. CellOf(j, q, l) = n + x
      BY <1>1, <2>1, <2>4
    <3>2. l = 2
      BY <1>1, <2>1, <2>2, <3>1
    <3> QED
      BY <1>1, <2>1, <2>4, <3>1, <3>2
  <2>5. CASE k = 3
    <3>1. CellOf(j, q, l) = n + x + half
      BY <1>1, <2>1, <2>5
    <3>2. l = 3
      BY <1>1, <2>1, <2>2, <3>1
    <3> QED
      BY <1>1, <2>1, <2>5, <3>1, <3>2
  <2> QED
    BY <2>2, <2>3, <2>4, <2>5
<1> QED
  BY <1>2, <1>3, <1>4

(* Every update falls in the cells that are carried.                       *)
LEMMA CellsCarried ==
  ASSUME NEW j \in ByteJobs, NEW p \in Pixels(j), NEW k \in 1 .. Count(j)
  PROVE  CellOf(j, p, k) \in 0 .. MinCells(j) - 1
<1> DEFINE n == Npix(j)
           x == p \div 2
           half == HalfUp(n)
           cells == MinCells(j)
<1>1. /\ n \in Nat /\ p \in 0 .. n - 1
      /\ x \in 0 .. half - 1 /\ half \in Nat /\ 2 * half <= n + 1
      /\ cells \in Nat
  BY JobSizes, Halves DEF Pixels
<1> HIDE DEF x, half, cells
<1>2. CASE j.method = "bytepack"
  <2>1. cells = 2 * n
    BY <1>2, JobSizes DEF cells
  <2>2. CellOf(j, p, k) = p \/ CellOf(j, p, k) = n + p
    BY <1>2 DEF CellOf
  <2> HIDE DEF n
  <2>3. p \in 0 .. cells - 1 /\ n + p \in 0 .. cells - 1
    BY <1>1, <2>1
  <2> QED
    BY <2>2, <2>3 DEF cells
<1>3. CASE j.method = "renibble"
  <2>1. cells > 2 * n
    BY <1>3, JobSizes DEF cells
  <2>2. CellOf(j, p, k) \in {p, n + x + 0, n + x + half}
    BY <1>3 DEF CellOf, x, half
  <2> HIDE DEF n
  <2>3. /\ p \in 0 .. cells - 1
        /\ n + x + 0 \in 0 .. cells - 1 /\ n + x + half \in 0 .. cells - 1
    BY <1>1, <2>1
  <2> QED
    BY <2>2, <2>3 DEF cells
<1> QED
  BY <1>2, <1>3, JobSizes

-----------------------------------------------------------------------------
(* The layout of a cube, by the cells that its pixels update.              *)

Even(p) == 2 * (p \div 2)

LEMMA Pairs ==
  ASSUME NEW p \in Nat
  PROVE  /\ Even(p) \in Nat /\ p \in {Even(p), Even(p) + 1}
         /\ (Even(p) % 2) = 0 /\ ((Even(p) + 1) % 2) = 1
         /\ Even(p) \div 2 = p \div 2 /\ (Even(p) + 1) \div 2 = p \div 2
         /\ ((p % 2) = 0) <=> p = Even(p)
<1> DEFINE x == p \div 2
<1>1. x \in Nat /\ (p % 2) \in {0, 1} /\ p = 2 * x + (p % 2)
  BY Division
<1>2. Even(p) = 2 * x
  BY DEF Even
<1> HIDE DEF x
<1>3. /\ (2 * x + 0) \div 2 = x /\ ((2 * x + 0) % 2) = 0
      /\ (2 * x + 1) \div 2 = x /\ ((2 * x + 1) % 2) = 1
  BY <1>1, QuotientIs
<1>4. 2 * x + 0 = 2 * x
  BY <1>1
<1> QED
  BY <1>1, <1>2, <1>3, <1>4 DEF x

\* What the two pixels of a pair make of the cell they share.
PairCell(j, cube, p, k) ==
  Nibble * NibbleOf(cube[Even(p)], k)
  + IF Even(p) + 1 < Npix(j) THEN NibbleOf(cube[Even(p) + 1], k) ELSE 0

LEMMA NibbleOfType ==
  ASSUME TwoBytesOfTwoNibbles, NEW w \in 0 .. Word - 1, NEW k
  PROVE  NibbleOf(w, k) \in 0 .. Nibble - 1
BY SignBack, WordBytes, ByteNibbles DEF NibbleOf

LEMMA LayoutIs ==
  ASSUME TwoBytesOfTwoNibbles, NEW j \in ByteJobs,
         NEW cube \in [Pixels(j) -> 0 .. Word - 1], NEW p \in Pixels(j),
         NEW k \in 1 .. Count(j)
  PROVE  Layout(j, cube)[CellOf(j, p, k)] =
           IF Adds(j, k) THEN PairCell(j, cube, p, k) ELSE PartOf(j, p, k, cube[p])
<1> DEFINE n == Npix(j)
           x == p \div 2
           half == HalfUp(n)
           c == CellOf(j, p, k)
<1>1. /\ n \in Nat /\ p \in 0 .. n - 1 /\ p \in Nat
      /\ x \in 0 .. half - 1 /\ half \in Nat
  <2>1. n \in Nat /\ p \in 0 .. n - 1 /\ p \in Nat
    BY JobSizes DEF Pixels
  <2> HIDE DEF n
  <2> QED
    BY <2>1, Halves
<1>2. c \in 0 .. MinCells(j) - 1 /\ j.method \in {"bytepack", "renibble"}
  BY CellsCarried, JobSizes
<1> HIDE DEF x, half, c, n
<1>3. CASE j.method = "bytepack"
  <2>1. Layout(j, cube)[c] = BytepackCell(j, cube, c)
    BY <1>2, <1>3 DEF Layout
  <2>2. c = IF k = 1 THEN p ELSE n + p
    BY <1>3 DEF CellOf, c, n
  <2>3. CASE k = 1
    <3>1. c = p /\ c < n
      BY <1>1, <2>2, <2>3
    <3> QED
      BY <1>3, <2>1, <2>3, <3>1 DEF BytepackCell, PartOf, Adds, c, n
  <2>4. CASE k = 2
    <3>1. ~ c < n /\ c - n = p
      BY <1>1, <2>2, <2>4
    <3> QED
      BY <1>3, <2>1, <2>4, <3>1 DEF BytepackCell, PartOf, Adds, c, n
  <2> QED
    BY <1>3, <2>3, <2>4 DEF Count
<1>4. CASE j.method = "renibble"
  <2>1. Layout(j, cube)[c] = RenibbleCell(j, cube, c)
    BY <1>2, <1>4 DEF Layout
  <2>2. c = IF k = 1 THEN p ELSE n + x + (IF k = 2 THEN 0 ELSE half)
    BY <1>4 DEF CellOf, c, n, x, half
  <2>3. CASE k = 1
    <3>1. c = p /\ c < n
      BY <1>1, <2>2, <2>3
    <3>2. RenibbleCell(j, cube, c) = LowByte(SignLast(cube[c]))
      BY <3>1, <1>1 DEF RenibbleCell, n, half
    <3> QED
      BY <1>4, <2>1, <2>3, <3>1, <3>2 DEF PartOf, Adds, c
  <2>4. ASSUME NEW w \in 0 .. Word - 1
        PROVE  /\ (SignLast(w) \div Byte) % Nibble = NibbleOf(w, 2)
               /\ (SignLast(w) \div (Byte * Nibble)) % Nibble = NibbleOf(w, 3)
    BY SignBack, UnitNibbles DEF NibbleOf
  <2>5. /\ Even(p) = 2 * x /\ Even(p) \in Pixels(j)
        /\ Even(p) + 1 < n => Even(p) + 1 \in Pixels(j)
    BY <1>1, Pairs DEF Even, Pixels, x, n
  <2>6. /\ NibblePair(j, cube, x, Byte) = PairCell(j, cube, p, 2)
        /\ NibblePair(j, cube, x, Byte * Nibble) = PairCell(j, cube, p, 3)
    <3>1. cube[Even(p)] \in 0 .. Word - 1
      BY <2>5
    <3>2. Even(p) + 1 < n => cube[Even(p) + 1] \in 0 .. Word - 1
      BY <2>5
    <3> HIDE DEF Word, Byte, Nibble
    <3> QED
      BY <2>4, <2>5, <3>1, <3>2 DEF NibblePair, PairCell, n
  <2>7. CASE k = 2
    <3>1. ~ c < n /\ c \in n .. n + half - 1 /\ c - n = x
      BY <1>1, <2>2, <2>7
    <3>2. RenibbleCell(j, cube, c) = NibblePair(j, cube, x, Byte)
      BY <1>1, <3>1 DEF RenibbleCell, n, half
    <3> QED
      BY <1>4, <2>1, <2>6, <2>7, <3>2 DEF Adds, c
  <2>8. CASE k = 3
    <3>1. /\ ~ c < n /\ c \notin n .. n + half - 1
          /\ c \in n + half .. n + 2 * half - 1 /\ c - n - half = x
      BY <1>1, <2>2, <2>8
    <3>2. RenibbleCell(j, cube, c) = NibblePair(j, cube, x, Byte * Nibble)
      BY <1>1, <3>1 DEF RenibbleCell, n, half
    <3> QED
      BY <1>4, <2>1, <2>6, <2>8, <3>2 DEF Adds, c
  <2> QED
    BY <1>4, <2>3, <2>7, <2>8 DEF Count
<1> QED
  BY <1>2, <1>3, <1>4

\* The cells of renibble that no pixel updates.
Spare(j) == IF j.method = "renibble"
            THEN Npix(j) + 2 * HalfUp(Npix(j)) .. MinCells(j) - 1 ELSE {}

LEMMA SpareLayout ==
  ASSUME NEW j \in ByteJobs, NEW cube, NEW c \in Spare(j)
  PROVE  /\ c \in 0 .. MinCells(j) - 1
         /\ Layout(j, cube)[c] = 0
         /\ \A p \in Pixels(j), k \in 1 .. Count(j) : CellOf(j, p, k) # c
<1> DEFINE n == Npix(j)
           half == HalfUp(n)
<1>1. /\ n \in Nat /\ half \in Nat /\ j.method = "renibble"
      /\ c \in n + 2 * half .. MinCells(j) - 1 /\ MinCells(j) \in Nat
  BY JobSizes, Halves DEF Spare
<1> HIDE DEF half
<1>2. c \in 0 .. MinCells(j) - 1
  BY <1>1
<1>3. Layout(j, cube)[c] = RenibbleCell(j, cube, c)
  BY <1>1, <1>2 DEF Layout
<1>4. ~ c < n /\ c \notin n .. n + half - 1 /\ c \notin n + half .. n + 2 * half - 1
      /\ c >= n + 2 * half
  BY <1>1
<1>5. RenibbleCell(j, cube, c) = 0
  BY <1>4 DEF RenibbleCell, half
<1>6. ASSUME NEW p \in Pixels(j), NEW k \in 1 .. Count(j) PROVE CellOf(j, p, k) # c
  <2>1. p \in 0 .. n - 1 /\ p \div 2 \in 0 .. half - 1
    BY Halves, JobSizes DEF Pixels, half
  <2> DEFINE x == p \div 2
  <2>2. CellOf(j, p, k) \in {p, n + x + 0, n + x + half}
    BY <1>1 DEF CellOf, half
  <2> HIDE DEF x, n
  <2> QED
    BY <1>1, <1>4, <2>1, <2>2 DEF x
<1> QED
  BY <1>2, <1>3, <1>5, <1>6

LEMMA EveryCell ==
  ASSUME NEW j \in ByteJobs, NEW c \in 0 .. MinCells(j) - 1
  PROVE  \/ c \in Spare(j)
         \/ \E p \in Pixels(j), k \in 1 .. Count(j) : c = CellOf(j, p, k)
<1> DEFINE n == Npix(j)
           half == HalfUp(n)
<1>1. /\ n \in Nat /\ half \in Nat /\ n <= 2 * half /\ 2 * half <= n + 1
      /\ j.method \in {"bytepack", "renibble"} /\ MinCells(j) \in Nat /\ c \in Nat
  BY JobSizes, Halves
<1> HIDE DEF half
<1>2. CASE c < n
  <2>1. c \in Pixels(j) /\ 1 \in 1 .. Count(j) /\ c = CellOf(j, c, 1)
    BY <1>1, <1>2 DEF Pixels, Count, CellOf
  <2> QED
    BY <2>1
<1>3. CASE c >= n /\ j.method = "bytepack"
  <2>1. MinCells(j) = 2 * n
    BY <1>3, JobSizes
  <2>2. c - n \in 0 .. n - 1 /\ c = n + (c - n)
    BY <1>1, <1>3, <2>1
  <2>3. c - n \in Pixels(j) /\ 2 \in 1 .. Count(j) /\ c = CellOf(j, c - n, 2)
    BY <1>3, <2>2 DEF Pixels, Count, CellOf
  <2> QED
    BY <2>3
<1>4. ASSUME NEW x \in 0 .. half - 1
      PROVE  2 * x \in Pixels(j) /\ (2 * x) \div 2 = x
  <2>1. 2 * x \in 0 .. n - 1
    BY <1>1
  <2> QED
    BY <2>1 DEF Pixels
<1>5. CASE c \in n .. n + half - 1 /\ j.method = "renibble"
  <2> DEFINE x == c - n
  <2>1. x \in 0 .. half - 1 /\ c = n + x + 0
    BY <1>1, <1>5
  <2> HIDE DEF x
  <2>2. 2 * x \in Pixels(j) /\ 2 \in 1 .. Count(j) /\ c = CellOf(j, 2 * x, 2)
    BY <1>4, <1>5, <2>1 DEF Count, CellOf
  <2> QED
    BY <2>2
<1>6. CASE c \in n + half .. n + 2 * half - 1 /\ j.method = "renibble"
  <2> DEFINE x == c - n - half
  <2>1. x \in 0 .. half - 1 /\ c = n + x + half
    BY <1>1, <1>6
  <2> HIDE DEF x
  <2>2. 2 * x \in Pixels(j) /\ 3 \in 1 .. Count(j) /\ c = CellOf(j, 2 * x, 3)
    BY <1>4, <1>6, <2>1 DEF Count, CellOf, half
  <2> QED
    BY <2>2
<1>7. CASE c >= n + 2 * half /\ j.method = "renibble"
  <2>1. c \in n + 2 * half .. MinCells(j) - 1
    BY <1>1, <1>7
  <2> QED
    BY <1>7, <2>1 DEF Spare, half
<1> HIDE DEF n
<1>8. c < n \/ c >= n
  BY <1>1
<1>9. c >= n => \/ c \in n .. n + half - 1 \/ c \in n + half .. n + 2 * half - 1
                \/ c >= n + 2 * half
  BY <1>1
<1> QED
  BY <1>1, <1>2, <1>3, <1>5, <1>6, <1>7, <1>8, <1>9

(* The inverse of a reordered cube is the cube.                            *)
LEMMA GatherIs ==
  ASSUME TwoBytesOfTwoNibbles, NEW j \in ByteJobs,
         NEW cube \in [Pixels(j) -> 0 .. Word - 1], NEW p \in Pixels(j),
         NEW m, \A c \in 0 .. MinCells(j) - 1 : m[c] = Layout(j, cube)[c]
  PROVE  Gather(j, p, m) = cube[p]
<1> DEFINE w == cube[p]
<1>1. w \in 0 .. Word - 1
  OBVIOUS
<1>2. \A k \in 1 .. Count(j) :
        m[CellOf(j, p, k)] = IF Adds(j, k) THEN PairCell(j, cube, p, k)
                                           ELSE PartOf(j, p, k, w)
  BY CellsCarried, LayoutIs
<1> HIDE DEF w
<1>3. CASE j.method = "bytepack"
  <2>1. m[p] = LowByte(w) /\ m[Npix(j) + p] = SwapSign(LowByte(w), HighByte(w))
    BY <1>2, <1>3 DEF Count, CellOf, Adds, PartOf
  <2>2. Gather(j, p, m) =
          LowByte(w) + Byte * SwapSign(LowByte(w), SwapSign(LowByte(w), HighByte(w)))
    BY <1>3, <2>1 DEF Gather, BytepackGather
  <2> QED
    BY <1>1, <2>2, WordBytes, SwapSignBack DEF w
<1>4. CASE j.method = "renibble"
  <2> DEFINE u == SignLast(w)
             high == HighByte(u)
             n == Npix(j)
             shared == n + p \div 2
             Half(c) == IF p % 2 = 0 THEN HighNibble(c) ELSE LowNibble(c)
  <2>1. /\ CellOf(j, p, 1) = p /\ CellOf(j, p, 2) = shared
        /\ CellOf(j, p, 3) = shared + HalfUp(n)
    <3>1. n \in Nat /\ p \in Nat /\ p \div 2 \in Nat
      BY JobSizes, Division DEF Pixels
    <3> QED
      BY <1>4, <3>1 DEF CellOf
  <2>2. /\ m[p] = LowByte(u)
        /\ m[shared] = PairCell(j, cube, p, 2)
        /\ m[shared + HalfUp(n)] = PairCell(j, cube, p, 3)
    <3>1. Count(j) = 3 /\ ~ Adds(j, 1) /\ Adds(j, 2) /\ Adds(j, 3)
      BY <1>4 DEF Count, Adds
    <3>2. PartOf(j, p, 1, w) = LowByte(u)
      BY <1>4 DEF PartOf
    <3>3. 1 \in 1 .. 3 /\ 2 \in 1 .. 3 /\ 3 \in 1 .. 3
      OBVIOUS
    <3> HIDE DEF shared, u, n
    <3> QED
      BY <1>2, <2>1, <3>1, <3>2, <3>3
  <2>3. ASSUME NEW k \in {2, 3}
        PROVE  Half(PairCell(j, cube, p, k)) = NibbleOf(w, k)
    <3>1. /\ p \in Nat /\ p \in {Even(p), Even(p) + 1} /\ Even(p) \in Nat
          /\ ((p % 2) = 0) <=> p = Even(p)
      BY Pairs, JobSizes DEF Pixels
    <3>2. Even(p) \in Pixels(j) /\ (Even(p) + 1 < n => Even(p) + 1 \in Pixels(j))
      BY <3>1, JobSizes DEF Pixels
    <3> DEFINE e == NibbleOf(cube[Even(p)], k)
               o == IF Even(p) + 1 < n THEN NibbleOf(cube[Even(p) + 1], k) ELSE 0
    <3>3. cube[Even(p)] \in 0 .. Word - 1
          /\ (Even(p) + 1 < n => cube[Even(p) + 1] \in 0 .. Word - 1)
      BY <3>2
    <3>4. e \in 0 .. Nibble - 1 /\ o \in 0 .. Nibble - 1
      <4>1. 0 \in 0 .. Nibble - 1
        BY Sizes
      <4>2. e \in 0 .. Nibble - 1
        BY <3>3, NibbleOfType
      <4>3. Even(p) + 1 < n => NibbleOf(cube[Even(p) + 1], k) \in 0 .. Nibble - 1
        BY <3>3, NibbleOfType
      <4> QED
        BY <4>1, <4>2, <4>3
    <3>5. PairCell(j, cube, p, k) = Nibble * e + o
      BY DEF PairCell
    <3>6. p # Even(p) => p = Even(p) + 1 /\ Even(p) + 1 < n
      BY <3>1, JobSizes DEF Pixels
    <3>7. NibbleOf(w, k) = IF p = Even(p) THEN e ELSE o
      BY <3>1, <3>6 DEF w
    <3> HIDE DEF e, o
    <3>8. HighNibble(Nibble * e + o) = e /\ LowNibble(Nibble * e + o) = o
      BY <3>4, PairOfNibbles
    <3> QED
      BY <3>1, <3>5, <3>7, <3>8
  <2>4. Gather(j, p, m) =
          SignFirst(m[p] + Byte * (Half(m[shared]) + Nibble * Half(m[shared + HalfUp(n)])))
    BY <1>4 DEF Gather, RenibbleGather
  <2>5. Gather(j, p, m) =
          SignFirst(LowByte(u) + Byte * (NibbleOf(w, 2) + Nibble * NibbleOf(w, 3)))
    <3>1. Half(m[shared]) = NibbleOf(w, 2) /\ Half(m[shared + HalfUp(n)]) = NibbleOf(w, 3)
      BY <2>2, <2>3
    <3> HIDE DEF Half, shared, n, u
    <3> QED
      BY <2>2, <2>4, <3>1
  <2>6. NibbleOf(w, 2) = LowNibble(high) /\ NibbleOf(w, 3) = HighNibble(high)
    BY DEF NibbleOf
  <2>7. u \in 0 .. Word - 1 /\ SignFirst(u) = w
    BY <1>1, SignBack
  <2> HIDE DEF u
  <2>8. LowByte(u) + Byte * high = u /\ high \in 0 .. Byte - 1
    BY <2>7, WordBytes
  <2> HIDE DEF high
  <2>9. LowNibble(high) + Nibble * HighNibble(high) = high
    BY <2>8, ByteNibbles
  <2> QED
    BY <2>5, <2>6, <2>7, <2>8, <2>9 DEF w
<1> QED
  BY <1>3, <1>4, JobSizes

-----------------------------------------------------------------------------
(* The inductive invariant.  While a reorder loop runs, each cell holds    *)
(* what the finished updates put there; afterwards the cells that are      *)
(* carried hold the layout of the cube, and while the inverse runs each    *)
(* finished pixel is the caller's.                                         *)

\* How many of its updates a pixel has made.
Made(p) == IF p \notin pending THEN Count(job)
           ELSE IF at[owner[p]] = p THEN step[owner[p]] - 1 ELSE 0

\* What a pixel has put into the cell it shares, by its k-th update.
Share(p, k) == IF p \in Pixels(job) /\ Made(p) >= k
               THEN PartOf(job, p, k, orig[p]) ELSE 0

Filled ==
  /\ \A p \in Pixels(job), k \in 1 .. Count(job) :
       IF Adds(job, k)
       THEN mem[CellOf(job, p, k)] = Share(Even(p), k) + Share(Even(p) + 1, k)
       ELSE Made(p) >= k => mem[CellOf(job, p, k)] = PartOf(job, p, k, orig[p])
  /\ \A c \in Spare(job) : mem[c] = 0

\* A thread works on an iteration of its own share.
InShare ==
  \A t \in Threads : IF InFlight(t) THEN at[t] \in pending /\ owner[at[t]] = t
                                    ELSE val[t] = Nothing

\* No other thread has stored to the cell that a thread has loaded.
Loaded ==
  \A t \in Threads : InFlight(t) =>
    /\ step[t] \in 1 .. Count(job)
    /\ val[t] # Nothing => /\ Adds(job, step[t])
                           /\ val[t] = mem[CellOf(job, at[t], step[t])]

ReorderLoop == owner \in Schedules[job]["reorder"] /\ Loaded /\ Filled

LaidOut == \A c \in 0 .. MinCells(job) - 1 : mem[c] = Layout(job, orig)[c]

UnreorderLoop ==
  /\ \A p \in Pixels(job) \ pending : raw[p] = orig[p]
  /\ \A t \in Threads : InFlight(t) => val[t] = orig[at[t]]

ByteInv ==
  /\ TypeOK
  /\ InShare
  /\ Running \/ pending = {}
  /\ phase \in {"raw", "reorder", "reordered"} => raw = orig
  /\ phase = "reorder" => ReorderLoop
  /\ phase \in {"reordered", "carried", "unreorder"} => LaidOut
  /\ phase = "unreorder" => UnreorderLoop

ReorderInv == job \in ByteJobs => ByteInv

-----------------------------------------------------------------------------
(* What the invariant says in a form that the steps use.                   *)

LEMMA PartType ==
  ASSUME TwoBytesOfTwoNibbles, NEW j \in ByteJobs, NEW p \in Nat,
         NEW k \in 1 .. Count(j), NEW w \in 0 .. Word - 1
  PROVE  /\ PartOf(j, p, k, w) \in 0 .. Byte - 1
         /\ Adds(j, k) => /\ NibbleOf(w, k) \in 0 .. Nibble - 1
                          /\ PartOf(j, p, k, w) =
                               IF p % 2 = 0 THEN Nibble * NibbleOf(w, k)
                               ELSE NibbleOf(w, k)
<1>1. CASE j.method = "bytepack"
  BY <1>1, WordBytes, SwapSignBack DEF PartOf, Adds
<1>2. CASE j.method = "renibble"
  <2> DEFINE x == NibbleOf(w, k)
  <2>1. x \in 0 .. Nibble - 1
    BY NibbleOfType
  <2>2. LowByte(SignLast(w)) \in 0 .. Byte - 1
    BY SignBack, WordBytes
  <2>3. 0 \in 0 .. Nibble - 1
    BY Sizes
  <2>4. Nibble * x \in 0 .. Byte - 1
    BY <2>1, <2>3, PairOfNibbles
  <2>5. x \in 0 .. Byte - 1
    <3>1. Nibble * 0 + x \in 0 .. Byte - 1
      BY <2>1, <2>3, PairOfNibbles
    <3>2. Nibble * 0 = 0
      BY Sizes
    <3> HIDE DEF x
    <3> QED
      BY <2>1, <3>1, <3>2
  <2>6. PartOf(j, p, k, w) = IF k = 1 THEN LowByte(SignLast(w))
                             ELSE IF p % 2 = 0 THEN Nibble * x ELSE x
    BY <1>2 DEF PartOf
  <2>7. Adds(j, k) => k # 1
    BY DEF Adds
  <2> HIDE DEF x
  <2> QED
    BY <2>1, <2>2, <2>4, <2>5, <2>6, <2>7 DEF x
<1> QED
  BY <1>1, <1>2, JobSizes

LEMMA Cells ==
  ASSUME TypeOK, job \in ByteJobs
  PROVE  \E n \in Nat : n >= MinCells(job) /\ mem \in [0 .. n - 1 -> 0 .. Byte - 1]
<1>1. PICK n \in {job.encoderCells, job.decoderCells} :
        mem \in [0 .. n - 1 -> 0 .. CellSize(job) - 1]
  BY DEF TypeOK
<1>2. n \in Nat /\ n >= MinCells(job) /\ CellSize(job) = Byte
  BY JobSizes
<1> QED
  BY <1>1, <1>2

LEMMA CubeType ==
  ASSUME TypeOK
  PROVE  orig \in [Pixels(job) -> 0 .. Word - 1]
<1>1. orig \in Cubes /\ DOMAIN orig = Pixels(job)
  BY DEF TypeOK, Inputs
<1>2. PICK j \in Jobs : orig \in [Pixels(j) -> 0 .. Word - 1]
  BY <1>1, ReorderAssumption
<1> QED
  BY <1>1, <1>2

(* The update that a thread is about to make, by pixel and number.         *)
LEMMA CurrentIs ==
  ASSUME TwoBytesOfTwoNibbles, ByteInv, job \in ByteJobs, phase = "reorder",
         NEW t \in Threads, InFlight(t)
  PROVE  /\ at[t] \in Pixels(job) /\ at[t] \in pending /\ owner[at[t]] = t
         /\ step[t] \in 1 .. Count(job)
         /\ Len(Updates(job, at[t], raw[at[t]])) = Count(job)
         /\ Current(t).cell = CellOf(job, at[t], step[t])
         /\ Current(t).how = IF Adds(job, step[t]) THEN "add" ELSE "set"
         /\ Current(t).by = PartOf(job, at[t], step[t], orig[at[t]])
<1>1. TypeOK /\ InShare /\ raw = orig /\ Loaded
  BY DEF ByteInv, ReorderLoop
<1>2. at[t] \in pending /\ owner[at[t]] = t /\ step[t] \in 1 .. Count(job)
  BY <1>1 DEF InShare, Loaded
<1>3. at[t] \in Pixels(job)
  BY <1>1, <1>2 DEF TypeOK
<1>4. orig[at[t]] \in 0 .. Word - 1
  BY <1>1, <1>3, CubeType
<1> QED
  BY <1>1, <1>2, <1>3, <1>4, UpdatesAre DEF Current

(* No two threads are at updates of the same cell.                         *)
LEMMA ThreadsApart ==
  ASSUME TwoBytesOfTwoNibbles, PairsTogether, ByteInv, job \in ByteJobs,
         phase = "reorder",
         NEW t \in Threads, NEW u \in Threads, t # u, InFlight(t), InFlight(u)
  PROVE  /\ at[t] # at[u]
         /\ CellOf(job, at[t], step[t]) # CellOf(job, at[u], step[u])
<1> DEFINE p == at[t]
           q == at[u]
           k == step[t]
           l == step[u]
<1>1. /\ p \in Pixels(job) /\ owner[p] = t /\ k \in 1 .. Count(job)
      /\ q \in Pixels(job) /\ owner[q] = u /\ l \in 1 .. Count(job)
  BY CurrentIs
<1>2. p # q
  BY <1>1
<1>3. ASSUME CellOf(job, p, k) = CellOf(job, q, l) PROVE FALSE
  <2> HIDE DEF p, q, k, l
  <2>1. Adds(job, k) /\ p \div 2 = q \div 2
    BY <1>1, <1>2, <1>3, CellsApart
  <2>2. job.method = "renibble" /\ job \in Jobs
    BY <2>1 DEF Adds, ByteJobs
  <2>3. owner \in Schedules[job]["reorder"]
    BY DEF ByteInv, ReorderLoop
  <2>4. owner[p] = owner[q]
    BY <1>1, <2>1, <2>2, <2>3 DEF PairsTogether
  <2> QED
    BY <1>1, <2>4
<1> QED
  BY <1>2, <1>3

(* With every update made, the cells hold the layout of the cube.          *)
LEMMA FilledIsLaidOut ==
  ASSUME TwoBytesOfTwoNibbles, TypeOK, job \in ByteJobs, Filled, pending = {}
  PROVE  LaidOut
<1> SUFFICES ASSUME NEW c \in 0 .. MinCells(job) - 1
             PROVE  mem[c] = Layout(job, orig)[c]
  BY DEF LaidOut
<1>1. CASE c \in Spare(job)
  BY <1>1, SpareLayout DEF Filled
<1>2. ASSUME NEW p \in Pixels(job), NEW k \in 1 .. Count(job), c = CellOf(job, p, k)
      PROVE  mem[c] = Layout(job, orig)[c]
  <2>1. orig \in [Pixels(job) -> 0 .. Word - 1]
    BY CubeType
  <2>2. Layout(job, orig)[c] = IF Adds(job, k) THEN PairCell(job, orig, p, k)
                               ELSE PartOf(job, p, k, orig[p])
    BY <1>2, <2>1, LayoutIs
  <2>3. Count(job) \in Nat
    BY DEF Count
  <2>4. \A q : Made(q) = Count(job) /\ Made(q) >= k
    BY <2>3 DEF Made
  <2>5. CASE ~ Adds(job, k)
    BY <1>2, <2>2, <2>4, <2>5 DEF Filled
  <2>6. CASE Adds(job, k)
    <3>1. mem[c] = Share(Even(p), k) + Share(Even(p) + 1, k)
      BY <1>2, <2>6 DEF Filled
    <3>2. /\ p \in Nat /\ p \in 0 .. Npix(job) - 1 /\ Npix(job) \in Nat
          /\ Even(p) \in Nat /\ p \in {Even(p), Even(p) + 1}
          /\ (Even(p) % 2) = 0 /\ ((Even(p) + 1) % 2) = 1
      BY JobSizes, Pairs DEF Pixels
    <3>3. /\ Even(p) \in Pixels(job)
          /\ Even(p) + 1 \in Pixels(job) <=> Even(p) + 1 < Npix(job)
      BY <3>2 DEF Pixels
    <3>4. Share(Even(p), k) = Nibble * NibbleOf(orig[Even(p)], k)
      BY <2>1, <2>4, <2>6, <3>2, <3>3, PartType DEF Share
    <3>5. Share(Even(p) + 1, k) =
            IF Even(p) + 1 < Npix(job) THEN NibbleOf(orig[Even(p) + 1], k) ELSE 0
      <4>1. CASE Even(p) + 1 < Npix(job)
        <5>1. Even(p) + 1 \in Nat /\ orig[Even(p) + 1] \in 0 .. Word - 1
          BY <2>1, <3>2, <3>3, <4>1
        <5>2. PartOf(job, Even(p) + 1, k, orig[Even(p) + 1])
                = NibbleOf(orig[Even(p) + 1], k)
          BY <2>6, <3>2, <5>1, PartType
        <5> QED
          BY <2>4, <3>3, <4>1, <5>2 DEF Share
      <4>2. CASE ~ Even(p) + 1 < Npix(job)
        BY <3>3, <4>2 DEF Share
      <4> QED
        BY <4>1, <4>2
    <3> QED
      BY <2>2, <2>6, <3>1, <3>4, <3>5 DEF PairCell
  <2> QED
    BY <2>5, <2>6
<1> QED
  BY <1>1, <1>2, EveryCell

-----------------------------------------------------------------------------
(* Every step keeps the invariant.                                         *)

LEMMA InputType ==
  ASSUME NEW j \in Jobs, NEW cube \in Inputs(j)
  PROVE  cube \in [Pixels(j) -> 0 .. Word - 1]
<1>1. cube \in Cubes /\ DOMAIN cube = Pixels(j)
  BY DEF Inputs
<1>2. PICK i \in Jobs : cube \in [Pixels(i) -> 0 .. Word - 1]
  BY <1>1, ReorderAssumption
<1> QED
  BY <1>1, <1>2

LEMMA ScheduleType ==
  ASSUME NEW j \in Jobs, NEW d \in Directions, NEW s \in Schedules[j][d]
  PROVE  s \in [Pixels(j) -> Threads]
BY ReorderAssumption

LEMMA Least ==
  ASSUME TwoBytesOfTwoNibbles
  PROVE  /\ Stale(Byte) \in 0 .. Byte - 1 /\ Stale(Word) \in 0 .. Word - 1
         /\ 0 \in 0 .. Byte - 1
         /\ 0 .. Byte - 1 \subseteq 0 .. Word - 1
         /\ 1 \in 1 .. Bits
         /\ \A j \in Jobs : 1 .. Count(j) \subseteq 1 .. Bits
<1> HIDE DEF Byte, Word
<1>1. Bits \in Nat /\ Bits >= 4
  BY ReorderAssumption
<1> QED
  BY <1>1, Sizes DEF Stale, Count

\* With no call running no thread has an iteration.
LEMMA QuietIs ==
  ASSUME ByteInv, pending = {}, NEW t \in Threads
  PROVE  at[t] = Idle /\ val[t] = Nothing
BY DEF ByteInv, InShare, InFlight

LEMMA InitInv ==
  ASSUME TwoBytesOfTwoNibbles, Init, job \in ByteJobs
  PROVE  ByteInv
<1>1. TypeOK
  <2>1. orig \in [Pixels(job) -> 0 .. Word - 1]
    BY InputType DEF Init
  <2>2. mem \in [0 .. job.encoderCells - 1 -> 0 .. CellSize(job) - 1]
    BY Least, JobSizes DEF Init
  <2>3. owner \in [Pixels(job) -> Threads]
    BY ScheduleType DEF Init, Directions
  <2>4. step \in [Threads -> 1 .. Bits]
    BY Least DEF Init
  <2> QED
    BY <2>1, <2>2, <2>3, <2>4 DEF Init, TypeOK
<1>2. InShare
  BY DEF Init, InShare, InFlight
<1> QED
  BY <1>1, <1>2 DEF Init, ByteInv, Running

LEMMA LoadCubeInv ==
  ASSUME ByteInv, NEW cube \in Inputs(job), LoadCube(cube)
  PROVE  ByteInv'
<1>1. TypeOK'
  <2>1. raw' \in [Pixels(job) -> 0 .. Word - 1]
    BY InputType DEF ByteInv, TypeOK, LoadCube
  <2> QED
    BY <2>1 DEF ByteInv, TypeOK, LoadCube
<1>2. InShare'
  BY DEF ByteInv, LoadCube, InShare, InFlight
<1> QED
  BY <1>1, <1>2 DEF ByteInv, LoadCube, Running

LEMMA StartReorderInv ==
  ASSUME TwoBytesOfTwoNibbles, ByteInv, job \in ByteJobs, StartReorder
  PROVE  ByteInv'
<1>1. /\ TypeOK /\ phase = "raw" /\ phase' = "reorder" /\ pending = {}
      /\ pending' = Pixels(job) /\ owner' \in Schedules[job]["reorder"]
      /\ job' = job /\ orig' = orig /\ raw' = raw /\ raw = orig
      /\ at' = at /\ step' = step /\ val' = val
  BY DEF ByteInv, StartReorder, Running
<1>2. \A t \in Threads : at[t] = Idle /\ val[t] = Nothing
  BY <1>1, QuietIs
<1>3. InShare'
  BY <1>1, <1>2 DEF InShare, InFlight
<1>4. /\ job \in Jobs /\ MinCells(job) \in Nat /\ CellSize(job) = Byte
      /\ job.encoderCells \in Nat /\ job.encoderCells >= MinCells(job)
  BY JobSizes
<1>5. /\ mem' \in [0 .. job.encoderCells - 1 -> 0 .. CellSize(job) - 1]
      /\ job.method = "renibble" => \A c \in 0 .. MinCells(job) - 1 : mem'[c] = 0
  <2> DEFINE stale == [c \in 0 .. job.encoderCells - 1 |-> Stale(Byte)]
  <2>1. stale \in [0 .. job.encoderCells - 1 -> 0 .. Byte - 1]
    BY Least
  <2>2. mem' = Cleared(job, stale)
    BY <1>4 DEF StartReorder
  <2>3. \A c \in 0 .. MinCells(job) - 1 : c \in 0 .. job.encoderCells - 1 /\ c < MinCells(job)
    BY <1>4
  <2>4. CASE job.method = "bytepack"
    <3>1. mem' = stale
      BY <2>2, <2>4 DEF Cleared
    <3> HIDE DEF stale
    <3> QED
      BY <1>4, <2>1, <2>4, <3>1
  <2>5. CASE job.method = "renibble"
    <3>1. mem' = [c \in 0 .. job.encoderCells - 1 |->
                    IF c < MinCells(job) THEN 0 ELSE stale[c]]
      BY <2>1, <2>2, <2>5 DEF Cleared
    <3> HIDE DEF stale
    <3> QED
      BY <1>4, <2>1, <2>3, <3>1, Least
  <2> QED
    BY <2>4, <2>5, JobSizes
<1>6. owner' \in [Pixels(job) -> Threads]
  BY <1>1, <1>4, ScheduleType DEF Directions
<1>7. TypeOK'
  BY <1>1, <1>5, <1>6 DEF TypeOK
<1>8. Loaded'
  BY <1>1, <1>2 DEF Loaded, InFlight
<1>9. Filled'
  <2>1. ASSUME NEW q \in Pixels(job) PROVE Made(q)' = 0
    <3>1. owner'[q] \in Threads /\ q # Idle
      BY <1>4, <1>6, JobSizes DEF Pixels, Idle
    <3> QED
      BY <1>1, <1>2, <3>1 DEF Made
  <2>2. ASSUME NEW q, NEW k \in 1 .. Count(job) PROVE Share(q, k)' = 0
    <3>1. Count(job) \in Nat /\ ~ 0 >= k
      BY DEF Count
    <3> QED
      BY <1>1, <2>1, <3>1 DEF Share
  <2>3. ASSUME NEW q \in Pixels(job), NEW k \in 1 .. Count(job)
        PROVE  IF Adds(job, k)
               THEN mem'[CellOf(job, q, k)] = Share(Even(q), k)' + Share(Even(q) + 1, k)'
               ELSE ~ Made(q)' >= k
    <3>1. CASE Adds(job, k)
      <4>1. mem'[CellOf(job, q, k)] = 0
        BY <1>5, <3>1, CellsCarried DEF Adds
      <4> QED
        BY <2>2, <3>1, <4>1
    <3>2. ~ 0 >= k
      BY DEF Count
    <3> QED
      BY <2>1, <3>1, <3>2
  <2>4. \A c \in Spare(job) : mem'[c] = 0
    BY <1>5, SpareLayout DEF Spare
  <2> QED
    BY <1>1, <2>3, <2>4 DEF Filled
<1> QED
  BY <1>1, <1>3, <1>7, <1>8, <1>9 DEF ByteInv, ReorderLoop, Running

(* Steps that make no update leave the cells what the pixels make of them. *)
LEMMA SameFilled ==
  ASSUME job' = job, orig' = orig, mem' = mem, Filled,
         \A q \in Pixels(job) : Made(q)' = Made(q)
  PROVE  Filled'
<1>1. ASSUME NEW q, NEW k PROVE Share(q, k)' = Share(q, k)
  BY DEF Share
<1> QED
  BY <1>1 DEF Filled

LEMMA TakeInv ==
  ASSUME TwoBytesOfTwoNibbles, ByteInv, job \in ByteJobs,
         NEW t \in Threads, Take(t)
  PROVE  ByteInv'
<1>1. PICK i \in pending : Takes(t, i) /\ at' = [at EXCEPT ![t] = i]
  BY DEF Take
<1>2. /\ TypeOK /\ InShare /\ ReorderLoop /\ phase = "reorder" /\ raw = orig
      /\ step' = [step EXCEPT ![t] = 1]
      /\ job' = job /\ orig' = orig /\ raw' = raw /\ mem' = mem
      /\ phase' = phase /\ owner' = owner /\ pending' = pending /\ val' = val
  BY DEF ByteInv, Take
<1>3. i \in Pixels(job) /\ i # Idle /\ owner[i] = t /\ at[t] = Idle
  BY <1>1, <1>2, JobSizes DEF TypeOK, Takes, Pixels, Idle
<1>4. /\ at \in [Threads -> Pixels(job) \cup {Idle}]
      /\ step \in [Threads -> 1 .. Bits] /\ owner \in [Pixels(job) -> Threads]
  BY <1>2 DEF TypeOK
<1>5. /\ at' \in [Threads -> Pixels(job) \cup {Idle}]
      /\ step' \in [Threads -> 1 .. Bits]
      /\ \A u \in Threads : u # t => at'[u] = at[u] /\ step'[u] = step[u]
      /\ at'[t] = i /\ step'[t] = 1
  BY <1>1, <1>2, <1>3, <1>4, Least
<1>6. TypeOK'
  BY <1>2, <1>5 DEF TypeOK
<1>7. val[t] = Nothing
  BY <1>2, <1>3 DEF InShare, InFlight
<1>8. InShare'
  BY <1>1, <1>2, <1>3, <1>5 DEF InShare, InFlight
<1>9. Loaded'
  <2>1. 1 \in 1 .. Count(job)
    BY DEF Count
  <2>2. Loaded
    BY <1>2 DEF ReorderLoop
  <2>3. ASSUME NEW u \in Threads, InFlight(u)'
        PROVE  /\ step'[u] \in 1 .. Count(job)
               /\ val[u] # Nothing =>
                    /\ Adds(job, step'[u])
                    /\ val[u] = mem[CellOf(job, at'[u], step'[u])]
    <3>1. CASE u = t
      BY <1>5, <1>7, <2>1, <3>1
    <3>2. CASE u # t
      BY <1>5, <2>2, <2>3, <3>2 DEF Loaded, InFlight
    <3> QED
      BY <3>1, <3>2
  <2> QED
    BY <1>2, <2>3 DEF Loaded
<1>10. Filled'
  <2>1. ASSUME NEW q \in Pixels(job) PROVE Made(q)' = Made(q)
    <3>1. owner[q] \in Threads /\ q # Idle
      BY <1>4, JobSizes DEF Pixels, Idle
    <3>2. CASE owner[q] = t
      BY <1>2, <1>3, <1>5, <3>1, <3>2 DEF Made
    <3>3. CASE owner[q] # t
      BY <1>2, <1>5, <3>1, <3>3 DEF Made
    <3> QED
      BY <3>2, <3>3
  <2>2. Filled
    BY <1>2 DEF ReorderLoop
  <2> QED
    BY <1>2, <2>1, <2>2, SameFilled
<1> QED
  BY <1>2, <1>6, <1>8, <1>9, <1>10 DEF ByteInv, ReorderLoop, Running

LEMMA LoadCellInv ==
  ASSUME TwoBytesOfTwoNibbles, ByteInv, job \in ByteJobs,
         NEW t \in Threads, LoadCell(t)
  PROVE  ByteInv'
<1> DEFINE cell == CellOf(job, at[t], step[t])
<1>1. /\ TypeOK /\ InShare /\ Loaded /\ Filled /\ phase = "reorder" /\ raw = orig
      /\ owner \in Schedules[job]["reorder"] /\ InFlight(t)
      /\ job' = job /\ orig' = orig /\ raw' = raw /\ mem' = mem
      /\ phase' = phase /\ owner' = owner /\ pending' = pending
      /\ at' = at /\ step' = step
  BY DEF ByteInv, ReorderLoop, LoadCell
<1>2. /\ at[t] \in Pixels(job) /\ step[t] \in 1 .. Count(job)
      /\ Adds(job, step[t]) /\ Current(t).cell = cell
  BY <1>1, CurrentIs DEF LoadCell
<1>3. mem[cell] \in 0 .. Word - 1
  <2>1. cell \in 0 .. MinCells(job) - 1 /\ MinCells(job) \in Nat
    BY <1>2, CellsCarried, JobSizes
  <2> HIDE DEF cell
  <2>2. PICK n \in Nat : n >= MinCells(job) /\ mem \in [0 .. n - 1 -> 0 .. Byte - 1]
    BY <1>1, Cells
  <2>3. cell \in 0 .. n - 1
    BY <2>1, <2>2
  <2> QED
    BY <2>2, <2>3, Least
<1>4. val \in [Threads -> {Nothing} \cup 0 .. Word - 1]
  BY <1>1 DEF TypeOK
<1>5. /\ val' \in [Threads -> {Nothing} \cup 0 .. Word - 1]
      /\ val'[t] = mem[cell] /\ \A u \in Threads : u # t => val'[u] = val[u]
  BY <1>2, <1>3, <1>4 DEF LoadCell
<1> HIDE DEF cell
<1>6. TypeOK'
  BY <1>1, <1>5 DEF TypeOK
<1>7. InShare'
  BY <1>1, <1>5 DEF InShare, InFlight
<1>8. Loaded'
  BY <1>1, <1>2, <1>5 DEF Loaded, InFlight, cell
<1>9. Filled'
  BY <1>1, SameFilled DEF Made
<1> QED
  BY <1>1, <1>6, <1>7, <1>8, <1>9 DEF ByteInv, ReorderLoop, Running

(* A store makes one more update of one pixel: the counts, ...             *)
LEMMA StoreCounts ==
  ASSUME TwoBytesOfTwoNibbles, ByteInv, job \in ByteJobs,
         NEW t \in Threads, StoreCell(t)
  PROVE  /\ Made(at[t]) = step[t] - 1
         /\ \A q \in Pixels(job) :
              Made(q)' = IF q = at[t] THEN step[t] ELSE Made(q)
<1> DEFINE p == at[t]
           k == step[t]
<1>1. /\ TypeOK /\ phase = "reorder" /\ InFlight(t)
      /\ job' = job /\ owner' = owner
      /\ IF k < Len(Updates(job, p, raw[p]))
         THEN /\ step' = [step EXCEPT ![t] = @ + 1]
              /\ pending' = pending /\ at' = at
         ELSE /\ pending' = pending \ {p}
              /\ at' = [at EXCEPT ![t] = Idle]
              /\ step' = [step EXCEPT ![t] = 1]
  BY DEF ByteInv, StoreCell
<1>2. /\ p \in Pixels(job) /\ p \in pending /\ owner[p] = t
      /\ k \in 1 .. Count(job) /\ Len(Updates(job, p, raw[p])) = Count(job)
  BY <1>1, CurrentIs
<1>3. /\ at \in [Threads -> Pixels(job) \cup {Idle}]
      /\ step \in [Threads -> 1 .. Bits] /\ owner \in [Pixels(job) -> Threads]
  BY <1>1 DEF TypeOK
<1>4. Made(p) = k - 1
  BY <1>2 DEF Made
<1>5. ASSUME NEW q \in Pixels(job), q = p PROVE Made(q)' = k
  <2>1. CASE k < Count(job)
    <3>1. /\ step'[t] = k + 1 /\ pending' = pending /\ at' = at
      BY <1>1, <1>2, <1>3, <2>1
    <3> HIDE DEF p, k
    <3>2. k + 1 - 1 = k
      BY <1>2 DEF Count
    <3> QED
      BY <1>1, <1>2, <1>5, <3>1, <3>2 DEF Made, p
  <2>2. CASE ~ k < Count(job)
    <3>1. q \notin pending' /\ k = Count(job)
      BY <1>1, <1>2, <1>5, <2>2 DEF Count
    <3> QED
      BY <1>1, <3>1 DEF Made
  <2> QED
    BY <2>1, <2>2
<1>6. ASSUME NEW q \in Pixels(job), q # p PROVE Made(q)' = Made(q)
  <2>1. owner[q] \in Threads /\ q # Idle
    <3>1. owner[q] \in Threads
      BY <1>3
    <3>2. q # Idle
      BY JobSizes DEF Pixels, Idle
    <3> QED
      BY <3>1, <3>2
  <2>2. q \in pending' <=> q \in pending
    BY <1>1, <1>6
  <2>3. \A u \in Threads : u # t => at'[u] = at[u] /\ step'[u] = step[u]
    BY <1>1, <1>3
  <2>4. at'[t] \in {p, Idle} /\ at[t] = p
    BY <1>1, <1>3
  <2>5. at'[owner[q]] = q <=> at[owner[q]] = q
    BY <1>6, <2>1, <2>3, <2>4
  <2>6. at[owner[q]] = q => step'[owner[q]] = step[owner[q]]
    BY <1>6, <2>1, <2>3, <2>4
  <2> QED
    BY <1>1, <2>2, <2>5, <2>6 DEF Made
<1> QED
  BY <1>4, <1>5, <1>6

(* ... and the cell, whose sum is never cut.                               *)
LEMMA StoreSum ==
  ASSUME TwoBytesOfTwoNibbles, ByteInv, job \in ByteJobs,
         NEW t \in Threads, StoreCell(t)
  PROVE  LET cell == CellOf(job, at[t], step[t])
             by == PartOf(job, at[t], step[t], orig[at[t]])
         IN  /\ mem' = [mem EXCEPT ![cell] =
                          IF Adds(job, step[t]) THEN mem[cell] + by ELSE by]
             /\ mem'[cell] \in 0 .. Byte - 1
             /\ cell \in DOMAIN mem
<1> DEFINE p == at[t]
           k == step[t]
           cell == CellOf(job, p, k)
           by == PartOf(job, p, k, orig[p])
<1>1. /\ TypeOK /\ phase = "reorder" /\ InFlight(t) /\ Loaded /\ Filled
      /\ mem' = [mem EXCEPT ![Current(t).cell] =
                              Sum(Current(t), val[t], CellSize(job))]
      /\ Current(t).how = "add" => val[t] # Nothing
  BY DEF ByteInv, ReorderLoop, StoreCell
<1>2. /\ p \in Pixels(job) /\ k \in 1 .. Count(job)
      /\ Current(t).cell = cell /\ Current(t).by = by
      /\ Current(t).how = IF Adds(job, k) THEN "add" ELSE "set"
  BY <1>1, CurrentIs
<1>3. orig \in [Pixels(job) -> 0 .. Word - 1] /\ CellSize(job) = Byte
  BY <1>1, CubeType, JobSizes
<1>4. p \in Nat /\ p \in 0 .. Npix(job) - 1 /\ Npix(job) \in Nat
  BY <1>2, JobSizes DEF Pixels
<1>5. orig[p] \in 0 .. Word - 1
  BY <1>2, <1>3
<1>6. by \in 0 .. Byte - 1
  BY <1>2, <1>4, <1>5, PartType
<1>7. cell \in DOMAIN mem
  <2>1. cell \in 0 .. MinCells(job) - 1 /\ MinCells(job) \in Nat
    BY <1>2, CellsCarried, JobSizes
  <2> HIDE DEF cell
  <2>2. PICK n \in Nat : n >= MinCells(job) /\ mem \in [0 .. n - 1 -> 0 .. Byte - 1]
    BY <1>1, Cells
  <2> QED
    BY <2>1, <2>2
<1> HIDE DEF cell, by
<1>8. CASE ~ Adds(job, k)
  <2>1. Sum(Current(t), val[t], CellSize(job)) = by
    BY <1>2, <1>8 DEF Sum
  <2>2. mem' = [mem EXCEPT ![cell] = by]
    BY <1>1, <1>2, <2>1
  <2> QED
    BY <1>6, <1>7, <1>8, <2>2 DEF cell, by
<1>9. CASE Adds(job, k)
  <2>1. val[t] = mem[cell]
    BY <1>1, <1>2, <1>9 DEF Loaded, cell
  <2>2. Sum(Current(t), val[t], CellSize(job)) = (mem[cell] + by) % Byte
    BY <1>2, <1>3, <1>9, <2>1 DEF Sum
  <2>3. mem[cell] + by \in 0 .. Byte - 1
    <3> DEFINE e == Even(p)
               o == Even(p) + 1
    <3>1. mem[cell] = Share(e, k) + Share(o, k)
      BY <1>1, <1>2, <1>9 DEF Filled, cell
    <3>2. e \in Nat /\ p \in {e, o} /\ (e % 2) = 0 /\ (o % 2) = 1
      BY <1>4, Pairs
    <3> HIDE DEF e
    <3>3. Share(p, k) = 0
      <4>1. Made(p) = k - 1
        BY StoreCounts
      <4>2. ~ k - 1 >= k
        BY <1>2 DEF Count
      <4> HIDE DEF p, k
      <4> QED
        BY <4>1, <4>2 DEF Share
    <3>4. 0 \in 0 .. Nibble - 1 /\ Nibble * 0 = 0
      BY Sizes
    <3>5. ASSUME NEW q \in Nat
          PROVE  \/ Share(q, k) = 0
                 \/ \E x \in 0 .. Nibble - 1 :
                      Share(q, k) = IF q % 2 = 0 THEN Nibble * x ELSE x
      <4>1. CASE q \in Pixels(job) /\ Made(q) >= k
        <5>1. orig[q] \in 0 .. Word - 1
          BY <1>3, <4>1
        <5> QED
          BY <1>2, <1>9, <4>1, <5>1, PartType DEF Share
      <4> QED
        BY <4>1 DEF Share
    <3>6. CASE p = e
      <4>1. PICK x \in 0 .. Nibble - 1 : by = Nibble * x
        BY <1>2, <1>4, <1>5, <1>9, <3>2, <3>6, PartType DEF by
      <4>2. o \in Nat /\ ~ (o % 2) = 0
        BY <3>2 DEF e
      <4>3. PICK y \in 0 .. Nibble - 1 : Share(o, k) = y
        BY <3>4, <3>5, <4>2
      <4>4. Nibble * x + y \in 0 .. Byte - 1
        BY PairOfNibbles
      <4>5. mem[cell] + by = Nibble * x + y
        <5>1. mem[cell] = 0 + y
          BY <3>1, <3>3, <3>6, <4>3
        <5>2. Nibble * x \in Int /\ y \in Int
          BY Sizes
        <5> HIDE DEF Nibble
        <5> QED
          BY <4>1, <5>1, <5>2
      <4> QED
        BY <4>4, <4>5
    <3>7. CASE p = o
      <4>1. ~ (p % 2) = 0
        BY <3>2, <3>7
      <4>2. PICK y \in 0 .. Nibble - 1 : by = y
        BY <1>2, <1>4, <1>5, <1>9, <4>1, PartType DEF by
      <4>3. PICK x \in 0 .. Nibble - 1 : Share(e, k) = Nibble * x
        BY <3>2, <3>4, <3>5
      <4>4. Nibble * x + y \in 0 .. Byte - 1
        BY PairOfNibbles
      <4>5. mem[cell] + by = Nibble * x + y
        <5>1. mem[cell] = Nibble * x + 0
          BY <3>1, <3>3, <3>7, <4>3
        <5>2. Nibble * x \in Int /\ y \in Int
          BY Sizes
        <5> HIDE DEF Nibble
        <5> QED
          BY <4>2, <5>1, <5>2
      <4> QED
        BY <4>4, <4>5
    <3> QED
      BY <3>2, <3>6, <3>7
  <2> DEFINE s == mem[cell] + by
  <2>4. s % Byte = s
    <3> HIDE DEF Byte, s
    <3>1. s \in Nat /\ s < Byte /\ Byte \in Nat /\ Byte > 0
      BY <2>3, Sizes DEF s
    <3> QED
      BY <3>1, Remainder
  <2>5. mem' = [mem EXCEPT ![cell] = s]
    BY <1>1, <1>2, <2>2, <2>4
  <2> HIDE DEF s
  <2>6. mem'[cell] = s
    BY <1>7, <2>5
  <2> QED
    BY <1>7, <1>9, <2>3, <2>5, <2>6 DEF cell, by, s
<1> QED
  BY <1>8, <1>9

LEMMA StoreCellInv ==
  ASSUME TwoBytesOfTwoNibbles, PairsTogether, ByteInv, job \in ByteJobs,
         NEW t \in Threads, StoreCell(t)
  PROVE  ByteInv'
<1> DEFINE p == at[t]
           k == step[t]
           cell == CellOf(job, p, k)
           by == PartOf(job, p, k, orig[p])
<1>1. /\ TypeOK /\ InShare /\ Loaded /\ Filled /\ phase = "reorder" /\ raw = orig
      /\ owner \in Schedules[job]["reorder"] /\ InFlight(t)
      /\ job' = job /\ orig' = orig /\ raw' = raw /\ phase' = phase /\ owner' = owner
      /\ val' = [val EXCEPT ![t] = Nothing]
      /\ IF k < Len(Updates(job, p, raw[p]))
         THEN /\ step' = [step EXCEPT ![t] = @ + 1]
              /\ pending' = pending /\ at' = at
         ELSE /\ pending' = pending \ {p}
              /\ at' = [at EXCEPT ![t] = Idle]
              /\ step' = [step EXCEPT ![t] = 1]
  BY DEF ByteInv, ReorderLoop, StoreCell
<1>2. /\ p \in Pixels(job) /\ p \in pending /\ owner[p] = t /\ k \in 1 .. Count(job)
      /\ Len(Updates(job, p, raw[p])) = Count(job)
  BY <1>1, CurrentIs
<1>3. /\ mem' = [mem EXCEPT ![cell] = IF Adds(job, k) THEN mem[cell] + by ELSE by]
      /\ mem'[cell] \in 0 .. Byte - 1 /\ cell \in DOMAIN mem
  BY StoreSum
<1>4. \A c : c # cell => mem'[c] = mem[c]
  <2>1. PICK n \in Nat : mem \in [0 .. n - 1 -> 0 .. Byte - 1]
    BY <1>1, Cells
  <2> HIDE DEF cell, by
  <2> QED
    BY <1>3, <2>1
<1>5. /\ at \in [Threads -> Pixels(job) \cup {Idle}]
      /\ step \in [Threads -> 1 .. Bits] /\ owner \in [Pixels(job) -> Threads]
      /\ val \in [Threads -> {Nothing} \cup 0 .. Word - 1]
  BY <1>1 DEF TypeOK
<1>6. /\ val' \in [Threads -> {Nothing} \cup 0 .. Word - 1]
      /\ val'[t] = Nothing /\ \A u \in Threads : u # t => val'[u] = val[u]
  BY <1>1, <1>5
<1>7. /\ at' \in [Threads -> Pixels(job) \cup {Idle}]
      /\ step' \in [Threads -> 1 .. Bits]
      /\ pending' \subseteq pending
      /\ \A u \in Threads : u # t => at'[u] = at[u] /\ step'[u] = step[u]
      /\ \/ k + 1 \in 1 .. Count(job) /\ at'[t] = p /\ step'[t] = k + 1 /\ pending' = pending
         \/ at'[t] = Idle /\ pending' = pending \ {p}
  <2>1. CASE k < Count(job)
    <3>1. k + 1 \in 1 .. Count(job)
      BY <1>2, <2>1 DEF Count
    <3>2. k + 1 \in 1 .. Bits
      BY <1>1, <3>1, Least DEF TypeOK
    <3> QED
      BY <1>1, <1>2, <1>5, <2>1, <3>1, <3>2
  <2>2. CASE ~ k < Count(job)
    BY <1>1, <1>2, <1>5, <2>2, Least
  <2> QED
    BY <2>1, <2>2
<1>8. TypeOK'
  <2>1. PICK n \in {job.encoderCells, job.decoderCells} :
          mem \in [0 .. n - 1 -> 0 .. Byte - 1]
    BY <1>1, JobSizes DEF TypeOK
  <2>2. mem' \in [0 .. n - 1 -> 0 .. Byte - 1]
    <3> HIDE DEF cell, by
    <3> QED
      BY <1>3, <2>1
  <2>3. CellSize(job) = Byte
    BY JobSizes
  <2> HIDE DEF cell, by, p, k
  <2> QED
    BY <1>1, <1>6, <1>7, <2>2, <2>3 DEF TypeOK
<1>9. InShare'
  <2> SUFFICES ASSUME NEW u \in Threads
               PROVE  IF InFlight(u)' THEN at'[u] \in pending' /\ owner'[at'[u]] = u
                                      ELSE val'[u] = Nothing
    BY DEF InShare
  <2>1. CASE u = t
    BY <1>1, <1>2, <1>6, <1>7, <2>1 DEF InFlight
  <2>2. CASE u # t
    <3>1. InFlight(u) => at[u] # p
      BY <1>2, <1>1, <2>2 DEF InShare
    <3>2. InFlight(u)' <=> InFlight(u)
      BY <1>7, <2>2 DEF InFlight
    <3>3. InFlight(u) => at[u] \in pending /\ owner[at[u]] = u
      BY <1>1 DEF InShare
    <3>4. ~ InFlight(u) => val[u] = Nothing
      BY <1>1 DEF InShare
    <3>5. \A q \in pending : q # p => q \in pending'
      BY <1>7
    <3> HIDE DEF p, k
    <3> QED
      BY <1>1, <1>6, <1>7, <2>2, <3>1, <3>2, <3>3, <3>4, <3>5
  <2> QED
    BY <2>1, <2>2
<1>10. Loaded'
  <2> SUFFICES ASSUME NEW u \in Threads, InFlight(u)'
               PROVE  /\ step'[u] \in 1 .. Count(job)
                      /\ val'[u] # Nothing =>
                           /\ Adds(job, step'[u])
                           /\ val'[u] = mem'[CellOf(job, at'[u], step'[u])]
    BY <1>1 DEF Loaded
  <2>1. CASE u = t
    BY <1>6, <1>7, <2>1 DEF InFlight
  <2>2. CASE u # t
    <3>1. InFlight(u) /\ at'[u] = at[u] /\ step'[u] = step[u] /\ val'[u] = val[u]
      BY <1>6, <1>7, <2>2 DEF InFlight
    <3>2. CellOf(job, at[u], step[u]) # cell
      BY <1>1, <2>2, <3>1, ThreadsApart
    <3> HIDE DEF cell
    <3> QED
      BY <1>1, <1>4, <3>1, <3>2 DEF Loaded
  <2> QED
    BY <2>1, <2>2
<1>11. Filled'
  <2>1. /\ Made(p) = k - 1
        /\ \A q \in Pixels(job) : Made(q)' = IF q = p THEN k ELSE Made(q)
    BY StoreCounts
  <2>2. k \in Nat /\ Count(job) \in Nat
    BY <1>2 DEF Count
  <2> HIDE DEF p, k
  <2>3. ASSUME NEW q, NEW l \in Nat
        PROVE  Share(q, l)' = IF q = p /\ l = k THEN by ELSE Share(q, l)
    <3>1. CASE q = p
      <4>1. p \in Pixels(job) /\ Made(p) = k - 1 /\ Made(q)' = k
        BY <1>2, <2>1, <3>1
      <4>2. l = k => k >= l /\ ~ k - 1 >= l
        BY <2>2
      <4>3. l # k => (k >= l <=> k - 1 >= l)
        BY <2>2
      <4> QED
        BY <1>1, <3>1, <4>1, <4>2, <4>3 DEF Share
    <3>2. CASE q # p
      BY <1>1, <2>1, <3>2 DEF Share
    <3> QED
      BY <3>1, <3>2
  <2>4. Share(p, k) = 0
    <3>1. ~ k - 1 >= k
      BY <2>2
    <3> QED
      BY <2>1, <3>1 DEF Share
  <2>5. ASSUME NEW q \in Pixels(job), NEW l \in 1 .. Count(job), ~ Adds(job, l),
               Made(q)' >= l
        PROVE  mem'[CellOf(job, q, l)] = PartOf(job, q, l, orig[q])
    <3>1. CASE q = p /\ l = k
      BY <1>3, <2>5, <3>1
    <3>2. CASE ~ (q = p /\ l = k)
      <4>1. CellOf(job, q, l) # cell
        BY <1>2, <2>5, <3>2, CellsApart
      <4>2. Made(q) >= l
        <5>1. CASE q = p
          <6>1. k >= l /\ l # k
            BY <2>1, <2>5, <3>2, <5>1
          <6>2. k - 1 >= l
            BY <2>2, <6>1
          <6> QED
            BY <2>1, <5>1, <6>2
        <5>2. CASE q # p
          BY <2>1, <2>5, <5>2
        <5> QED
          BY <5>1, <5>2
      <4> HIDE DEF cell
      <4> QED
        BY <1>1, <1>4, <2>5, <4>1, <4>2 DEF Filled
    <3> QED
      BY <3>1, <3>2
  <2>6. ASSUME NEW q \in Pixels(job), NEW l \in 1 .. Count(job), Adds(job, l)
        PROVE  mem'[CellOf(job, q, l)] = Share(Even(q), l)' + Share(Even(q) + 1, l)'
    <3> DEFINE e == Even(q)
               o == Even(q) + 1
    <3>1. mem[CellOf(job, q, l)] = Share(e, l) + Share(o, l)
      BY <1>1, <2>6 DEF Filled
    <3>2. l \in Nat
      OBVIOUS
    <3>3. /\ q \in Nat /\ p \in Nat /\ e \in Nat /\ o = e + 1
          /\ e = 2 * (q \div 2) /\ Even(p) = 2 * (p \div 2)
          /\ e \div 2 = q \div 2 /\ o \div 2 = q \div 2
          /\ p \in {Even(p), Even(p) + 1}
      BY <1>2, JobSizes, Pairs DEF Pixels, Even
    <3> HIDE DEF e, o
    <3>4. CASE p \in {e, o} /\ l = k
      <4>1. p \div 2 = q \div 2
        BY <3>3, <3>4
      <4>2. CellOf(job, q, l) = cell
        <5>1. l # 1
          BY <2>6 DEF Adds
        <5> QED
          BY <3>4, <4>1, <5>1, <2>6 DEF CellOf, Adds, cell
      <4>3. mem'[CellOf(job, q, l)] = mem[cell] + by
        <5> HIDE DEF by, cell
        <5>1. Adds(job, k) /\ cell \in DOMAIN mem
          BY <1>3, <2>6, <3>4
        <5> QED
          BY <1>3, <4>2, <5>1
      <4>4. by \in Int
        <5>1. orig[p] \in 0 .. Word - 1 /\ p \in Nat
          BY <1>1, <1>2, <3>3, CubeType
        <5> HIDE DEF Byte
        <5>2. by \in 0 .. Byte - 1 /\ Byte \in Nat
          BY <1>2, <5>1, PartType, Sizes
        <5> HIDE DEF by
        <5> QED
          BY <5>2
      <4>5. e # o
        BY <3>3
      <4>6. ASSUME NEW x \in Nat PROVE Share(x, l) \in Int
        <5>1. CASE x \in Pixels(job)
          <6>1. orig[x] \in 0 .. Word - 1
            BY <1>1, <5>1, CubeType
          <6>2. PartOf(job, x, l, orig[x]) \in 0 .. Byte - 1
            BY <6>1, PartType
          <6>3. PartOf(job, x, l, orig[x]) \in Int
            <7> HIDE DEF Byte
            <7>1. Byte \in Nat
              BY Sizes
            <7> QED
              BY <6>2, <7>1
          <6> QED
            BY <6>3 DEF Share
        <5>2. CASE x \notin Pixels(job)
          BY <5>2 DEF Share
        <5> QED
          BY <5>1, <5>2
      <4> HIDE DEF by, cell
      <4>7. CASE p = e
        <5>1. Share(e, l)' = by /\ Share(e, l) = 0 /\ Share(o, l)' = Share(o, l)
          BY <2>3, <2>4, <3>2, <3>4, <4>5, <4>7
        <5>2. Share(o, l) \in Int
          BY <3>3, <4>6
        <5>3. mem[cell] = 0 + Share(o, l)
          BY <3>1, <4>2, <5>1
        <5>4. mem'[CellOf(job, q, l)] = by + Share(o, l)
          BY <4>3, <4>4, <5>2, <5>3
        <5> QED
          BY <5>1, <5>4 DEF e, o
      <4>8. CASE p = o
        <5>1. Share(o, l)' = by /\ Share(o, l) = 0 /\ Share(e, l)' = Share(e, l)
          BY <2>3, <2>4, <3>2, <3>4, <4>5, <4>8
        <5>2. Share(e, l) \in Int
          BY <3>3, <4>6
        <5>3. mem[cell] = Share(e, l) + 0
          BY <3>1, <4>2, <5>1
        <5>4. mem'[CellOf(job, q, l)] = Share(e, l) + by
          BY <4>3, <4>4, <5>2, <5>3
        <5> QED
          BY <5>1, <5>4 DEF e, o
      <4> QED
        BY <3>4, <4>7, <4>8
    <3>5. CASE ~ (p \in {e, o} /\ l = k)
      <4>1. Share(e, l)' = Share(e, l) /\ Share(o, l)' = Share(o, l)
        BY <2>3, <3>2, <3>5
      <4>2. CellOf(job, q, l) # cell
        <5>1. SUFFICES ASSUME CellOf(job, q, l) = cell PROVE FALSE
          OBVIOUS
        <5>2. l = k /\ (p = q \/ p \div 2 = q \div 2)
          BY <1>2, <5>1, CellsApart
        <5>3. p \in {e, o}
          BY <3>3, <5>2
        <5> QED
          BY <3>5, <5>2, <5>3
      <4> HIDE DEF cell
      <4> QED
        BY <1>4, <3>1, <4>1, <4>2 DEF e, o
    <3> QED
      BY <3>4, <3>5
  <2>7. ASSUME NEW c \in Spare(job) PROVE mem'[c] = 0
    <3>1. c # cell
      BY <1>2, SpareLayout
    <3> HIDE DEF cell
    <3> QED
      BY <1>1, <1>4, <3>1 DEF Filled
  <2> QED
    BY <1>1, <2>5, <2>6, <2>7 DEF Filled
<1> HIDE DEF cell, by, p, k
<1> QED
  BY <1>1, <1>8, <1>9, <1>10, <1>11 DEF ByteInv, ReorderLoop, Running

LEMMA CarryInv ==
  ASSUME TwoBytesOfTwoNibbles, ByteInv, job \in ByteJobs, Carry
  PROVE  ByteInv'
<1>1. /\ TypeOK /\ InShare /\ LaidOut /\ pending = {}
      /\ phase' = "carried" /\ job' = job /\ orig' = orig
      /\ owner' = owner /\ pending' = pending /\ at' = at /\ step' = step /\ val' = val
      /\ mem' = [c \in 0 .. job.decoderCells - 1 |->
                   IF c < MinCells(job) THEN mem[c] ELSE Stale(CellSize(job))]
      /\ raw' = [p \in Pixels(job) |-> Stale(Word)]
  BY DEF ByteInv, Carry, Running
<1>2. /\ MinCells(job) \in Nat /\ CellSize(job) = Byte
      /\ job.decoderCells \in Nat /\ job.decoderCells >= MinCells(job)
  BY JobSizes
<1>3. PICK n \in Nat : n >= MinCells(job) /\ mem \in [0 .. n - 1 -> 0 .. Byte - 1]
  BY <1>1, Cells
<1>4. mem' \in [0 .. job.decoderCells - 1 -> 0 .. CellSize(job) - 1]
  <2>1. ASSUME NEW c \in 0 .. job.decoderCells - 1, c < MinCells(job)
        PROVE  mem[c] \in 0 .. Byte - 1
    <3>1. c \in 0 .. n - 1
      BY <1>2, <1>3, <2>1
    <3> QED
      BY <1>3, <3>1
  <2> QED
    BY <1>1, <1>2, <2>1, Least
<1>5. raw' \in [Pixels(job) -> 0 .. Word - 1]
  BY <1>1, Least
<1>6. TypeOK'
  BY <1>1, <1>4, <1>5 DEF TypeOK
<1>7. LaidOut'
  <2>1. \A c \in 0 .. MinCells(job) - 1 :
          c \in 0 .. job.decoderCells - 1 /\ c < MinCells(job)
    BY <1>2
  <2> QED
    BY <1>1, <2>1 DEF LaidOut
<1>8. InShare'
  BY <1>1 DEF InShare, InFlight
<1> QED
  BY <1>1, <1>6, <1>7, <1>8 DEF ByteInv

LEMMA StartUnreorderInv ==
  ASSUME ByteInv, job \in ByteJobs, StartUnreorder
  PROVE  ByteInv'
<1>1. /\ TypeOK /\ LaidOut /\ pending = {}
      /\ phase' = "unreorder" /\ job' = job /\ orig' = orig /\ raw' = raw /\ mem' = mem
      /\ owner' \in Schedules[job]["unreorder"] /\ pending' = Pixels(job)
      /\ at' = at /\ step' = step /\ val' = val
  BY DEF ByteInv, StartUnreorder, Running
<1>2. \A t \in Threads : at[t] = Idle /\ val[t] = Nothing
  BY <1>1, QuietIs
<1>3. owner' \in [Pixels(job) -> Threads]
  BY <1>1, JobSizes, ScheduleType DEF Directions
<1>4. TypeOK'
  BY <1>1, <1>3 DEF TypeOK
<1>5. InShare'
  BY <1>1, <1>2 DEF InShare, InFlight
<1>6. LaidOut'
  BY <1>1 DEF LaidOut
<1>7. UnreorderLoop'
  BY <1>1, <1>2 DEF UnreorderLoop, InFlight
<1> QED
  BY <1>1, <1>4, <1>5, <1>6, <1>7 DEF ByteInv, Running

LEMMA GatherPixelInv ==
  ASSUME TwoBytesOfTwoNibbles, ByteInv, job \in ByteJobs,
         NEW t \in Threads, GatherPixel(t)
  PROVE  ByteInv'
<1>1. PICK i \in pending : /\ Takes(t, i)
                           /\ at' = [at EXCEPT ![t] = i]
                           /\ val' = [val EXCEPT ![t] = Gather(job, i, mem)]
  BY DEF GatherPixel
<1>2. /\ TypeOK /\ InShare /\ LaidOut /\ UnreorderLoop /\ phase = "unreorder"
      /\ job' = job /\ orig' = orig /\ raw' = raw /\ mem' = mem
      /\ phase' = phase /\ owner' = owner /\ pending' = pending /\ step' = step
  BY DEF ByteInv, GatherPixel
<1>3. i \in Pixels(job) /\ i # Idle /\ owner[i] = t
  BY <1>1, <1>2, JobSizes DEF TypeOK, Takes, Pixels, Idle
<1>4. orig \in [Pixels(job) -> 0 .. Word - 1]
  BY <1>2, CubeType
<1>5. Gather(job, i, mem) = orig[i]
  BY <1>2, <1>3, <1>4, GatherIs DEF LaidOut
<1>6. /\ at \in [Threads -> Pixels(job) \cup {Idle}]
      /\ val \in [Threads -> {Nothing} \cup 0 .. Word - 1]
      /\ orig[i] \in 0 .. Word - 1
  BY <1>2, <1>3, <1>4 DEF TypeOK
<1>7. /\ at' \in [Threads -> Pixels(job) \cup {Idle}]
      /\ val' \in [Threads -> {Nothing} \cup 0 .. Word - 1]
      /\ at'[t] = i /\ val'[t] = orig[i]
      /\ \A u \in Threads : u # t => at'[u] = at[u] /\ val'[u] = val[u]
  BY <1>1, <1>3, <1>5, <1>6
<1>8. TypeOK'
  BY <1>2, <1>7 DEF TypeOK
<1>9. InShare'
  BY <1>1, <1>2, <1>3, <1>7 DEF InShare, InFlight
<1>10. LaidOut'
  BY <1>2 DEF LaidOut
<1>11. UnreorderLoop'
  BY <1>2, <1>7 DEF UnreorderLoop, InFlight
<1> QED
  BY <1>2, <1>8, <1>9, <1>10, <1>11 DEF ByteInv, Running

LEMMA PutPixelInv ==
  ASSUME ByteInv, job \in ByteJobs, NEW t \in Threads, PutPixel(t)
  PROVE  ByteInv'
<1> DEFINE p == at[t]
<1>1. /\ TypeOK /\ InShare /\ LaidOut /\ UnreorderLoop /\ phase = "unreorder"
      /\ InFlight(t)
      /\ raw' = [raw EXCEPT ![p] = val[t]] /\ pending' = pending \ {p}
      /\ at' = [at EXCEPT ![t] = Idle] /\ val' = [val EXCEPT ![t] = Nothing]
      /\ job' = job /\ orig' = orig /\ mem' = mem
      /\ phase' = phase /\ owner' = owner /\ step' = step
  BY DEF ByteInv, PutPixel
<1>2. p \in pending /\ owner[p] = t /\ p \in Pixels(job) /\ val[t] = orig[p]
  BY <1>1 DEF InShare, TypeOK, UnreorderLoop
<1>3. /\ at \in [Threads -> Pixels(job) \cup {Idle}]
      /\ val \in [Threads -> {Nothing} \cup 0 .. Word - 1]
      /\ raw \in [Pixels(job) -> 0 .. Word - 1]
  BY <1>1 DEF TypeOK
<1>4. orig[p] \in 0 .. Word - 1
  BY <1>1, <1>2, CubeType
<1>5. /\ at' \in [Threads -> Pixels(job) \cup {Idle}]
      /\ val' \in [Threads -> {Nothing} \cup 0 .. Word - 1]
      /\ raw' \in [Pixels(job) -> 0 .. Word - 1]
      /\ at'[t] = Idle /\ val'[t] = Nothing /\ raw'[p] = orig[p]
      /\ \A u \in Threads : u # t => at'[u] = at[u] /\ val'[u] = val[u]
      /\ \A q \in Pixels(job) : q # p => raw'[q] = raw[q]
  BY <1>1, <1>2, <1>3, <1>4
<1>6. TypeOK'
  BY <1>1, <1>5 DEF TypeOK
<1>7. InShare'
  <2> SUFFICES ASSUME NEW u \in Threads
               PROVE  IF InFlight(u)' THEN at'[u] \in pending' /\ owner'[at'[u]] = u
                                      ELSE val'[u] = Nothing
    BY DEF InShare
  <2>1. CASE u = t
    BY <1>5, <2>1 DEF InFlight
  <2>2. CASE u # t
    <3>1. InFlight(u) => at[u] # p
      BY <1>1, <1>2, <2>2 DEF InShare
    <3> HIDE DEF p
    <3> QED
      BY <1>1, <1>5, <2>2, <3>1 DEF InShare, InFlight
  <2> QED
    BY <2>1, <2>2
<1>8. LaidOut'
  BY <1>1 DEF LaidOut
<1>9. UnreorderLoop'
  <2>1. ASSUME NEW q \in Pixels(job) \ pending' PROVE raw'[q] = orig[q]
    <3>1. CASE q = p
      BY <1>5, <3>1
    <3>2. CASE q # p
      BY <1>1, <1>5, <2>1, <3>2 DEF UnreorderLoop
    <3> QED
      BY <3>1, <3>2
  <2>2. ASSUME NEW u \in Threads, InFlight(u)' PROVE val'[u] = orig[at'[u]]
    <3>1. u # t /\ InFlight(u)
      BY <1>5, <2>2 DEF InFlight
    <3> QED
      BY <1>1, <1>5, <3>1 DEF UnreorderLoop
  <2> QED
    BY <1>1, <2>1, <2>2 DEF UnreorderLoop
<1> HIDE DEF p
<1> QED
  BY <1>1, <1>6, <1>7, <1>8, <1>9 DEF ByteInv, Running

LEMMA ReturnInv ==
  ASSUME TwoBytesOfTwoNibbles, ByteInv, job \in ByteJobs, Return
  PROVE  ByteInv'
<1>1. /\ TypeOK /\ InShare /\ pending = {} /\ phase \in {"reorder", "unreorder"}
      /\ phase' = IF phase = "reorder" THEN "reordered" ELSE "raw"
      /\ job' = job /\ orig' = orig /\ raw' = raw /\ mem' = mem /\ owner' = owner
      /\ pending' = pending /\ at' = at /\ step' = step /\ val' = val
  BY DEF ByteInv, Return, Running
<1>2. TypeOK' /\ InShare'
  BY <1>1 DEF TypeOK, InShare, InFlight
<1>3. CASE phase = "reorder"
  <2>1. LaidOut
    BY <1>1, <1>3, FilledIsLaidOut DEF ByteInv, ReorderLoop
  <2>2. LaidOut' /\ raw' = orig'
    BY <1>1, <1>3, <2>1 DEF LaidOut, ByteInv
  <2> QED
    BY <1>1, <1>2, <1>3, <2>2 DEF ByteInv
<1>4. CASE phase = "unreorder"
  <2>1. \A p \in Pixels(job) : raw[p] = orig[p]
    BY <1>1, <1>4 DEF ByteInv, UnreorderLoop
  <2>2. raw \in [Pixels(job) -> 0 .. Word - 1] /\ orig \in [Pixels(job) -> 0 .. Word - 1]
    BY <1>1, CubeType DEF TypeOK
  <2>3. raw' = orig'
    BY <1>1, <2>1, <2>2
  <2> QED
    BY <1>1, <1>2, <1>4, <2>3 DEF ByteInv
<1> QED
  BY <1>1, <1>3, <1>4

LEMMA StutterInv == ASSUME ByteInv, UNCHANGED vars PROVE ByteInv'
BY DEF vars, ByteInv, TypeOK, InShare, InFlight, Running, ReorderLoop, Loaded,
       Filled, Share, Made, LaidOut, UnreorderLoop

-----------------------------------------------------------------------------
(* The theorems, about jobs of bytepack and renibble.                      *)

(* The invariant holds in every state of every behaviour in which the team *)
(* keeps together the pixels that share a byte.                            *)
THEOREM SpecReorderInv ==
  ASSUME TwoBytesOfTwoNibbles, PairsTogether
  PROVE  Spec => []ReorderInv
<1>1. Init => ReorderInv
  BY InitInv DEF ReorderInv
<1>2. ReorderInv /\ [Next]_vars => ReorderInv'
  <2> SUFFICES ASSUME ReorderInv, [Next]_vars, job' \in ByteJobs
               PROVE  ByteInv'
    BY DEF ReorderInv
  <2>1. job' = job
    BY DEF Next, vars, LoadCube, StartReorder, Take, LoadCell, StoreCell, Carry,
           StartUnreorder, GatherPixel, PutPixel, Return
  <2>2. job \in ByteJobs /\ ByteInv
    BY <2>1 DEF ReorderInv
  <2>3. ASSUME NEW cube \in Inputs(job), LoadCube(cube) PROVE ByteInv'
    BY <2>2, <2>3, LoadCubeInv
  <2>4. CASE StartReorder
    BY <2>2, <2>4, StartReorderInv
  <2>5. ASSUME NEW t \in Threads, Take(t) PROVE ByteInv'
    BY <2>2, <2>5, TakeInv
  <2>6. ASSUME NEW t \in Threads, LoadCell(t) PROVE ByteInv'
    BY <2>2, <2>6, LoadCellInv
  <2>7. ASSUME NEW t \in Threads, StoreCell(t) PROVE ByteInv'
    BY <2>2, <2>7, StoreCellInv
  <2>8. CASE Carry
    BY <2>2, <2>8, CarryInv
  <2>9. CASE StartUnreorder
    BY <2>2, <2>9, StartUnreorderInv
  <2>10. ASSUME NEW t \in Threads, GatherPixel(t) PROVE ByteInv'
    BY <2>2, <2>10, GatherPixelInv
  <2>11. ASSUME NEW t \in Threads, PutPixel(t) PROVE ByteInv'
    BY <2>2, <2>11, PutPixelInv
  <2>12. CASE Return
    BY <2>2, <2>12, ReturnInv
  <2>13. CASE UNCHANGED vars
    BY <2>2, <2>13, StutterInv
  <2> QED
    BY <2>3, <2>4, <2>5, <2>6, <2>7, <2>8, <2>9, <2>10, <2>11, <2>12, <2>13 DEF Next
<1> QED
  BY <1>1, <1>2, PTL DEF Spec

(* The job's configuration, the buffers, the threads' registers and what   *)
(* is left of the loop keep their types, through every step of the loops.  *)
THEOREM SpecReorderTypeOK ==
  ASSUME TwoBytesOfTwoNibbles, PairsTogether
  PROVE  Spec => [](job \in ByteJobs => TypeOK)
<1>1. ReorderInv => (job \in ByteJobs => TypeOK)
  BY DEF ReorderInv, ByteInv
<1> QED
  BY <1>1, SpecReorderInv, PTL

(* bytepack and renibble are lossless: what the inverse returns is the     *)
(* caller's cube, whatever its words, its number of pixels and the         *)
(* interleaving of the threads.                                            *)
THEOREM SpecReorderLossless ==
  ASSUME TwoBytesOfTwoNibbles, PairsTogether
  PROVE  Spec => [](job \in ByteJobs => ReorderLossless)
<1>1. ReorderInv => (job \in ByteJobs => ReorderLossless)
  BY DEF ReorderInv, ByteInv, ReorderLossless
<1> QED
  BY <1>1, SpecReorderInv, PTL

(* The bytes handed to the compress stage are the layout of the cube: no   *)
(* addition of a nibble to a shared byte is lost.                          *)
THEOREM SpecLayoutDeterministic ==
  ASSUME TwoBytesOfTwoNibbles, PairsTogether
  PROVE  Spec => [](job \in ByteJobs => LayoutDeterministic)
<1>1. ReorderInv => (job \in ByteJobs => LayoutDeterministic)
  BY DEF ReorderInv, ByteInv, LaidOut, LayoutDeterministic
<1> QED
  BY <1>1, SpecReorderInv, PTL

(* No two threads update a byte, or write a pixel, at the same time.       *)
THEOREM SpecNoDataRace ==
  ASSUME TwoBytesOfTwoNibbles, PairsTogether
  PROVE  Spec => [](job \in ByteJobs => NoDataRace)
<1>1. ReorderInv => (job \in ByteJobs => NoDataRace)
  <2> SUFFICES ASSUME ByteInv, job \in ByteJobs, NEW t \in Threads, NEW u \in Threads,
                      t # u, InFlight(t), InFlight(u)
               PROVE  /\ at[t] # at[u]
                      /\ phase = "reorder" => Current(t).cell # Current(u).cell
    BY DEF ReorderInv, NoDataRace
  <2>1. at[t] # at[u]
    BY DEF ByteInv, InShare
  <2>2. CASE phase = "reorder"
    BY <2>2, CurrentIs, ThreadsApart
  <2> QED
    BY <2>1, <2>2
<1> QED
  BY <1>1, SpecReorderInv, PTL

(* Every byte that a loop updates is one the compress stage carries.       *)
THEOREM SpecUpdatesCarried ==
  ASSUME TwoBytesOfTwoNibbles, PairsTogether
  PROVE  Spec => [](job \in ByteJobs => UpdatesCarried)
<1>1. ReorderInv => (job \in ByteJobs => UpdatesCarried)
  BY CurrentIs, CellsCarried DEF ReorderInv, UpdatesCarried
<1> QED
  BY <1>1, SpecReorderInv, PTL

=============================================================================
