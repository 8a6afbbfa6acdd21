--------------------------- MODULE XrifSizesProofs ---------------------------
(***************************************************************************)
(* Lemmas about XrifSizes, for every cube and every width of a uint32_t:   *)
(* what the reorder functions touch fits in buffers of the minimum sizes.  *)
(***************************************************************************)
EXTENDS XrifSizes, TLAPS

-----------------------------------------------------------------------------
(* The sizes are natural numbers.                                          *)

LEMMA NatProduct ==
  ASSUME NEW a \in Nat, NEW b \in Nat
  PROVE  a * b \in Nat
OBVIOUS

LEMMA TypeSizeNat ==
  ASSUME NEW type
  PROVE  TypeSize(type) \in Nat
BY DEF TypeSize

LEMMA ModNat ==
  ASSUME NEW a \in Nat
  PROVE  a % U32 \in Nat /\ a % U32 < U32
BY SizesAssumption

(* The dimensions of a size.                                               *)
LEMMA Dimensions ==
  ASSUME NEW s \in SizeRecords
  PROVE  /\ s.width \in Nat /\ s.height \in Nat /\ s.depth \in Nat
         /\ s.frames \in Nat /\ s.frames < U32
         /\ s.width * s.height * s.depth \in Nat
         /\ s.width * s.height * s.depth * s.frames \in Nat
<1>1. /\ s.width \in Nat /\ s.height \in Nat /\ s.depth \in Nat
      /\ s.frames \in Nat /\ s.frames < U32
  BY SizesAssumption DEF SizeRecords
<1>2. s.width * s.height \in Nat
  BY <1>1, NatProduct
<1>3. s.width * s.height * s.depth \in Nat
  BY <1>1, <1>2, NatProduct
<1>4. s.width * s.height * s.depth * s.frames \in Nat
  BY <1>1, <1>3, NatProduct
<1> QED
  BY <1>1, <1>3, <1>4

LEMMA DataBytesNat ==
  ASSUME NEW s \in SizeRecords
  PROVE  /\ Pixels(s) \in Nat /\ FramePixels(s) \in Nat
         /\ DataBytes(s) \in Nat /\ FrameBytes(s) \in Nat
         /\ FramesAndSpare(s) \in Nat
<1>1. Pixels(s) \in Nat /\ FramePixels(s) \in Nat
  BY Dimensions, ModNat DEF Pixels, FramePixels
<1>2. s.frames + 1 \in Nat
  BY Dimensions
<1>3. FramesAndSpare(s) \in Nat
  BY <1>2, ModNat DEF FramesAndSpare
<1> QED
  BY <1>1, <1>3, TypeSizeNat, NatProduct DEF DataBytes, FrameBytes

(* A handle with no size has no data.                                      *)
LEMMA UnsizedIsEmpty == DataBytes(Unsized) = 0 /\ Unsized \in SizeRecords
<1>1. Unsized \in SizeRecords
  BY SizesAssumption DEF SizeRecords, Unsized
<1>2. TypeSize(Unsized.type) = 0
  BY DEF TypeSize, Unsized
<1>3. Pixels(Unsized) \in Nat
  <2>1. Unsized.width * Unsized.height * Unsized.depth * Unsized.frames \in Nat
    BY DEF Unsized
  <2> QED
    BY <2>1, ModNat DEF Pixels
<1>4. \A a \in Nat : a * 0 = 0
  OBVIOUS
<1> QED
  BY <1>1, <1>2, <1>3, <1>4 DEF DataBytes

LEMMA MinReorderedNat ==
  ASSUME NEW s \in SizeRecords, NEW r
  PROVE  MinReordered(s, r) \in Nat
<1>1. /\ FrameBytes(s) * s.frames \in Nat
      /\ FrameBytes(s) * FramesAndSpare(s) \in Nat
      /\ AtLeast(FrameBytes(s), 16) * FramesAndSpare(s) \in Nat
  BY Dimensions, DataBytesNat, NatProduct DEF AtLeast
<1> QED
  BY <1>1, DataBytesNat DEF MinReordered

LEMMA CompressBoundNat ==
  ASSUME NEW n \in Nat
  PROVE  CompressBound(n) \in Nat
BY ModNat DEF CompressBound

LEMMA MinCompressedNat ==
  ASSUME NEW s \in SizeRecords, NEW r, NEW c
  PROVE  MinCompressed(s, r, c) \in Nat
BY DataBytesNat, MinReorderedNat, CompressBoundNat DEF MinCompressed

LEMMA MinRawNat ==
  ASSUME NEW s \in SizeRecords, NEW r, NEW c, NEW onRaw \in BOOLEAN
  PROVE  MinRaw(s, r, c, onRaw) \in Nat
BY DataBytesNat, MinCompressedNat DEF MinRaw, AtLeast

-----------------------------------------------------------------------------
(* Division with remainder.                                                *)

LEMMA DivMod ==
  ASSUME NEW a \in Nat, NEW m \in Nat \ {0}
  PROVE  /\ a = m * (a \div m) + (a % m)
         /\ a \div m \in Nat
         /\ a % m \in Nat /\ a % m < m
OBVIOUS

LEMMA ModUnique ==
  ASSUME NEW q \in Nat, NEW r \in Nat, NEW m \in Nat \ {0}, r < m
  PROVE  (m * q + r) % m = r
OBVIOUS

LEMMA ModSmall ==
  ASSUME NEW a \in Nat, a < U32
  PROVE  a % U32 = a
BY SizesAssumption

LEMMA ModAdd ==
  ASSUME NEW q \in Nat, NEW a \in Nat, NEW m \in Nat \ {0}
  PROVE  (m * q + a) % m = a % m
<1>1. /\ a = m * (a \div m) + (a % m) /\ a \div m \in Nat
      /\ a % m \in Nat /\ a % m < m
  BY DivMod
<1>2. m * q + a = m * (q + (a \div m)) + (a % m)
  BY <1>1
<1>3. q + (a \div m) \in Nat
  BY <1>1
<1> QED
  BY <1>1, <1>2, <1>3, ModUnique

(* A product wraps to no more than the product of the wrapped factor.      *)
LEMMA ModProduct ==
  ASSUME NEW a \in Nat, NEW k \in Nat
  PROVE  (a * k) % U32 <= (a % U32) * k
<1> DEFINE q == a \div U32
           r == a % U32
<1>1. U32 \in Nat \ {0}
  BY SizesAssumption
<1>2. a = U32 * q + r /\ q \in Nat /\ r \in Nat
  BY <1>1, DivMod
<1> HIDE DEF q, r
<1>3. a * k = U32 * (q * k) + r * k /\ q * k \in Nat /\ r * k \in Nat
  BY <1>1, <1>2
<1>4. (a * k) % U32 = (r * k) % U32
  BY <1>1, <1>3, ModAdd
<1>5. (r * k) % U32 <= r * k
  BY <1>1, <1>3
<1> QED
  BY <1>4, <1>5 DEF r

-----------------------------------------------------------------------------
(* What the reorder functions write.                                       *)

(* The pixels that are taken apart, all or all but the first frame's, are  *)
(* no more than frames of wrapped length hold.                             *)
LEMMA ReorderedPixelsBound ==
  ASSUME NEW s \in SizeRecords, NEW d, s.frames # 0
  PROVE  /\ ReorderedPixels(s, d) \in Nat
         /\ ReorderedPixels(s, d) <=
              IF d = "pixel" THEN FramePixels(s) * s.frames
                             ELSE FramePixels(s) * (s.frames - 1)
<1> DEFINE frame == s.width * s.height * s.depth
<1>1. /\ frame \in Nat /\ s.frames \in Nat /\ s.frames - 1 \in Nat
      /\ s.frames < U32
  BY Dimensions
<1>2. (s.frames - 1) % U32 = s.frames - 1
  BY <1>1, SizesAssumption
<1> HIDE DEF frame
<1>3. /\ frame * s.frames \in Nat /\ frame * (s.frames - 1) \in Nat
  BY <1>1, NatProduct
<1>4. ReorderedPixels(s, d) = IF d = "pixel" THEN (frame * s.frames) % U32
                              ELSE (frame * (s.frames - 1)) % U32
  BY <1>2 DEF ReorderedPixels, Pixels, frame
<1>5. FramePixels(s) = frame % U32
  BY DEF FramePixels, frame
<1> QED
  BY <1>1, <1>3, <1>4, <1>5, ModProduct, ModNat

(* The lowest plane of bitpack leaves room for the bits of the last        *)
(* pixels: dividing a buffer of b bytes into 16 planes of whole words      *)
(* loses fewer of its bytes than one plane is too long.                    *)
LEMMA BitpackSlack ==
  ASSUME NEW n \in Nat, NEW b \in Nat, n >= 1, b >= 2 * n + 2
  PROVE  2 * (((n - 1) \div 16) + 15 * (b \div 32) + 1) <= b
OBVIOUS

(* The copied frame and two bytes of every other pixel.                    *)
LEMMA TwoBytesAPixel ==
  ASSUME NEW s \in SizeRecords, NEW d, s.frames # 0, TypeSize(s.type) >= 2
  PROVE  /\ CopiedBytes(s, d) \in Nat
         /\ CopiedBytes(s, d) <= FrameBytes(s)
         /\ CopiedBytes(s, d) + 2 * ReorderedPixels(s, d) <= FrameBytes(s) * s.frames
         /\ FramePixels(s) = 0 => ReorderedPixels(s, d) = 0 /\ CopiedBytes(s, d) = 0
         /\ 2 * FramePixels(s) <= FrameBytes(s)
<1> DEFINE x == FramePixels(s)
           f == s.frames
           w == TypeSize(s.type)
           n == ReorderedPixels(s, d)
<1>1. x \in Nat /\ f \in Nat /\ f >= 1 /\ w \in Nat /\ w >= 2 /\ n \in Nat
  BY Dimensions, DataBytesNat, TypeSizeNat, ReorderedPixelsBound
<1>2. /\ d = "pixel" => n <= x * f
      /\ d # "pixel" => n <= x * (f - 1)
  BY ReorderedPixelsBound
<1>3. FrameBytes(s) = x * w /\ CopiedBytes(s, d) = IF d = "pixel" THEN 0 ELSE x * w
  BY DEF FrameBytes, CopiedBytes
<1> HIDE DEF x, f, w, n
<1>4. /\ x * w \in Nat /\ x * f \in Nat /\ x * (f - 1) \in Nat
      /\ x * w * (f - 1) \in Nat /\ x * w * f \in Nat
  BY <1>1
<1>5. 2 * x <= x * w
  BY <1>1
<1>6. /\ 2 * (x * f) <= x * w * f
      /\ 2 * (x * (f - 1)) <= x * w * (f - 1)
      /\ x * w * f = x * w + x * w * (f - 1)
  BY <1>1, <1>4, <1>5
<1>7. CopiedBytes(s, d) + 2 * n <= x * w * f
  BY <1>1, <1>2, <1>3, <1>4, <1>6
<1>8. x = 0 => n = 0 /\ x * w = 0
  BY <1>1, <1>2
<1> QED
  BY <1>1, <1>3, <1>4, <1>5, <1>7, <1>8 DEF x, f, w, n

(* Every reorder function stays inside a reordered buffer of the minimum   *)
(* size, as long as the spare frame does not wrap the number of frames and *)
(* pixels have the two bytes that the functions take of them.              *)
THEOREM ReorderedFits ==
  ASSUME NEW s \in SizeRecords, NEW d, NEW r \in Reorders,
         s.frames # 0, FramesAndSpare(s) # 0,
         r # "none" => TypeSize(s.type) >= 2
  PROVE  ReorderedTouched(s, d, r, MinReordered(s, r)) <= MinReordered(s, r)
<1> DEFINE f == s.frames
           b == FrameBytes(s)
           n == ReorderedPixels(s, d)
           copied == CopiedBytes(s, d)
<1>1. CASE r = "none"
  BY <1>1, DataBytesNat DEF ReorderedTouched, MinReordered
<1>2. CASE r # "none"
  <2>1. /\ f \in Nat /\ f >= 1 /\ b \in Nat /\ n \in Nat
        /\ copied \in Nat /\ copied <= b /\ copied + 2 * n <= b * f
        /\ n >= 1 => b >= 2
    BY <1>2, Dimensions, DataBytesNat, ReorderedPixelsBound, TwoBytesAPixel
  <2>2. FramesAndSpare(s) = f + 1
    BY Dimensions, SizesAssumption DEF FramesAndSpare
  <2>3. b * f \in Nat /\ b * (f + 1) = b * f + b
    BY <2>1
  <2>4. n = 0 => copied <= b * f
    BY <2>1, <2>3
  <2>5. CASE r = "bytepack"
    <3>1. /\ ReorderedTouched(s, d, r, MinReordered(s, r)) = copied + 2 * n
          /\ MinReordered(s, r) = b * f
      BY <2>5 DEF ReorderedTouched, MinReordered
    <3> QED
      BY <2>1, <3>1
  <2>6. CASE r = "renibble"
    <3>1. /\ ReorderedTouched(s, d, r, MinReordered(s, r)) = copied + n + 2 * HalfUp(n)
          /\ MinReordered(s, r) = b * (f + 1)
      BY <2>2, <2>6 DEF ReorderedTouched, MinReordered
    <3>2. HalfUp(n) \in Nat /\ 2 * HalfUp(n) <= n + 1 /\ (n = 0 => HalfUp(n) = 0)
      BY <2>1 DEF HalfUp
    <3> HIDE DEF b, f, n, copied
    <3>3. copied + n + 2 * HalfUp(n) <= b * f + b
      BY <2>1, <2>3, <3>2
    <3> QED
      BY <2>3, <3>1, <3>3
  <2>7. CASE r = "bitpack"
    <3> DEFINE m == MinReordered(s, r)
    <3>1. m = AtLeast(b, 16) * (f + 1)
      BY <2>2, <2>7 DEF MinReordered
    <3>2. m \in Nat /\ m >= b * (f + 1)
      <4>1. AtLeast(b, 16) \in Nat /\ AtLeast(b, 16) >= b
        BY <2>1 DEF AtLeast
      <4> HIDE DEF b, f, m
      <4> QED
        BY <2>1, <3>1, <4>1
    <3>3. ReorderedTouched(s, d, r, m) =
            IF n = 0 THEN copied
            ELSE copied + 2 * (((n - 1) \div 16) + 15 * ((m - copied) \div 32) + 1)
      BY <2>7 DEF ReorderedTouched
    <3> HIDE DEF b, f, n, copied, m
    <3>4. CASE n = 0
      BY <2>1, <2>3, <3>2, <3>3, <3>4 DEF m
    <3>5. CASE n # 0
      <4>1. m - copied \in Nat /\ m - copied >= 2 * n + 2
        BY <2>1, <2>3, <3>2, <3>5
      <4>2. 2 * (((n - 1) \div 16) + 15 * ((m - copied) \div 32) + 1) <= m - copied
        BY <2>1, <3>5, <4>1, BitpackSlack
      <4> QED
        BY <2>1, <3>2, <3>3, <3>5, <4>2 DEF m
    <3> QED
      BY <3>4, <3>5
  <2> QED
    BY <1>2, <2>5, <2>6, <2>7 DEF Reorders
<1> QED
  BY <1>1, <1>2

-----------------------------------------------------------------------------
(* Cubes of fewer than 2^32 pixels, whose sizes do not wrap.               *)

Unwrapped(s) == s.frames # 0 /\ s.width * s.height * s.depth * s.frames < U32

LEMMA UnwrappedSizes ==
  ASSUME NEW s \in SizeRecords, NEW d, Unwrapped(s)
  PROVE  /\ Pixels(s) = FramePixels(s) * s.frames
         /\ DataBytes(s) = FrameBytes(s) * s.frames
         /\ ReorderedPixels(s, d) =
              IF d = "pixel" THEN FramePixels(s) * s.frames
                             ELSE FramePixels(s) * (s.frames - 1)
<1> DEFINE frame == s.width * s.height * s.depth
           f == s.frames
           w == TypeSize(s.type)
<1>1. /\ frame \in Nat /\ f \in Nat /\ f >= 1 /\ f < U32 /\ U32 \in Nat \ {0}
      /\ frame * f \in Nat /\ frame * f < U32 /\ w \in Nat
  BY Dimensions, TypeSizeNat, SizesAssumption DEF Unwrapped
<1>2. /\ FramePixels(s) = frame % U32
      /\ Pixels(s) = (frame * f) % U32
      /\ ReorderedPixels(s, d) = IF d = "pixel" THEN (frame * f) % U32
                                ELSE (frame * ((f - 1) % U32)) % U32
      /\ FrameBytes(s) = FramePixels(s) * w
      /\ DataBytes(s) = Pixels(s) * w
  BY DEF FramePixels, Pixels, ReorderedPixels, FrameBytes, DataBytes
<1> HIDE DEF frame, w
<1>3. f - 1 \in Nat /\ (f - 1) % U32 = f - 1
  BY <1>1
<1>4. /\ frame * (f - 1) \in Nat /\ frame * (f - 1) <= frame * f
      /\ frame <= frame * f
  BY <1>1
<1>5. /\ frame % U32 = frame /\ (frame * f) % U32 = frame * f
      /\ (frame * (f - 1)) % U32 = frame * (f - 1)
  <2> HIDE DEF f
  <2>1. frame < U32 /\ frame * (f - 1) < U32
    BY <1>1, <1>4
  <2> QED
    BY <1>1, <1>4, <2>1, ModSmall
<1>6. frame * f * w = frame * w * f
  BY <1>1
<1> QED
  BY <1>1, <1>2, <1>3, <1>5, <1>6

(* No reorder function reads past the data of such a cube.                 *)
THEOREM RawFits ==
  ASSUME NEW s \in SizeRecords, NEW d, NEW r \in Reorders, Unwrapped(s),
         r # "none" => TypeSize(s.type) >= 2
  PROVE  RawTouched(s, d, r) <= DataBytes(s)
BY DataBytesNat, TwoBytesAPixel, UnwrappedSizes DEF RawTouched, Unwrapped

(* Of two bytes a pixel the reorder functions take the whole cube.         *)
LEMMA RawTakenWhole ==
  ASSUME NEW s \in SizeRecords, NEW d, NEW r, Unwrapped(s),
         TypeSize(s.type) = 2
  PROVE  RawTouched(s, d, r) = DataBytes(s)
<1>1. /\ FramePixels(s) \in Nat /\ s.frames \in Nat /\ s.frames >= 1
      /\ FrameBytes(s) = FramePixels(s) * 2
  BY Dimensions, DataBytesNat DEF FrameBytes, Unwrapped
<1>2. /\ FramePixels(s) * s.frames \in Nat
      /\ FramePixels(s) * (s.frames - 1) \in Nat
      /\ FramePixels(s) * s.frames = FramePixels(s) + FramePixels(s) * (s.frames - 1)
      /\ FramePixels(s) * 2 * s.frames = 2 * (FramePixels(s) * s.frames)
  BY <1>1
<1> QED
  BY <1>1, <1>2, UnwrappedSizes DEF RawTouched, CopiedBytes

(* Without wrapping, the data fits in every reordered buffer of the        *)
(* minimum size.                                                           *)
LEMMA DataFitsReordered ==
  ASSUME NEW s \in SizeRecords, NEW r \in Reorders, Unwrapped(s),
         FramesAndSpare(s) # 0
  PROVE  /\ DataBytes(s) <= MinReordered(s, r)
         /\ r \in {"none", "bytepack"} => MinReordered(s, r) = DataBytes(s)
<1> DEFINE f == s.frames
           b == FrameBytes(s)
<1>1. f \in Nat /\ b \in Nat /\ FramesAndSpare(s) = f + 1 /\ DataBytes(s) = b * f
  <2>1. s.frames \in Nat /\ s.frames < U32
    BY Dimensions
  <2>2. FramesAndSpare(s) = f + 1
    BY <2>1, SizesAssumption DEF FramesAndSpare
  <2> QED
    BY <2>1, <2>2, DataBytesNat, UnwrappedSizes
<1>2. /\ b * f \in Nat /\ b * f <= b * (f + 1)
      /\ b * f <= AtLeast(b, 16) * (f + 1)
  <2>1. AtLeast(b, 16) \in Nat /\ AtLeast(b, 16) >= b
    BY <1>1 DEF AtLeast
  <2> HIDE DEF b, f
  <2>2. b * f \in Nat /\ b * f <= b * (f + 1)
    BY <1>1
  <2>3. b * (f + 1) <= AtLeast(b, 16) * (f + 1)
    BY <1>1, <2>1
  <2>4. b * (f + 1) \in Nat /\ AtLeast(b, 16) * (f + 1) \in Nat
    BY <1>1, <2>1
  <2> QED
    BY <2>2, <2>3, <2>4
<1> QED
  BY <1>1, <1>2 DEF MinReordered, Reorders

=============================================================================
