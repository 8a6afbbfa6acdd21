------------------------------- MODULE LZ4Block -------------------------------
(***************************************************************************)
(* The LZ4 block codec that xrif carries, in the two calls xrif makes:     *)
(* LZ4_compress_fast on the reordered buffer, and LZ4_decompress_safe on   *)
(* what it wrote.  XrifCodec takes LZ4 as a black box that either refuses  *)
(* a block or gives it back; this module is the box.                       *)
(*                                                                         *)
(* The source is parsed into sequences: literals, then a match, a copy of  *)
(* earlier bytes given by offset and length.  The encoder finds matches    *)
(* with a hash table of positions (Find), extends them backwards           *)
(* (EncodeLiterals) and forwards (EncodeMatch), looks for another right    *)
(* behind (NextPosition) and ends with literals (LastLiterals).  The       *)
(* decoder has a fast loop while at least FastDistance bytes of room are   *)
(* left, and a safe loop with a shortcut.  Both copy in chunks that may    *)
(* write past the end of what they copy; reach follows the last byte       *)
(* written so.                                                             *)
(*                                                                         *)
(* Positions count from 0 as the pointers of the code do; byte i of a      *)
(* sequence s is s[i + 1].  Reads ahead of what is used are left out.      *)
(***************************************************************************)
EXTENDS Integers, Sequences, Functions

CONSTANTS
  Calls,        \* calls of the encoder: source, maxOutputSize, acceleration
  Rooms,        \* room of the decoder, relative to the size of the source
  Hash(_),      \* the hash of four or five bytes
  HashValues,   \* the entries of the hash table
  MaxDistance,  \* MAX_DISTANCE, 65535
  MaxInput      \* LZ4_MAX_INPUT_SIZE, 0x7E000000

MinMatch == 4
WildLength == 8
LastLiteralBytes == 5
MatchFindLimit == 12
MinLength == MatchFindLimit + 1
SafeguardDistance == 2 * WildLength - MinMatch
FastDistance == 64
RunMask == 15
MatchMask == 15
SkipTrigger == 6

\* LZ4_64Klimit: below it, positions fit the 16 bit entries of the table.
Limit64K == MaxDistance + 1 + (MatchFindLimit - 1)

Sources == {c.source : c \in Calls}

ASSUME CallsAssumption ==
  Calls \subseteq [source : Seq(0 .. 255), maxOutputSize : Nat, acceleration : Int]

ASSUME RoomsAssumption == Rooms \subseteq Int

ASSUME HashAssumption ==
  \A s \in Sources : \A i \in 1 .. Len(s) - 4 : \A n \in {3, 4} :
    Hash(SubSeq(s, i, i + n)) \in HashValues

ASSUME LimitsAssumption ==
  MaxDistance \in Nat \ {0} /\ MaxDistance <= 65535 /\ MaxInput \in Nat

VARIABLES
  stage,      \* where the call in progress is
  src,        \* the block
  capacity,   \* maxOutputSize
  accel,      \* acceleration
  ip,         \* the position in the source
  anchor,     \* the first byte of the source not yet encoded
  forward,    \* forwardIp, the position the search is going to try
  step,       \* how far the search goes next
  tries,      \* searchMatchNb
  table,      \* the hash table, positions by hash
  match,      \* the position of the earlier bytes
  token,      \* where in dst the token of the sequence is
  dst,        \* the bytes encoded so far
  reach,      \* how far the call has written its destination
  result,     \* what the last call returned
  room,       \* dstCapacity of the decoder
  rp,         \* the position of the decoder in dst
  code,       \* the token it read
  length,     \* the length it decodes
  offset,     \* the offset it decoded
  out         \* the bytes decoded so far

callVars == <<src, capacity, accel>>
searchVars == <<ip, anchor, forward, step, tries, table, match>>
encoderVars == <<token, dst>>
decoderVars == <<room, rp, code, length, offset, out>>
vars == <<stage, callVars, searchVars, encoderVars, reach, result, decoderVars>>

-----------------------------------------------------------------------------
\* LZ4_COMPRESSBOUND.
CompressBound(n) == IF n > MaxInput THEN 0 ELSE n + n \div 255 + 16

Four(i) == SubSeq(src, i + 1, i + 4)

\* tableType: 16 bit entries for a short block.
ByU16 == Len(src) < Limit64K

\* LZ4_hashPosition: five bytes when the positions are wide.
HashAt(i) == Hash(SubSeq(src, i + 1, i + IF ByU16 THEN 4 ELSE 5))

\* The fill of an entry cuts a position to 16 bits.
Entry(i) == IF ByU16 THEN i % (MaxDistance + 1) ELSE i

Limited == capacity < CompressBound(Len(src))
MatchFindEnd == Len(src) - MatchFindLimit + 1   \* mflimitPlusOne
MatchEnd == Len(src) - LastLiteralBytes         \* matchlimit

\* Variant: blocks with the same hash are taken to be equal.
IsMatchByHash(m, i) == ByU16 \/ m + MaxDistance >= i

\* The candidate m holds the four bytes at i and is not too far back.
IsMatch(m, i) ==
  /\ ByU16 \/ m + MaxDistance >= i
  /\ Four(m) = Four(i)

\* How far bytes before i and m agree, down to the anchor and the source.
CatchUp(i, m) ==
  CHOOSE k \in 0 .. Len(src) :
    /\ \A n \in 1 .. k : i - n >= anchor /\ m - n >= 0
                         /\ src[i - n + 1] = src[m - n + 1]
    /\ \/ i - k <= anchor \/ m - k <= 0
       \/ src[i - k] # src[m - k]

\* Variant: the count runs up to the end of the source.
CountToEnd(i, m) ==
  CHOOSE k \in 0 .. Len(src) :
    /\ \A n \in 0 .. k - 1 : i + n < Len(src) /\ src[i + n + 1] = src[m + n + 1]
    /\ i + k >= Len(src) \/ src[i + k + 1] # src[m + k + 1]

\* LZ4_count: how far the bytes from i and m on agree, up to matchlimit.
Count(i, m) ==
  CHOOSE k \in 0 .. Len(src) :
    /\ \A n \in 0 .. k - 1 : i + n < MatchEnd /\ src[i + n + 1] = src[m + n + 1]
    /\ i + k >= MatchEnd \/ src[i + k + 1] # src[m + k + 1]

\* A length beyond its half of the token: bytes of 255 and a smaller one.
LengthBytes(n) ==
  [i \in 1 .. n \div 255 + 1 |-> IF i <= n \div 255 THEN 255 ELSE n % 255]

\* A token with n literals, and the length bytes behind it.
LiteralHead(n) ==
  IF n >= RunMask THEN <<RunMask * 16>> \o LengthBytes(n - RunMask)
                  ELSE <<n * 16>>

\* LZ4_wildCopy and LZ4_wildCopy32: whole chunks, at least one.
Wild(n, chunk) == IF n <= chunk THEN chunk
                  ELSE ((n + chunk - 1) \div chunk) * chunk

Furthest(a, b) == IF a < b THEN b ELSE a

-----------------------------------------------------------------------------
(* LZ4_compress_fast.                                                      *)

Init ==
  /\ stage = "idle"
  /\ src = <<>> /\ capacity = 0 /\ accel = 1
  /\ ip = 0 /\ anchor = 0 /\ forward = 0 /\ step = 1 /\ tries = 0
  /\ table = [h \in HashValues |-> 0] /\ match = 0
  /\ token = 0 /\ dst = <<>>
  /\ reach = 0 /\ result = 0
  /\ room = 0 /\ rp = 0 /\ code = 0 /\ length = 0 /\ offset = 0 /\ out = <<>>

\* Start of the search for the next match, at position i.
SearchFrom(i, a) ==
  /\ forward' = i
  /\ step' = 1
  /\ tries' = a * 2 ^ SkipTrigger

(* A cleared state, and the checks before the main loop.  A block that is  *)
(* too short is all literals.                                              *)
Compress(s, maxOutputSize, acceleration) ==
  /\ stage = "idle"
  /\ src' = s
  /\ capacity' = maxOutputSize
  /\ accel' = IF acceleration < 1 THEN 1 ELSE acceleration
  /\ stage' = CASE Len(s) > MaxInput -> "failed"
                [] Len(s) <= MaxInput /\ Len(s) < MinLength -> "last"
                [] Len(s) <= MaxInput /\ Len(s) >= MinLength -> "find"
  /\ SearchFrom(1, accel')
  /\ UNCHANGED <<ip, anchor, table, match, encoderVars, reach, result, decoderVars>>

\* One position of the search, or the end of the block.
Find ==
  /\ stage = "find"
  /\ ip' = forward
  /\ forward' = forward + step
  /\ step' = tries \div 2 ^ SkipTrigger
  /\ tries' = tries + 1
  /\ IF forward' > MatchFindEnd
     THEN /\ stage' = "last"
          /\ UNCHANGED <<table, match>>
     ELSE LET h == HashAt(forward)
          IN /\ match' = table[h]
             /\ table' = [table EXCEPT ![h] = Entry(forward)]
             /\ stage' = IF IsMatch(table[h], forward) THEN "literals" ELSE "find"
  /\ UNCHANGED <<callVars, anchor, encoderVars, reach, result, decoderVars>>

Fail ==
  /\ stage' = "failed"
  /\ result' = 0

(* Catch up backwards, then the token, the length and the literals since   *)
(* the anchor.                                                             *)
EncodeLiterals ==
  /\ stage = "literals"
  /\ LET k == CatchUp(ip, match)
         literals == SubSeq(src, anchor + 1, ip - k)
         n == Len(literals)
         head == LiteralHead(n)
     IN /\ ip' = ip - k
        /\ match' = match - k
        /\ IF Limited /\ Len(dst) + 1 + n + (2 + 1 + LastLiteralBytes)
                           + n \div 255 > capacity
           THEN Fail /\ UNCHANGED <<token, dst, reach>>
           ELSE /\ stage' = "match"
                /\ token' = Len(dst)
                /\ dst' = dst \o head \o literals
                /\ reach' = Furthest(reach,
                              Len(dst) + Len(head) + Wild(n, WildLength))
                /\ UNCHANGED result
  /\ UNCHANGED <<callVars, anchor, forward, step, tries, table, decoderVars>>

\* The bytes of a match length code n beyond the token, and how far the
\* four-byte stores of 255 reach.
MatchTail(n) == IF n >= MatchMask THEN LengthBytes(n - MatchMask) ELSE <<>>
MatchTailReach(n) ==
  IF n >= MatchMask THEN 4 * ((n - MatchMask) \div (4 * 255) + 1) ELSE 0

\* Variant: the check leaves no room for the length bytes.
MatchFitsShort(op, n) == ~ Limited \/ op + 1 + n \div 256 <= capacity

\* The length bytes, the next token and the last literals must still fit.
MatchFits(op, n) ==
  ~ Limited \/ op + (1 + LastLiteralBytes) + n \div 256 <= capacity

\* The offset, little endian, and the length of the match.
EncodeMatch ==
  /\ stage = "match"
  /\ LET n == Count(ip + MinMatch, match + MinMatch)
         back == ip - match
         op == Len(dst) + 2
         behind == ip + MinMatch + n
     IN /\ dst' = [dst EXCEPT ![token + 1] =
                     @ + IF MatchFits(op, n)
                         THEN IF n < MatchMask THEN n ELSE MatchMask
                         ELSE 0]
                  \o <<back % 256, back \div 256>>
                  \o (IF MatchFits(op, n) THEN MatchTail(n) ELSE <<>>)
        /\ ip' = behind
        /\ IF ~ MatchFits(op, n)
           THEN /\ Fail
                /\ reach' = Furthest(reach, op)
                /\ UNCHANGED anchor
           ELSE /\ stage' = IF behind >= MatchFindEnd THEN "last" ELSE "next"
                /\ anchor' = behind
                /\ reach' = Furthest(reach, Furthest(Len(dst'), op + MatchTailReach(n)))
                /\ UNCHANGED result
  /\ UNCHANGED <<callVars, forward, step, tries, table, match, token, decoderVars>>

\* The table is filled two bytes back, and the position behind the match is
\* tried at once: a match there needs no literals.
NextPosition ==
  /\ stage = "next"
  /\ LET filled == [table EXCEPT ![HashAt(ip - 2)] = Entry(ip - 2)]
         h == HashAt(ip)
     IN /\ table' = [filled EXCEPT ![h] = Entry(ip)]
        /\ match' = filled[h]
        /\ IF IsMatch(filled[h], ip)
           THEN /\ stage' = "match"
                /\ token' = Len(dst)
                /\ dst' = Append(dst, 0)
                /\ reach' = Furthest(reach, Len(dst) + 1)
                /\ UNCHANGED <<ip, forward, step, tries>>
           ELSE /\ stage' = "find"
                /\ ip' = ip + 1
                /\ SearchFrom(ip + 1, accel)
                /\ UNCHANGED <<token, dst, reach>>
  /\ UNCHANGED <<callVars, anchor, result, decoderVars>>

\* Variant: without room for the last literals the call tries on.
LastLiteralsAgain ==
  /\ stage = "last"
  /\ LET literals == SubSeq(src, anchor + 1, Len(src))
         n == Len(literals)
     IN IF Limited /\ Len(dst) + n + 1 + (n + 255 - RunMask) \div 255 > capacity
        THEN UNCHANGED <<stage, dst, reach, result>>
        ELSE /\ stage' = "compressed"
             /\ dst' = dst \o LiteralHead(n) \o literals
             /\ reach' = Furthest(reach, Len(dst'))
             /\ result' = Len(dst')
  /\ UNCHANGED <<callVars, searchVars, token, decoderVars>>

\* The rest of the block, and the return.
LastLiterals ==
  /\ stage = "last"
  /\ LET literals == SubSeq(src, anchor + 1, Len(src))
         n == Len(literals)
     IN IF Limited /\ Len(dst) + n + 1 + (n + 255 - RunMask) \div 255 > capacity
        THEN Fail /\ UNCHANGED <<dst, reach>>
        ELSE /\ stage' = "compressed"
             /\ dst' = dst \o LiteralHead(n) \o literals
             /\ reach' = Furthest(reach, Len(dst'))
             /\ result' = Len(dst')
  /\ UNCHANGED <<callVars, searchVars, token, decoderVars>>

-----------------------------------------------------------------------------
(* What the copies of the decoder put behind out.                          *)

Unwritten == -1   \* a byte that is read before it is written

Decoded(i) == out[Len(out) + i + 1]   \* i < 0: counted from the end of out

\* The first n bytes of f, which counts from 0, as a sequence.
FromZero(f, n) == [i \in 1 .. n |-> f[i - 1]]

\* Copies of chunk bytes at a time, from distance d.
ChunkBytes(d, chunk, n) ==
  LET f[k \in 0 .. n - 1] ==
        IF k < d THEN Decoded(k - d)
        ELSE IF k - d < (k \div chunk) * chunk THEN f[k - d] ELSE Unwritten
  IN f
Chunked(d, chunk, n) == FromZero(ChunkBytes(d, chunk, n), n)

\* Variant: the source does not move after eight bytes.
Dec64None(o) == 0

\* inc32table and dec64table, by offset: how a source less than eight bytes
\* back moves after four and after eight bytes, to be eight bytes back.
Inc32(o) == <<0, 1, 2, 1, 0, 4, 4, 4>>[o + 1]
Dec64(o) == <<0, 0, 0, -1, -4, 1, 2, 3>>[o + 1]

\* Four bytes one by one, four at once, then chunks of eight.
CloseBytes(o, n) ==
  LET d == 8 + o - Inc32(o) + Dec64(o)
      f[k \in 0 .. Furthest(n, 8) - 1] ==
        LET from == CASE k < 4 -> k - o
                      [] k \in 4 .. 7 -> k - 4 - o + Inc32(o)
                      [] k >= 8 -> k - d
            known == CASE k < 4 -> k
                       [] k \in 4 .. 7 -> 4
                       [] k >= 8 -> (k \div 8) * 8
        IN IF from < 0 THEN Decoded(from)
           ELSE IF from < known THEN f[from] ELSE Unwritten
  IN f
CloseCopy(o, n) == FromZero(CloseBytes(o, n), n)

\* LZ4_memcpy_using_offset: eight bytes that repeat the last o.
RepeatedCopy(o, n) == [i \in 1 .. n |-> Decoded(((i - 1) % o) - o)]

\* Variant: the wide copy from offsets of eight on.
FastCopyWide(o, n) ==
  CASE o \in {1, 2, 4} -> RepeatedCopy(o, n)
    [] o \in {0, 3, 5, 6, 7} -> CloseCopy(o, n)
    [] o >= 8 -> Chunked(o, 16, n)

(* The bytes of a match of n bytes, o back, and how far writing them       *)
(* reaches, by the three ways of the fast loop.                            *)
FastCopy(o, n) ==
  CASE o \in {1, 2, 4} -> RepeatedCopy(o, n)
    [] o \in {0, 3, 5, 6, 7} -> CloseCopy(o, n)
    [] o \in 8 .. 15 -> Chunked(o, 8, n)
    [] o >= 16 -> Chunked(o, 16, n)

FastCopyReach(o, n) ==
  CASE o \in {1, 2, 4} -> Wild(n, 8)
    [] o \in {0, 3} \cup 5 .. 15 -> 8 + Wild(n - 8, 8)
    [] o >= 16 -> Wild(n, 32)

SafeCopyBytes(o, n) == IF o < 8 THEN CloseCopy(o, n) ELSE Chunked(o, 8, n)

-----------------------------------------------------------------------------
(* LZ4_decompress_safe.                                                    *)

StreamEnd == Len(dst)
Op == Len(out)

\* A negative result.  The byte of the stream it names is left out.
Reject ==
  /\ stage' = "rejected"
  /\ result' = -1

\* read_variable_length at p: how many bytes it reads, up to one that is
\* not 255 or to the limit, and what they add up to.
LengthRead(p, limit) ==
  CHOOSE n \in 1 .. StreamEnd - p :
    /\ dst[p + n] # 255 \/ p + n >= limit
    /\ \A m \in 1 .. n - 1 : dst[p + m] = 255 /\ p + m < limit

LengthSum(p, limit) ==
  LET n == LengthRead(p, limit) IN (n - 1) * 255 + dst[p + n]

\* The literal length of token c, and the position behind it.
LiteralLength(c, p) ==
  IF c \div 16 = RunMask THEN RunMask + LengthSum(p, StreamEnd - RunMask)
                         ELSE c \div 16
BehindLiteralLength(c, p) ==
  IF c \div 16 = RunMask THEN p + LengthRead(p, StreamEnd - RunMask) ELSE p

\* initial_error: no literals could follow.
LiteralLengthCut(c, p) == c \div 16 = RunMask /\ p >= StreamEnd - RunMask

\* The same for the length of a match; only its loop is checked.
MatchLengthLimit == StreamEnd - LastLiteralBytes + 1
MatchLength(ml, p) ==
  MinMatch + (IF ml = MatchMask THEN MatchMask + LengthSum(p, MatchLengthLimit)
                                ELSE ml)
BehindMatchLength(ml, p) ==
  IF ml = MatchMask THEN p + LengthRead(p, MatchLengthLimit) ELSE p
MatchLengthCut(ml, p) ==
  ml = MatchMask /\ p + LengthRead(p, MatchLengthLimit) >= MatchLengthLimit

\* The offset at p, little endian.
OffsetAt(p) == dst[p + 1] + 256 * dst[p + 2]

Literals(p, n) == SubSeq(dst, p + 1, p + n)

Decompress(capacityOut) ==
  /\ stage = "compressed"
  /\ room' = capacityOut
  /\ reach' = 0
  /\ IF capacityOut = 0
     THEN /\ stage' = IF dst = <<0>> THEN "decoded" ELSE "rejected"
          /\ result' = IF dst = <<0>> THEN 0 ELSE -1
     ELSE /\ stage' = IF capacityOut < FastDistance THEN "safe" ELSE "fast"
          /\ result' = 0
  /\ UNCHANGED <<callVars, searchVars, encoderVars, rp, code, length, offset, out>>

\* The fast loop reads a token and copies its literals in large chunks, or
\* leaves for the safe loop when these would come too close to an end.
FastLiterals ==
  /\ stage = "fast"
  /\ LET c == dst[rp + 1]
         p == rp + 1
     IN IF LiteralLengthCut(c, p)
        THEN Reject /\ UNCHANGED <<rp, code, length, out, reach>>
        ELSE LET n == LiteralLength(c, p)
                 q == BehindLiteralLength(c, p)
                 close == IF c \div 16 = RunMask
                          THEN \/ Op + n > room - FastDistance
                               \/ q + n > StreamEnd - (2 + 1 + LastLiteralBytes)
                          ELSE q + 16 > StreamEnd - (2 + 1 + LastLiteralBytes)
             IN /\ code' = c
                /\ IF close
                   THEN /\ stage' = "safeLiterals"
                        /\ length' = n
                        /\ rp' = q
                        /\ UNCHANGED <<out, reach>>
                   ELSE /\ stage' = "fastMatch"
                        /\ out' = out \o Literals(q, n)
                        /\ reach' = Furthest(reach, Op +
                             IF c \div 16 = RunMask THEN Wild(n, 32) ELSE 16)
                        /\ rp' = q + n
                        /\ UNCHANGED length
                /\ UNCHANGED result
  /\ UNCHANGED <<callVars, searchVars, encoderVars, room, offset>>

\* The fast loop copies a match, or leaves it to the safe loop.
FastMatch ==
  /\ stage = "fastMatch"
  /\ LET o == OffsetAt(rp)
         p == rp + 2
         ml == code % 16
     IN IF Op - o < 0 \/ MatchLengthCut(ml, p)
        THEN Reject /\ UNCHANGED <<rp, length, offset, out, reach>>
        ELSE LET n == MatchLength(ml, p)
             IN /\ rp' = BehindMatchLength(ml, p)
                /\ IF Op + n >= room - FastDistance
                   THEN /\ stage' = "safeCopy"
                        /\ length' = n
                        /\ offset' = o
                        /\ UNCHANGED <<out, reach>>
                   ELSE /\ stage' = "fast"
                        /\ IF ml # MatchMask /\ o >= 8
                           THEN /\ out' = out \o Chunked(o, 8, n)
                                /\ reach' = Furthest(reach, Op + 18)
                           ELSE /\ out' = out \o FastCopy(o, n)
                                /\ reach' = Furthest(reach,
                                              Op + FastCopyReach(o, n))
                        /\ UNCHANGED <<length, offset>>
                /\ UNCHANGED result
  /\ UNCHANGED <<callVars, searchVars, encoderVars, room, code>>

\* The safe loop reads a token.  With few literals and room to spare it takes
\* the shortcut and copies sixteen bytes.
SafeToken ==
  /\ stage = "safe"
  /\ LET c == dst[rp + 1]
         p == rp + 1
         n == c \div 16
     IN /\ code' = c
        /\ IF n # RunMask /\ p < StreamEnd - (14 + 2) /\ Op <= room - (14 + 18)
           THEN /\ stage' = "shortcut"
                /\ out' = out \o Literals(p, n)
                /\ reach' = Furthest(reach, Op + 16)
                /\ rp' = p + n
                /\ UNCHANGED <<length, result>>
           ELSE IF LiteralLengthCut(c, p)
           THEN Reject /\ UNCHANGED <<rp, length, out, reach>>
           ELSE /\ stage' = "safeLiterals"
                /\ length' = LiteralLength(c, p)
                /\ rp' = BehindLiteralLength(c, p)
                /\ UNCHANGED <<out, reach, result>>
  /\ UNCHANGED <<callVars, searchVars, encoderVars, room, offset>>

\* The second half of the shortcut: a match of at most eighteen bytes.
Shortcut ==
  /\ stage = "shortcut"
  /\ LET o == OffsetAt(rp)
         ml == code % 16
     IN /\ rp' = rp + 2
        /\ IF ml # MatchMask /\ o >= 8 /\ Op - o >= 0
           THEN /\ stage' = "safe"
                /\ out' = out \o Chunked(o, 8, ml + MinMatch)
                /\ reach' = Furthest(reach, Op + 18)
                /\ UNCHANGED <<length, offset>>
           ELSE /\ stage' = "copyMatch"
                /\ length' = ml
                /\ offset' = o
                /\ UNCHANGED <<out, reach>>
  /\ UNCHANGED <<callVars, searchVars, encoderVars, room, code, result>>

\* Literals near an end of the stream or the room are the last ones: they
\* must use up the stream, and decoding ends.
SafeLiterals ==
  /\ stage = "safeLiterals"
  /\ IF \/ Op + length > room - MatchFindLimit
        \/ rp + length > StreamEnd - (2 + 1 + LastLiteralBytes)
     THEN IF rp + length # StreamEnd \/ Op + length > room
          THEN Reject /\ UNCHANGED <<rp, out, reach>>
          ELSE /\ stage' = "decoded"
               /\ out' = out \o Literals(rp, length)
               /\ reach' = Furthest(reach, Len(out'))
               /\ rp' = rp + length
               /\ result' = Len(out')
     ELSE /\ stage' = "safeOffset"
          /\ out' = out \o Literals(rp, length)
          /\ reach' = Furthest(reach, Op + Wild(length, WildLength))
          /\ rp' = rp + length
          /\ UNCHANGED result
  /\ UNCHANGED <<callVars, searchVars, encoderVars, room, code, length, offset>>

SafeOffset ==
  /\ stage = "safeOffset"
  /\ stage' = "copyMatch"
  /\ offset' = OffsetAt(rp)
  /\ length' = code % 16
  /\ rp' = rp + 2
  /\ UNCHANGED <<callVars, searchVars, encoderVars, reach, result, room, code, out>>

\* _copy_match: the offset is checked and four zeroes are written, then the
\* length of the match is read.
CopyMatch ==
  /\ stage = "copyMatch"
  /\ IF Op - offset < 0
     THEN Reject /\ UNCHANGED <<rp, length, reach>>
     ELSE /\ reach' = Furthest(reach, Op + 4)
          /\ IF MatchLengthCut(length, rp)
             THEN Reject /\ UNCHANGED <<rp, length>>
             ELSE /\ stage' = "safeCopy"
                  /\ length' = MatchLength(length, rp)
                  /\ rp' = BehindMatchLength(length, rp)
                  /\ UNCHANGED result
  /\ UNCHANGED <<callVars, searchVars, encoderVars, room, code, offset, out>>

\* How far the copy of n bytes reaches that ends well before the room does.
WideReach(n) == IF n > 16 THEN 16 + Wild(n - 16, WildLength) ELSE 16

\* How far the copy of n bytes reaches that ends near the end of the room:
\* whole chunks up to a last one, then byte by byte.
NarrowReach(n) ==
  LET lastChunk == room - (WildLength - 1)
  IN IF Op + 8 < lastChunk
     THEN Furthest(n, 8 + Wild(lastChunk - (Op + 8), WildLength))
     ELSE Furthest(n, 8)

\* safe_match_copy: the copy of a match, which must leave room for the last
\* literals.
SafeCopy ==
  /\ stage = "safeCopy"
  /\ IF Op + length > room - SafeguardDistance
     THEN IF Op + length > room - LastLiteralBytes
          THEN /\ Reject
               /\ reach' = Furthest(reach, Op + 8)
               /\ UNCHANGED out
          ELSE /\ stage' = "safe"
               /\ out' = out \o SafeCopyBytes(offset, length)
               /\ reach' = Furthest(reach, Op + NarrowReach(length))
               /\ UNCHANGED result
     ELSE /\ stage' = "safe"
          /\ out' = out \o SafeCopyBytes(offset, length)
          /\ reach' = Furthest(reach, Op + WideReach(length))
          /\ UNCHANGED result
  /\ UNCHANGED <<callVars, searchVars, encoderVars, room, rp, code, length, offset>>

\* The calls return and keep nothing: the state of the encoder is on its
\* stack, and xrif starts the next block afresh.
Return ==
  /\ stage \in {"failed", "decoded", "rejected"}
  /\ stage' = "idle"
  /\ src' = <<>> /\ capacity' = 0 /\ accel' = 1
  /\ ip' = 0 /\ anchor' = 0 /\ forward' = 0 /\ step' = 1 /\ tries' = 0
  /\ table' = [h \in HashValues |-> 0] /\ match' = 0
  /\ token' = 0 /\ dst' = <<>>
  /\ reach' = 0 /\ result' = 0
  /\ room' = 0 /\ rp' = 0 /\ code' = 0
  /\ length' = 0 /\ offset' = 0 /\ out' = <<>>

Encode == \/ Find \/ EncodeLiterals \/ EncodeMatch \/ NextPosition \/ LastLiterals

Decode == \/ FastLiterals \/ FastMatch \/ SafeToken \/ Shortcut
          \/ SafeLiterals \/ SafeOffset \/ CopyMatch \/ SafeCopy

Next ==
  \/ \E c \in Calls : Compress(c.source, c.maxOutputSize, c.acceleration)
  \/ Encode
  \/ \E r \in Rooms : Len(src) + r >= 0 /\ Decompress(Len(src) + r)
  \/ Decode
  \/ Return

Spec == Init /\ [][Next]_vars

(* A call that has started runs to its end; callers owe no call.           *)
FairSpec == Spec /\ WF_vars(Encode) /\ WF_vars(Decode)

-----------------------------------------------------------------------------
EncoderStages == {"find", "literals", "match", "next", "last"}

DecoderStages ==
  {"fast", "fastMatch", "safe", "shortcut", "safeLiterals", "safeOffset",
   "copyMatch", "safeCopy"}

Stages == EncoderStages \cup DecoderStages
            \cup {"idle", "failed", "compressed", "decoded", "rejected"}

Bytes == 0 .. 255

(* Types.  That out holds bytes says that no copy of the decoder reads a   *)
(* byte of the destination that it has not yet written.                    *)
TypeOK ==
  /\ stage \in Stages
  /\ src \in Sources \cup {<<>>}
  /\ capacity \in Nat /\ accel \in Nat \ {0}
  /\ {ip, anchor, match} \subseteq 0 .. Len(src)
  /\ forward \in Nat /\ step \in Nat \ {0} /\ tries \in Nat
  /\ table \in [HashValues -> 0 .. Len(src)]
  /\ token \in 0 .. Len(dst)
  /\ Range(dst) \subseteq Bytes /\ Range(out) \subseteq Bytes
  /\ reach \in Nat /\ result \in Int
  /\ room \in Nat /\ rp \in 0 .. Len(dst)
  /\ code \in Bytes /\ length \in Nat /\ offset \in 0 .. MaxDistance

(* What xrif asks of the box: a block that was compressed is decompressed  *)
(* to itself, and the decoder refuses it only for want of room.            *)
BlockRoundTrip ==
  /\ stage = "decoded" => out = src /\ result = Len(src)
  /\ stage = "rejected" => room < Len(src) /\ result < 0

(* Neither call writes past the end of its destination, although both copy *)
(* in chunks that run past the end of what they copy.  The encoder does    *)
(* not look at the end at all when the destination has the size of the     *)
(* bound, which is what xrif_min_compressed_size gives it.                 *)
WritesInside ==
  /\ stage \in EncoderStages \cup {"compressed", "failed"} => reach <= capacity
  /\ stage \in DecoderStages \cup {"decoded", "rejected"} => reach <= room

(* What the asserts of the encoder state of a match (it lies behind, and   *)
(* near enough for a 16 bit offset), and what the decoder relies on at the *)
(* end of a block: no match starts in its last twelve bytes, and the last  *)
(* five are literals.                                                      *)
ParsingRestrictions ==
  /\ stage = "match" =>
       match < ip /\ ip - match <= MaxDistance /\ ip < MatchFindEnd
  /\ stage = "last" => anchor = 0 \/ anchor <= MatchEnd

(* A call that has started returns.                                        *)
CallsReturn ==
  /\ stage \in EncoderStages ~> stage \in {"compressed", "failed"}
  /\ stage \in DecoderStages ~> stage \in {"decoded", "rejected"}

=============================================================================
