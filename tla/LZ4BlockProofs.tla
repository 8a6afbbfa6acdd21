---------------------------- MODULE LZ4BlockProofs ----------------------------
(***************************************************************************)
(* Proofs about LZ4Block, for every block, hash function, acceleration and *)
(* size of the destinations.                                               *)
(***************************************************************************)
EXTENDS LZ4Block, SequenceTheorems, WellFoundedInduction, TLAPS

-----------------------------------------------------------------------------
(* Hypotheses.                                                             *)

(* A call with less room than the bound has a block of at most 2^17 bytes. *)
(* The check before a match reserves a length byte for each 256 bytes but  *)
(* one is written for each 255, so the spare bytes of the check are used   *)
(* up by longer matches.                                                   *)
ShortWhenLimited ==
  \A c \in Calls :
    c.maxOutputSize < CompressBound(Len(c.source)) => Len(c.source) <= 131072

-----------------------------------------------------------------------------
(* The inductive invariant, stage by stage.                                *)

\* A sequence of anything.
IsSeq(s) == s \in Seq(Range(s))

\* What is encoded of i bytes of the source takes at most this much.
Encoded(i) == i + i \div 255

Types ==
  /\ stage \in Stages
  /\ src \in Sources \cup {<<>>}
  /\ capacity \in Nat /\ accel \in Nat \ {0}
  /\ {ip, anchor, match} \subseteq 0 .. Len(src)
  /\ forward \in Nat /\ step \in Nat \ {0} /\ tries \in Nat
  /\ table \in [HashValues -> 0 .. Len(src)]
  /\ token \in 0 .. Len(dst)
  /\ dst \in Seq(Bytes)
  /\ reach \in Nat /\ result \in Int
  /\ room \in Nat /\ rp \in 0 .. Len(dst)
  /\ code \in Bytes /\ length \in Nat
  /\ IsSeq(out)

\* Before the decoder starts.
Fresh ==
  /\ rp = 0 /\ out = <<>>
  /\ stage = "idle" => dst = <<>> /\ reach = 0 /\ ip = 0 /\ anchor = 0
                       /\ match = 0 /\ token = 0 /\ table = [h \in HashValues |-> 0]

Encoding ==
  /\ Len(src) <= MaxInput
  /\ Limited => Len(src) <= 131072
  /\ anchor = 0 \/ anchor <= MatchEnd
  /\ reach <= capacity

AtFind ==
  /\ Len(src) >= MinLength
  /\ anchor <= forward /\ forward \in 1 .. MatchFindEnd
  /\ tries >= 2 ^ SkipTrigger
  /\ \A h \in HashValues : table[h] < forward
  /\ Len(dst) <= Encoded(anchor)

AtMatchFound ==
  /\ anchor <= ip /\ ip < MatchFindEnd
  /\ match < ip /\ ip - match <= MaxDistance

AtLiterals ==
  /\ AtMatchFound
  /\ Four(match) = Four(ip)
  /\ \A h \in HashValues : table[h] <= ip
  /\ Len(dst) <= Encoded(anchor)

\* The match goes on at least to the last position in the table.
AtMatch ==
  /\ AtMatchFound
  /\ \A h \in HashValues :
       /\ table[h] < MatchFindEnd
       /\ \A x \in ip .. table[h] + 3 : src[x + 1] = src[x - (ip - match) + 1]
  /\ token < Len(dst) /\ dst[token + 1] <= RunMask * 16
  /\ Len(dst) <= Encoded(ip) + 2
  /\ Limited => Len(dst) + 2 <= capacity

AtNext ==
  /\ anchor = ip /\ ip \in MinMatch .. MatchFindEnd - 1
  /\ \A h \in HashValues : table[h] < ip
  /\ Len(dst) <= Encoded(ip)
  /\ Limited => Len(dst) + 3 <= capacity

AtLast == Len(dst) <= Encoded(anchor)

Decoding ==
  /\ dst # <<>>
  /\ reach <= room
  /\ Op <= room

\* How far the decoder is from the end of the stream, and from that of its room.
AtFast == rp < StreamEnd /\ Op <= room - FastDistance
AtFastMatch == rp <= StreamEnd - (2 + 1 + LastLiteralBytes)
               /\ Op <= room - FastDistance + (RunMask - 1)
AtSafe == rp < StreamEnd
AtShortcut == rp <= StreamEnd - (2 + 1) /\ Op <= room - 18
AtSafeOffset == rp <= StreamEnd - (2 + 1 + LastLiteralBytes) /\ Op <= room - MatchFindLimit
AtCopyMatch == rp < StreamEnd /\ Op <= room - MatchFindLimit
AtSafeCopy == rp < StreamEnd /\ Op <= room - MatchFindLimit /\ length >= MinMatch

BlockInv ==
  /\ Types
  /\ stage \in EncoderStages \cup {"idle", "failed", "compressed"} => Fresh
  /\ stage \in EncoderStages => Encoding
  /\ stage \in {"failed", "compressed"} => reach <= capacity
  /\ stage = "find" => AtFind
  /\ stage = "literals" => AtLiterals
  /\ stage = "match" => AtMatch
  /\ stage = "next" => AtNext
  /\ stage = "last" => AtLast
  /\ stage = "compressed" => dst # <<>>
  /\ stage \in DecoderStages \cup {"decoded", "rejected"} => Decoding
  /\ stage = "fast" => AtFast
  /\ stage = "fastMatch" => AtFastMatch
  /\ stage = "safe" => AtSafe
  /\ stage = "shortcut" => AtShortcut
  /\ stage = "safeOffset" => AtSafeOffset
  /\ stage = "copyMatch" => AtCopyMatch
  /\ stage = "safeCopy" => AtSafeCopy

-----------------------------------------------------------------------------
(* Numbers and sequences.                                                  *)

LEMMA LeastNumber ==
  ASSUME NEW S \in SUBSET Nat, S # {}
  PROVE  \E x \in S : \A y \in S : x <= y
<1> DEFINE R == OpToRel(<, Nat)
<1>1. IsWellFoundedOn(R, Nat)
  BY NatLessThanWellFounded
<1>2. \A x, y \in Nat : <<x, y>> \in R <=> x < y
  BY DEF OpToRel
<1> HIDE DEF R
<1>3. PICK x \in S : \A y \in S : ~ (<<y, x>> \in R)
  BY <1>1, WFMin
<1>4. ASSUME NEW y \in S PROVE x <= y
  <2>1. x \in Nat /\ y \in Nat
    OBVIOUS
  <2>2. ~ y < x
    BY <1>2, <1>3, <2>1
  <2> QED
    BY <2>1, <2>2
<1> QED
  BY <1>4

LEMMA SeqIs ==
  ASSUME NEW S, NEW s \in Seq(S)
  PROVE  IsSeq(s) /\ Len(s) \in Nat /\ DOMAIN s = 1 .. Len(s)
BY SeqOfRange, LenProperties DEF IsSeq

LEMMA FunctionIsSeq ==
  ASSUME NEW n \in Nat, NEW f, f = [i \in 1 .. n |-> f[i]]
  PROVE  IsSeq(f) /\ Len(f) = n
<1>1. f \in [1 .. n -> Range(f)]
  BY DEF Range
<1>2. f \in Seq(Range(f))
  BY <1>1, SeqDef
<1>3. Len(f) \in Nat /\ 1 .. Len(f) = 1 .. n
  BY <1>1, <1>2, LenProperties
<1> QED
  BY <1>2, <1>3 DEF IsSeq

LEMMA JoinIsSeq ==
  ASSUME NEW s, NEW t, IsSeq(s), IsSeq(t)
  PROVE  IsSeq(s \o t) /\ Len(s \o t) = Len(s) + Len(t) /\ Len(s) \in Nat /\ Len(t) \in Nat
<1> DEFINE S == Range(s) \cup Range(t)
<1>1. s \in Seq(S) /\ t \in Seq(S)
  BY SeqMonotonic DEF IsSeq
<1> HIDE DEF S
<1>2. s \o t \in Seq(S) /\ Len(s \o t) = Len(s) + Len(t)
  BY <1>1, ConcatProperties
<1> QED
  BY <1>1, <1>2, SeqIs, LenProperties

LEMMA PartIsSeq ==
  ASSUME NEW s, NEW m \in Int, NEW n \in Int
  PROVE  /\ IsSeq(SubSeq(s, m, n))
         /\ Len(SubSeq(s, m, n)) = IF m <= n THEN n - m + 1 ELSE 0
<1> DEFINE S == {s[i] : i \in m .. n}
<1>1. \A i \in m .. n : s[i] \in S
  OBVIOUS
<1> HIDE DEF S
<1> QED
  BY <1>1, SubSeqProperties, SeqIs

-----------------------------------------------------------------------------
(* What the operators that search a sequence find.                         *)

LEMMA SourceIsBytes ==
  ASSUME src \in Sources \cup {<<>>}
  PROVE  src \in Seq(Bytes) /\ Len(src) \in Nat
<1>1. \A c \in Calls : c.source \in Seq(0 .. 255)
  BY CallsAssumption
<1>2. src \in Seq(Bytes)
  BY <1>1, EmptySeq, ZenonT(60) DEF Sources, Bytes
<1> QED
  BY <1>2, LenProperties

LEMMA CountIs ==
  ASSUME Len(src) \in Nat, NEW i \in Nat, NEW m \in Nat
  PROVE  /\ Count(i, m) \in 0 .. Len(src)
         /\ \A n \in 0 .. Count(i, m) - 1 :
              i + n < MatchEnd /\ src[i + n + 1] = src[m + n + 1]
         /\ \/ i + Count(i, m) >= MatchEnd
            \/ src[i + Count(i, m) + 1] # src[m + Count(i, m) + 1]
<1> DEFINE Ends(k) == i + k >= MatchEnd \/ src[i + k + 1] # src[m + k + 1]
           S == {k \in Nat : Ends(k)}
<1>1. Len(src) \in S
  BY DEF MatchEnd, LastLiteralBytes
<1>2. PICK k \in S : \A l \in S : k <= l
  <2> HIDE DEF S
  <2>1. S \in SUBSET Nat
    BY DEF S
  <2> QED
    BY <1>1, <2>1, LeastNumber
<1>3. k \in 0 .. Len(src) /\ Ends(k)
  <2>1. k \in Nat /\ k <= Len(src) /\ Ends(k)
    BY <1>1, <1>2
  <2> HIDE DEF Ends
  <2> QED
    BY <2>1
<1>4. \A n \in 0 .. k - 1 : i + n < MatchEnd /\ src[i + n + 1] = src[m + n + 1]
  <2> SUFFICES ASSUME NEW n \in 0 .. k - 1
               PROVE  i + n < MatchEnd /\ src[i + n + 1] = src[m + n + 1]
    OBVIOUS
  <2>1. n \in Nat /\ ~ k <= n
    BY <1>3
  <2>2. ~ Ends(n)
    BY <1>2, <2>1
  <2> QED
    BY <2>1, <2>2 DEF MatchEnd, LastLiteralBytes
<1> DEFINE P(j) == /\ \A n \in 0 .. j - 1 :
                        i + n < MatchEnd /\ src[i + n + 1] = src[m + n + 1]
                   /\ Ends(j)
<1>5. \E j \in 0 .. Len(src) : P(j)
  BY <1>3, <1>4
<1>6. Count(i, m) = CHOOSE j \in 0 .. Len(src) : P(j)
  BY DEF Count
<1>7. Count(i, m) \in 0 .. Len(src) /\ P(Count(i, m))
  <2> HIDE DEF P
  <2> QED
    BY <1>5, <1>6
<1> QED
  BY <1>7

LEMMA CatchUpIs ==
  ASSUME Len(src) \in Nat, anchor \in Nat, NEW i \in Nat, NEW m \in Nat,
         anchor <= i, i <= Len(src)
  PROVE  /\ CatchUp(i, m) \in 0 .. Len(src)
         /\ \A n \in 1 .. CatchUp(i, m) :
              /\ i - n >= anchor /\ m - n >= 0
              /\ src[i - n + 1] = src[m - n + 1]
<1> DEFINE Ends(k) == i - k <= anchor \/ m - k <= 0 \/ src[i - k] # src[m - k]
           S == {k \in Nat : Ends(k)}
<1>1. i - anchor \in S /\ i - anchor <= Len(src)
  OBVIOUS
<1>2. PICK k \in S : \A l \in S : k <= l
  <2> HIDE DEF S
  <2>1. S \in SUBSET Nat
    BY DEF S
  <2> QED
    BY <1>1, <2>1, LeastNumber
<1>3. k \in 0 .. Len(src) /\ Ends(k)
  <2>1. k \in Nat /\ k <= Len(src) /\ Ends(k)
    BY <1>1, <1>2
  <2> HIDE DEF Ends
  <2> QED
    BY <2>1
<1>4. \A n \in 1 .. k : /\ i - n >= anchor /\ m - n >= 0
                        /\ src[i - n + 1] = src[m - n + 1]
  <2> SUFFICES ASSUME NEW n \in 1 .. k
               PROVE  i - n >= anchor /\ m - n >= 0 /\ src[i - n + 1] = src[m - n + 1]
    OBVIOUS
  <2>1. n - 1 \in Nat /\ ~ k <= n - 1 /\ n \in Nat
    BY <1>3
  <2>2. ~ Ends(n - 1)
    BY <1>2, <2>1
  <2>3. i - (n - 1) = i - n + 1 /\ m - (n - 1) = m - n + 1
    BY <2>1
  <2> QED
    BY <2>1, <2>2, <2>3
<1> DEFINE P(j) == /\ \A n \in 1 .. j : /\ i - n >= anchor /\ m - n >= 0
                                        /\ src[i - n + 1] = src[m - n + 1]
                   /\ Ends(j)
<1>5. \E j \in 0 .. Len(src) : P(j)
  BY <1>3, <1>4
<1>6. CatchUp(i, m) = CHOOSE j \in 0 .. Len(src) : P(j)
  BY DEF CatchUp
<1>7. CatchUp(i, m) \in 0 .. Len(src) /\ P(CatchUp(i, m))
  <2> HIDE DEF P
  <2> QED
    BY <1>5, <1>6
<1> QED
  BY <1>7

(* A length of the stream is read up to a byte that is not 255 or to the   *)
(* limit, whichever comes first.                                           *)
LEMMA LengthReadIs ==
  ASSUME dst \in Seq(Bytes), NEW p \in Nat, p < StreamEnd, NEW limit \in Int,
         limit <= StreamEnd
  PROVE  /\ LengthRead(p, limit) \in 1 .. StreamEnd - p
         /\ LengthSum(p, limit) \in Nat
<1> DEFINE Ends(k) == dst[p + k] # 255 \/ p + k >= limit
           S == {k \in Nat : k >= 1 /\ Ends(k)}
<1>1. StreamEnd \in Nat
  BY LenProperties DEF StreamEnd
<1>2. StreamEnd - p \in S
  BY <1>1
<1>3. PICK k \in S : \A l \in S : k <= l
  <2> HIDE DEF S
  <2>1. S \in SUBSET Nat
    BY DEF S
  <2> QED
    BY <1>2, <2>1, LeastNumber
<1>4. k \in 1 .. StreamEnd - p /\ Ends(k)
  <2>1. k \in Nat /\ k >= 1 /\ k <= StreamEnd - p /\ Ends(k)
    BY <1>2, <1>3
  <2> HIDE DEF Ends
  <2> QED
    BY <1>1, <2>1
<1>5. \A n \in 1 .. k - 1 : dst[p + n] = 255 /\ p + n < limit
  <2> SUFFICES ASSUME NEW n \in 1 .. k - 1 PROVE dst[p + n] = 255 /\ p + n < limit
    OBVIOUS
  <2>1. n \in Nat /\ n >= 1 /\ ~ k <= n
    BY <1>1, <1>4
  <2>2. ~ Ends(n)
    BY <1>3, <2>1
  <2> QED
    BY <2>1, <2>2
<1> DEFINE P(j) == Ends(j) /\ \A n \in 1 .. j - 1 : dst[p + n] = 255 /\ p + n < limit
<1>6. \E j \in 1 .. StreamEnd - p : P(j)
  BY <1>4, <1>5
<1>7. LengthRead(p, limit) = CHOOSE j \in 1 .. StreamEnd - p : P(j)
  BY DEF LengthRead
<1> DEFINE r == LengthRead(p, limit)
<1>8. r \in 1 .. StreamEnd - p
  <2> HIDE DEF P
  <2> QED
    BY <1>6, <1>7
<1> HIDE DEF r
<1>9. p + r \in 1 .. Len(dst)
  BY <1>1, <1>8 DEF StreamEnd
<1>10. dst[p + r] \in 0 .. 255
  BY <1>9, ElementOfSeq DEF Bytes
<1> DEFINE b == dst[p + r]
<1>11. (r - 1) * 255 + b \in Nat
  <2>1. b \in 0 .. 255 /\ r \in Nat /\ r >= 1
    BY <1>1, <1>8, <1>10
  <2> HIDE DEF b
  <2> QED
    BY <2>1
<1> QED
  BY <1>8, <1>11 DEF LengthSum, r, b

LEMMA FourIs ==
  ASSUME NEW i \in Int, NEW m \in Int, Four(m) = Four(i)
  PROVE  \A x \in i .. i + 3 : src[x + 1] = src[x - (i - m) + 1]
<1>1. ASSUME NEW y \in Int
      PROVE  \A j \in 1 .. 4 : Four(y)[j] = src[y + j]
  <2> DEFINE S == {src[x] : x \in y + 1 .. y + 4}
  <2>1. \A x \in y + 1 .. y + 4 : src[x] \in S
    OBVIOUS
  <2> HIDE DEF S
  <2>2. \A j \in 1 .. (y + 4) - (y + 1) + 1 :
          SubSeq(src, y + 1, y + 4)[j] = src[(y + 1) + j - 1]
    BY <2>1, SubSeqProperties
  <2> QED
    BY <2>2 DEF Four
<1> SUFFICES ASSUME NEW x \in i .. i + 3
             PROVE  src[x + 1] = src[x - (i - m) + 1]
  OBVIOUS
<1>2. x - i + 1 \in 1 .. 4 /\ i + (x - i + 1) = x + 1
      /\ m + (x - i + 1) = x - (i - m) + 1
  OBVIOUS
<1> QED
  BY <1>1, <1>2, SMTT(60)

LEMMA HashAtIs ==
  ASSUME src \in Sources, Len(src) \in Nat, NEW i \in Nat, i + 5 <= Len(src)
  PROVE  HashAt(i) \in HashValues
<1>1. i + 1 \in 1 .. Len(src) - 4
  OBVIOUS
<1>2. \A n \in {3, 4} : Hash(SubSeq(src, i + 1, i + 1 + n)) \in HashValues
  BY <1>1, HashAssumption
<1>3. i + 1 + 3 = i + 4 /\ i + 1 + 4 = i + 5
  OBVIOUS
<1> QED
  BY <1>2, <1>3 DEF HashAt

\* A position is never cut by its entry of the table.
LEMMA EntryIs ==
  ASSUME Len(src) \in Nat, NEW i \in Nat, i + MatchFindLimit <= Len(src)
  PROVE  Entry(i) = i /\ (ByU16 => i <= MaxDistance)
<1>1. MaxDistance \in Nat /\ MaxDistance + 1 \in Nat
  BY LimitsAssumption
<1>2. ByU16 => i < MaxDistance + 1
  BY <1>1 DEF ByU16, Limit64K, MatchFindLimit
<1>3. i < MaxDistance + 1 => i % (MaxDistance + 1) = i
  BY <1>1
<1> QED
  BY <1>1, <1>2, <1>3 DEF Entry

-----------------------------------------------------------------------------
(* What the operators that write a sequence put down.                      *)

LEMMA LengthBytesIs ==
  ASSUME NEW n \in Nat
  PROVE  LengthBytes(n) \in Seq(Bytes) /\ Len(LengthBytes(n)) = n \div 255 + 1
<1>1. n \div 255 + 1 \in Nat /\ n % 255 \in Bytes /\ 255 \in Bytes
  BY DEF Bytes
<1> DEFINE k == n \div 255 + 1
<1>2. LengthBytes(n) \in [1 .. k -> Bytes]
  BY <1>1 DEF LengthBytes
<1> HIDE DEF k
<1>3. k \in Nat
  BY <1>1 DEF k
<1>4. LengthBytes(n) \in Seq(Bytes)
  BY <1>2, <1>3, SeqDef
<1>5. DOMAIN LengthBytes(n) = 1 .. k /\ Len(LengthBytes(n)) \in Nat
      /\ DOMAIN LengthBytes(n) = 1 .. Len(LengthBytes(n))
  BY <1>2, <1>4, LenProperties
<1>6. Len(LengthBytes(n)) = k
  BY <1>3, <1>5
<1> QED
  BY <1>4, <1>6 DEF k

LEMMA LiteralHeadIs ==
  ASSUME NEW n \in Nat
  PROVE  /\ LiteralHead(n) \in Seq(Bytes)
         /\ Len(LiteralHead(n)) = IF n >= RunMask THEN 2 + (n - RunMask) \div 255
                                                  ELSE 1
         /\ LiteralHead(n)[1] <= RunMask * 16
<1>1. CASE n < RunMask
  <2>1. n * 16 \in Bytes /\ n * 16 <= RunMask * 16
    BY <1>1 DEF RunMask, Bytes
  <2>2. LiteralHead(n) = <<n * 16>>
    BY <1>1 DEF LiteralHead, RunMask
  <2> QED
    BY <1>1, <2>1, <2>2 DEF RunMask
<1>2. CASE n >= RunMask
  <2> DEFINE h == <<RunMask * 16>>
             t == LengthBytes(n - RunMask)
  <2>1. h \in Seq(Bytes) /\ Len(h) = 1 /\ h[1] = RunMask * 16
    BY DEF RunMask, Bytes
  <2>2. n - RunMask \in Nat
    BY <1>2 DEF RunMask
  <2>3. t \in Seq(Bytes) /\ Len(t) = (n - RunMask) \div 255 + 1
    BY <2>2, LengthBytesIs
  <2>4. LiteralHead(n) = h \o t
    BY <1>2 DEF LiteralHead
  <2> HIDE DEF h, t
  <2>5. /\ h \o t \in Seq(Bytes)
        /\ Len(h \o t) = Len(h) + Len(t)
        /\ \A i \in 1 .. Len(h) + Len(t) :
             (h \o t)[i] = IF i <= Len(h) THEN h[i] ELSE t[i - Len(h)]
    <3>1. h \in Seq(Bytes) /\ t \in Seq(Bytes)
      BY <2>1, <2>3
    <3> QED
      BY <3>1, ConcatProperties
  <2>6. (n - RunMask) \div 255 \in Nat
    BY <2>2
  <2>7. 1 \in 1 .. Len(h) + Len(t)
    BY <2>1, <2>3, <2>6
  <2>8. (h \o t)[1] = RunMask * 16
    BY <2>1, <2>5, <2>7
  <2>9. RunMask * 16 <= RunMask * 16
    BY DEF RunMask
  <2>10. Len(LiteralHead(n)) = 2 + (n - RunMask) \div 255
    BY <2>1, <2>3, <2>4, <2>5, <2>6
  <2>11. LiteralHead(n) \in Seq(Bytes) /\ LiteralHead(n)[1] <= RunMask * 16
    BY <2>4, <2>5, <2>8, <2>9
  <2> QED
    BY <1>2, <2>10, <2>11
<1> QED
  BY <1>1, <1>2 DEF RunMask

LEMMA MatchTailIs ==
  ASSUME NEW n \in Nat
  PROVE  /\ MatchTail(n) \in Seq(Bytes)
         /\ Len(MatchTail(n)) = IF n >= MatchMask THEN (n - MatchMask) \div 255 + 1
                                                  ELSE 0
<1>1. CASE n >= MatchMask
  <2>1. n - MatchMask \in Nat /\ MatchTail(n) = LengthBytes(n - MatchMask)
    BY <1>1 DEF MatchTail, MatchMask
  <2> QED
    BY <1>1, <2>1, LengthBytesIs
<1>2. CASE n < MatchMask
  BY <1>2, EmptySeq DEF MatchTail, MatchMask
<1> QED
  BY <1>1, <1>2 DEF MatchMask

LEMMA WildIs ==
  ASSUME NEW n \in Int, NEW chunk \in {8, 32}
  PROVE  /\ Wild(n, chunk) \in Nat
         /\ Wild(n, chunk) = chunk \/ Wild(n, chunk) <= n + chunk - 1
BY DEF Wild

LEMMA FurthestIs ==
  ASSUME NEW a \in Nat, NEW b \in Nat
  PROVE  /\ Furthest(a, b) \in Nat
         /\ \A c \in Int : a <= c /\ b <= c => Furthest(a, b) <= c
BY DEF Furthest

-----------------------------------------------------------------------------
(* The steps of the encoder.                                               *)

USE DEF MinMatch, WildLength, LastLiteralBytes, MatchFindLimit, MinLength,
        SafeguardDistance, FastDistance, RunMask, MatchMask, SkipTrigger

\* What the source and the destination of a call of the encoder allow.
LEMMA EncodingRoom ==
  ASSUME Types, Encoding
  PROVE  /\ src \in Seq(Bytes) /\ Len(src) \in Nat /\ Len(dst) \in Nat
         /\ ~ Limited => capacity >= Len(src) + Len(src) \div 255 + 16
         /\ Len(src) > 0 => src \in Sources
<1>1. src \in Seq(Bytes) /\ Len(src) \in Nat
  BY SourceIsBytes DEF Types
<1>2. Len(dst) \in Nat
  BY LenProperties DEF Types
<1>3. MaxInput \in Nat
  BY LimitsAssumption
<1>4. ~ Limited => capacity >= Len(src) + Len(src) \div 255 + 16
  BY <1>1, <1>3 DEF Encoding, Limited, CompressBound, Types
<1>5. Len(src) > 0 => src \in Sources
  BY EmptySeq DEF Types
<1> QED
  BY <1>1, <1>2, <1>4, <1>5

LEMMA InitInv == Init => BlockInv
<1> SUFFICES ASSUME Init PROVE BlockInv
  OBVIOUS
<1>1. Len(<<>>) = 0 /\ IsSeq(<<>>) /\ <<>> \in Seq(Bytes)
  BY EmptySeq DEF IsSeq, Range
<1>2. Types
  <2>1. 1 .. 0 = {} /\ src \in {<<>>} /\ Len(src) = 0 /\ Len(dst) = 0 /\ table \in [HashValues -> 0 .. 0]
    BY <1>1 DEF Init
  <2>2. IsSeq(out) /\ dst \in Seq(Bytes) /\ stage \in Stages
    BY <1>1 DEF Init, Stages
  <2> QED
    BY <2>1, <2>2 DEF Init, Types, Bytes
<1>3. Fresh
  BY DEF Init, Fresh
<1> QED
  BY <1>2, <1>3 DEF Init, BlockInv, EncoderStages, DecoderStages

LEMMA CompressStep ==
  ASSUME ShortWhenLimited, BlockInv, NEW c \in Calls,
         Compress(c.source, c.maxOutputSize, c.acceleration)
  PROVE  BlockInv'
<1> DEFINE s == c.source
<1>1. /\ Types /\ Fresh /\ stage = "idle"
      /\ dst = <<>> /\ reach = 0 /\ ip = 0 /\ anchor = 0 /\ token = 0 /\ match = 0
      /\ table = [h \in HashValues |-> 0]
  BY DEF BlockInv, Compress, Fresh
<1>2. s \in Sources /\ s \in Seq(Bytes) /\ Len(s) \in Nat
  <2>1. \A d \in Calls : d.source \in Seq(0 .. 255)
    BY CallsAssumption
  <2>2. s \in Sources /\ s \in Seq(Bytes)
    BY <2>1 DEF Sources, Bytes
  <2> QED
    BY <2>2, LenProperties
<1>3. c.maxOutputSize \in Nat /\ c.acceleration \in Int
  BY CallsAssumption
<1>4. c.maxOutputSize < CompressBound(Len(s)) => Len(s) <= 131072
  BY DEF ShortWhenLimited
<1> HIDE DEF s
<1>5. /\ src' = s /\ capacity' = c.maxOutputSize
      /\ accel' = IF c.acceleration < 1 THEN 1 ELSE c.acceleration
      /\ forward' = 1 /\ step' = 1 /\ tries' = accel' * 2 ^ SkipTrigger
      /\ UNCHANGED <<ip, anchor, table, match, token, dst, reach, result,
                     room, rp, code, length, offset, out>>
  BY DEF Compress, SearchFrom, encoderVars, decoderVars, s
<1>6. stage' = CASE Len(s) > MaxInput -> "failed"
                 [] Len(s) <= MaxInput /\ Len(s) < MinLength -> "last"
                 [] Len(s) <= MaxInput /\ Len(s) >= MinLength -> "find"
  BY DEF Compress, s
<1>7. MaxInput \in Nat
  BY LimitsAssumption
<1>8. accel' \in Nat \ {0} /\ tries' \in Nat /\ tries' >= 2 ^ SkipTrigger
  BY <1>3, <1>5
<1>9. \/ stage' = "failed" /\ Len(s) > MaxInput
      \/ stage' = "last" /\ Len(s) <= MaxInput
      \/ stage' = "find" /\ Len(s) <= MaxInput /\ Len(s) >= MinLength
  BY <1>2, <1>6, <1>7
<1>10. Types'
  <2>1. 0 \in 0 .. Len(s) /\ table' \in [HashValues -> 0 .. Len(s)]
    BY <1>1, <1>2, <1>5
  <2> QED
    BY <1>1, <1>2, <1>3, <1>5, <1>8, <1>9, <2>1 DEF Types, Stages, EncoderStages
<1>11. Fresh'
  BY <1>1, <1>5, <1>9 DEF BlockInv, Fresh, EncoderStages, Stages
<1>12. reach' <= capacity'
  BY <1>1, <1>3, <1>5
<1>13. Len(s) <= MaxInput => Encoding'
  BY <1>1, <1>3, <1>4, <1>5, <1>12 DEF Encoding, Limited
<1>14. stage' = "find" => AtFind'
  <2> SUFFICES ASSUME stage' = "find" PROVE AtFind'
    OBVIOUS
  <2>1. Len(s) >= MinLength /\ forward' \in 1 .. MatchFindEnd'
    BY <1>2, <1>5, <1>9 DEF MatchFindEnd
  <2>2. \A h \in HashValues : table'[h] < forward'
    BY <1>1, <1>5
  <2>3. Len(dst') = 0 /\ Encoded(anchor') = 0
    BY <1>1, <1>5 DEF Encoded
  <2> QED
    BY <1>1, <1>5, <1>8, <2>1, <2>2, <2>3 DEF AtFind
<1>15. AtLast'
  BY <1>1, <1>5 DEF AtLast, Encoded
<1> QED
  BY <1>9, <1>10, <1>11, <1>12, <1>13, <1>14, <1>15
     DEF BlockInv, EncoderStages, DecoderStages

\* Where the search can be, it hashes and may store the position.
LEMMA PositionIs ==
  ASSUME Types, Encoding, NEW i \in Nat, i < MatchFindEnd
  PROVE  /\ HashAt(i) \in HashValues
         /\ Entry(i) = i
         /\ i \in 0 .. Len(src)
         /\ \A m \in 0 .. i : IsMatch(m, i) =>
              i - m <= MaxDistance /\ Four(m) = Four(i)
<1>1. Len(src) \in Nat /\ i + MatchFindLimit <= Len(src) /\ i + 5 <= Len(src)
  BY EncodingRoom DEF MatchFindEnd
<1>2. src \in Sources
  BY <1>1, EncodingRoom
<1>3. HashAt(i) \in HashValues
  BY <1>1, <1>2, HashAtIs
<1>4. Entry(i) = i /\ (ByU16 => i <= MaxDistance)
  BY <1>1, EntryIs
<1>5. MaxDistance \in Nat
  BY LimitsAssumption
<1>6. \A m \in 0 .. i : IsMatch(m, i) => i - m <= MaxDistance /\ Four(m) = Four(i)
  BY <1>4, <1>5 DEF IsMatch
<1> QED
  BY <1>1, <1>3, <1>4, <1>6

LEMMA FindStep ==
  ASSUME BlockInv, Find
  PROVE  BlockInv'
<1>1. stage = "find" /\ Types /\ Fresh /\ Encoding /\ AtFind
  BY DEF BlockInv, Find, EncoderStages
<1>2. /\ ip' = forward /\ forward' = forward + step
      /\ step' = tries \div 2 ^ SkipTrigger /\ tries' = tries + 1
      /\ UNCHANGED <<src, capacity, accel, anchor, token, dst, reach, result,
                     room, rp, code, length, offset, out>>
  BY DEF Find, callVars, encoderVars, decoderVars
<1>3. Len(src) \in Nat
  BY <1>1, EncodingRoom
<1>4. forward \in 1 .. Len(src) /\ step' \in Nat \ {0} /\ tries' \in Nat
      /\ forward' \in Nat /\ forward < forward' /\ tries' >= 2 ^ SkipTrigger
  BY <1>1, <1>2, <1>3 DEF AtFind, Types, MatchFindEnd
<1>5. CASE forward' > MatchFindEnd
  <2>1. stage' = "last" /\ UNCHANGED <<table, match>>
    BY <1>5 DEF Find
  <2>2. Types'
    BY <1>1, <1>2, <1>4, <2>1 DEF Types, Stages, EncoderStages
  <2>3. Fresh'
    BY <1>1, <1>2, <2>1 DEF Fresh
  <2>4. Encoding' /\ AtLast'
    BY <1>1, <1>2 DEF Encoding, Limited, MatchEnd, AtFind, AtLast
  <2> QED
    BY <2>1, <2>2, <2>3, <2>4 DEF BlockInv, EncoderStages, DecoderStages
<1>6. CASE ~ forward' > MatchFindEnd
  <2> DEFINE h == HashAt(forward)
  <2>1. /\ match' = table[h]
        /\ table' = [table EXCEPT ![h] = Entry(forward)]
        /\ stage' = IF IsMatch(table[h], forward) THEN "literals" ELSE "find"
    BY <1>6 DEF Find
  <2>2. forward \in Nat /\ forward < MatchFindEnd /\ forward' <= MatchFindEnd
    BY <1>3, <1>4, <1>6 DEF MatchFindEnd
  <2>3. /\ h \in HashValues /\ Entry(forward) = forward /\ forward \in 0 .. Len(src)
        /\ \A m \in 0 .. forward : IsMatch(m, forward) =>
             forward - m <= MaxDistance /\ Four(m) = Four(forward)
    BY <1>1, <2>2, PositionIs
  <2> HIDE DEF h
  <2>4. table \in [HashValues -> 0 .. Len(src)] /\ \A g \in HashValues : table[g] < forward
    BY <1>1 DEF Types, AtFind
  <2>5. /\ table' \in [HashValues -> 0 .. Len(src)]
        /\ \A g \in HashValues : table'[g] <= forward
        /\ match' \in 0 .. Len(src) /\ match' \in 0 .. forward /\ match' < forward
    BY <1>3, <2>1, <2>2, <2>3, <2>4
  <2>6. stage' \in {"find", "literals"}
    BY <2>1
  <2>7. Types'
    BY <1>1, <1>2, <1>4, <2>3, <2>5, <2>6 DEF Types, Stages, EncoderStages
  <2>8. Fresh' /\ Encoding'
    BY <1>1, <1>2, <2>6 DEF Fresh, Encoding, Limited, MatchEnd
  <2>9. stage' = "find" => AtFind'
    BY <1>1, <1>2, <1>4, <2>2, <2>5, SMTT(60) DEF AtFind, MatchFindEnd, Types
  <2>10. stage' = "literals" => AtLiterals'
    <3> SUFFICES ASSUME stage' = "literals" PROVE AtLiterals'
      OBVIOUS
    <3>1. IsMatch(match', forward)
      BY <2>1
    <3>2. forward - match' <= MaxDistance /\ Four(match') = Four(forward)
      BY <2>3, <2>5, <3>1
    <3>3. Four(match)' = Four(ip)'
      BY <1>2, <3>2 DEF Four
    <3> QED
      BY <1>1, <1>2, <2>2, <2>5, <3>2, <3>3
         DEF AtLiterals, AtMatchFound, AtFind, MatchFindEnd
  <2> QED
    BY <2>6, <2>7, <2>8, <2>9, <2>10 DEF BlockInv, EncoderStages, DecoderStages
<1> QED
  BY <1>5, <1>6

LEMMA EncodeLiteralsStep ==
  ASSUME BlockInv, EncodeLiterals
  PROVE  BlockInv'
<1>1. stage = "literals" /\ Types /\ Fresh /\ Encoding /\ AtLiterals
  BY DEF BlockInv, EncodeLiterals, EncoderStages
<1> DEFINE k == CatchUp(ip, match)
           literals == SubSeq(src, anchor + 1, ip - k)
           n == Len(literals)
           head == LiteralHead(n)
<1>2. /\ ip' = ip - k /\ match' = match - k
      /\ UNCHANGED <<src, capacity, accel, anchor, forward, step, tries, table,
                     room, rp, code, length, offset, out>>
  BY DEF EncodeLiterals, callVars, decoderVars
<1>3. Len(src) \in Nat /\ src \in Seq(Bytes) /\ Len(dst) \in Nat
      /\ (~ Limited => capacity >= Len(src) + Len(src) \div 255 + 16)
  BY <1>1, EncodingRoom
<1>4. /\ anchor \in Nat /\ ip \in Nat /\ match \in Nat /\ anchor <= ip
      /\ ip < MatchFindEnd /\ match < ip /\ ip - match <= MaxDistance
      /\ match <= Len(src)
  BY <1>1, <1>3 DEF Types, AtLiterals, AtMatchFound
<1>5. /\ k \in 0 .. Len(src)
      /\ \A m \in 1 .. k : /\ ip - m >= anchor /\ match - m >= 0
                           /\ src[ip - m + 1] = src[match - m + 1]
  BY <1>3, <1>4, CatchUpIs DEF MatchFindEnd
<1>6. ip - k >= anchor /\ match - k >= 0
  BY <1>4, <1>5
<1> HIDE DEF k
<1>7. ip' = anchor + n /\ n \in Nat /\ literals \in Seq(Bytes)
  <2>1. \A i \in anchor + 1 .. ip - k : src[i] \in Bytes
    BY <1>3, <1>4, <1>5, ElementOfSeq DEF MatchFindEnd
  <2> QED
    BY <1>2, <1>4, <1>5, <1>6, <2>1, SubSeqProperties
<1>8. /\ head \in Seq(Bytes)
      /\ Len(head) = IF n >= RunMask THEN 2 + (n - RunMask) \div 255 ELSE 1
      /\ head[1] <= RunMask * 16
  BY <1>7, LiteralHeadIs
<1> DEFINE l == Len(dst)
           h == Len(head)
<1> HIDE DEF literals, n, head, l, h
<1>9. /\ l \in Nat /\ h \in Nat /\ h >= 1
      /\ h = IF n >= RunMask THEN 2 + (n - RunMask) \div 255 ELSE 1
  BY <1>3, <1>7, <1>8 DEF l, h
<1>10. ip' \in Nat /\ ip' \in 0 .. Len(src) /\ match' \in 0 .. Len(src) /\ anchor <= ip'
       /\ ip' <= ip /\ ip' - match' = ip - match
  BY <1>2, <1>3, <1>4, <1>5, <1>6 DEF MatchFindEnd
<1>11. l <= Encoded(anchor)
  BY <1>1 DEF AtLiterals, l
<1>12. /\ l + h + n <= Encoded(ip') + 2
       /\ h <= 2 + n \div 255
       /\ n <= WildLength => h = 1
  BY <1>4, <1>7, <1>9, <1>11 DEF Encoded
<1>13. CASE Limited /\ Len(dst) + 1 + n + (2 + 1 + LastLiteralBytes)
                           + n \div 255 > capacity
  <2>1. stage' = "failed" /\ result' = 0 /\ UNCHANGED <<token, dst, reach>>
    BY <1>13 DEF EncodeLiterals, Fail, k, literals, n
  <2>2. Types'
    BY <1>1, <1>2, <1>10, <2>1 DEF Types, Stages
  <2> QED
    BY <1>1, <1>2, <2>1, <2>2
       DEF BlockInv, EncoderStages, DecoderStages, Fresh, Encoding
<1>14. CASE ~ (Limited /\ Len(dst) + 1 + n + (2 + 1 + LastLiteralBytes)
                              + n \div 255 > capacity)
  <2>1. /\ stage' = "match"
        /\ token' = Len(dst)
        /\ dst' = dst \o head \o literals
        /\ reach' = Furthest(reach, Len(dst) + Len(head) + Wild(n, WildLength))
        /\ UNCHANGED result
    BY <1>14 DEF EncodeLiterals, k, literals, n, head
  <2>2. /\ dst' \in Seq(Bytes) /\ Len(dst') = l + h + n
        /\ dst'[token' + 1] = head[1]
    <3>1. dst \in Seq(Bytes)
      BY <1>1 DEF Types
    <3> DEFINE t == dst \o head
    <3>2. /\ t \in Seq(Bytes) /\ Len(t) = l + h
          /\ t[l + 1] = head[1]
      <4>1. /\ t \in Seq(Bytes) /\ Len(t) = Len(dst) + Len(head)
            /\ \A i \in 1 .. Len(dst) + Len(head) :
                 t[i] = IF i <= Len(dst) THEN dst[i] ELSE head[i - Len(dst)]
        BY <1>8, <3>1, ConcatProperties
      <4> HIDE DEF t
      <4>2. l + 1 \in 1 .. l + h /\ ~ l + 1 <= l /\ l + 1 - l = 1
        BY <1>9
      <4> QED
        BY <4>1, <4>2 DEF l, h
    <3> HIDE DEF t
    <3>3. /\ t \o literals \in Seq(Bytes) /\ Len(t \o literals) = Len(t) + n
          /\ \A i \in 1 .. Len(t) : (t \o literals)[i] = t[i]
      <4>1. t \in Seq(Bytes) /\ Len(t) \in Nat
        BY <3>2, LenProperties DEF t
      <4> QED
        BY <1>7, <4>1, ConcatProperties DEF n
    <3>4. l + 1 \in 1 .. l + h
      BY <1>9
    <3>5. dst' = t \o literals /\ token' = l
      BY <2>1 DEF t, l
    <3> QED
      BY <3>2, <3>3, <3>4, <3>5
  <2>3. token' \in 0 .. Len(dst') /\ token' < Len(dst')
    <3>1. l \in 0 .. l + h + n /\ l < l + h + n
      BY <1>7, <1>9
    <3> QED
      BY <2>1, <2>2, <3>1 DEF l
  <2> DEFINE w == Wild(n, WildLength)
  <2>4. w \in Nat /\ (w = WildLength \/ w <= n + WildLength - 1)
    BY <1>7, WildIs
  <2> HIDE DEF w
  <2>5. capacity \in Nat /\ reach \in Nat /\ reach <= capacity
    BY <1>1 DEF Types, Encoding
  <2>6. l + h + w <= capacity /\ (Limited => l + h + n + 2 <= capacity)
    <3>1. CASE Limited
      <4>1. ~ l + 1 + n + (2 + 1 + LastLiteralBytes) + n \div 255 > capacity
        BY <1>14, <3>1 DEF l
      <4> QED
        BY <1>7, <1>9, <1>12, <2>4, <2>5, <4>1
    <3>2. CASE ~ Limited
      <4> DEFINE N == Len(src)
      <4>1. N \in Nat /\ ip' \in Nat /\ ip' <= N - MatchFindLimit
            /\ capacity >= N + N \div 255 + 16
        BY <1>3, <1>4, <1>10, <3>2 DEF MatchFindEnd
      <4> HIDE DEF N
      <4> QED
        BY <1>7, <1>9, <1>12, <2>4, <2>5, <3>2, <4>1 DEF Encoded
    <3> QED
      BY <3>1, <3>2
  <2>7. reach' \in Nat /\ reach' <= capacity
    <3>1. reach' = Furthest(reach, l + h + w)
      BY <2>1 DEF w, l, h
    <3>2. l + h + w \in Nat
      BY <1>9, <2>4
    <3> QED
      BY <2>5, <2>6, <3>1, <3>2, FurthestIs
  <2>8. Types'
    <3>1. rp' = 0 /\ 0 \in 0 .. Len(dst')
      BY <1>1, <1>2, <2>3 DEF Fresh
    <3> QED
      BY <1>1, <1>2, <1>10, <2>1, <2>2, <2>3, <2>7, <3>1
         DEF Types, Stages, EncoderStages
  <2>9. Fresh' /\ Encoding'
    BY <1>1, <1>2, <2>1, <2>7 DEF Fresh, Encoding, Limited, MatchEnd
  <2>10. AtMatchFound'
    BY <1>2, <1>4, <1>10, <2>1, <1>3, SMTT(60) DEF AtMatchFound, MatchFindEnd
  <2>11. ASSUME NEW e \in HashValues
         PROVE  /\ table[e] < MatchFindEnd
                /\ \A x \in ip' .. table[e] + 3 :
                     src[x + 1] = src[x - (ip' - match') + 1]
    <3>1. table[e] \in Nat /\ table[e] <= ip
      BY <1>1 DEF Types, AtLiterals
    <3>2. table[e] < MatchFindEnd
      BY <1>3, <1>4, <3>1 DEF MatchFindEnd
    <3>3. SUFFICES ASSUME NEW x \in ip' .. table[e] + 3
                   PROVE  src[x + 1] = src[x - (ip - match) + 1]
      BY <1>10, <3>2, SMTT(30)
    <3>4. CASE x >= ip
      <4>1. x \in ip .. ip + 3
        BY <1>4, <1>10, <3>1, <3>4
      <4> QED
        BY <1>1, <1>4, <4>1, FourIs DEF AtLiterals
    <3>5. CASE x < ip
      <4>1. ip - x \in 1 .. k
        BY <1>2, <1>4, <1>5, <1>10, <3>1, <3>5
      <4>2. src[ip - (ip - x) + 1] = src[match - (ip - x) + 1]
        BY <1>5, <4>1
      <4>3. ip - (ip - x) = x /\ match - (ip - x) = x - (ip - match)
        BY <1>4, <1>10, <3>1
      <4> QED
        BY <4>2, <4>3
    <3> QED
      BY <1>4, <1>10, <3>1, <3>4, <3>5
  <2>12. Limited => Len(dst') + 2 <= capacity
    BY <2>2, <2>6
  <2>13. AtMatch'
    <3>1. \A e \in HashValues :
            /\ table'[e] < MatchFindEnd'
            /\ \A x \in ip' .. table'[e] + 3 :
                 src'[x + 1] = src'[x - (ip' - match') + 1]
      BY <1>2, <2>11 DEF MatchFindEnd
    <3>2. Len(dst') <= Encoded(ip') + 2 /\ dst'[token' + 1] <= RunMask * 16
      BY <1>8, <1>12, <2>2
    <3>3. Limited' => Len(dst') + 2 <= capacity'
      BY <1>2, <2>12 DEF Limited
    <3> QED
      BY <2>3, <2>10, <3>1, <3>2, <3>3 DEF AtMatch
  <2> QED
    BY <2>1, <2>8, <2>9, <2>13 DEF BlockInv, EncoderStages, DecoderStages
<1> QED
  BY <1>13, <1>14

LEMMA EncodeMatchStep ==
  ASSUME BlockInv, EncodeMatch
  PROVE  BlockInv'
<1>1. stage = "match" /\ Types /\ Fresh /\ Encoding /\ AtMatch /\ AtMatchFound
  BY DEF BlockInv, EncodeMatch, EncoderStages, AtMatch
<1> DEFINE n == Count(ip + MinMatch, match + MinMatch)
           back == ip - match
           op == Len(dst) + 2
           behind == ip + MinMatch + n
           l == Len(dst)
           N == Len(src)
           v == IF MatchFits(op, n) THEN IF n < MatchMask THEN n ELSE MatchMask ELSE 0
           tail == IF MatchFits(op, n) THEN MatchTail(n) ELSE <<>>
<1>2. /\ dst' = [dst EXCEPT ![token + 1] = @ + v]
                  \o <<back % 256, back \div 256>> \o tail
      /\ ip' = behind
      /\ UNCHANGED <<src, capacity, accel, forward, step, tries, table, match, token,
                     room, rp, code, length, offset, out>>
  BY DEF EncodeMatch, callVars, decoderVars
<1>3. N \in Nat /\ l \in Nat /\ (~ Limited => capacity >= N + N \div 255 + 16)
  BY <1>1, EncodingRoom
<1>4. /\ ip \in Nat /\ match \in Nat /\ ip < MatchFindEnd
      /\ match < ip /\ ip - match <= MaxDistance
  BY <1>1, <1>3 DEF Types, AtMatchFound
<1>5. /\ n \in 0 .. N
      /\ \A m \in 0 .. n - 1 : ip + MinMatch + m < MatchEnd
      /\ \/ behind >= MatchEnd
         \/ src[behind + 1] # src[match + MinMatch + n + 1]
  <2>1. ip + MinMatch \in Nat /\ match + MinMatch \in Nat
    BY <1>4
  <2> QED
    BY <1>3, <2>1, CountIs
<1>6. behind \in Nat /\ behind <= MatchEnd /\ behind >= ip + MinMatch /\ behind \in 0 .. N
  <2>1. CASE n = 0
    BY <1>3, <1>4, <2>1 DEF MatchEnd, MatchFindEnd
  <2>2. CASE n # 0
    <3>1. n - 1 \in 0 .. n - 1 /\ n \in Nat
      BY <1>3, <1>5, <2>2
    <3>2. ip + MinMatch + (n - 1) < MatchEnd
      BY <1>5, <3>1
    <3> HIDE DEF n
    <3> QED
      BY <1>3, <1>4, <3>1, <3>2 DEF MatchEnd
  <2> QED
    BY <2>1, <2>2
<1>7. \A h \in HashValues : table[h] < behind
  <2> SUFFICES ASSUME NEW h \in HashValues, table[h] >= behind
               PROVE  FALSE
    <3>1. \A h \in HashValues : table[h] \in Nat
      BY <1>1, <1>3 DEF Types
    <3> HIDE DEF behind
    <3> QED
      BY <1>6, <3>1
  <2>1. /\ table[h] \in Nat /\ table[h] < MatchFindEnd
        /\ \A x \in ip .. table[h] + 3 : src[x + 1] = src[x - (ip - match) + 1]
    BY <1>1, <1>3 DEF Types, AtMatch
  <2>2. behind \in ip .. table[h] + 3 /\ ~ behind >= MatchEnd
    <3> HIDE DEF behind, n
    <3> QED
      BY <1>3, <1>4, <1>6, <2>1 DEF MatchFindEnd, MatchEnd
  <2>3. behind - (ip - match) = match + MinMatch + n
    <3> HIDE DEF n
    <3> QED
      BY <1>4, <1>5
  <2> QED
    BY <1>5, <2>1, <2>2, <2>3
<1>8. n \in Nat /\ op = l + 2 /\ behind = ip + MinMatch + n
  BY <1>5
<1> HIDE DEF n, l, N, op, behind
<1>9. /\ capacity \in Nat /\ reach \in Nat /\ reach <= capacity
      /\ token \in Nat /\ token < l
      /\ dst \in Seq(Bytes) /\ dst[token + 1] \in 0 .. RunMask * 16
      /\ l <= Encoded(ip) + 2
      /\ Limited => l + 2 <= capacity /\ N <= 131072
  <2>1. token \in Nat /\ token < l /\ dst \in Seq(Bytes) /\ dst[token + 1] <= RunMask * 16
    BY <1>1, <1>3 DEF AtMatch, Types, l
  <2>2. dst[token + 1] \in Bytes
    <3>1. token + 1 \in 1 .. l
      BY <1>3, <2>1
    <3> QED
      BY <2>1, <3>1, ElementOfSeq DEF l
  <2> DEFINE b == dst[token + 1]
  <2>3. b \in 0 .. RunMask * 16
    <3>1. b \in Bytes /\ b <= RunMask * 16
      BY <2>1, <2>2
    <3> HIDE DEF b
    <3> QED
      BY <3>1 DEF Bytes
  <2> QED
    BY <1>1, <2>1, <2>3 DEF Types, Encoding, AtMatch, l, N
<1>10. /\ dst' \in Seq(Bytes)
       /\ Len(dst') = l + 2 + Len(tail)
       /\ tail \in Seq(Bytes)
       /\ Len(tail) = IF MatchFits(op, n) /\ n >= MatchMask
                      THEN (n - MatchMask) \div 255 + 1 ELSE 0
  <2>1. v \in 0 .. MatchMask
    BY <1>8
  <2> HIDE DEF v
  <2> DEFINE s == [dst EXCEPT ![token + 1] = @ + v]
             o == <<back % 256, back \div 256>>
  <2>2. s \in Seq(Bytes) /\ Len(s) = l
    <3>1. dst[token + 1] + v \in Bytes
      <4> DEFINE b == dst[token + 1]
      <4>1. b \in 0 .. RunMask * 16
        BY <1>9
      <4> HIDE DEF b
      <4>2. b + v \in Bytes
        BY <2>1, <4>1 DEF Bytes
      <4> QED
        BY <4>2 DEF b
    <3>2. token + 1 \in 1 .. Len(dst)
      BY <1>3, <1>9 DEF l
    <3>3. s = [dst EXCEPT ![token + 1] = dst[token + 1] + v]
      OBVIOUS
    <3> QED
      BY <1>9, <3>1, <3>2, <3>3, ExceptSeq DEF l
  <2>3. o \in Seq(Bytes) /\ Len(o) = 2
    <3>1. back \in Nat /\ back < 256 * 256
      <4>1. MaxDistance \in Nat /\ MaxDistance <= 65535
        BY LimitsAssumption
      <4> QED
        BY <1>4, <4>1
    <3> HIDE DEF back
    <3>2. back % 256 \in Bytes /\ back \div 256 \in Bytes
      BY <3>1 DEF Bytes
    <3> QED
      BY <3>2
  <2>4. /\ tail \in Seq(Bytes)
        /\ Len(tail) = IF MatchFits(op, n) /\ n >= MatchMask
                       THEN (n - MatchMask) \div 255 + 1 ELSE 0
    BY <1>8, MatchTailIs, EmptySeq
  <2>5. dst' = s \o o \o tail
    BY <1>2
  <2> HIDE DEF s, o, tail
  <2>6. s \o o \in Seq(Bytes) /\ Len(s \o o) = l + 2
    <3>1. s \o o \in Seq(Bytes) /\ Len(s \o o) = Len(s) + Len(o)
      BY <2>2, <2>3, ConcatProperties
    <3> QED
      BY <2>2, <2>3, <3>1
  <2> DEFINE t == s \o o
  <2> HIDE DEF t
  <2>7. t \o tail \in Seq(Bytes) /\ Len(t \o tail) = Len(t) + Len(tail)
    BY <2>4, <2>6, ConcatProperties DEF t
  <2> QED
    BY <2>4, <2>5, <2>6, <2>7 DEF t
<1> DEFINE t == Len(tail)
           r == MatchTailReach(n)
\* The check leaves room for the length bytes and a token, in short blocks.
<1>11. /\ t \in Nat /\ t <= n /\ r \in Nat /\ r <= n
       /\ n <= 131072 => t <= 3 + n \div 256 /\ r <= 6 + n \div 256
       /\ Len(dst') = l + 2 + t
  <2> DEFINE u == IF n >= MatchMask THEN (n - MatchMask) \div 255 + 1 ELSE 0
  <2>1. u \in Nat /\ (t = u \/ t = 0)
    BY <1>8, <1>10
  <2>2. /\ u <= n /\ r \in Nat /\ r <= n
        /\ n <= 131072 => u <= 3 + n \div 256 /\ r <= 6 + n \div 256
    BY <1>8 DEF MatchTailReach
  <2>3. Len(dst') = l + 2 + t
    BY <1>10
  <2> HIDE DEF t, r, u
  <2> QED
    BY <1>8, <2>1, <2>2, <2>3
<1> HIDE DEF t, r, tail, v, back
<1>12. /\ token' \in 0 .. Len(dst') /\ rp' = 0 /\ 0 \in 0 .. Len(dst')
  BY <1>1, <1>2, <1>3, <1>9, <1>11 DEF Fresh
<1>13. /\ behind \in Nat /\ behind <= N /\ n <= N
       /\ Encoded(behind) <= N + N \div 255
       /\ l + 2 + t <= Encoded(behind) /\ l + 2 + r <= Encoded(behind)
  <2>1. behind \in Nat /\ behind <= N
    BY <1>3, <1>6
  <2> QED
    BY <1>3, <1>4, <1>8, <1>9, <1>11, <2>1 DEF Encoded
<1>14. CASE ~ MatchFits(op, n)
  <2>1. stage' = "failed" /\ result' = 0 /\ reach' = Furthest(reach, op)
        /\ UNCHANGED anchor
    BY <1>14 DEF EncodeMatch, Fail, n, op, l
  <2>2. op \in Nat /\ op <= capacity
    BY <1>3, <1>8, <1>9, <1>14 DEF MatchFits
  <2>3. reach' \in Nat /\ reach' <= capacity
    BY <1>9, <2>1, <2>2, FurthestIs
  <2>4. Types'
    BY <1>1, <1>2, <1>6, <1>10, <1>12, <2>1, <2>3 DEF Types, Stages, N
  <2> QED
    BY <1>1, <1>2, <2>1, <2>3, <2>4
       DEF BlockInv, EncoderStages, DecoderStages, Fresh, Encoding
<1>15. CASE MatchFits(op, n)
  <2>1. /\ stage' = IF behind >= MatchFindEnd THEN "last" ELSE "next"
        /\ anchor' = behind
        /\ reach' = Furthest(reach, Furthest(Len(dst'), op + r))
        /\ UNCHANGED result
    BY <1>15 DEF EncodeMatch, n, op, l, behind, r
  <2>2. Limited => l + 2 + 6 + n \div 256 <= capacity /\ n <= 131072
    BY <1>3, <1>8, <1>9, <1>13, <1>15 DEF MatchFits
  <2>3. /\ l + 2 + t <= capacity /\ op + r <= capacity
        /\ Limited => l + 2 + t + 3 <= capacity
    <3>1. CASE Limited
      BY <1>3, <1>8, <1>9, <1>11, <2>2, <3>1
    <3>2. CASE ~ Limited
      BY <1>3, <1>8, <1>9, <1>11, <1>13, <3>2, SMTT(60) DEF Encoded
    <3> QED
      BY <3>1, <3>2
  <2>4. reach' \in Nat /\ reach' <= capacity
    <3> DEFINE x == l + 2 + t
               y == op + r
    <3>1. x \in Nat /\ y \in Nat /\ x <= capacity /\ y <= capacity
      BY <1>3, <1>8, <1>11, <2>3
    <3>2. reach' = Furthest(reach, Furthest(x, y))
      BY <1>11, <2>1
    <3> HIDE DEF x, y
    <3>3. Furthest(x, y) \in Nat /\ Furthest(x, y) <= capacity
      BY <3>1 DEF Furthest
    <3> QED
      BY <1>9, <3>2, <3>3, FurthestIs
  <2>5. stage' \in {"last", "next"}
    BY <2>1
  <2>6. Types'
    BY <1>1, <1>2, <1>6, <1>10, <1>12, <2>1, <2>4, <2>5
       DEF Types, Stages, EncoderStages, N
  <2>7. Fresh' /\ Encoding'
    BY <1>1, <1>2, <1>6, <2>1, <2>4, <2>5 DEF Fresh, Encoding, Limited, MatchEnd
  <2>8. stage' = "last" => AtLast'
    BY <1>11, <1>13, <2>1 DEF AtLast
  <2>9. stage' = "next" => AtNext'
    <3> SUFFICES ASSUME stage' = "next" PROVE AtNext'
      OBVIOUS
    <3>1. behind \in MinMatch .. MatchFindEnd - 1
      <4>1. MatchFindEnd \in Int /\ ~ behind >= MatchFindEnd
        BY <1>3, <2>1 DEF MatchFindEnd, N
      <4> QED
        BY <1>4, <1>8, <1>13, <4>1
    <3>2. Len(dst') <= Encoded(behind) /\ (Limited => Len(dst') + 3 <= capacity)
      BY <1>11, <1>13, <2>3
    <3>3. Limited' = Limited /\ MatchFindEnd' = MatchFindEnd
      BY <1>2 DEF Limited, MatchFindEnd
    <3> QED
      BY <1>2, <1>7, <2>1, <3>1, <3>2, <3>3 DEF AtNext
  <2> QED
    BY <2>5, <2>6, <2>7, <2>8, <2>9 DEF BlockInv, EncoderStages, DecoderStages
<1> QED
  BY <1>14, <1>15

LEMMA NextPositionStep ==
  ASSUME BlockInv, NextPosition
  PROVE  BlockInv'
<1>1. stage = "next" /\ Types /\ Fresh /\ Encoding /\ AtNext
  BY DEF BlockInv, NextPosition, EncoderStages
<1> DEFINE g == HashAt(ip - 2)
           filled == [table EXCEPT ![g] = Entry(ip - 2)]
           h == HashAt(ip)
           l == Len(dst)
<1>2. /\ table' = [filled EXCEPT ![h] = Entry(ip)]
      /\ match' = filled[h]
      /\ UNCHANGED <<src, capacity, accel, anchor, result, room, rp, code, length,
                     offset, out>>
  BY DEF NextPosition, callVars, decoderVars
<1>3. /\ Len(src) \in Nat /\ l \in Nat
      /\ (~ Limited => capacity >= Len(src) + Len(src) \div 255 + 16)
  BY <1>1, EncodingRoom
<1>4. /\ anchor = ip /\ ip \in Nat /\ ip >= MinMatch /\ ip < MatchFindEnd
      /\ MatchFindEnd \in Int /\ ip - 2 \in Nat /\ ip - 2 < MatchFindEnd
      /\ \A x \in HashValues : table[x] < ip
  BY <1>1, <1>3 DEF AtNext, MatchFindEnd
<1>5. g \in HashValues /\ Entry(ip - 2) = ip - 2 /\ ip - 2 \in 0 .. Len(src)
  BY <1>1, <1>4, PositionIs
<1>6. /\ h \in HashValues /\ Entry(ip) = ip /\ ip \in 0 .. Len(src)
      /\ \A m \in 0 .. ip : IsMatch(m, ip) =>
           ip - m <= MaxDistance /\ Four(m) = Four(ip)
  BY <1>1, <1>4, PositionIs
<1>7. table \in [HashValues -> 0 .. Len(src)]
  BY <1>1 DEF Types
<1> HIDE DEF g, h
<1>8. /\ filled \in [HashValues -> 0 .. Len(src)]
      /\ \A x \in HashValues : filled[x] < ip
  BY <1>4, <1>5, <1>7
<1> HIDE DEF filled
<1>9. /\ table' \in [HashValues -> 0 .. Len(src)]
      /\ \A x \in HashValues : table'[x] <= ip
      /\ match' \in 0 .. Len(src) /\ match' \in 0 .. ip /\ match' < ip
  BY <1>2, <1>3, <1>4, <1>6, <1>8
<1>10. /\ capacity \in Nat /\ reach \in Nat /\ reach <= capacity
       /\ dst \in Seq(Bytes) /\ l <= Encoded(ip) /\ (Limited => l + 3 <= capacity)
       /\ token \in 0 .. l /\ rp = 0
       /\ accel \in Nat \ {0} /\ tries \in Nat
  BY <1>1 DEF Types, Encoding, AtNext, Fresh
<1>11. l + 1 <= capacity
  <2>1. CASE Limited
    BY <1>3, <1>10, <2>1
  <2>2. CASE ~ Limited
    <3> DEFINE N == Len(src)
    <3>1. N \in Nat /\ capacity >= N + N \div 255 + 16 /\ ip <= N
      BY <1>3, <1>6, <2>2
    <3> HIDE DEF N, l
    <3>2. l \in Nat
      BY <1>3 DEF l
    <3> QED
      BY <1>4, <1>10, <3>1, <3>2 DEF Encoded
  <2> QED
    BY <2>1, <2>2
<1>12. CASE IsMatch(filled[h], ip)
  <2>1. /\ stage' = "match" /\ token' = l /\ dst' = Append(dst, 0)
        /\ reach' = Furthest(reach, l + 1)
        /\ UNCHANGED <<ip, forward, step, tries>>
    BY <1>12 DEF NextPosition, filled, g, h
  <2>2. ip - match' <= MaxDistance /\ Four(match') = Four(ip)
    BY <1>2, <1>6, <1>9, <1>12
  <2>3. /\ dst' \in Seq(Bytes) /\ Len(dst') = l + 1 /\ dst'[token' + 1] = 0
    <3>1. 0 \in Bytes
      BY DEF Bytes
    <3> QED
      BY <1>3, <1>10, <2>1, <3>1, AppendProperties
  <2> HIDE DEF l
  <2>4. token' \in 0 .. Len(dst') /\ token' < Len(dst') /\ 0 \in 0 .. Len(dst')
    <3>1. l \in 0 .. l + 1 /\ l < l + 1 /\ 0 \in 0 .. l + 1
      BY <1>3 DEF l
    <3> QED
      BY <2>1, <2>3, <3>1
  <2>5. reach' \in Nat /\ reach' <= capacity
    <3>1. l + 1 \in Nat
      BY <1>3 DEF l
    <3> QED
      BY <1>10, <1>11, <2>1, <3>1, FurthestIs DEF l
  <2>6. Types'
    BY <1>1, <1>2, <1>6, <1>9, <1>10, <2>1, <2>3, <2>4, <2>5
       DEF Types, Stages, EncoderStages
  <2>7. Fresh' /\ Encoding'
    BY <1>1, <1>2, <2>1, <2>5 DEF Fresh, Encoding, Limited, MatchEnd
  <2>8. AtMatchFound'
    BY <1>2, <1>3, <1>4, <1>9, <2>1, <2>2 DEF AtMatchFound, MatchFindEnd
  <2>9. \A x \in HashValues :
          /\ table'[x] < MatchFindEnd'
          /\ \A y \in ip' .. table'[x] + 3 :
               src'[y + 1] = src'[y - (ip' - match') + 1]
    <3> SUFFICES ASSUME NEW x \in HashValues
                 PROVE  /\ table'[x] < MatchFindEnd
                        /\ \A y \in ip .. table'[x] + 3 :
                             src[y + 1] = src[y - (ip - match') + 1]
      BY <1>2, <2>1 DEF MatchFindEnd
    <3>1. table'[x] \in Nat /\ table'[x] <= ip
      BY <1>3, <1>9
    <3>2. \A y \in ip .. ip + 3 : src[y + 1] = src[y - (ip - match') + 1]
      <4>1. ip \in Int /\ match' \in Int
        BY <1>4, <1>9
      <4> QED
        BY <2>2, <4>1, FourIs
    <3>3. ip .. table'[x] + 3 \subseteq ip .. ip + 3
      BY <1>4, <3>1
    <3> QED
      BY <1>4, <3>1, <3>2, <3>3
  <2>10. /\ Len(dst') <= Encoded(ip') + 2 /\ dst'[token' + 1] <= RunMask * 16
         /\ Limited' => Len(dst') + 2 <= capacity'
    <3>1. l \in Nat /\ Encoded(ip) \in Nat
      BY <1>3, <1>4 DEF l, Encoded
    <3>2. Limited' = Limited
      BY <1>2 DEF Limited
    <3>3. Len(dst') = l + 1 /\ l <= Encoded(ip) /\ (Limited => l + 3 <= capacity)
      BY <1>10, <2>3 DEF l
    <3> QED
      BY <1>2, <1>10, <2>1, <2>3, <3>1, <3>2, <3>3
  <2>11. AtMatch'
    BY <2>4, <2>8, <2>9, <2>10 DEF AtMatch
  <2> QED
    BY <2>1, <2>6, <2>7, <2>11 DEF BlockInv, EncoderStages, DecoderStages
<1>13. CASE ~ IsMatch(filled[h], ip)
  <2>1. /\ stage' = "find" /\ ip' = ip + 1
        /\ forward' = ip + 1 /\ step' = 1 /\ tries' = accel * 2 ^ SkipTrigger
        /\ UNCHANGED <<token, dst, reach>>
    BY <1>13 DEF NextPosition, SearchFrom, filled, g, h
  <2>2. ip + 1 \in Nat /\ ip + 1 \in 0 .. Len(src) /\ ip + 1 \in 1 .. MatchFindEnd
    BY <1>3, <1>4 DEF MatchFindEnd
  <2>3. tries' \in Nat /\ tries' >= 2 ^ SkipTrigger
    BY <1>10, <2>1
  <2>4. Types'
    BY <1>1, <1>2, <1>9, <1>10, <2>1, <2>2, <2>3
       DEF Types, Stages, EncoderStages
  <2>5. Fresh' /\ Encoding'
    BY <1>1, <1>2, <2>1 DEF Fresh, Encoding, Limited, MatchEnd
  <2>6. AtFind'
    <3>1. \A x \in HashValues : table'[x] < ip + 1
      BY <1>3, <1>4, <1>9
    <3>2. Len(src) >= MinLength /\ anchor <= ip + 1
      BY <1>3, <1>4 DEF MatchFindEnd
    <3> QED
      BY <1>2, <1>4, <1>10, <2>1, <2>2, <2>3, <3>1, <3>2 DEF AtFind, MatchFindEnd
  <2> QED
    BY <2>1, <2>4, <2>5, <2>6 DEF BlockInv, EncoderStages, DecoderStages
<1> QED
  BY <1>12, <1>13

LEMMA LastLiteralsStep ==
  ASSUME BlockInv, LastLiterals
  PROVE  BlockInv'
<1>1. stage = "last" /\ Types /\ Fresh /\ Encoding /\ AtLast
  BY DEF BlockInv, LastLiterals, EncoderStages
<1> DEFINE literals == SubSeq(src, anchor + 1, Len(src))
           n == Len(literals)
           head == LiteralHead(n)
           l == Len(dst)
           N == Len(src)
<1>2. UNCHANGED <<src, capacity, accel, ip, anchor, forward, step, tries, table,
                  match, token, room, rp, code, length, offset, out>>
  BY DEF LastLiterals, callVars, searchVars, decoderVars
<1>3. /\ N \in Nat /\ l \in Nat /\ src \in Seq(Bytes)
      /\ (~ Limited => capacity >= N + N \div 255 + 16)
  BY <1>1, EncodingRoom
<1>4. /\ anchor \in 0 .. N /\ capacity \in Nat /\ reach \in Nat /\ reach <= capacity
      /\ dst \in Seq(Bytes) /\ l <= Encoded(anchor) /\ token \in 0 .. l /\ rp = 0
  BY <1>1 DEF Types, Encoding, AtLast, Fresh
<1>5. anchor + n = N /\ n \in Nat /\ literals \in Seq(Bytes)
  <2>1. \A i \in anchor + 1 .. N : src[i] \in Bytes
    BY <1>3, <1>4, ElementOfSeq
  <2> QED
    BY <1>3, <1>4, <2>1, SubSeqProperties
<1>6. head \in Seq(Bytes)
      /\ Len(head) = IF n >= RunMask THEN 2 + (n - RunMask) \div 255 ELSE 1
  BY <1>5, LiteralHeadIs
<1> DEFINE h == Len(head)
<1> HIDE DEF literals, n, head, l, N, h
<1>7. /\ h \in Nat /\ h >= 1
      /\ h = IF n >= RunMask THEN 2 + (n - RunMask) \div 255 ELSE 1
  BY <1>5, <1>6 DEF h
<1>8. CASE Limited /\ l + n + 1 + (n + 255 - RunMask) \div 255 > capacity
  <2>1. stage' = "failed" /\ result' = 0 /\ UNCHANGED <<dst, reach>>
    BY <1>8 DEF LastLiterals, Fail, literals, n, l
  <2>2. Types'
    BY <1>1, <1>2, <2>1 DEF Types, Stages
  <2> QED
    BY <1>1, <1>2, <1>4, <2>1, <2>2 DEF BlockInv, EncoderStages, DecoderStages, Fresh
<1>9. CASE ~ (Limited /\ l + n + 1 + (n + 255 - RunMask) \div 255 > capacity)
  <2>1. /\ stage' = "compressed"
        /\ dst' = dst \o head \o literals
        /\ reach' = Furthest(reach, Len(dst'))
        /\ result' = Len(dst')
    BY <1>9 DEF LastLiterals, literals, n, head, l
  <2>2. dst' \in Seq(Bytes) /\ Len(dst') = l + h + n
    <3> DEFINE t == dst \o head
    <3>1. t \in Seq(Bytes) /\ Len(t) = l + h
      BY <1>4, <1>6, ConcatProperties DEF l, h
    <3> HIDE DEF t
    <3>2. t \o literals \in Seq(Bytes) /\ Len(t \o literals) = Len(t) + n
      BY <1>5, <3>1, ConcatProperties DEF n
    <3> QED
      BY <2>1, <3>1, <3>2 DEF t
  <2>3. l + h + n <= capacity
    <3>1. CASE Limited
      BY <1>3, <1>4, <1>5, <1>7, <1>9, <3>1
    <3>2. CASE ~ Limited
      BY <1>3, <1>4, <1>5, <1>7, <3>2 DEF Encoded
    <3> QED
      BY <3>1, <3>2
  <2> DEFINE d == l + h + n
  <2>4. d \in Nat /\ d >= 1 /\ d <= capacity /\ token \in 0 .. d /\ 0 \in 0 .. d
    BY <1>3, <1>4, <1>5, <1>7, <2>3
  <2>5. Len(dst') = d
    BY <2>2
  <2> HIDE DEF d
  <2>6. reach' \in Nat /\ reach' <= capacity /\ result' \in Int
    BY <1>4, <2>1, <2>4, <2>5 DEF Furthest
  <2>7. dst' # <<>>
    <3>1. Len(dst') # 0
      BY <2>4, <2>5
    <3> QED
      BY <3>1, EmptySeq
  <2>8. Types'
    BY <1>1, <1>2, <1>4, <2>1, <2>2, <2>4, <2>5, <2>6 DEF Types, Stages
  <2> QED
    BY <1>1, <1>2, <2>1, <2>6, <2>7, <2>8 DEF BlockInv, EncoderStages, DecoderStages, Fresh
<1> QED
  BY <1>8, <1>9

-----------------------------------------------------------------------------
(* What the operators of the decoder read and write.                       *)

LEMMA DecodingIs ==
  ASSUME Types, Decoding
  PROVE  /\ dst \in Seq(Bytes) /\ IsSeq(out)
         /\ StreamEnd \in Nat /\ StreamEnd >= 1 /\ rp \in Nat /\ rp <= StreamEnd
         /\ Op \in Nat /\ Op <= room /\ room \in Nat
         /\ reach \in Nat /\ reach <= room
<1>1. dst \in Seq(Bytes) /\ IsSeq(out) /\ dst # <<>>
  BY DEF Types, Decoding
<1>2. StreamEnd \in Nat /\ Op \in Nat
  BY <1>1, LenProperties DEF StreamEnd, Op, IsSeq
<1>3. StreamEnd # 0
  BY <1>1, EmptySeq DEF StreamEnd
<1> QED
  BY <1>1, <1>2, <1>3 DEF Types, Decoding, StreamEnd

LEMMA ByteOfStream ==
  ASSUME dst \in Seq(Bytes), NEW p \in Nat, p < StreamEnd
  PROVE  dst[p + 1] \in Bytes
<1>1. StreamEnd \in Nat
  BY LenProperties DEF StreamEnd
<1>2. p + 1 \in 1 .. Len(dst)
  BY <1>1 DEF StreamEnd
<1> QED
  BY <1>2, ElementOfSeq

LEMMA LiteralLengthIs ==
  ASSUME dst \in Seq(Bytes), NEW c \in Bytes, NEW p \in Nat, p <= StreamEnd,
         ~ LiteralLengthCut(c, p)
  PROVE  /\ LiteralLength(c, p) \in Nat
         /\ c \div 16 # RunMask => LiteralLength(c, p) < RunMask
         /\ c \div 16 # RunMask => BehindLiteralLength(c, p) = p
         /\ BehindLiteralLength(c, p) \in p .. StreamEnd
<1>1. StreamEnd \in Nat
  BY LenProperties DEF StreamEnd
<1>2. c \in 0 .. 255
  BY DEF Bytes
<1>3. CASE c \div 16 = RunMask
  <2>1. p < StreamEnd /\ StreamEnd - RunMask \in Int /\ StreamEnd - RunMask <= StreamEnd
    BY <1>1, <1>3 DEF LiteralLengthCut
  <2> DEFINE r == LengthRead(p, StreamEnd - RunMask)
             s == LengthSum(p, StreamEnd - RunMask)
  <2>2. r \in 1 .. StreamEnd - p /\ s \in Nat
    BY <2>1, LengthReadIs
  <2>3. LiteralLength(c, p) = RunMask + s /\ BehindLiteralLength(c, p) = p + r
    BY <1>3 DEF LiteralLength, BehindLiteralLength
  <2> HIDE DEF r, s
  <2> QED
    BY <1>1, <1>3, <2>1, <2>2, <2>3
<1>4. CASE c \div 16 # RunMask
  <2>1. LiteralLength(c, p) = c \div 16 /\ BehindLiteralLength(c, p) = p
    BY <1>4 DEF LiteralLength, BehindLiteralLength
  <2>2. c \div 16 \in Nat /\ c \div 16 < RunMask
    BY <1>2, <1>4
  <2>3. p \in p .. StreamEnd
    BY <1>1
  <2> QED
    BY <2>1, <2>2, <2>3
<1> QED
  BY <1>3, <1>4

LEMMA MatchLengthIs ==
  ASSUME dst \in Seq(Bytes), NEW ml \in Nat, NEW p \in Nat, p < StreamEnd
  PROVE  /\ MatchLength(ml, p) \in Nat /\ MatchLength(ml, p) >= MinMatch
         /\ ml < MatchMask => MatchLength(ml, p) = ml + MinMatch
         /\ ~ MatchLengthCut(ml, p) =>
              BehindMatchLength(ml, p) \in p .. StreamEnd - 1
<1>1. StreamEnd \in Nat
  BY LenProperties DEF StreamEnd
<1>2. CASE ml = MatchMask
  <2>1. MatchLengthLimit \in Int /\ MatchLengthLimit <= StreamEnd - MinMatch
    BY <1>1 DEF MatchLengthLimit
  <2> DEFINE r == LengthRead(p, MatchLengthLimit)
             s == LengthSum(p, MatchLengthLimit)
  <2>2. r \in 1 .. StreamEnd - p /\ s \in Nat
    <3>1. MatchLengthLimit <= StreamEnd
      BY <1>1, <2>1
    <3> QED
      BY <2>1, <3>1, LengthReadIs
  <2>3. /\ MatchLength(ml, p) = MinMatch + (MatchMask + s)
        /\ BehindMatchLength(ml, p) = p + r
        /\ ~ MatchLengthCut(ml, p) => ~ p + r >= MatchLengthLimit
    BY <1>2 DEF MatchLength, BehindMatchLength, MatchLengthCut
  <2> HIDE DEF r, s
  <2> QED
    BY <1>1, <1>2, <2>1, <2>2, <2>3
<1>3. CASE ml # MatchMask
  <2>1. MatchLength(ml, p) = MinMatch + ml /\ BehindMatchLength(ml, p) = p
    BY <1>3 DEF MatchLength, BehindMatchLength
  <2>2. p \in p .. StreamEnd - 1
    BY <1>1
  <2> QED
    BY <2>1, <2>2
<1> QED
  BY <1>2, <1>3

LEMMA OffsetIs ==
  ASSUME dst \in Seq(Bytes), NEW p \in Nat, p + 2 <= StreamEnd
  PROVE  OffsetAt(p) \in Nat
<1>1. StreamEnd \in Nat
  BY LenProperties DEF StreamEnd
<1>2. dst[p + 1] \in Bytes
  BY <1>1, ByteOfStream
<1>4. dst[p + 2] \in Bytes
  <2> DEFINE q == p + 1
  <2>1. q \in Nat /\ q < StreamEnd /\ q + 1 = p + 2
    BY <1>1
  <2> HIDE DEF q
  <2>2. dst[q + 1] \in Bytes
    BY <2>1, ByteOfStream
  <2> QED
    BY <2>1, <2>2
<1> DEFINE x == dst[p + 1]
           y == dst[p + 2]
<1>5. x \in 0 .. 255 /\ y \in 0 .. 255 /\ OffsetAt(p) = x + 256 * y
  BY <1>2, <1>4 DEF Bytes, OffsetAt
<1> HIDE DEF x, y
<1> QED
  BY <1>5

LEMMA LiteralsAre ==
  ASSUME NEW p \in Nat, NEW n \in Nat
  PROVE  IsSeq(Literals(p, n)) /\ Len(Literals(p, n)) = n
<1>1. IsSeq(Literals(p, n))
      /\ Len(Literals(p, n)) = IF p + 1 <= p + n THEN p + n - (p + 1) + 1 ELSE 0
  BY PartIsSeq DEF Literals
<1> QED
  BY <1>1

\* Every copy of n bytes is a sequence of n things.
LEMMA CopiesAre ==
  ASSUME NEW n \in Nat, NEW o
  PROVE  /\ IsSeq(Chunked(o, 8, n)) /\ Len(Chunked(o, 8, n)) = n
         /\ o \in Nat => IsSeq(FastCopy(o, n)) /\ Len(FastCopy(o, n)) = n
         /\ IsSeq(SafeCopyBytes(o, n)) /\ Len(SafeCopyBytes(o, n)) = n
<1>1. ASSUME NEW d \in Nat
      PROVE  IsSeq(Chunked(o, d, n)) /\ Len(Chunked(o, d, n)) = n
  <2> DEFINE f == Chunked(o, d, n)
  <2>1. f = [i \in 1 .. n |-> f[i]]
    BY DEF Chunked, FromZero
  <2> HIDE DEF f
  <2>2. IsSeq(f) /\ Len(f) = n
    BY <2>1, FunctionIsSeq
  <2> QED
    BY <2>2 DEF f
<1>2. IsSeq(CloseCopy(o, n)) /\ Len(CloseCopy(o, n)) = n
  <2> DEFINE f == CloseCopy(o, n)
  <2>1. f = [i \in 1 .. n |-> f[i]]
    BY DEF CloseCopy, FromZero
  <2> HIDE DEF f
  <2>2. IsSeq(f) /\ Len(f) = n
    BY <2>1, FunctionIsSeq
  <2> QED
    BY <2>2 DEF f
<1>3. IsSeq(RepeatedCopy(o, n)) /\ Len(RepeatedCopy(o, n)) = n
  <2> DEFINE f == RepeatedCopy(o, n)
  <2>1. f = [i \in 1 .. n |-> f[i]]
    BY DEF RepeatedCopy
  <2> HIDE DEF f
  <2>2. IsSeq(f) /\ Len(f) = n
    BY <2>1, FunctionIsSeq
  <2> QED
    BY <2>2 DEF f
<1>4. ASSUME o \in Nat
      PROVE  FastCopy(o, n) \in {RepeatedCopy(o, n), CloseCopy(o, n),
                                 Chunked(o, 8, n), Chunked(o, 16, n)}
  <2>1. \/ o \in {1, 2, 4} \/ o \in {0, 3, 5, 6, 7} \/ o \in 8 .. 15 \/ o >= 16
    BY <1>4
  <2>2. o \in {1, 2, 4} => ~ (o \in {0, 3, 5, 6, 7} \/ o \in 8 .. 15 \/ o >= 16)
    BY <1>4
  <2>3. o \in {0, 3, 5, 6, 7} => ~ (o \in 8 .. 15 \/ o >= 16)
    BY <1>4
  <2>4. o \in 8 .. 15 => ~ o >= 16
    BY <1>4
  <2> QED
    BY <2>1, <2>2, <2>3, <2>4 DEF FastCopy
<1>5. SafeCopyBytes(o, n) \in {CloseCopy(o, n), Chunked(o, 8, n)}
  BY DEF SafeCopyBytes
<1> QED
  BY <1>1, <1>2, <1>3, <1>4, <1>5

\* How far the copies reach behind what they copy.
LEMMA FastReachIs ==
  ASSUME NEW n \in Nat, NEW o \in Nat
  PROVE  /\ FastCopyReach(o, n) \in Nat
         /\ FastCopyReach(o, n) <= 32 \/ FastCopyReach(o, n) <= n + 31
<1>1. CASE o \in {1, 2, 4}
  <2>1. FastCopyReach(o, n) = Wild(n, 8)
    BY <1>1 DEF FastCopyReach
  <2> QED
    BY <2>1 DEF Wild
<1>2. CASE o \in {0, 3} \cup 5 .. 15
  <2>1. FastCopyReach(o, n) = 8 + Wild(n - 8, 8)
    BY <1>2 DEF FastCopyReach
  <2> QED
    BY <2>1 DEF Wild
<1>3. CASE o >= 16
  <2>1. FastCopyReach(o, n) = Wild(n, 32)
    BY <1>3 DEF FastCopyReach
  <2> QED
    BY <2>1 DEF Wild
<1> QED
  BY <1>1, <1>2, <1>3

LEMMA OutGrows ==
  ASSUME IsSeq(out), NEW s, IsSeq(s), NEW n \in Nat, Len(s) = n
  PROVE  IsSeq(out \o s) /\ Len(out \o s) = Op + n /\ Op \in Nat
BY JoinIsSeq DEF Op

-----------------------------------------------------------------------------
(* The steps of the decoder.                                               *)

\* What a step of the decoder must keep.
LEMMA DecoderKeeps ==
  ASSUME Types, Decoding, UNCHANGED <<callVars, searchVars, encoderVars, room>>,
         stage' \in DecoderStages \cup {"decoded", "rejected"},
         reach' \in Nat, reach' <= room, result' \in Int,
         rp' \in 0 .. StreamEnd, code' \in Bytes, length' \in Nat,
         IsSeq(out'), Len(out') \in Nat, Len(out') <= room,
         stage' = "fast" => AtFast', stage' = "fastMatch" => AtFastMatch',
         stage' = "safe" => AtSafe', stage' = "shortcut" => AtShortcut',
         stage' = "safeOffset" => AtSafeOffset',
         stage' = "copyMatch" => AtCopyMatch', stage' = "safeCopy" => AtSafeCopy'
  PROVE  BlockInv'
<1>1. Types'
  BY DEF Types, callVars, searchVars, encoderVars, Stages, StreamEnd
<1>2. Decoding'
  BY DEF Decoding, Op, encoderVars
<1>3. ~ stage' \in EncoderStages \cup {"idle", "failed", "compressed"}
  BY DEF EncoderStages, DecoderStages
<1> QED
  BY <1>1, <1>2, <1>3 DEF BlockInv, EncoderStages

LEMMA DecompressStep ==
  ASSUME BlockInv, NEW r \in Rooms, Len(src) + r >= 0, Decompress(Len(src) + r)
  PROVE  BlockInv'
<1>1. stage = "compressed" /\ Types /\ Fresh /\ dst # <<>>
  BY DEF BlockInv, Decompress
<1> DEFINE q == Len(src) + r
<1>2. q \in Nat
  <2>1. Len(src) \in Nat
    BY <1>1, SourceIsBytes DEF Types
  <2>2. r \in Int
    BY RoomsAssumption
  <2> QED
    BY <2>1, <2>2
<1> HIDE DEF q
<1>3. /\ room' = q /\ reach' = 0
      /\ UNCHANGED <<src, capacity, accel, ip, anchor, forward, step, tries, table,
                     match, token, dst, rp, code, length, offset, out>>
      /\ \/ q = 0 /\ stage' \in {"decoded", "rejected"} /\ result' \in {0, -1}
         \/ q # 0 /\ stage' = (IF q < FastDistance THEN "safe" ELSE "fast") /\ result' = 0
  BY DEF Decompress, callVars, searchVars, encoderVars, q
<1>4. rp = 0 /\ out = <<>> /\ Len(out) = 0
  BY <1>1, EmptySeq DEF Fresh
<1>5. Len(dst) \in Nat /\ Len(dst) # 0
  BY <1>1, LenProperties, EmptySeq DEF Types
<1>6. stage' \in DecoderStages \cup {"decoded", "rejected"} /\ result' \in Int
  BY <1>3 DEF DecoderStages
<1>7. Types'
  BY <1>1, <1>2, <1>3, <1>6 DEF Types, Stages
<1>8. Decoding'
  BY <1>1, <1>2, <1>3, <1>4 DEF Decoding, Op
<1>9. stage' = "safe" => AtSafe'
  BY <1>3, <1>4, <1>5 DEF AtSafe, StreamEnd
<1>10. stage' = "fast" => AtFast'
  BY <1>2, <1>3, <1>4, <1>5 DEF AtFast, StreamEnd, Op
<1>11. stage' \in {"decoded", "rejected", "safe", "fast"}
  BY <1>3
<1> QED
  BY <1>7, <1>8, <1>9, <1>10, <1>11 DEF BlockInv, EncoderStages, DecoderStages

LEMMA FastLiteralsStep ==
  ASSUME BlockInv, FastLiterals
  PROVE  BlockInv'
<1>1. stage = "fast" /\ Types /\ Decoding /\ AtFast
  BY DEF BlockInv, FastLiterals, DecoderStages
<1>2. /\ dst \in Seq(Bytes) /\ IsSeq(out)
      /\ StreamEnd \in Nat /\ rp \in Nat /\ rp < StreamEnd
      /\ Op \in Nat /\ Op <= room - FastDistance /\ room \in Nat
      /\ reach \in Nat /\ reach <= room
      /\ result \in Int /\ code \in Bytes /\ length \in Nat
  BY <1>1, DecodingIs DEF AtFast, Types
<1>3. UNCHANGED <<callVars, searchVars, encoderVars, room, offset>> /\ StreamEnd' = StreamEnd
  BY DEF FastLiterals, encoderVars, StreamEnd
<1> DEFINE c == dst[rp + 1]
           p == rp + 1
           n == LiteralLength(c, p)
           q == BehindLiteralLength(c, p)
           close == IF c \div 16 = RunMask
                    THEN \/ Op + n > room - FastDistance
                         \/ q + n > StreamEnd - (2 + 1 + LastLiteralBytes)
                    ELSE q + 16 > StreamEnd - (2 + 1 + LastLiteralBytes)
<1>4. c \in Bytes /\ p \in Nat /\ p <= StreamEnd
  BY <1>2, ByteOfStream
<1>5. CASE LiteralLengthCut(c, p)
  <2>1. stage' = "rejected" /\ result' = -1 /\ UNCHANGED <<rp, code, length, out, reach>>
    BY <1>5 DEF FastLiterals, Reject
  <2> QED
    BY <1>1, <1>2, <1>3, <2>1, DecoderKeeps DEF Op, DecoderStages
<1>6. CASE ~ LiteralLengthCut(c, p)
  <2>1. /\ code' = c
        /\ IF close
           THEN /\ stage' = "safeLiterals" /\ length' = n /\ rp' = q
                /\ UNCHANGED <<out, reach>>
           ELSE /\ stage' = "fastMatch"
                /\ out' = out \o Literals(q, n)
                /\ reach' = Furthest(reach, Op +
                     IF c \div 16 = RunMask THEN Wild(n, 32) ELSE 16)
                /\ rp' = q + n
                /\ UNCHANGED length
        /\ UNCHANGED result
    BY <1>6 DEF FastLiterals
  <2>2. /\ n \in Nat /\ q \in Nat /\ q <= StreamEnd
        /\ c \div 16 # RunMask => n < RunMask
    BY <1>2, <1>4, <1>6, LiteralLengthIs
  <2> HIDE DEF c, p, n, q
  <2>3. CASE close
    <3>1. rp' \in 0 .. StreamEnd
      BY <1>2, <2>1, <2>2, <2>3
    <3> QED
      BY <1>1, <1>2, <1>3, <1>4, <2>1, <2>2, <2>3, <3>1, DecoderKeeps DEF Op, DecoderStages
  <2>4. CASE ~ close
    <3>1. Op + n <= room - FastDistance + (RunMask - 1)
      BY <1>2, <2>2, <2>4
    <3>2. q + n <= StreamEnd - (2 + 1 + LastLiteralBytes)
      BY <1>2, <2>2, <2>4
    <3> DEFINE w == IF c \div 16 = RunMask THEN Wild(n, 32) ELSE 16
    <3>3. w \in Nat /\ Op + w <= room
      BY <1>2, <2>2, <2>4 DEF Wild
    <3> HIDE DEF w
    <3>4. reach' \in Nat /\ reach' <= room
      BY <1>2, <2>1, <2>4, <3>3, SMTT(60) DEF w, Furthest
    <3>5. IsSeq(out') /\ Len(out') = Op + n
      <4>1. IsSeq(Literals(q, n)) /\ Len(Literals(q, n)) = n
        BY <2>2, LiteralsAre
      <4>2. out' = out \o Literals(q, n)
        BY <2>1, <2>4
      <4> QED
        BY <1>2, <2>2, <4>1, <4>2, OutGrows
    <3>6. rp' = q + n /\ stage' = "fastMatch" /\ UNCHANGED <<length, result>>
      BY <2>1, <2>4
    <3> HIDE DEF close
    <3>7. rp' \in 0 .. StreamEnd /\ AtFastMatch'
      BY <1>2, <1>3, <2>2, <3>1, <3>2, <3>5, <3>6 DEF AtFastMatch, Op
    <3>8. Len(out') \in Nat /\ Len(out') <= room
      BY <1>2, <2>2, <3>1, <3>5
    <3> QED
      BY <1>1, <1>2, <1>3, <1>4, <2>1, <3>4, <3>5, <3>6, <3>7, <3>8, DecoderKeeps
         DEF DecoderStages
  <2> QED
    BY <2>3, <2>4
<1> QED
  BY <1>5, <1>6

LEMMA FastMatchStep ==
  ASSUME BlockInv, FastMatch
  PROVE  BlockInv'
<1>1. stage = "fastMatch" /\ Types /\ Decoding /\ AtFastMatch
  BY DEF BlockInv, FastMatch, DecoderStages
<1>2. /\ dst \in Seq(Bytes) /\ IsSeq(out)
      /\ StreamEnd \in Nat /\ rp \in Nat /\ rp <= StreamEnd - (2 + 1 + LastLiteralBytes)
      /\ Op \in Nat /\ Op <= room - FastDistance + (RunMask - 1) /\ room \in Nat
      /\ reach \in Nat /\ reach <= room
      /\ result \in Int /\ code \in Bytes /\ length \in Nat
  BY <1>1, DecodingIs DEF AtFastMatch, Types
<1>3. UNCHANGED <<callVars, searchVars, encoderVars, room, code>> /\ StreamEnd' = StreamEnd
  BY DEF FastMatch, encoderVars, StreamEnd
<1> DEFINE o == OffsetAt(rp)
           p == rp + 2
           ml == code % 16
           n == MatchLength(ml, p)
           q == BehindMatchLength(ml, p)
<1>4. o \in Nat /\ p \in Nat /\ p < StreamEnd /\ ml \in Nat /\ ml <= MatchMask
  BY <1>2, OffsetIs DEF Bytes
<1>5. CASE Op - o < 0 \/ MatchLengthCut(ml, p)
  <2>1. stage' = "rejected" /\ result' = -1 /\ UNCHANGED <<rp, length, out, reach>>
    BY <1>5 DEF FastMatch, Reject
  <2>2. rp' \in 0 .. StreamEnd
    BY <1>2, <2>1
  <2> QED
    BY <1>1, <1>2, <1>3, <2>1, <2>2, DecoderKeeps DEF Op, DecoderStages
<1>6. CASE ~ (Op - o < 0 \/ MatchLengthCut(ml, p))
  <2> DEFINE short == ml # MatchMask /\ o >= 8
  <2>1. /\ rp' = q
        /\ IF Op + n >= room - FastDistance
           THEN /\ stage' = "safeCopy" /\ length' = n /\ UNCHANGED <<out, reach>>
           ELSE /\ stage' = "fast"
                /\ out' = out \o (IF short THEN Chunked(o, 8, n) ELSE FastCopy(o, n))
                /\ reach' = Furthest(reach,
                              Op + IF short THEN 18 ELSE FastCopyReach(o, n))
                /\ UNCHANGED length
        /\ UNCHANGED result
    BY <1>6 DEF FastMatch
  <2>2. n \in Nat /\ n >= MinMatch /\ q \in p .. StreamEnd - 1
    BY <1>2, <1>4, <1>6, MatchLengthIs
  <2>3. /\ FastCopyReach(o, n) \in Nat
        /\ FastCopyReach(o, n) <= 32 \/ FastCopyReach(o, n) <= n + 31
    BY <1>4, <2>2, FastReachIs
  <2> DEFINE s == IF short THEN Chunked(o, 8, n) ELSE FastCopy(o, n)
             w == IF short THEN 18 ELSE FastCopyReach(o, n)
  <2>4. IsSeq(s) /\ Len(s) = n
    BY <1>4, <2>2, CopiesAre
  <2>5. w \in Nat /\ (w <= 32 \/ w <= n + 31)
    BY <2>2, <2>3
  <2> HIDE DEF o, ml, n, q, s, w, short
  <2>6. rp' \in 0 .. StreamEnd /\ rp' < StreamEnd
    BY <1>2, <1>4, <2>1, <2>2
  <2>7. CASE Op + n >= room - FastDistance
    <3>1. stage' = "safeCopy" /\ length' = n /\ UNCHANGED <<out, reach, result>>
      BY <2>1, <2>7
    <3>2. Op' = Op
      BY <3>1 DEF Op
    <3>3. AtSafeCopy'
      BY <1>2, <1>3, <2>2, <2>6, <3>1, <3>2 DEF AtSafeCopy
    <3>4. Op <= room
      BY <1>2
    <3> QED
      BY <1>1, <1>2, <1>3, <2>2, <2>6, <3>1, <3>3, <3>4, DecoderKeeps DEF Op, DecoderStages
  <2>8. CASE ~ Op + n >= room - FastDistance
    <3>1. /\ stage' = "fast" /\ out' = out \o s /\ reach' = Furthest(reach, Op + w)
          /\ UNCHANGED <<length, result>>
      BY <2>1, <2>8 DEF s, w
    <3>2. IsSeq(out') /\ Len(out') = Op + n
      BY <1>2, <2>2, <2>4, <3>1, OutGrows
    <3>3. reach' \in Nat /\ reach' <= room
      BY <1>2, <2>2, <2>5, <2>8, <3>1 DEF Furthest
    <3>4. Op' = Op + n /\ Op + n \in Nat /\ Op + n <= room - FastDistance
      BY <1>2, <2>2, <2>8, <3>2 DEF Op
    <3>5. AtFast'
      BY <1>3, <2>6, <3>4 DEF AtFast
    <3>6. Len(out') \in Nat /\ Len(out') <= room
      BY <1>2, <3>2, <3>4
    <3> QED
      BY <1>1, <1>2, <1>3, <2>6, <3>1, <3>2, <3>3, <3>5, <3>6, DecoderKeeps DEF DecoderStages
  <2> QED
    BY <2>7, <2>8
<1> QED
  BY <1>5, <1>6

LEMMA SafeTokenStep ==
  ASSUME BlockInv, SafeToken
  PROVE  BlockInv'
<1>1. stage = "safe" /\ Types /\ Decoding /\ AtSafe
  BY DEF BlockInv, SafeToken, DecoderStages
<1>2. /\ dst \in Seq(Bytes) /\ IsSeq(out)
      /\ StreamEnd \in Nat /\ rp \in Nat /\ rp < StreamEnd
      /\ Op \in Nat /\ Op <= room /\ room \in Nat
      /\ reach \in Nat /\ reach <= room
      /\ result \in Int /\ length \in Nat
  BY <1>1, DecodingIs DEF AtSafe, Types
<1> DEFINE c == dst[rp + 1]
           p == rp + 1
           n == c \div 16
<1>3. /\ UNCHANGED <<callVars, searchVars, encoderVars, room, offset>>
      /\ StreamEnd' = StreamEnd /\ code' = c
  BY DEF SafeToken, encoderVars, StreamEnd
<1>4. c \in Bytes /\ p \in Nat /\ p <= StreamEnd
  BY <1>2, ByteOfStream
<1>5. CASE n # RunMask /\ p < StreamEnd - (14 + 2) /\ Op <= room - (14 + 18)
  <2>1. /\ stage' = "shortcut" /\ out' = out \o Literals(p, n)
        /\ reach' = Furthest(reach, Op + 16) /\ rp' = p + n
        /\ UNCHANGED <<length, result>>
    BY <1>5 DEF SafeToken
  <2>2. n \in Nat /\ n < RunMask
    <3> HIDE DEF c
    <3> QED
      BY <1>4, <1>5 DEF Bytes
  <2> HIDE DEF n, p, c
  <2>3. IsSeq(Literals(p, n)) /\ Len(Literals(p, n)) = n
    BY <1>4, <2>2, LiteralsAre
  <2>4. IsSeq(out') /\ Len(out') = Op + n
    BY <1>2, <2>1, <2>2, <2>3, OutGrows
  <2>5. /\ reach' \in Nat /\ reach' <= room
        /\ Op + n \in Nat /\ Op + n <= room /\ Op + n <= room - 18
        /\ p + n \in 0 .. StreamEnd /\ p + n <= StreamEnd - (2 + 1)
    BY <1>2, <1>4, <1>5, <2>1, <2>2 DEF Furthest
  <2>6. Len(out') \in Nat /\ Len(out') <= room
    BY <2>4, <2>5
  <2>7. AtShortcut'
    BY <1>3, <2>1, <2>4, <2>5 DEF AtShortcut, Op
  <2> QED
    BY <1>1, <1>2, <1>3, <1>4, <2>1, <2>4, <2>5, <2>6, <2>7, DecoderKeeps DEF DecoderStages
<1>6. CASE ~ (n # RunMask /\ p < StreamEnd - (14 + 2) /\ Op <= room - (14 + 18))
  <2>1. CASE LiteralLengthCut(c, p)
    <3>1. stage' = "rejected" /\ result' = -1 /\ UNCHANGED <<rp, length, out, reach>>
      BY <1>6, <2>1 DEF SafeToken, Reject
    <3> QED
      BY <1>1, <1>2, <1>3, <1>4, <3>1, DecoderKeeps DEF Op, DecoderStages
  <2>2. CASE ~ LiteralLengthCut(c, p)
    <3>1. /\ stage' = "safeLiterals" /\ length' = LiteralLength(c, p)
          /\ rp' = BehindLiteralLength(c, p) /\ UNCHANGED <<out, reach, result>>
      BY <1>6, <2>2 DEF SafeToken
    <3>2. length' \in Nat /\ rp' \in p .. StreamEnd
      BY <1>2, <1>4, <2>2, <3>1, LiteralLengthIs
    <3>3. rp' \in 0 .. StreamEnd
      <4> HIDE DEF p
      <4> QED
        BY <1>2, <1>4, <3>2
    <3> QED
      BY <1>1, <1>2, <1>3, <1>4, <3>1, <3>2, <3>3, DecoderKeeps DEF Op, DecoderStages
  <2> QED
    BY <2>1, <2>2
<1> QED
  BY <1>5, <1>6

LEMMA ShortcutStep ==
  ASSUME BlockInv, Shortcut
  PROVE  BlockInv'
<1>1. stage = "shortcut" /\ Types /\ Decoding /\ AtShortcut
  BY DEF BlockInv, Shortcut, DecoderStages
<1>2. /\ dst \in Seq(Bytes) /\ IsSeq(out)
      /\ StreamEnd \in Nat /\ rp \in Nat /\ rp <= StreamEnd - (2 + 1)
      /\ Op \in Nat /\ Op <= room - 18 /\ room \in Nat
      /\ reach \in Nat /\ reach <= room
      /\ result \in Int /\ code \in Bytes /\ length \in Nat
  BY <1>1, DecodingIs DEF AtShortcut, Types
<1> DEFINE o == OffsetAt(rp)
           ml == code % 16
<1>3. /\ UNCHANGED <<callVars, searchVars, encoderVars, room, code, result>>
      /\ StreamEnd' = StreamEnd /\ rp' = rp + 2
  BY DEF Shortcut, encoderVars, StreamEnd
<1>4. o \in Nat /\ ml \in Nat /\ ml <= MatchMask
      /\ rp' \in 0 .. StreamEnd /\ rp' < StreamEnd
  BY <1>2, <1>3, OffsetIs DEF Bytes
<1>5. CASE ml # MatchMask /\ o >= 8 /\ Op - o >= 0
  <2> DEFINE n == ml + MinMatch
             s == Chunked(o, 8, n)
  <2>1. /\ stage' = "safe" /\ out' = out \o s
        /\ reach' = Furthest(reach, Op + 18) /\ UNCHANGED length
    BY <1>5 DEF Shortcut
  <2>2. n \in Nat /\ n <= 18
    BY <1>4, <1>5
  <2>3. IsSeq(s) /\ Len(s) = n
    BY <1>4, <2>2, CopiesAre
  <2> HIDE DEF s, n, ml, o
  <2>4. IsSeq(out') /\ Len(out') = Op + n
    BY <1>2, <2>1, <2>2, <2>3, OutGrows
  <2>5. /\ reach' \in Nat /\ reach' <= room
        /\ Op + n \in Nat /\ Op + n <= room
    BY <1>2, <2>1, <2>2 DEF Furthest
  <2>6. Len(out') \in Nat /\ Len(out') <= room
    BY <2>4, <2>5
  <2>7. AtSafe'
    BY <1>3, <1>4 DEF AtSafe
  <2> QED
    BY <1>1, <1>2, <1>3, <1>4, <2>1, <2>4, <2>5, <2>6, <2>7, DecoderKeeps DEF DecoderStages
<1>6. CASE ~ (ml # MatchMask /\ o >= 8 /\ Op - o >= 0)
  <2>1. stage' = "copyMatch" /\ length' = ml /\ UNCHANGED <<out, reach>>
    BY <1>6 DEF Shortcut
  <2>2. Op' = Op /\ Op <= room /\ Op <= room - MatchFindLimit
    BY <1>2, <2>1 DEF Op
  <2>3. AtCopyMatch'
    BY <1>3, <1>4, <2>2 DEF AtCopyMatch
  <2> QED
    BY <1>1, <1>2, <1>3, <1>4, <2>1, <2>2, <2>3, DecoderKeeps DEF Op, DecoderStages
<1> QED
  BY <1>5, <1>6

LEMMA SafeLiteralsStep ==
  ASSUME BlockInv, SafeLiterals
  PROVE  BlockInv'
<1>1. stage = "safeLiterals" /\ Types /\ Decoding
  BY DEF BlockInv, SafeLiterals, DecoderStages
<1>2. /\ dst \in Seq(Bytes) /\ IsSeq(out)
      /\ StreamEnd \in Nat /\ rp \in Nat /\ rp <= StreamEnd
      /\ Op \in Nat /\ Op <= room /\ room \in Nat
      /\ reach \in Nat /\ reach <= room
      /\ result \in Int /\ code \in Bytes /\ length \in Nat
  BY <1>1, DecodingIs DEF Types
<1>3. /\ UNCHANGED <<callVars, searchVars, encoderVars, room, code, length, offset>>
      /\ StreamEnd' = StreamEnd
  BY DEF SafeLiterals, encoderVars, StreamEnd
<1> DEFINE s == Literals(rp, length)
           close == \/ Op + length > room - MatchFindLimit
                    \/ rp + length > StreamEnd - (2 + 1 + LastLiteralBytes)
<1>4. IsSeq(s) /\ Len(s) = length /\ Op + length \in Nat
  BY <1>2, LiteralsAre
<1>5. CASE close /\ (rp + length # StreamEnd \/ Op + length > room)
  <2>1. stage' = "rejected" /\ result' = -1 /\ UNCHANGED <<rp, out, reach>>
    BY <1>5 DEF SafeLiterals, Reject
  <2>2. rp' \in 0 .. StreamEnd
    BY <1>2, <2>1
  <2> QED
    BY <1>1, <1>2, <1>3, <2>1, <2>2, DecoderKeeps DEF Op, DecoderStages
<1>6. CASE close /\ ~ (rp + length # StreamEnd \/ Op + length > room)
  <2>1. /\ stage' = "decoded" /\ out' = out \o s
        /\ reach' = Furthest(reach, Len(out'))
        /\ rp' = rp + length /\ result' = Len(out')
    BY <1>6 DEF SafeLiterals
  <2>2. IsSeq(out') /\ Len(out') = Op + length
    BY <1>2, <1>4, <2>1, OutGrows
  <2>3. Op + length <= room /\ rp' \in 0 .. StreamEnd
    BY <1>2, <1>6, <2>1
  <2>4. /\ reach' \in Nat /\ reach' <= room
        /\ result' \in Int /\ Len(out') \in Nat /\ Len(out') <= room
    <3> DEFINE d == Op + length
    <3>1. d \in Nat /\ d <= room /\ Len(out') = d
      BY <1>4, <2>2, <2>3
    <3> HIDE DEF d
    <3> QED
      BY <1>2, <2>1, <3>1 DEF Furthest
  <2> QED
    BY <1>1, <1>2, <1>3, <2>1, <2>2, <2>3, <2>4, DecoderKeeps DEF DecoderStages
<1>7. CASE ~ close
  <2>1. /\ stage' = "safeOffset" /\ out' = out \o s
        /\ reach' = Furthest(reach, Op + Wild(length, WildLength))
        /\ rp' = rp + length /\ UNCHANGED result
    BY <1>7 DEF SafeLiterals
  <2>2. IsSeq(out') /\ Len(out') = Op + length
    BY <1>2, <1>4, <2>1, OutGrows
  <2>3. /\ Op + length <= room - MatchFindLimit /\ rp' \in 0 .. StreamEnd
        /\ rp' <= StreamEnd - (2 + 1 + LastLiteralBytes)
    BY <1>2, <1>7, <2>1
  <2> DEFINE w == Wild(length, WildLength)
  <2>4. w \in Nat /\ Op + w <= room
    BY <1>2, <2>3 DEF Wild
  <2> HIDE DEF w, s
  <2>5. /\ reach' \in Nat /\ reach' <= room
    BY <1>2, <2>1, <2>4 DEF Furthest, w
  <2>6. Len(out') \in Nat /\ Len(out') <= room
    BY <1>2, <1>4, <2>2, <2>3
  <2>7. AtSafeOffset'
    BY <1>3, <2>2, <2>3 DEF AtSafeOffset, Op
  <2> QED
    BY <1>1, <1>2, <1>3, <2>1, <2>2, <2>3, <2>5, <2>6, <2>7, DecoderKeeps DEF DecoderStages
<1> QED
  BY <1>5, <1>6, <1>7

LEMMA SafeOffsetStep ==
  ASSUME BlockInv, SafeOffset
  PROVE  BlockInv'
<1>1. stage = "safeOffset" /\ Types /\ Decoding /\ AtSafeOffset
  BY DEF BlockInv, SafeOffset, DecoderStages
<1>2. /\ IsSeq(out) /\ StreamEnd \in Nat /\ rp \in Nat
      /\ rp <= StreamEnd - (2 + 1 + LastLiteralBytes)
      /\ Op \in Nat /\ Op <= room - MatchFindLimit /\ Op <= room /\ room \in Nat
      /\ reach \in Nat /\ reach <= room
      /\ result \in Int /\ code \in Bytes
  BY <1>1, DecodingIs DEF AtSafeOffset, Types
<1>3. /\ UNCHANGED <<callVars, searchVars, encoderVars, reach, result, room, code, out>>
      /\ stage' = "copyMatch" /\ length' = code % 16 /\ rp' = rp + 2
      /\ StreamEnd' = StreamEnd /\ Op' = Op
  BY DEF SafeOffset, encoderVars, StreamEnd, Op
<1>4. length' \in Nat /\ rp' \in 0 .. StreamEnd /\ rp' < StreamEnd
  BY <1>2, <1>3 DEF Bytes
<1>5. AtCopyMatch'
  BY <1>2, <1>3, <1>4 DEF AtCopyMatch
<1> QED
  BY <1>1, <1>2, <1>3, <1>4, <1>5, DecoderKeeps DEF Op, DecoderStages

LEMMA CopyMatchStep ==
  ASSUME BlockInv, CopyMatch
  PROVE  BlockInv'
<1>1. stage = "copyMatch" /\ Types /\ Decoding /\ AtCopyMatch
  BY DEF BlockInv, CopyMatch, DecoderStages
<1>2. /\ dst \in Seq(Bytes) /\ IsSeq(out)
      /\ StreamEnd \in Nat /\ rp \in Nat /\ rp < StreamEnd
      /\ Op \in Nat /\ Op <= room - MatchFindLimit /\ Op <= room /\ room \in Nat
      /\ reach \in Nat /\ reach <= room
      /\ result \in Int /\ code \in Bytes /\ length \in Nat
  BY <1>1, DecodingIs DEF AtCopyMatch, Types
<1>3. /\ UNCHANGED <<callVars, searchVars, encoderVars, room, code, offset, out>>
      /\ StreamEnd' = StreamEnd /\ Op' = Op
  BY DEF CopyMatch, encoderVars, StreamEnd, Op
<1>4. rp \in 0 .. StreamEnd
  BY <1>2
<1>5. Furthest(reach, Op + 4) \in Nat /\ Furthest(reach, Op + 4) <= room
  BY <1>2 DEF Furthest
<1>6. CASE Op - offset < 0
  <2>1. stage' = "rejected" /\ result' = -1 /\ UNCHANGED <<rp, length, reach>>
    BY <1>6 DEF CopyMatch, Reject
  <2> QED
    BY <1>1, <1>2, <1>3, <1>4, <2>1, DecoderKeeps DEF Op, DecoderStages
<1>7. CASE ~ Op - offset < 0 /\ MatchLengthCut(length, rp)
  <2>1. /\ stage' = "rejected" /\ result' = -1 /\ UNCHANGED <<rp, length>>
        /\ reach' = Furthest(reach, Op + 4)
    BY <1>7 DEF CopyMatch, Reject
  <2> QED
    BY <1>1, <1>2, <1>3, <1>4, <1>5, <2>1, DecoderKeeps DEF Op, DecoderStages
<1>8. CASE ~ Op - offset < 0 /\ ~ MatchLengthCut(length, rp)
  <2> DEFINE n == MatchLength(length, rp)
             q == BehindMatchLength(length, rp)
  <2>1. /\ stage' = "safeCopy" /\ length' = n /\ rp' = q /\ UNCHANGED result
        /\ reach' = Furthest(reach, Op + 4)
    BY <1>8 DEF CopyMatch
  <2>2. n \in Nat /\ n >= MinMatch /\ q \in rp .. StreamEnd - 1
    BY <1>2, <1>8, MatchLengthIs
  <2> HIDE DEF n, q
  <2>3. rp' \in 0 .. StreamEnd /\ rp' < StreamEnd
    BY <1>2, <2>1, <2>2
  <2>4. AtSafeCopy'
    BY <1>2, <1>3, <2>1, <2>2, <2>3 DEF AtSafeCopy
  <2> QED
    BY <1>1, <1>2, <1>3, <1>5, <2>1, <2>2, <2>3, <2>4, DecoderKeeps DEF Op, DecoderStages
<1> QED
  BY <1>6, <1>7, <1>8

LEMMA SafeCopyStep ==
  ASSUME BlockInv, SafeCopy
  PROVE  BlockInv'
<1>1. stage = "safeCopy" /\ Types /\ Decoding /\ AtSafeCopy
  BY DEF BlockInv, SafeCopy, DecoderStages
<1>2. /\ dst \in Seq(Bytes) /\ IsSeq(out)
      /\ StreamEnd \in Nat /\ rp \in Nat /\ rp < StreamEnd
      /\ Op \in Nat /\ Op <= room - MatchFindLimit /\ Op <= room /\ room \in Nat
      /\ reach \in Nat /\ reach <= room
      /\ result \in Int /\ code \in Bytes /\ length \in Nat /\ length >= MinMatch
  BY <1>1, DecodingIs DEF AtSafeCopy, Types
<1>3. /\ UNCHANGED <<callVars, searchVars, encoderVars, room, rp, code, length, offset>>
      /\ StreamEnd' = StreamEnd
  BY DEF SafeCopy, encoderVars, StreamEnd
<1>4. rp \in 0 .. StreamEnd
  BY <1>2
<1> DEFINE s == SafeCopyBytes(offset, length)
<1>5. CASE Op + length > room - LastLiteralBytes
  <2>1. stage' = "rejected" /\ result' = -1 /\ reach' = Furthest(reach, Op + 8)
        /\ UNCHANGED out
    BY <1>2, <1>5 DEF SafeCopy, Reject
  <2>2. reach' \in Nat /\ reach' <= room
    BY <1>2, <2>1 DEF Furthest
  <2> QED
    BY <1>1, <1>2, <1>3, <1>4, <2>1, <2>2, DecoderKeeps DEF Op, DecoderStages
<1>6. CASE ~ Op + length > room - LastLiteralBytes
  <2> DEFINE narrow == Op + length > room - SafeguardDistance
             w == IF narrow THEN NarrowReach(length) ELSE WideReach(length)
  <2>1. /\ stage' = "safe" /\ out' = out \o s /\ reach' = Furthest(reach, Op + w)
        /\ UNCHANGED result
    BY <1>6 DEF SafeCopy
  <2>2. w \in Nat /\ Op + w <= room
    <3>1. CASE narrow
      BY <1>2, <1>6, <3>1 DEF NarrowReach, Wild, Furthest
    <3>2. CASE ~ narrow
      BY <1>2, <3>2 DEF WideReach, Wild
    <3> QED
      BY <3>1, <3>2
  <2>3. IsSeq(s) /\ Len(s) = length
    BY <1>2, CopiesAre
  <2> HIDE DEF s, w, narrow
  <2>4. IsSeq(out') /\ Len(out') = Op + length
    BY <1>2, <2>1, <2>3, OutGrows
  <2>5. reach' \in Nat /\ reach' <= room
    BY <1>2, <2>1, <2>2 DEF Furthest
  <2>6. Len(out') \in Nat /\ Len(out') <= room
    BY <1>2, <1>6, <2>4
  <2>7. AtSafe'
    BY <1>2, <1>3 DEF AtSafe
  <2> QED
    BY <1>1, <1>2, <1>3, <1>4, <2>1, <2>4, <2>5, <2>6, <2>7, DecoderKeeps DEF DecoderStages
<1> QED
  BY <1>5, <1>6

LEMMA ReturnStep ==
  ASSUME Return
  PROVE  BlockInv'
<1>1. Len(<<>>) = 0 /\ IsSeq(<<>>) /\ <<>> \in Seq(Bytes)
  BY EmptySeq DEF IsSeq, Range
<1>2. /\ Len(src') = 0 /\ Len(dst') = 0 /\ table' \in [HashValues -> 0 .. 0]
      /\ IsSeq(out') /\ dst' \in Seq(Bytes) /\ stage' = "idle" /\ stage' \in Stages
  BY <1>1 DEF Return, Stages
<1>3. Types'
  BY <1>1, <1>2 DEF Return, Types, Bytes
<1>4. Fresh'
  BY DEF Return, Fresh
<1> QED
  BY <1>2, <1>3, <1>4 DEF BlockInv, EncoderStages, DecoderStages

LEMMA StutterInv ==
  ASSUME BlockInv, UNCHANGED vars
  PROVE  BlockInv'
<1>1. UNCHANGED <<stage, src, capacity, accel, ip, anchor, forward, step, tries, table,
                  match, token, dst, reach, result, room, rp, code, length, offset, out>>
  BY DEF vars, callVars, searchVars, encoderVars, decoderVars
<1>2. Types'
  BY <1>1 DEF BlockInv, Types
<1>3. /\ Fresh' = Fresh /\ Encoding' = Encoding /\ Decoding' = Decoding
      /\ AtFind' = AtFind /\ AtLiterals' = AtLiterals /\ AtMatch' = AtMatch
      /\ AtNext' = AtNext /\ AtLast' = AtLast
  BY <1>1 DEF Fresh, Encoding, Decoding, AtFind, AtLiterals, AtMatch, AtMatchFound,
              AtNext, AtLast, Limited, MatchEnd, MatchFindEnd, Four, Op
<1>4. /\ AtFast' = AtFast /\ AtFastMatch' = AtFastMatch /\ AtSafe' = AtSafe
      /\ AtShortcut' = AtShortcut /\ AtSafeOffset' = AtSafeOffset
      /\ AtCopyMatch' = AtCopyMatch /\ AtSafeCopy' = AtSafeCopy
  BY <1>1 DEF AtFast, AtFastMatch, AtSafe, AtShortcut, AtSafeOffset, AtCopyMatch,
              AtSafeCopy, StreamEnd, Op
<1> QED
  BY <1>1, <1>2, <1>3, <1>4 DEF BlockInv

-----------------------------------------------------------------------------
(* The theorems.                                                           *)

(* The invariant holds in every reachable state: positions stay ordered,   *)
(* and every stage leaves the room that the next one needs.                *)
THEOREM SpecBlockInv ==
  ASSUME ShortWhenLimited
  PROVE  Spec => []BlockInv
<1>1. Init => BlockInv
  BY InitInv
<1>2. BlockInv /\ [Next]_vars => BlockInv'
  <2> SUFFICES ASSUME BlockInv, [Next]_vars
               PROVE  BlockInv'
    OBVIOUS
  <2>1. ASSUME NEW c \in Calls, Compress(c.source, c.maxOutputSize, c.acceleration)
        PROVE  BlockInv'
    BY <2>1, CompressStep
  <2>2. CASE Encode
    BY <2>2, FindStep, EncodeLiteralsStep, EncodeMatchStep, NextPositionStep,
       LastLiteralsStep DEF Encode
  <2>3. ASSUME NEW r \in Rooms, Len(src) + r >= 0, Decompress(Len(src) + r)
        PROVE  BlockInv'
    BY <2>3, DecompressStep
  <2>4. CASE Decode
    BY <2>4, FastLiteralsStep, FastMatchStep, SafeTokenStep, ShortcutStep,
       SafeLiteralsStep, SafeOffsetStep, CopyMatchStep, SafeCopyStep DEF Decode
  <2>5. CASE Return
    BY <2>5, ReturnStep
  <2>6. CASE UNCHANGED vars
    BY <2>6, StutterInv
  <2> QED
    BY <2>1, <2>2, <2>3, <2>4, <2>5, <2>6 DEF Next
<1> QED
  BY <1>1, <1>2, PTL DEF Spec

(* Neither LZ4_compress_fast nor LZ4_decompress_safe writes past the end   *)
(* of its destination, for every hash function and every block that has    *)
(* the room of the bound or is short: the check of the encoder, or the     *)
(* bound that stands for it, covers its copies, and the tests of the       *)
(* decoder cover its chunks in the fast and the safe loop.                 *)
THEOREM SpecWritesInside ==
  ASSUME ShortWhenLimited
  PROVE  Spec => []WritesInside
<1>1. BlockInv => WritesInside
  BY DEF BlockInv, WritesInside, Encoding, Decoding, EncoderStages, DecoderStages
<1> QED
  BY <1>1, SpecBlockInv, PTL

(* Every match of the encoder lies behind its source position and near     *)
(* enough for the offset, with 16 bit table entries too, where the code    *)
(* does not test it; none starts in the last twelve bytes of the block,    *)
(* and the last five are literals.                                         *)
THEOREM SpecParsingRestrictions ==
  ASSUME ShortWhenLimited
  PROVE  Spec => []ParsingRestrictions
<1>1. BlockInv => ParsingRestrictions
  BY DEF BlockInv, ParsingRestrictions, AtMatch, AtMatchFound, Encoding, EncoderStages
<1> QED
  BY <1>1, SpecBlockInv, PTL

=============================================================================
