-------------------------- MODULE XrifHandleProofs --------------------------
(***************************************************************************)
(* Proofs about XrifHandle, for every set of addresses, sizes, headers and *)
(* configurations, and every failure of malloc: on valid inputs the handle *)
(* never points to a freed block and never loses one.                      *)
(***************************************************************************)
EXTENDS XrifHandle, XrifSizesProofs

(* A valid size is one for which no xrif_min_X_size function returns 0,    *)
(* whatever the methods: fewer than 2^32 pixels, within LZ4's limit.       *)
ValidSize(s) ==
  /\ DataBytes(s) # 0
  /\ \A r \in Reorders, c \in Compressors :
       MinReordered(s, r) # 0 /\ MinCompressed(s, r, c) # 0

Accepted(s) ==
  0 \notin {s.width, s.height, s.depth, s.frames} /\ TypeSize(s.type) # 0

ValidInputs ==
  /\ \A s \in Sizes : Accepted(s) => ValidSize(s)
  /\ \A h \in Headers : /\ ValidSize(h.size)
                        /\ h.reorder \in Reorders
                        /\ h.compress \in Compressors

-----------------------------------------------------------------------------
(* The inductive invariant: nothing is owned before a size is set, and     *)
(* from then on no minimum size is 0, so that no allocation stops between  *)
(* its free() and its malloc().                                            *)

KnownMethods == reorder \in Reorders /\ compress \in Compressors

SizedOrEmpty ==
  \/ ValidSize(size)
  \/ DataBytes(size) = 0 /\ \A b \in Buffers : ~ buf[b].own

OwnedHasPointer == \A b \in Buffers : buf[b].own => buf[b].ptr # NULL

NothingWithoutHandle ==
  ~ exists => call = "idle" /\ \A b \in Buffers : buf[b] = NoBuffer

HandleInv ==
  /\ TypeOK
  /\ BuffersLive
  /\ NoLeak
  /\ SizeWithinBlock
  /\ KnownMethods
  /\ SizedOrEmpty
  /\ OwnedHasPointer
  /\ NothingWithoutHandle

-----------------------------------------------------------------------------
(* The minimum sizes of the buffers.                                       *)

LEMMA MinSizeNat ==
  ASSUME TypeOK, NEW b \in Buffers
  PROVE  MinSize(b) \in Nat
BY MinReorderedNat, MinCompressedNat, MinRawNat DEF TypeOK, MinSize, Buffers

(* With a valid size every buffer has a minimum size.                      *)
LEMMA MinSizeNonZero ==
  ASSUME TypeOK, KnownMethods, ValidSize(size), NEW b \in Buffers
  PROVE  MinSize(b) # 0
<1>1. /\ DataBytes(size) # 0
      /\ MinReordered(size, reorder) # 0
      /\ MinCompressed(size, reorder, compress) # 0
  BY DEF KnownMethods, ValidSize
<1>2. MinRaw(size, reorder, compress, compress_on_raw) # 0
  BY <1>1 DEF MinRaw, AtLeast
<1> QED
  BY <1>1, <1>2 DEF MinSize, Buffers

-----------------------------------------------------------------------------
(* What free() does to the heap.                                           *)

(* Freeing the buffers bs frees exactly the blocks they own, all of them   *)
(* the library's; blocks of the caller and of other buffers stay.          *)
LEMMA FreedHeap ==
  ASSUME TypeOK, BuffersLive, NEW bs \in SUBSET Buffers, NEW a \in Addr
  PROVE  /\ Freed(bs)[a] \in [holder : {"free", "library", "caller"}, size : Nat]
         /\ (\E b \in bs : Owned(b) /\ buf[b].ptr = a) => Freed(bs)[a] = FreeBlock
         /\ ~ (\E b \in bs : Owned(b) /\ buf[b].ptr = a) => Freed(bs)[a] = heap[a]
BY DEF Freed, FreeBlock, TypeOK

(* A buffer outside bs keeps its block.                                    *)
LEMMA OthersKeepTheirBlock ==
  ASSUME TypeOK, BuffersLive, NEW bs \in SUBSET Buffers,
         NEW b \in Buffers \ bs, buf[b].ptr # NULL
  PROVE  /\ buf[b].ptr \in Addr
         /\ Freed(bs)[buf[b].ptr] = heap[buf[b].ptr]
<1>1. buf[b].ptr \in Addr
  BY DEF TypeOK
<1>2. ~ (\E c \in bs : Owned(c) /\ buf[c].ptr = buf[b].ptr)
  BY DEF BuffersLive, Owned
<1> QED
  BY <1>1, <1>2, FreedHeap

(* Freeing a buffer that owns nothing changes nothing.                     *)
LEMMA FreedNothing ==
  ASSUME TypeOK, NEW b \in Buffers, ~ buf[b].own
  PROVE  Freed({b}) = heap
BY DEF Freed, Owned, TypeOK

-----------------------------------------------------------------------------
(* The invariant holds initially and every action preserves it.            *)

LEMMA InitHandleInv == Init => HandleInv
<1> SUFFICES ASSUME Init PROVE HandleInv
  OBVIOUS
<1>1. NoBuffer \in [ptr : Addr \cup {NULL}, size : Nat, own : BOOLEAN]
  BY DEF NoBuffer
<1>2. FreeBlock \in [holder : {"free", "library", "caller"}, size : Nat]
  BY DEF FreeBlock
<1>3. /\ \A b \in Buffers : buf[b] = NoBuffer
      /\ \A a \in Addr : heap[a] = FreeBlock
  BY DEF Init
<1>4. TypeOK
  BY <1>1, <1>2, UnsizedIsEmpty DEF Init, TypeOK
<1>5. BuffersLive /\ NoLeak /\ SizeWithinBlock /\ OwnedHasPointer
  BY <1>3 DEF BuffersLive, NoLeak, SizeWithinBlock, OwnedHasPointer, NoBuffer, FreeBlock
<1>6. KnownMethods /\ SizedOrEmpty /\ NothingWithoutHandle
  BY <1>3, UnsizedIsEmpty
  DEF Init, KnownMethods, SizedOrEmpty, NothingWithoutHandle, NoBuffer, Reorders, Compressors
<1> QED
  BY <1>4, <1>5, <1>6 DEF HandleInv

(* A step that changes only the settings needs valid settings.             *)
LEMMA SettingsPreserve ==
  ASSUME HandleInv, UNCHANGED <<exists, buf, heap, call>>,
         TypeOK', KnownMethods', SizedOrEmpty'
  PROVE  HandleInv'
<1>1. BuffersLive' /\ NoLeak' /\ SizeWithinBlock'
  BY DEF HandleInv, BuffersLive, NoLeak, SizeWithinBlock
<1>2. OwnedHasPointer' /\ NothingWithoutHandle'
  BY DEF HandleInv, OwnedHasPointer, NothingWithoutHandle
<1> QED
  BY <1>1, <1>2 DEF HandleInv

(* Reset and Delete free every owned buffer, and forget them all.          *)
LEMMA EmptyPreserves ==
  ASSUME HandleInv, heap' = Freed(Buffers), Initialize,
         exists' \in BOOLEAN, call' = "idle"
  PROVE  HandleInv'
<1>1. TypeOK /\ BuffersLive /\ NoLeak
  BY DEF HandleInv
<1>2. \A b \in Buffers : buf'[b] = NoBuffer
  BY DEF Initialize
<1>3. TypeOK'
  <2>1. NoBuffer \in [ptr : Addr \cup {NULL}, size : Nat, own : BOOLEAN]
    BY DEF NoBuffer
  <2>2. heap' = [a \in Addr |-> heap'[a]]
    BY DEF Freed
  <2>3. \A a \in Addr : heap'[a] \in [holder : {"free", "library", "caller"}, size : Nat]
    BY <1>1, FreedHeap
  <2> QED
    BY <2>1, <2>2, <2>3, UnsizedIsEmpty DEF TypeOK, Initialize
<1>4. NoLeak'
  <2> SUFFICES ASSUME NEW a \in Addr PROVE heap'[a].holder # "library"
    BY DEF NoLeak
  <2>1. CASE heap[a].holder = "library"
    <3>1. \E b \in Buffers : Owned(b) /\ buf[b].ptr = a
      BY <1>1, <2>1, HandleAssumption DEF NoLeak, Owned
    <3> QED
      BY <1>1, <3>1, FreedHeap DEF FreeBlock
  <2>2. CASE heap[a].holder # "library"
    BY <1>1, <2>2, FreedHeap DEF FreeBlock
  <2> QED
    BY <2>1, <2>2
<1>5. \A b \in Buffers : buf'[b].ptr = NULL /\ buf'[b].own = FALSE
  BY <1>2 DEF NoBuffer
<1>6. BuffersLive' /\ SizeWithinBlock' /\ OwnedHasPointer'
  BY <1>5 DEF BuffersLive, SizeWithinBlock, OwnedHasPointer
<1>7. NothingWithoutHandle'
  BY <1>2 DEF NothingWithoutHandle, NoBuffer
<1>8. KnownMethods'
  BY DEF Initialize, KnownMethods, Reorders, Compressors
<1>9. SizedOrEmpty'
  BY <1>5, UnsizedIsEmpty DEF Initialize, SizedOrEmpty, DataBytes, Pixels
<1> QED
  BY <1>3, <1>4, <1>6, <1>7, <1>8, <1>9 DEF HandleInv

(* A buffer is freed and then gets a block of its own, or none.            *)
LEMMA ReplacePreserves ==
  ASSUME HandleInv, exists, exists' = exists, UNCHANGED <<size, reorder, compress>>,
         compress_on_raw' = compress_on_raw, raw_size' = raw_size,
         NEW b \in Buffers, NEW new \in [ptr : Addr \cup {NULL}, size : Nat, own : BOOLEAN],
         NEW blockSize \in Nat,
         buf' = [buf EXCEPT ![b] = new],
         call' \in Buffers \cup {"idle"},
         new.own => ValidSize(size) /\ new.ptr # NULL,
         new.ptr = NULL => heap' = Freed({b}),
         new.ptr # NULL =>
           /\ Freed({b})[new.ptr] = FreeBlock
           /\ new.size <= blockSize
           /\ heap' = [Freed({b}) EXCEPT
                ![new.ptr] = [holder |-> IF new.own THEN "library" ELSE "caller",
                              size |-> blockSize]]
  PROVE  HandleInv'
<1> DEFINE freed == Freed({b})
<1>1. /\ TypeOK /\ BuffersLive /\ NoLeak /\ SizeWithinBlock
      /\ \A c \in Buffers : buf'[c] = IF c = b THEN new ELSE buf[c]
  BY DEF HandleInv, TypeOK
<1>2. /\ freed = [a \in Addr |-> freed[a]]
      /\ \A a \in Addr : freed[a] \in [holder : {"free", "library", "caller"}, size : Nat]
  <2>1. freed = [a \in Addr |-> freed[a]]
    BY DEF Freed
  <2>2. {b} \in SUBSET Buffers
    OBVIOUS
  <2> HIDE DEF freed
  <2>3. ASSUME NEW a \in Addr
        PROVE  freed[a] \in [holder : {"free", "library", "caller"}, size : Nat]
    BY <1>1, <2>2, FreedHeap DEF freed
  <2> QED
    BY <2>1, <2>3
<1>3. \A a \in Addr :
        heap'[a] = IF a = new.ptr
                   THEN [holder |-> IF new.own THEN "library" ELSE "caller",
                         size |-> blockSize]
                   ELSE freed[a]
  <2>1. CASE new.ptr = NULL
    BY <2>1, HandleAssumption
  <2>2. CASE new.ptr # NULL
    BY <1>2, <2>2
  <2> QED
    BY <2>1, <2>2
<1>4. \A c \in Buffers \ {b} :
        buf[c].ptr # NULL => /\ buf[c].ptr \in Addr
                             /\ freed[buf[c].ptr] = heap[buf[c].ptr]
  BY <1>1, OthersKeepTheirBlock
<1>5. \A c \in Buffers \ {b} : buf[c].ptr # NULL => buf[c].ptr # new.ptr
  <2> SUFFICES ASSUME NEW c \in Buffers \ {b}, buf[c].ptr # NULL, buf[c].ptr = new.ptr
               PROVE  FALSE
    OBVIOUS
  <2>1. heap[buf[c].ptr] = FreeBlock
    BY <1>4
  <2>2. heap[buf[c].ptr].holder \in {"library", "caller"}
    BY <1>1 DEF BuffersLive
  <2> QED
    BY <2>1, <2>2 DEF FreeBlock
<1>6. TypeOK'
  <2>1. buf' \in [Buffers -> [ptr : Addr \cup {NULL}, size : Nat, own : BOOLEAN]]
    BY <1>1 DEF TypeOK
  <2>2. heap' \in [Addr -> [holder : {"free", "library", "caller"}, size : Nat]]
    <3>1. heap' = [a \in Addr |-> heap'[a]]
      <4>1. CASE new.ptr = NULL
        BY <4>1 DEF Freed
      <4>2. CASE new.ptr # NULL
        BY <4>2 DEF Freed
      <4> QED
        BY <4>1, <4>2
    <3>2. ASSUME NEW a \in Addr
          PROVE  heap'[a] \in [holder : {"free", "library", "caller"}, size : Nat]
      <4>1. CASE a = new.ptr
        BY <1>3, <4>1
      <4>2. CASE a # new.ptr
        <5>1. heap'[a] = freed[a]
          BY <1>3, <4>2
        <5> QED
          BY <1>2, <5>1
      <4> QED
        BY <4>1, <4>2
    <3> QED
      BY <3>1, <3>2
  <2> QED
    BY <1>1, <2>1, <2>2 DEF TypeOK
<1>7. BuffersLive'
  <2> SUFFICES ASSUME NEW c \in Buffers, buf'[c].ptr # NULL
               PROVE  /\ heap'[buf'[c].ptr].holder =
                           IF buf'[c].own THEN "library" ELSE "caller"
                      /\ \A other \in Buffers \ {c} : buf'[other].ptr # buf'[c].ptr
    BY DEF BuffersLive
  <2>1. CASE c = b
    BY <1>1, <1>3, <1>5, <2>1
  <2>2. CASE c # b
    <3>1. buf'[c] = buf[c] /\ buf[c].ptr \in Addr /\ buf[c].ptr # new.ptr
      BY <1>1, <1>4, <1>5, <2>2
    <3>2. heap'[buf[c].ptr] = heap[buf[c].ptr]
      BY <1>3, <1>4, <2>2, <3>1, HandleAssumption
    <3> QED
      BY <1>1, <2>2, <3>1, <3>2 DEF BuffersLive
  <2> QED
    BY <2>1, <2>2
<1>8. SizeWithinBlock'
  <2> SUFFICES ASSUME NEW c \in Buffers, buf'[c].ptr # NULL
               PROVE  buf'[c].size <= heap'[buf'[c].ptr].size
    BY DEF SizeWithinBlock
  <2>1. CASE c = b
    BY <1>1, <1>3, <2>1
  <2>2. CASE c # b
    <3>1. buf'[c] = buf[c] /\ buf[c].ptr \in Addr /\ buf[c].ptr # new.ptr
      BY <1>1, <1>4, <1>5, <2>2
    <3>2. heap'[buf[c].ptr] = heap[buf[c].ptr]
      BY <1>3, <1>4, <2>2, <3>1, HandleAssumption
    <3> QED
      BY <1>1, <2>2, <3>1, <3>2 DEF SizeWithinBlock
  <2> QED
    BY <2>1, <2>2
<1>9. NoLeak'
  <2> SUFFICES ASSUME NEW a \in Addr, heap'[a].holder = "library"
               PROVE  \E c \in Buffers : buf'[c].own /\ buf'[c].ptr = a
    BY DEF NoLeak
  <2>1. CASE a = new.ptr
    BY <1>1, <1>3, <2>1
  <2>2. CASE a # new.ptr
    <3>1. freed[a].holder = "library"
      BY <1>3, <2>2
    <3>2. /\ freed[a] = heap[a]
          /\ ~ (\E c \in {b} : Owned(c) /\ buf[c].ptr = a)
      BY <1>1, <3>1, FreedHeap DEF FreeBlock
    <3>3. PICK c \in Buffers : buf[c].own /\ buf[c].ptr = a
      BY <1>1, <3>1, <3>2 DEF NoLeak
    <3>4. c # b
      BY <3>2, <3>3, HandleAssumption DEF Owned
    <3> QED
      BY <1>1, <3>3, <3>4
  <2> QED
    BY <2>1, <2>2
<1>10. OwnedHasPointer'
  BY <1>1 DEF HandleInv, OwnedHasPointer
<1>11. KnownMethods' /\ NothingWithoutHandle'
  BY DEF HandleInv, KnownMethods, NothingWithoutHandle
<1>12. SizedOrEmpty'
  BY <1>1 DEF HandleInv, SizedOrEmpty
<1> QED
  BY <1>6, <1>7, <1>8, <1>9, <1>10, <1>11, <1>12 DEF HandleInv

(* The actions that only set or read settings.                             *)
LEMMA ConfigurationPreserves ==
  ASSUME ValidInputs, HandleInv,
         \/ \E s \in Sizes : SetSize(s)
         \/ \E m \in Configs : Configure(m[1], m[2], m[3])
         \/ \E onRaw \in BOOLEAN : SetCompressOnRaw(onRaw)
         \/ \E h \in Headers : ReadHeader(h)
  PROVE  HandleInv'
<1>1. TypeOK /\ KnownMethods /\ SizedOrEmpty
  BY DEF HandleInv
<1>2. ASSUME NEW s \in Sizes, SetSize(s)
      PROVE  HandleInv'
  <2>1. s \in SizeRecords
    BY HandleAssumption
  <2>2. DataBytes(s) \in Nat
    BY <2>1, DataBytesNat
  <2>3. CASE rv' = "noerror"
    <3>1. size' = s /\ raw_size' = DataBytes(s) /\ Accepted(s)
      BY <1>2, <2>3 DEF SetSize, Accepted
    <3>2. TypeOK'
      BY <1>1, <1>2, <2>1, <2>2, <3>1 DEF SetSize, TypeOK
    <3>3. SizedOrEmpty'
      <4>1. ValidSize(s)
        BY <3>1 DEF ValidInputs
      <4> QED
        BY <3>1, <4>1 DEF SizedOrEmpty
    <3>4. KnownMethods'
      BY <1>1, <1>2 DEF SetSize, KnownMethods
    <3> QED
      BY <1>2, <3>2, <3>3, <3>4, SettingsPreserve DEF SetSize
  <2>4. CASE rv' # "noerror"
    <3>1. UNCHANGED <<settings, buf, heap, call>>
      BY <1>2, <2>4 DEF SetSize, settings
    <3>2. TypeOK' /\ KnownMethods' /\ SizedOrEmpty'
      BY <1>1, <3>1 DEF settings, TypeOK, KnownMethods, SizedOrEmpty
    <3> QED
      BY <3>1, <3>2, SettingsPreserve DEF settings
  <2> QED
    BY <2>3, <2>4
<1>3. ASSUME NEW m \in Configs, Configure(m[1], m[2], m[3])
      PROVE  HandleInv'
  <2>1. TypeOK' /\ SizedOrEmpty'
    BY <1>1, <1>3 DEF Configure, TypeOK, SizedOrEmpty
  <2>2. KnownMethods'
    BY <1>3 DEF Configure, KnownMethods, Recognised, Reorders, Compressors
  <2> QED
    BY <1>3, <2>1, <2>2, SettingsPreserve DEF Configure
<1>4. ASSUME NEW onRaw \in BOOLEAN, SetCompressOnRaw(onRaw)
      PROVE  HandleInv'
  <2>1. TypeOK' /\ KnownMethods' /\ SizedOrEmpty'
    BY <1>1, <1>4 DEF SetCompressOnRaw, TypeOK, KnownMethods, SizedOrEmpty
  <2> QED
    BY <1>4, <2>1, SettingsPreserve DEF SetCompressOnRaw
<1>5. ASSUME NEW h \in Headers, ReadHeader(h)
      PROVE  HandleInv'
  <2>1. h.size \in SizeRecords
    BY HandleAssumption
  <2>2. ValidSize(h.size) /\ h.reorder \in Reorders /\ h.compress \in Compressors
    BY DEF ValidInputs
  <2>3. TypeOK' /\ KnownMethods' /\ SizedOrEmpty'
    BY <1>1, <1>5, <2>1, <2>2 DEF ReadHeader, TypeOK, KnownMethods, SizedOrEmpty
  <2> QED
    BY <1>5, <2>3, SettingsPreserve DEF ReadHeader
<1> QED
  BY <1>2, <1>3, <1>4, <1>5

(* Lending a buffer, well or badly: the owned one it replaces is freed.    *)
LEMMA SetBufferPreserves ==
  ASSUME HandleInv, NEW b \in Buffers, SetBuffer(b)
  PROVE  HandleInv'
<1>1. TypeOK /\ BuffersLive
  BY DEF HandleInv
<1>2. ASSUME NEW a \in Addr, NEW block \in CallerSizes, NEW bytes \in {block, 0},
             heap[a] = FreeBlock,
             Install(b, a, bytes,
                     [Freed({b}) EXCEPT ![a] = [holder |-> "caller", size |-> block]])
      PROVE  HandleInv'
  <2> DEFINE new == [ptr |-> a, size |-> bytes, own |-> FALSE]
  <2>1. block \in Nat /\ bytes \in Nat /\ bytes <= block
    BY HandleAssumption
  <2>2. new \in [ptr : Addr \cup {NULL}, size : Nat, own : BOOLEAN]
    BY <2>1
  <2>3. Freed({b})[a] = FreeBlock
    BY <1>1, <1>2 DEF Freed
  <2>4. /\ exists /\ UNCHANGED <<settings, call>>
        /\ buf' = [buf EXCEPT ![b] = new]
        /\ heap' = [Freed({b}) EXCEPT ![a] = [holder |-> "caller", size |-> block]]
    BY <1>2 DEF Install, CanCall
  <2>5. call' \in Buffers \cup {"idle"}
    BY <1>1, <2>4 DEF TypeOK
  <2> QED
    BY <2>1, <2>2, <2>3, <2>4, <2>5, HandleAssumption, ReplacePreserves DEF settings
<1>3. ASSUME NEW bytes \in CallerSizes \cup {0}, Install(b, NULL, bytes, Freed({b}))
      PROVE  HandleInv'
  <2> DEFINE new == [ptr |-> NULL, size |-> bytes, own |-> FALSE]
  <2>1. new \in [ptr : Addr \cup {NULL}, size : Nat, own : BOOLEAN]
    BY HandleAssumption
  <2>2. /\ exists /\ UNCHANGED <<settings, call>>
        /\ buf' = [buf EXCEPT ![b] = new] /\ heap' = Freed({b})
    BY <1>3 DEF Install, CanCall
  <2>3. call' \in Buffers \cup {"idle"}
    BY <1>1, <2>2 DEF TypeOK
  <2> QED
    BY <2>1, <2>2, <2>3, ReplacePreserves DEF settings
<1> QED
  BY <1>2, <1>3 DEF SetBuffer

(* A step that leaves the settings, the buffers and the heap alone.        *)
LEMMA CallPreserves ==
  ASSUME HandleInv, UNCHANGED <<settings, buf, heap>>,
         call' \in Buffers \cup {"idle"}, exists \/ call' = call
  PROVE  HandleInv'
<1>1. TypeOK' /\ KnownMethods' /\ SizedOrEmpty'
  BY DEF HandleInv, TypeOK, KnownMethods, SizedOrEmpty, settings
<1>2. BuffersLive' /\ NoLeak' /\ SizeWithinBlock'
  BY DEF HandleInv, BuffersLive, NoLeak, SizeWithinBlock, settings
<1>3. OwnedHasPointer' /\ NothingWithoutHandle'
  BY DEF HandleInv, OwnedHasPointer, NothingWithoutHandle, settings
<1> QED
  BY <1>1, <1>2, <1>3 DEF HandleInv

(* An allocation either stops before it frees anything, or ends with a     *)
(* malloc.  This is where the size must be valid.                          *)
LEMMA AllocatePreserves ==
  ASSUME HandleInv, AllocateRaw \/ AllocateReordered \/ AllocateCompressed
  PROVE  HandleInv'
<1>1. TypeOK /\ BuffersLive /\ KnownMethods /\ SizedOrEmpty
  BY DEF HandleInv
<1>2. PICK b \in Buffers, sizeOnFailure \in Nat :
        /\ MayAllocate(b)
        /\ UNCHANGED settings
        /\ \/ NotSetUp(b, heap) \/ NotSetUp(b, Freed({b}))
           \/ /\ DataBytes(size) # 0
              /\ \/ NoMinimum(b, Freed({b}))
                 \/ Malloc(b, MinSize(b), sizeOnFailure, Freed({b}))
  <2>1. /\ MinSize("raw") \in Nat /\ MinSize("compressed") \in Nat /\ 0 \in Nat
        /\ "raw" \in Buffers /\ "reordered" \in Buffers /\ "compressed" \in Buffers
    BY <1>1, MinSizeNat DEF Buffers
  <2> QED
    BY <2>1 DEF AllocateRaw, AllocateReordered, AllocateCompressed
<1>3. exists
  BY <1>2 DEF MayAllocate
<1>4. call' \in Buffers \cup {"idle"}
  <2>1. CallAfter(b) \in Buffers \cup {"idle"}
    BY DEF CallAfter, Buffers
  <2> QED
    BY <1>2, <2>1 DEF NotSetUp, NoMinimum, Malloc, Report
<1>5. CASE NotSetUp(b, heap) \/ NotSetUp(b, Freed({b}))
  <2>1. ~ buf[b].own
    BY <1>1, <1>5 DEF NotSetUp, SizedOrEmpty, ValidSize
  <2>2. UNCHANGED <<settings, buf, heap>>
    BY <1>1, <1>2, <1>5, <2>1, FreedNothing DEF NotSetUp
  <2> QED
    BY <1>3, <1>4, <2>2, CallPreserves
<1>6. CASE DataBytes(size) # 0
  <2>1. ValidSize(size)
    BY <1>1, <1>6 DEF SizedOrEmpty
  <2>2. MinSize(b) # 0 /\ MinSize(b) \in Nat
    BY <1>1, <2>1, MinSizeNonZero, MinSizeNat
  <2>3. Malloc(b, MinSize(b), sizeOnFailure, Freed({b}))
    BY <1>2, <1>6, <2>2 DEF NotSetUp, NoMinimum
  <2>4. ASSUME NEW a \in Addr, Freed({b})[a] = FreeBlock,
               heap' = [Freed({b}) EXCEPT
                          ![a] = [holder |-> "library", size |-> MinSize(b)]],
               buf' = [buf EXCEPT
                         ![b] = [ptr |-> a, size |-> MinSize(b), own |-> TRUE]]
        PROVE  HandleInv'
    <3> DEFINE new == [ptr |-> a, size |-> MinSize(b), own |-> TRUE]
    <3>1. new \in [ptr : Addr \cup {NULL}, size : Nat, own : BOOLEAN]
      BY <2>2
    <3>2. MinSize(b) <= MinSize(b)
      BY <2>2
    <3>3. new.own /\ new.ptr # NULL
      BY HandleAssumption
    <3> QED
      BY <1>2, <1>3, <1>4, <2>1, <2>2, <2>4, <3>1, <3>2, <3>3, ReplacePreserves DEF settings
  <2>5. ASSUME heap' = Freed({b}),
               buf' = [buf EXCEPT
                         ![b] = [ptr |-> NULL, size |-> sizeOnFailure, own |-> FALSE]]
        PROVE  HandleInv'
    <3> DEFINE new == [ptr |-> NULL, size |-> sizeOnFailure, own |-> FALSE]
    <3>1. new \in [ptr : Addr \cup {NULL}, size : Nat, own : BOOLEAN]
      OBVIOUS
    <3> QED
      BY <1>2, <1>3, <1>4, <2>5, <3>1, ReplacePreserves DEF settings
  <2> QED
    BY <2>3, <2>4, <2>5 DEF Malloc
<1> QED
  BY <1>2, <1>5, <1>6

(* The caller frees a block that no buffer points to.                      *)
LEMMA CallerFreesPreserves ==
  ASSUME HandleInv, NEW a \in Addr, CallerFrees(a)
  PROVE  HandleInv'
<1>1. /\ TypeOK /\ BuffersLive /\ NoLeak /\ SizeWithinBlock
      /\ UNCHANGED <<settings, buf, call>>
      /\ \A b \in Buffers : buf[b].ptr # a
      /\ \A x \in Addr : heap'[x] = IF x = a THEN FreeBlock ELSE heap[x]
  BY DEF HandleInv, CallerFrees, TypeOK
<1>2. TypeOK'
  <2>1. FreeBlock \in [holder : {"free", "library", "caller"}, size : Nat]
    BY DEF FreeBlock
  <2> QED
    BY <1>1, <2>1 DEF TypeOK, CallerFrees, settings
<1>3. BuffersLive'
  BY <1>1 DEF BuffersLive, TypeOK
<1>4. SizeWithinBlock'
  BY <1>1 DEF SizeWithinBlock, TypeOK
<1>5. NoLeak'
  BY <1>1 DEF NoLeak, FreeBlock, settings
<1>6. KnownMethods' /\ SizedOrEmpty' /\ OwnedHasPointer' /\ NothingWithoutHandle'
  BY <1>1
  DEF HandleInv, KnownMethods, SizedOrEmpty, OwnedHasPointer, NothingWithoutHandle, settings
<1> QED
  BY <1>2, <1>3, <1>4, <1>5, <1>6 DEF HandleInv

(* A new handle owns nothing; when its malloc fails nothing has changed.   *)
LEMMA NewPreserves ==
  ASSUME HandleInv, New
  PROVE  HandleInv'
<1>1. /\ TypeOK /\ ~ exists /\ call = "idle"
      /\ \A b \in Buffers : ~ buf[b].own
  BY DEF HandleInv, NothingWithoutHandle, NoBuffer, New
<1>2. CASE Initialize
  <2>1. Freed(Buffers) = heap
    BY <1>1 DEF Freed, Owned, TypeOK
  <2>2. heap' = Freed(Buffers) /\ call' = "idle" /\ exists' \in BOOLEAN
    BY <1>1, <2>1 DEF New, TypeOK, settings
  <2> QED
    BY <1>2, <2>2, EmptyPreserves
<1>3. CASE UNCHANGED <<settings, buf>>
  <2>1. UNCHANGED <<settings, buf, heap>> /\ call' = call
    BY <1>3 DEF New
  <2> QED
    BY <1>1, <2>1, CallPreserves DEF TypeOK
<1> QED
  BY <1>2, <1>3 DEF New

LEMMA NextHandleInv ==
  ASSUME ValidInputs, HandleInv, [Next]_vars
  PROVE  HandleInv'
<1>1. TypeOK
  BY DEF HandleInv
<1>2. CASE New
  BY <1>2, NewPreserves
<1>3. CASE \/ \E s \in Sizes : SetSize(s)
           \/ \E m \in Configs : Configure(m[1], m[2], m[3])
           \/ \E onRaw \in BOOLEAN : SetCompressOnRaw(onRaw)
           \/ \E h \in Headers : ReadHeader(h)
  BY <1>3, ConfigurationPreserves
<1>4. CASE SetRaw \/ SetReordered \/ SetCompressed
  BY <1>4, SetBufferPreserves DEF SetRaw, SetReordered, SetCompressed, Buffers
<1>5. CASE \E a \in Addr : CallerFrees(a)
  BY <1>5, CallerFreesPreserves
<1>6. CASE AllocateRaw \/ AllocateReordered \/ AllocateCompressed
  BY <1>6, AllocatePreserves
<1>7. CASE Allocate
  <2>1. /\ exists /\ UNCHANGED <<settings, buf, heap>>
        /\ call' \in Buffers \cup {"idle"}
    BY <1>7 DEF Allocate, CanCall, Buffers
  <2> QED
    BY <2>1, CallPreserves
<1>8. CASE Reset \/ Delete
  <2>1. heap' = Freed(Buffers) /\ Initialize /\ exists' \in BOOLEAN /\ call' = "idle"
    BY <1>1, <1>8 DEF Reset, Delete, CanCall, TypeOK
  <2> QED
    BY <2>1, EmptyPreserves
<1>9. CASE UNCHANGED vars
  BY <1>1, <1>9, CallPreserves DEF vars, TypeOK
<1> QED
  BY <1>2, <1>3, <1>4, <1>5, <1>6, <1>7, <1>8, <1>9 DEF Next

-----------------------------------------------------------------------------
THEOREM SpecHandleInv ==
  ASSUME ValidInputs
  PROVE  Spec => []HandleInv
BY InitHandleInv, NextHandleInv, PTL DEF Spec

(* The types are right in every reachable state.                           *)
THEOREM SpecHandleTypeOK ==
  ASSUME ValidInputs
  PROVE  Spec => []TypeOK
<1>1. HandleInv => TypeOK
  BY DEF HandleInv
<1> QED
  BY <1>1, SpecHandleInv, PTL

(* On valid inputs, however set, allocate, reset and a failing malloc      *)
(* follow each other, a buffer points to a live block that it alone holds. *)
THEOREM SpecBuffersLive ==
  ASSUME ValidInputs
  PROVE  Spec => []BuffersLive
<1>1. HandleInv => BuffersLive
  BY DEF HandleInv
<1> QED
  BY <1>1, SpecHandleInv, PTL

(* No block the library allocated is ever lost.                            *)
THEOREM SpecNoLeak ==
  ASSUME ValidInputs
  PROVE  Spec => []NoLeak
<1>1. HandleInv => NoLeak
  BY DEF HandleInv
<1> QED
  BY <1>1, SpecHandleInv, PTL

(* No recorded buffer size exceeds the block behind it.                    *)
THEOREM SpecSizeWithinBlock ==
  ASSUME ValidInputs
  PROVE  Spec => []SizeWithinBlock
<1>1. HandleInv => SizeWithinBlock
  BY DEF HandleInv
<1> QED
  BY <1>1, SpecHandleInv, PTL

-----------------------------------------------------------------------------
(* The checks of the reorder functions.  A handle has no size yet, or one  *)
(* whose number of frames, with the spare frame, does not wrap.            *)

SizedOrNew == size = Unsized \/ ValidSize(size)

(* Only a caller's size, a header's, or none ever replaces a size.         *)
LEMMA SizeSteps ==
  ASSUME [Next]_vars, size' # size
  PROVE  \/ size' = Unsized
         \/ \E s \in Sizes : Accepted(s) /\ size' = s
         \/ \E h \in Headers : size' = h.size
<1>1. CASE \E s \in Sizes : SetSize(s)
  BY <1>1 DEF SetSize, Accepted
<1>2. CASE \E h \in Headers : ReadHeader(h)
  BY <1>2 DEF ReadHeader
<1>3. CASE Initialize
  BY <1>3 DEF Initialize
<1>4. ASSUME \/ \E m \in Configs : Configure(m[1], m[2], m[3])
             \/ \E onRaw \in BOOLEAN : SetCompressOnRaw(onRaw)
             \/ SetRaw \/ SetReordered \/ SetCompressed
             \/ \E a \in Addr : CallerFrees(a)
             \/ AllocateRaw \/ AllocateReordered \/ AllocateCompressed
             \/ Allocate
             \/ UNCHANGED vars
      PROVE  FALSE
  BY <1>4
  DEF Configure, SetCompressOnRaw, SetRaw, SetReordered, SetCompressed,
      SetBuffer, Install, CallerFrees, AllocateRaw, AllocateReordered,
      AllocateCompressed, Allocate, settings, vars
<1> QED
  BY <1>1, <1>2, <1>3, <1>4 DEF Next, New, Reset, Delete, settings

LEMMA SpecSizedOrNew ==
  ASSUME ValidInputs
  PROVE  Spec => []SizedOrNew
<1>1. Init => SizedOrNew
  BY DEF Init, SizedOrNew
<1>2. SizedOrNew /\ [Next]_vars => SizedOrNew'
  BY SizeSteps DEF ValidInputs, SizedOrNew
<1> QED
  BY <1>1, <1>2, PTL DEF Spec

LEMMA ValidSizeCounts ==
  ASSUME NEW s \in SizeRecords, ValidSize(s)
  PROVE  s.frames # 0 /\ FramesAndSpare(s) # 0
<1>1. DataBytes(s) # 0 /\ MinReordered(s, "renibble") # 0
  BY DEF ValidSize, Reorders, Compressors
<1>2. \A a \in Nat : a * 0 = 0 /\ 0 * a = 0 /\ 0 % U32 = 0
  BY SizesAssumption
<1>3. s.frames # 0
  BY <1>1, <1>2, Dimensions, TypeSizeNat DEF DataBytes, Pixels
<1>4. FramesAndSpare(s) # 0
  BY <1>1, <1>2, DataBytesNat DEF MinReordered
<1> QED
  BY <1>3, <1>4

(* The checks of xrif_reorder_none, bytepack and renibble let no encode    *)
(* leave a buffer, whatever size and methods the buffers were made for.    *)
THEOREM SpecReorderStaysInside ==
  ASSUME ValidInputs
  PROVE  Spec => []ReorderStaysInside
<1>1. HandleInv /\ SizedOrNew => ReorderStaysInside
  <2> SUFFICES ASSUME TypeOK, KnownMethods, SizedOrNew, reorder # "bitpack",
                      TypeSize(size.type) >= 2, ReorderGuard
               PROVE  /\ buf["raw"].size >= RawTouched(size, difference, reorder)
                      /\ buf["reordered"].size >=
                           ReorderedTouched(size, difference, reorder,
                                            buf["reordered"].size)
    BY DEF HandleInv, ReorderStaysInside
  <2> DEFINE copied == CopiedBytes(size, difference)
             n == ReorderedPixels(size, difference)
             w == TypeSize(size.type)
  <2>1. /\ size \in SizeRecords
        /\ buf["raw"].size \in Nat /\ buf["reordered"].size \in Nat
    BY DEF TypeOK, Buffers
  <2>2. ValidSize(size)
    BY DEF SizedOrNew, Unsized, TypeSize
  <2>3. /\ size.frames # 0 /\ FramesAndSpare(size) # 0
        /\ w \in Nat /\ n \in Nat /\ copied \in Nat
    BY <2>1, <2>2, ValidSizeCounts, TypeSizeNat, ReorderedPixelsBound, TwoBytesAPixel
  <2>4. n * w \in Nat /\ 2 * n <= n * w /\ Payload = copied + n * w
    <3> HIDE DEF n, w
    <3>1. n * w \in Nat /\ 2 * n <= n * w
      BY <2>3 DEF w
    <3> QED
      BY <3>1 DEF Payload, n, w
  <2> HIDE DEF copied, n, w
  <2>5. CASE reorder = "none"
    BY <2>5 DEF ReorderGuard, RawTouched, ReorderedTouched
  <2>6. CASE reorder = "bytepack"
    <3>1. w = 2
      BY <2>6 DEF ReorderGuard, TypeSize, w
    <3>2. /\ buf["raw"].size >= copied + 2 * n
          /\ buf["reordered"].size >= copied + 2 * n
      BY <2>3, <2>4, <2>6, <3>1 DEF ReorderGuard
    <3> QED
      BY <2>6, <3>2 DEF RawTouched, ReorderedTouched, copied, n
  <2>7. CASE reorder = "renibble"
    <3>1. /\ buf["raw"].size >= copied + 2 * n
          /\ buf["reordered"].size >= MinReordered(size, "renibble")
      BY <2>1, <2>3, <2>4, <2>7 DEF ReorderGuard
    <3>2. ReorderedTouched(size, difference, "renibble", buf["reordered"].size)
            = ReorderedTouched(size, difference, "renibble",
                               MinReordered(size, "renibble"))
      BY DEF ReorderedTouched
    <3>3. ReorderedTouched(size, difference, "renibble",
                           MinReordered(size, "renibble"))
            <= MinReordered(size, "renibble")
      BY <2>1, <2>3, ReorderedFits DEF Reorders
    <3>4. ReorderedTouched(size, difference, "renibble",
                           MinReordered(size, "renibble")) \in Nat
      BY <2>3 DEF ReorderedTouched, HalfUp, copied, n
    <3> QED
      BY <2>1, <2>7, <3>1, <3>2, <3>3, <3>4, MinReorderedNat
      DEF RawTouched, copied, n
  <2> QED
    BY <2>5, <2>6, <2>7 DEF KnownMethods, Reorders
<1> QED
  BY <1>1, SpecHandleInv, SpecSizedOrNew, PTL

-----------------------------------------------------------------------------
(* xrif_allocate.  Its three calls leave a handle whose buffers have the   *)
(* minimum sizes; a cube of fewer than 2^32 pixels of two bytes or more    *)
(* is encoded within these.                                                *)

Encodable(s) == Unwrapped(s) /\ TypeSize(s.type) >= 2

EncodableInputs ==
  /\ \A s \in Sizes : Accepted(s) => Encodable(s)
  /\ \A h \in Headers : Encodable(h.size)

(* The inductive invariant: what the calls of xrif_allocate that have been *)
(* made have left.  Nothing else runs between them.                        *)
AllocatedSoFar ==
  /\ call \in {"reordered", "compressed"} => buf["raw"].size = MinSize("raw")
  /\ call = "compressed" => /\ buf["reordered"].size = MinSize("reordered")
                            /\ ~ compress_on_raw

AllocateInv == AllocatedSoFar /\ (size = Unsized \/ Encodable(size))

\* What a successful xrif_allocate leaves.
AtMinimum ==
  /\ ValidSize(size) /\ Encodable(size)
  /\ buf["raw"].size = MinSize("raw")
  /\ buf["reordered"].size = MinSize("reordered")
  /\ ~ compress_on_raw => buf["compressed"].size = MinSize("compressed")

LEMMA MinimumIsRoom ==
  ASSUME TypeOK, KnownMethods, AtMinimum, ~ CopiesSpareFrame
  PROVE  RoomToEncode
<1> DEFINE data == DataBytes(size)
           reordered == MinReordered(size, reorder)
           compressed == MinCompressed(size, reorder, compress)
<1>1. /\ size \in SizeRecords /\ Unwrapped(size)
      /\ size.frames # 0 /\ FramesAndSpare(size) # 0
      /\ TypeSize(size.type) >= 2
      /\ reorder \in Reorders /\ compress \in Compressors
      /\ compress_on_raw \in BOOLEAN
  BY ValidSizeCounts DEF TypeOK, KnownMethods, AtMinimum, Encodable
<1>2. /\ buf["raw"].size = IF compress_on_raw THEN AtLeast(compressed, data) ELSE data
      /\ buf["reordered"].size = reordered
      /\ ~ compress_on_raw => buf["compressed"].size = compressed
  BY DEF AtMinimum, MinSize, MinRaw
<1>3. data \in Nat /\ reordered \in Nat /\ compressed \in Nat
  BY <1>1, DataBytesNat, MinReorderedNat, MinCompressedNat
<1>4. /\ RawTouched(size, difference, reorder) <= data
      /\ ReorderedTouched(size, difference, reorder, reordered) <= reordered
      /\ RawTouched(size, difference, reorder) \in Nat
      /\ ReorderedTouched(size, difference, reorder, reordered) \in Int
  <2>1. /\ RawTouched(size, difference, reorder) <= data
        /\ ReorderedTouched(size, difference, reorder, reordered) <= reordered
    BY <1>1, RawFits, ReorderedFits
  <2>2. /\ CopiedBytes(size, difference) \in Nat
        /\ ReorderedPixels(size, difference) \in Nat
    BY <1>1, TwoBytesAPixel, ReorderedPixelsBound
  <2> HIDE DEF reordered
  <2> QED
    BY <1>1, <1>3, <2>1, <2>2
    DEF RawTouched, ReorderedTouched, HalfUp, Reorders
<1>5. CompressTouched(size, reorder, compress, reordered) = compressed
  <2>1. CASE compress = "lz4"
    BY <2>1 DEF CompressTouched, MinCompressed
  <2>2. CASE compress = "none"
    <3>1. reorder \in {"none", "bytepack"}
      BY <1>1, <2>2 DEF CopiesSpareFrame, Reorders
    <3>2. reordered = data
      BY <1>1, <3>1, DataFitsReordered
    <3> QED
      BY <2>2, <3>2 DEF CompressTouched, MinCompressed
  <2> QED
    BY <1>1, <2>1, <2>2 DEF Compressors
<1> HIDE DEF data, reordered, compressed
<1>6. /\ buf["raw"].size >= data
      /\ compress_on_raw => buf["raw"].size >= compressed
  BY <1>1, <1>2, <1>3 DEF AtLeast
<1>7. /\ buf["raw"].size \in Nat /\ buf[CompressBuffer].size >= compressed
  BY <1>1, <1>2, <1>3, <1>6 DEF CompressBuffer, TypeOK, Buffers
<1> QED
  BY <1>2, <1>3, <1>4, <1>5, <1>6, <1>7 DEF RoomToEncode, data

(* A call of xrif_allocate that succeeds, or moves on to the next, has     *)
(* given its buffer the minimum size.                                      *)
LEMMA CallSteps ==
  ASSUME TypeOK, [Next]_vars, call # "idle", call' # call, call' # "idle" \/ rv' = "noerror"
  PROVE  /\ UNCHANGED settings
         /\ DataBytes(size) # 0
         /\ call' = CallAfter(call)
         /\ \A b \in Buffers : buf'[b].size = IF b = call THEN MinSize(b) ELSE buf[b].size
<1>1. AllocateRaw \/ AllocateReordered \/ AllocateCompressed
  BY DEF Next, New, SetSize, Configure, SetCompressOnRaw, ReadHeader, SetRaw,
         SetReordered, SetCompressed, SetBuffer, Install, CallerFrees, Allocate,
         Reset, Delete, CanCall, vars
<1>2. PICK b \in Buffers, sizeOnFailure \in Int :
        /\ MayAllocate(b)
        /\ UNCHANGED settings
        /\ \/ NotSetUp(b, heap) \/ NotSetUp(b, Freed({b}))
           \/ /\ DataBytes(size) # 0
              /\ \/ NoMinimum(b, Freed({b}))
                 \/ Malloc(b, MinSize(b), sizeOnFailure, Freed({b}))
  <2>1. MinSize("raw") \in Int /\ MinSize("compressed") \in Int /\ 0 \in Int
    BY MinSizeNat DEF Buffers
  <2> QED
    BY <1>1, <2>1 DEF AllocateRaw, AllocateReordered, AllocateCompressed, Buffers
<1>3. call = b
  BY <1>2 DEF MayAllocate
<1>4. /\ rv' = "noerror" /\ call' = CallAfter(b)
      /\ ~ NotSetUp(b, heap) /\ ~ NotSetUp(b, Freed({b})) /\ ~ NoMinimum(b, Freed({b}))
  BY <1>2, <1>3 DEF NotSetUp, NoMinimum, Malloc, Report
<1>5. \E a \in Addr :
        buf' = [buf EXCEPT ![b] = [ptr |-> a, size |-> MinSize(b), own |-> TRUE]]
  BY <1>2, <1>4 DEF Malloc, Report
<1> QED
  BY <1>2, <1>3, <1>4, <1>5 DEF TypeOK

LEMMA NextAllocateInv ==
  ASSUME EncodableInputs, HandleInv, AllocateInv, [Next]_vars
  PROVE  AllocateInv'
<1>1. (size = Unsized \/ Encodable(size))'
  BY SizeSteps DEF EncodableInputs, AllocateInv
<1>2. AllocatedSoFar'
  <2>1. TypeOK /\ AllocatedSoFar
    BY DEF HandleInv, AllocateInv
  <2>2. CASE call' = "idle"
    BY <2>2 DEF AllocatedSoFar
  <2>3. CASE call' # "idle" /\ call' # call /\ call # "idle"
    <3>1. /\ UNCHANGED settings /\ call' = CallAfter(call)
          /\ \A b \in Buffers :
               buf'[b].size = IF b = call THEN MinSize(b) ELSE buf[b].size
      BY <2>1, <2>3, CallSteps
    <3> QED
      BY <2>1, <2>3, <3>1
      DEF AllocatedSoFar, CallAfter, MinSize, settings, TypeOK, Buffers
  <2>4. CASE call' # "idle" /\ call = "idle"
    <3>1. call' = "raw"
      BY <2>4 DEF Next, New, SetSize, Configure, SetCompressOnRaw, ReadHeader,
             SetRaw, SetReordered, SetCompressed, SetBuffer, Install, CallerFrees,
             AllocateRaw, AllocateReordered, AllocateCompressed, NotSetUp,
             NoMinimum, Malloc, Report, Allocate, Reset, Delete, vars
    <3> QED
      BY <3>1 DEF AllocatedSoFar
  <2>5. CASE call' = call /\ call # "idle"
    <3>1. UNCHANGED <<settings, buf>>
      <4>1. exists
        BY <2>5 DEF HandleInv, NothingWithoutHandle
      <4>2. CASE AllocateRaw \/ AllocateReordered \/ AllocateCompressed
        BY <2>1, <2>5, <4>2
        DEF AllocateRaw, AllocateReordered, AllocateCompressed, MayAllocate,
            NotSetUp, NoMinimum, Malloc, Report, CallAfter
      <4> QED
        BY <2>5, <4>1, <4>2
        DEF Next, New, SetSize, Configure, SetCompressOnRaw, ReadHeader, SetRaw,
            SetReordered, SetCompressed, SetBuffer, Install, CallerFrees,
            Allocate, Reset, Delete, CanCall, vars
    <3> QED
      BY <2>1, <2>5, <3>1 DEF AllocatedSoFar, MinSize, settings
  <2> QED
    BY <2>2, <2>3, <2>4, <2>5
<1> QED
  BY <1>1, <1>2 DEF AllocateInv

(* Between the three calls that xrif_allocate makes, every buffer already  *)
(* allocated still has the minimum size of the configured cube: nothing    *)
(* that a program may do comes in between, and no call changes the size or *)
(* a method that its successors or predecessors compute with.              *)
THEOREM SpecAllocateInv ==
  ASSUME ValidInputs, EncodableInputs
  PROVE  Spec => []AllocateInv
<1>1. Init => AllocateInv
  BY DEF Init, AllocateInv, AllocatedSoFar
<1>2. HandleInv /\ AllocateInv /\ [Next]_vars => AllocateInv'
  BY NextAllocateInv
<1> QED
  BY <1>1, <1>2, SpecHandleInv, PTL DEF Spec

(* Whatever happened to the handle before, once xrif_allocate has returned *)
(* XRIF_NOERROR a whole encode has room.                                   *)
THEOREM SpecAllocateGivesRoom ==
  ASSUME ValidInputs, EncodableInputs
  PROVE  Spec => AllocateGivesRoom
<1>1. (TypeOK /\ KnownMethods /\ AtMinimum /\ ~ CopiesSpareFrame => RoomToEncode)'
  BY MinimumIsRoom, PTL
<1>2. ASSUME HandleInv, HandleInv', AllocateInv, [Next]_vars
      PROVE  [AllocateSucceeds /\ ~ CopiesSpareFrame' => RoomToEncode']_vars
  <2> SUFFICES ASSUME AllocateSucceeds, ~ CopiesSpareFrame'
               PROVE  RoomToEncode'
    OBVIOUS
  <2>1. /\ TypeOK /\ KnownMethods /\ AllocatedSoFar /\ SizedOrEmpty
        /\ call \in Buffers
        /\ UNCHANGED settings /\ DataBytes(size) # 0
        /\ CallAfter(call) = "idle"
        /\ \A b \in Buffers :
             buf'[b].size = IF b = call THEN MinSize(b) ELSE buf[b].size
    BY <1>2, CallSteps DEF HandleInv, AllocateInv, AllocateSucceeds, TypeOK
  <2>2. ValidSize(size) /\ Encodable(size)
    BY <1>2, <2>1, UnsizedIsEmpty DEF SizedOrEmpty, AllocateInv
  <2>3. /\ buf'["raw"].size = MinSize("raw")
        /\ buf'["reordered"].size = MinSize("reordered")
        /\ ~ compress_on_raw => buf'["compressed"].size = MinSize("compressed")
    BY <2>1 DEF AllocatedSoFar, CallAfter, Buffers
  <2>4. UNCHANGED <<size, reorder, compress, compress_on_raw>>
    BY <2>1 DEF settings
  <2>5. AtMinimum'
    BY <2>2, <2>3, <2>4 DEF AtMinimum, MinSize
  <2>6. TypeOK' /\ KnownMethods'
    BY <1>2 DEF HandleInv
  <2> QED
    BY <1>1, <2>5, <2>6
<1> QED
  BY <1>2, SpecHandleInv, SpecAllocateInv, PTL DEF Spec, AllocateGivesRoom

=============================================================================
