----------------------------- MODULE XrifHandle -----------------------------
(***************************************************************************)
(* The life of an xrif handle: xrif_new, xrif_set_size, xrif_configure,    *)
(* xrif_read_header, the three xrif_set_X and xrif_allocate_X functions,   *)
(* xrif_allocate, xrif_reset and xrif_delete, and the heap they share with *)
(* the program that calls them.                                            *)
(*                                                                         *)
(* A buffer of the handle is either owned, that is malloc'ed and freed by  *)
(* the library, or lent by the caller.  malloc may fail at any call.       *)
(* Each call on a null handle returns XRIF_ERROR_NULLPTR and does nothing; *)
(* those calls are left out, except in xrif_new.                           *)
(***************************************************************************)
EXTENDS XrifSizes

CONSTANTS
  Addr,         \* addresses of heap blocks
  NULL,         \* the null pointer
  Sizes,        \* the dimensions and types that callers set
  Headers,      \* the sizes and methods of the headers that callers read
  Configs,      \* the <<difference, reorder, compress>> that callers configure
  CallerSizes   \* the sizes of the blocks that callers lend

Buffers == {"raw", "reordered", "compressed"}

ASSUME HandleAssumption ==
  /\ NULL \notin Addr
  /\ Sizes \subseteq SizeRecords
  /\ Headers \subseteq [size : SizeRecords, difference : STRING,
                         reorder : STRING, compress : STRING]
  /\ CallerSizes \subseteq Nat

VARIABLES
  exists,      \* the caller holds a handle from xrif_new
  size,        \* width, height, depth, frames and type_code
  difference, reorder, compress,   \* the methods
  compress_on_raw,
  raw_size,
  buf,         \* per buffer, its pointer, its size and its own_ flag
  heap,        \* per address, who holds the block and how large it is
  call,        \* the allocation xrif_allocate makes next, or "idle"
  rv           \* what the last call returned

settings == <<exists, size, difference, reorder, compress, compress_on_raw, raw_size>>
vars == <<settings, buf, heap, call, rv>>

FreeBlock == [holder |-> "free", size |-> 0]
NoBuffer == [ptr |-> NULL, size |-> 0, own |-> FALSE]

CanCall == exists /\ call = "idle"

Owned(b) == buf[b].own /\ buf[b].ptr # NULL

\* The heap after free() of the given buffers, as far as they are owned.
Freed(bs) == [a \in Addr |-> IF \E b \in bs : Owned(b) /\ buf[b].ptr = a
                             THEN FreeBlock ELSE heap[a]]

MinSize(b) ==
  CASE b = "raw" -> MinRaw(size, reorder, compress, compress_on_raw)
    [] b = "reordered" -> MinReordered(size, reorder)
    [] b = "compressed" -> MinCompressed(size, reorder, compress)

-----------------------------------------------------------------------------
\* xrif_initialize_handle: every member gets its default.
Initialize ==
  /\ size' = Unsized
  /\ difference' = "previous"
  /\ reorder' = "bytepack"
  /\ compress' = "lz4"
  /\ compress_on_raw' = TRUE
  /\ raw_size' = 0
  /\ buf' = [b \in Buffers |-> NoBuffer]

Init ==
  /\ exists = FALSE
  /\ size = Unsized
  /\ difference = "previous" /\ reorder = "bytepack" /\ compress = "lz4"
  /\ compress_on_raw = TRUE
  /\ raw_size = 0
  /\ buf = [b \in Buffers |-> NoBuffer]
  /\ heap = [a \in Addr |-> FreeBlock]
  /\ call = "idle"
  /\ rv = "noerror"

\* xrif_new.  When malloc fails, execution runs on into
\* xrif_initialize_handle(NULL): the error code is not returned.
New ==
  /\ ~ exists
  /\ \/ exists' = TRUE /\ Initialize /\ rv' = "noerror"
     \/ /\ rv' = "nullptr"
        /\ UNCHANGED <<settings, buf>>
  /\ UNCHANGED <<heap, call>>

SetSize(s) ==
  /\ CanCall
  /\ IF 0 \in {s.width, s.height, s.depth, s.frames}
     THEN rv' = "invalid_size" /\ UNCHANGED <<size, raw_size>>
     ELSE IF TypeSize(s.type) = 0
     THEN rv' = "invalid_type" /\ UNCHANGED <<size, raw_size>>
     ELSE rv' = "noerror" /\ size' = s /\ raw_size' = DataBytes(s)
  /\ UNCHANGED <<exists, difference, reorder, compress, compress_on_raw, buf, heap, call>>

\* Variant: a method that is not recognised is kept.
KeptUnrecognised(methods, m, default) == m

Recognised(methods, m, default) == IF m \in methods THEN m ELSE default

\* xrif_configure: all three setters run, then the first error is returned.
Configure(d, r, c) ==
  /\ CanCall
  /\ difference' = Recognised(Differences, d, "previous")
  /\ reorder' = Recognised(Reorders, r, "bytepack")
  /\ compress' = Recognised(Compressors, c, "lz4")
  /\ rv' = IF d \in Differences /\ r \in Reorders /\ c \in Compressors
           THEN "noerror" ELSE "badarg"
  /\ UNCHANGED <<exists, size, compress_on_raw, raw_size, buf, heap, call>>

\* The caller writes handle->compress_on_raw.
SetCompressOnRaw(onRaw) ==
  /\ CanCall
  /\ compress_on_raw' = onRaw
  /\ UNCHANGED <<exists, size, difference, reorder, compress, raw_size, buf, heap, call, rv>>

\* xrif_read_header of a well-formed header: nothing in it is checked.
ReadHeader(h) ==
  /\ CanCall
  /\ size' = h.size
  /\ difference' = h.difference
  /\ reorder' = h.reorder
  /\ compress' = h.compress
  /\ rv' = "noerror"
  /\ UNCHANGED <<exists, compress_on_raw, raw_size, buf, heap, call>>

-----------------------------------------------------------------------------
(* Lending a buffer: xrif_set_raw, xrif_set_reordered, xrif_set_compressed.*)
(* The buffer is installed before it is checked, and stays on an error.    *)

\* Variant: the own_ flag of the replaced buffer stays.
InstallKeepingOwn(b, ptr, bytes, heapAfter) ==
  /\ CanCall
  /\ buf' = [buf EXCEPT ![b].ptr = ptr, ![b].size = bytes]
  /\ heap' = heapAfter
  /\ rv' = "noerror"
  /\ UNCHANGED <<settings, call>>

\* Variant: the minimum size is recorded, whatever the caller said.
InstallAtMinimum(b, ptr, bytes, heapAfter) ==
  /\ CanCall
  /\ buf' = [buf EXCEPT ![b] = [ptr |-> ptr, size |-> MinSize(b), own |-> FALSE]]
  /\ heap' = heapAfter
  /\ rv' = "noerror"
  /\ UNCHANGED <<settings, call>>

Install(b, ptr, bytes, heapAfter) ==
  /\ CanCall
  /\ buf' = [buf EXCEPT ![b] = [ptr |-> ptr, size |-> bytes, own |-> FALSE]]
  /\ heap' = heapAfter
  /\ rv' = IF (ptr = NULL) # (bytes = 0) THEN "invalid_size"
           ELSE IF MinSize(b) = 0 THEN "invalid_size"
           ELSE IF bytes < MinSize(b) THEN "insufficient_size"
           ELSE "noerror"
  /\ UNCHANGED <<settings, call>>

\* The caller lends a block of its own, and says how large it is (0: wrongly).
SetBuffer(b) ==
  \/ \E a \in Addr, block \in CallerSizes : \E bytes \in {block, 0} :
       /\ heap[a] = FreeBlock
       /\ Install(b, a, bytes,
                  [Freed({b}) EXCEPT ![a] = [holder |-> "caller", size |-> block]])
  \/ \E bytes \in CallerSizes \cup {0} : Install(b, NULL, bytes, Freed({b}))

SetRaw == SetBuffer("raw")
SetReordered == SetBuffer("reordered")
SetCompressed == SetBuffer("compressed")

\* The caller frees a block it no longer lends to the handle.
CallerFrees(a) ==
  /\ heap[a].holder = "caller"
  /\ \A b \in Buffers : buf[b].ptr # a
  /\ heap' = [heap EXCEPT ![a] = FreeBlock]
  /\ UNCHANGED <<settings, buf, call, rv>>

-----------------------------------------------------------------------------
(* Allocation.  Each of the three functions is called by the program, or   *)
(* by xrif_allocate, which stops at the first that fails.                  *)

MayAllocate(b) == exists /\ call \in {"idle", b}

\* Variant: a call beyond the last.
CallAfterLast(b) ==
  IF b = "raw" THEN "reordered" ELSE IF b = "reordered" THEN "compressed" ELSE "done"

\* Variant: the compressed buffer is always allocated.
CallAfterAlways(b) ==
  CASE b = "raw" -> "reordered"
    [] b = "reordered" -> "compressed"
    [] b = "compressed" -> "idle"

\* The call after b in xrif_allocate.
CallAfter(b) ==
  CASE b = "raw" -> "reordered"
    [] b = "reordered" -> IF compress_on_raw THEN "idle" ELSE "compressed"
    [] b = "compressed" -> "idle"

Report(b, code) ==
  /\ rv' = code
  /\ call' = IF code = "noerror" /\ call = b THEN CallAfter(b) ELSE "idle"

\* malloc(bytes) for buffer b on the given heap: a free block, or failure.
Malloc(b, bytes, sizeOnFailure, onHeap) ==
  \/ \E a \in Addr :
       /\ onHeap[a] = FreeBlock
       /\ heap' = [onHeap EXCEPT ![a] = [holder |-> "library", size |-> bytes]]
       /\ buf' = [buf EXCEPT ![b] = [ptr |-> a, size |-> bytes, own |-> TRUE]]
       /\ Report(b, "noerror")
  \/ /\ heap' = onHeap
     /\ buf' = [buf EXCEPT ![b] = [ptr |-> NULL, size |-> sizeOnFailure, own |-> FALSE]]
     /\ Report(b, "malloc")

\* The minimum size is 0: the pointer of a freed buffer stays in the handle.
NoMinimum(b, onHeap) ==
  /\ MinSize(b) = 0
  /\ heap' = onHeap
  /\ buf' = [buf EXCEPT ![b].size = 0]
  /\ Report(b, "invalid_size")

NotSetUp(b, onHeap) ==
  /\ DataBytes(size) = 0
  /\ heap' = onHeap
  /\ Report(b, "not_setup")
  /\ UNCHANGED buf

AllocateRaw ==
  /\ MayAllocate("raw")
  /\ \/ NotSetUp("raw", heap)
     \/ /\ DataBytes(size) # 0
        /\ \/ NoMinimum("raw", Freed({"raw"}))
           \/ /\ MinSize("raw") # 0
              /\ Malloc("raw", MinSize("raw"), MinSize("raw"), Freed({"raw"}))
  /\ UNCHANGED settings

AllocateReordered ==
  /\ MayAllocate("reordered")
  /\ \/ NotSetUp("reordered", heap)
     \/ /\ DataBytes(size) # 0
        /\ \/ NoMinimum("reordered", Freed({"reordered"}))
           \/ /\ MinSize("reordered") # 0
              /\ Malloc("reordered", MinSize("reordered"), 0, Freed({"reordered"}))
  /\ UNCHANGED settings

\* Here the owned buffer is freed before anything is checked.
AllocateCompressed ==
  /\ MayAllocate("compressed")
  /\ \/ NotSetUp("compressed", Freed({"compressed"}))
     \/ /\ DataBytes(size) # 0
        /\ \/ NoMinimum("compressed", Freed({"compressed"}))
           \/ /\ MinSize("compressed") # 0
              /\ Malloc("compressed", MinSize("compressed"), MinSize("compressed"),
                        Freed({"compressed"}))
  /\ UNCHANGED settings

\* xrif_allocate: enters the sequence of the three calls above.
Allocate ==
  /\ CanCall
  /\ IF DataBytes(size) = 0
     THEN rv' = "not_setup" /\ call' = "idle"
     ELSE rv' = rv /\ call' = "raw"
  /\ UNCHANGED <<settings, buf, heap>>

-----------------------------------------------------------------------------
\* Variant: the compressed buffer is not freed.
ResetTwoBuffers ==
  /\ CanCall
  /\ heap' = Freed({"raw", "reordered"})
  /\ Initialize
  /\ rv' = "noerror"
  /\ UNCHANGED <<exists, call>>

Reset ==
  /\ CanCall
  /\ heap' = Freed(Buffers)
  /\ Initialize
  /\ rv' = "noerror"
  /\ UNCHANGED <<exists, call>>

Delete ==
  /\ CanCall
  /\ exists' = FALSE
  /\ heap' = Freed(Buffers)
  /\ Initialize
  /\ rv' = "noerror"
  /\ UNCHANGED call

Next ==
  \/ New
  \/ \E s \in Sizes : SetSize(s)
  \/ \E m \in Configs : Configure(m[1], m[2], m[3])
  \/ \E onRaw \in BOOLEAN : SetCompressOnRaw(onRaw)
  \/ \E h \in Headers : ReadHeader(h)
  \/ SetRaw
  \/ SetReordered
  \/ SetCompressed
  \/ \E a \in Addr : CallerFrees(a)
  \/ AllocateRaw
  \/ AllocateReordered
  \/ AllocateCompressed
  \/ Allocate
  \/ Reset
  \/ Delete

Spec == Init /\ [][Next]_vars

-----------------------------------------------------------------------------
(* The size checks with which the reorder functions start, and a variant   *)
(* that looks at the raw buffer alone.                                     *)

Payload == CopiedBytes(size, difference)
             + ReorderedPixels(size, difference) * TypeSize(size.type)

GuardRawOnly ==
  buf["raw"].size >= IF reorder = "none" THEN DataBytes(size) ELSE Payload

ReorderGuard ==
  CASE reorder = "none" ->
         /\ buf["raw"].size >= DataBytes(size)
         /\ buf["reordered"].size >= DataBytes(size)
    [] reorder = "bytepack" ->
         /\ size.type \in {"int16", "uint16"}
         /\ buf["raw"].size >= Payload
         /\ buf["reordered"].size >= Payload
    [] reorder = "renibble" ->
         /\ buf["raw"].size >= Payload
         /\ buf["reordered"].size >= MinReordered(size, "renibble")
    [] OTHER -> TRUE

-----------------------------------------------------------------------------
TypeOK ==
  /\ exists \in BOOLEAN
  /\ size \in SizeRecords
  /\ compress_on_raw \in BOOLEAN
  /\ raw_size \in Nat
  /\ buf \in [Buffers -> [ptr : Addr \cup {NULL}, size : Nat, own : BOOLEAN]]
  /\ heap \in [Addr -> [holder : {"free", "library", "caller"}, size : Nat]]
  /\ call \in Buffers \cup {"idle"}

(* A buffer the handle points to is a live block that only this buffer     *)
(* holds: the library's when it is owned, the caller's otherwise.  So no   *)
(* free() in a later set, allocate, reset or delete hits a block twice,    *)
(* or a block of the caller, and no stage of the pipeline uses a freed     *)
(* block.                                                                  *)
BuffersLive ==
  \A b \in Buffers :
    buf[b].ptr # NULL =>
      /\ heap[buf[b].ptr].holder = IF buf[b].own THEN "library" ELSE "caller"
      /\ \A other \in Buffers \ {b} : buf[other].ptr # buf[b].ptr

(* Every block the library allocated is still owned by a buffer: no order  *)
(* of set, allocate, failed malloc and reset loses one, and none is left   *)
(* once the handle is deleted.                                             *)
NoLeak ==
  \A a \in Addr :
    heap[a].holder = "library" =>
      exists /\ \E b \in Buffers : buf[b].own /\ buf[b].ptr = a

(* The size recorded for a buffer never exceeds the block behind it.       *)
SizeWithinBlock ==
  \A b \in Buffers : buf[b].ptr # NULL => buf[b].size <= heap[buf[b].ptr].size

(* The handle has room for a whole encode: for the data and what the       *)
(* reorder function reads of it, for what it writes, and for the output of *)
(* the compressor in the buffer that takes it.                             *)
CompressBuffer == IF compress_on_raw THEN "raw" ELSE "compressed"

RoomToEncode ==
  /\ buf["raw"].size >= DataBytes(size)
  /\ buf["raw"].size >= RawTouched(size, difference, reorder)
  /\ buf["reordered"].size >=
       ReorderedTouched(size, difference, reorder, buf["reordered"].size)
  /\ buf[CompressBuffer].size >=
       CompressTouched(size, reorder, compress, buf["reordered"].size)

AllocateSucceeds == call # "idle" /\ call' = "idle" /\ rv' = "noerror"

(* After xrif_allocate has returned XRIF_NOERROR an encode has room for    *)
(* every stage, unless it copies the reordered data of renibble or         *)
(* bitpack uncompressed: their spare frame is not counted in the           *)
(* destination (see RoomAfterAllocate).                                    *)
CopiesSpareFrame == compress = "none" /\ reorder \in {"renibble", "bitpack"}

AllocateGivesRoom ==
  [][AllocateSucceeds /\ ~ CopiesSpareFrame' => RoomToEncode']_vars

(* The same, as xrif.h documents xrif_allocate: "Allocate all memory       *)
(* buffers according to the configuration specified in the handle."        *)
RoomAfterAllocate == [][AllocateSucceeds => RoomToEncode']_vars

(* The size or the methods of a handle may change under buffers allocated  *)
(* for another cube.  Then the checks of the reorder functions stop an     *)
(* encode that would leave a buffer.  Two cases are not stopped, and left  *)
(* out here: bitpack checks nothing, and renibble takes two bytes of every *)
(* pixel, also of pixels of one byte.                                      *)
ReorderStaysInside ==
  reorder # "bitpack" /\ TypeSize(size.type) >= 2 /\ ReorderGuard =>
    /\ buf["raw"].size >= RawTouched(size, difference, reorder)
    /\ buf["reordered"].size >=
         ReorderedTouched(size, difference, reorder, buf["reordered"].size)

=============================================================================
