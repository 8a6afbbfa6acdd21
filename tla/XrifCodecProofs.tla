-------------------------- MODULE XrifCodecProofs --------------------------
(***************************************************************************)
(* Proofs about XrifCodec, for any number of handles, files, cubes and     *)
(* set-ups: whatever the programs do, a decode gives back the cube that    *)
(* was encoded, and the codec implements the store of XrifArchive.         *)
(***************************************************************************)
EXTENDS XrifCodec, XrifSizesProofs

-----------------------------------------------------------------------------
(* Hypotheses.  The set-ups are those the stages are written for: fewer    *)
(* than 2^32 pixels, renibble on pixels of two bytes, and no bitpack, whose*)
(* layout depends on the buffer that the decoder happens to have.  No      *)
(* buffer reaches 4 GiB, the most compressed_size has room for in a header.*)
(* Programs have room for the data, and reload a cube after an error.      *)

SupportedSetups ==
  \A setup \in Setups :
    /\ Unwrapped(setup.size)
    /\ FramesAndSpare(setup.size) # 0
    /\ setup.methods.reorder # "bitpack"
    /\ setup.methods.reorder = "renibble" => TypeSize(setup.size.type) = 2

BelowFourGiB ==
  /\ \A setup \in Setups, r \in Reorders \ {"bitpack"}, c \in Compressors :
       /\ MinReordered(setup.size, r) < U32
       /\ MinCompressed(setup.size, r, c) < U32
  /\ \A loan \in Loans : loan.bytes < U32

CarefulPrograms ==
  /\ SupportedSetups
  /\ BelowFourGiB
  /\ ChecksRoom
  /\ ~ Retries

-----------------------------------------------------------------------------
(* The inductive invariant: what the buffers hold between any two stages.  *)
(* A cube c is transformed by a set-up of size s and methods m into these: *)

DifferencedForm(c, m) ==
  IF m.difference = "none" THEN Plain(c)
  ELSE Add(Plain(c), Layer(m.difference, 0, 0))

ReorderedForm(c, s, m) ==
  IF m.reorder = "none" THEN DifferencedForm(c, m)
  ELSE Add(DifferencedForm(c, m), Layer(m.reorder, CopiedBytes(s, m.difference), 0))

StreamForm(c, s, m, n) ==
  IF m.compress = "none" THEN ReorderedForm(c, s, m)
  ELSE Add(ReorderedForm(c, s, m), Layer("lz4", MinReordered(s, m.reorder), n))

\* The pairs with which a cube has been encoded: no stage refused its type.
SetUp(s, m) == [size |-> s, methods |-> m] \in Setups /\ DataBytes(s) # 0

DifferenceFits(s, m) == m.difference # "none" => Differenced(m.difference, s.type)

ReorderFits(s, m) == m.reorder = "bytepack" => s.type \in {"int16", "uint16"}

Encodable(s, m) == SetUp(s, m) /\ DifferenceFits(s, m) /\ ReorderFits(s, m)

FileOK(f) ==
  \/ f = NoFile
  \/ /\ Encodable(f.size, f.methods)
     /\ f.of \in Cubes
     /\ f.compressed_size \in Nat
     /\ f.bytes = f.compressed_size
     /\ f.data = StreamForm(f.of, f.size, f.methods, f.compressed_size)

HasForm(h, b, form) == loaded[h] \in Cubes /\ data[h][b] = form

DifferencedData(h) == DifferencedForm(loaded[h], methods[h])
ReorderedData(h) == ReorderedForm(loaded[h], size[h], methods[h])
StreamData(h) == StreamForm(loaded[h], size[h], methods[h], compressed_size[h])

\* The encoded cube is where the program finds it, and was never refused.
KeepsStream(h) ==
  /\ Encodable(size[h], methods[h])
  /\ HasForm(h, StreamBuffer(h), StreamData(h))
  /\ compressed_size[h] <= bytes[h][StreamBuffer(h)]

NotRefused(h) == rv[h] \in {"noerror", "insufficient_size"}

\* Between the calls of the program.
AtRest(h) ==
  \/ holds[h] = "nothing" /\ loaded[h] = None
  \/ holds[h] = "cube" /\ Data(h) # 0 /\ HasForm(h, "raw", Plain(loaded[h]))
  \/ holds[h] = "stream" /\ KeepsStream(h) /\ NotRefused(h)
  \/ holds[h] = "failed" /\ \E b \in Buffers : data[h][b].cube = loaded[h]

\* In xrif_encode.
Encoding(h) ==
  /\ holds[h] = "cube"
  /\ methods[h] # NoMethods
  /\ SetUp(size[h], methods[h])
  /\ HasRoom(h)
  /\ \/ call[h] = "difference" /\ HasForm(h, "raw", Plain(loaded[h]))
     \/ /\ call[h] = "reorder"
        /\ DifferenceFits(size[h], methods[h])
        /\ HasForm(h, "raw", DifferencedData(h))
     \/ /\ call[h] = "compress"
        /\ Encodable(size[h], methods[h])
        /\ HasForm(h, "reordered", ReorderedData(h))

\* In xrif_decode.
Decoding(h) ==
  /\ holds[h] = "stream"
  /\ methods[h] # NoMethods
  /\ Encodable(size[h], methods[h])
  /\ HasRoom(h)
  /\ NotRefused(h)
  /\ \/ call[h] = "decompress" /\ KeepsStream(h)
     \/ call[h] = "unreorder" /\ KeepsStream(h) /\ HasForm(h, "reordered", ReorderedData(h))
     \/ call[h] = "undifference" /\ HasForm(h, "raw", DifferencedData(h))

\* A handle that has read a header is set up by it.
ReadingOK(h) ==
  /\ FileOK(reading[h])
  /\ reading[h] # NoFile =>
       /\ Idle(h)
       /\ holds[h] = "nothing"
       /\ size[h] = reading[h].size
       /\ methods[h] = reading[h].methods
       /\ compressed_size[h] = reading[h].compressed_size

HandleOK(h) ==
  /\ size[h] = Unsized \/ \E setup \in Setups : size[h] = setup.size
  /\ methods[h].reorder # "bitpack"
  /\ \A b \in Buffers : bytes[h][b] < U32
  /\ Idle(h) => AtRest(h)
  /\ call[h] \in EncodeStages => Encoding(h)
  /\ call[h] \in DecodeStages => Decoding(h)
  /\ ReadingOK(h)

CodecInv ==
  /\ TypeOK
  /\ reading = [h \in Handles |-> reading[h]]
  /\ FileOK(file)
  /\ \A h \in Handles : HandleOK(h)

-----------------------------------------------------------------------------
(* Transformations: what a stage adds, its inverse takes off again.        *)

\* Contents from which the cube can be had back.
CubeContents == [cube : Cubes, layers : Seq(LayerRecords)]

LEMMA ContentsTypes ==
  /\ CubeContents \subseteq Contents
  /\ Unknown \in Contents
  /\ NoData \in [Buffers -> Contents]
  /\ \A c \in Cubes : Plain(c) \in CubeContents
BY DEF CubeContents, Contents, LayerRecords, Unknown, NoData, Plain

LEMMA AddLayer ==
  ASSUME NEW contents \in CubeContents, NEW layer \in LayerRecords
  PROVE  /\ Add(contents, layer) \in CubeContents
         /\ Add(contents, layer).cube = contents.cube
         /\ Add(contents, layer).layers # <<>>
         /\ Outermost(Add(contents, layer)) = layer
         /\ TakeOff(Add(contents, layer), layer) = contents
<1> DEFINE q == contents.layers
<1>1. /\ contents = [cube |-> contents.cube, layers |-> q]
      /\ contents.cube \in Cubes /\ q \in Seq(LayerRecords)
  BY DEF CubeContents
<1>2. contents # Unknown
  BY <1>1, CodecAssumption DEF Unknown
<1>3. Add(contents, layer) = [cube |-> contents.cube, layers |-> Append(q, layer)]
  BY <1>1, <1>2 DEF Add
<1>4. /\ Append(q, layer) \in Seq(LayerRecords)
      /\ Len(Append(q, layer)) = Len(q) + 1
      /\ Append(q, layer) # <<>>
      /\ Append(q, layer)[Len(q) + 1] = layer
      /\ SubSeq(Append(q, layer), 1, Len(q)) = q
  BY <1>1
<1> HIDE DEF q
<1>5. Outermost(Add(contents, layer)) = layer
  BY <1>1, <1>3, <1>4 DEF Outermost
<1>6. TakeOff(Add(contents, layer), layer) = contents
  BY <1>1, <1>3, <1>4, <1>5 DEF TakeOff
<1> QED
  BY <1>1, <1>3, <1>4, <1>5, <1>6 DEF CubeContents

\* The stages that made contents.
Stages(contents) == {contents.layers[i].by : i \in DOMAIN contents.layers}

LEMMA AddStage ==
  ASSUME NEW contents \in CubeContents, NEW layer \in LayerRecords
  PROVE  Stages(Add(contents, layer)) = Stages(contents) \cup {layer.by}
<1> DEFINE q == contents.layers
<1>1. /\ contents = [cube |-> contents.cube, layers |-> q]
      /\ contents.cube \in Cubes /\ q \in Seq(LayerRecords)
  BY DEF CubeContents
<1>2. contents # Unknown
  BY <1>1, CodecAssumption DEF Unknown
<1>3. Add(contents, layer).layers = Append(q, layer)
  BY <1>1, <1>2 DEF Add
<1>4. /\ DOMAIN Append(q, layer) = DOMAIN q \cup {Len(q) + 1}
      /\ \A i \in DOMAIN q : Append(q, layer)[i] = q[i]
      /\ Append(q, layer)[Len(q) + 1] = layer
  BY <1>1
<1> HIDE DEF q
<1>5. {Append(q, layer)[i].by : i \in DOMAIN q \cup {Len(q) + 1}}
        = {q[i].by : i \in DOMAIN q} \cup {layer.by}
  BY <1>4
<1> QED
  BY <1>3, <1>4, <1>5 DEF Stages, q

\* The methods of a handle.
MethodRecords == [difference : Differences, reorder : Reorders, compress : Compressors]

LEMMA LayerTypes ==
  ASSUME NEW s \in SizeRecords, NEW m \in MethodRecords, NEW n \in Nat
  PROVE  /\ Layer(m.difference, 0, 0) \in LayerRecords
         /\ Layer(m.reorder, CopiedBytes(s, m.difference), 0) \in LayerRecords
         /\ Layer("lz4", MinReordered(s, m.reorder), n) \in LayerRecords
<1>1. m.difference \in Differences /\ m.reorder \in Reorders /\ "lz4" \in Compressors
  BY DEF MethodRecords, Compressors
<1>2. CopiedBytes(s, m.difference) \in Nat
  BY DataBytesNat DEF CopiedBytes
<1>3. MinReordered(s, m.reorder) \in Nat
  BY MinReorderedNat
<1> QED
  BY <1>1, <1>2, <1>3 DEF Layer, LayerRecords

LEMMA FormTypes ==
  ASSUME NEW c \in Cubes, NEW s \in SizeRecords, NEW m \in MethodRecords, NEW n \in Nat
  PROVE  /\ DifferencedForm(c, m) \in CubeContents
         /\ DifferencedForm(c, m).cube = c
         /\ ReorderedForm(c, s, m) \in CubeContents
         /\ ReorderedForm(c, s, m).cube = c
         /\ StreamForm(c, s, m, n) \in CubeContents
         /\ StreamForm(c, s, m, n).cube = c
<1>1. Plain(c) \in CubeContents /\ Plain(c).cube = c
  BY ContentsTypes DEF Plain
<1>2. DifferencedForm(c, m) \in CubeContents /\ DifferencedForm(c, m).cube = c
  BY <1>1, LayerTypes, AddLayer DEF DifferencedForm
<1>3. ReorderedForm(c, s, m) \in CubeContents /\ ReorderedForm(c, s, m).cube = c
  BY <1>2, LayerTypes, AddLayer DEF ReorderedForm
<1>4. StreamForm(c, s, m, n) \in CubeContents /\ StreamForm(c, s, m, n).cube = c
  BY <1>3, LayerTypes, AddLayer DEF StreamForm
<1> QED
  BY <1>2, <1>3, <1>4

-----------------------------------------------------------------------------
(* Sizes: what the stages have room for.                                   *)

LEMMA SetUpSizes ==
  ASSUME CarefulPrograms, NEW s, NEW m, SetUp(s, m)
  PROVE  /\ s \in SizeRecords /\ m \in MethodRecords
         /\ Unwrapped(s) /\ s.frames # 0 /\ FramesAndSpare(s) # 0
         /\ m.reorder # "bitpack"
         /\ m.reorder = "renibble" => TypeSize(s.type) = 2
         /\ DataBytes(s) \in Nat /\ DataBytes(s) > 0
         /\ Pixels(s) \in Nat /\ Pixels(s) # 0 /\ Pixels(s) <= DataBytes(s)
         /\ MinReordered(s, m.reorder) \in Nat
         /\ MinReordered(s, m.reorder) < U32
         /\ DataBytes(s) <= MinReordered(s, m.reorder)
<1> DEFINE setup == [size |-> s, methods |-> m]
<1>1. setup \in Setups /\ DataBytes(s) # 0 /\ s = setup.size /\ m = setup.methods
  BY DEF SetUp
<1> HIDE DEF setup
<1>2. s \in SizeRecords /\ m \in MethodRecords
  BY <1>1, CodecAssumption DEF MethodRecords
<1>3. /\ Unwrapped(s) /\ FramesAndSpare(s) # 0
      /\ m.reorder # "bitpack"
      /\ m.reorder = "renibble" => TypeSize(s.type) = 2
  BY <1>1 DEF CarefulPrograms, SupportedSetups
<1>4. m.reorder \in Reorders \ {"bitpack"} /\ "none" \in Compressors
  BY <1>2, <1>3 DEF MethodRecords, Compressors
<1>5. MinReordered(s, m.reorder) < U32
  BY <1>1, <1>4 DEF CarefulPrograms, BelowFourGiB
<1>6. /\ DataBytes(s) \in Nat /\ Pixels(s) \in Nat /\ MinReordered(s, m.reorder) \in Nat
      /\ DataBytes(s) <= MinReordered(s, m.reorder)
  BY <1>2, <1>3, <1>4, DataBytesNat, MinReorderedNat, DataFitsReordered
<1>7. Pixels(s) # 0 /\ Pixels(s) <= DataBytes(s)
  <2> DEFINE p == Pixels(s)
             w == TypeSize(s.type)
  <2>1. p \in Nat /\ w \in Nat /\ p * w # 0
    BY <1>1, <1>6, TypeSizeNat DEF DataBytes
  <2> HIDE DEF p, w
  <2>2. p # 0 /\ p <= p * w
    BY <2>1
  <2> QED
    BY <2>2 DEF DataBytes, p, w
<1> QED
  BY <1>1, <1>2, <1>3, <1>5, <1>6, <1>7 DEF Unwrapped

LEMMA TwoByteTypes ==
  ASSUME CarefulPrograms, NEW s, NEW m, SetUp(s, m), ReorderFits(s, m),
         m.reorder # "none"
  PROVE  TypeSize(s.type) = 2
<1>1. m.reorder \in {"bytepack", "renibble"}
  BY SetUpSizes DEF MethodRecords, Reorders
<1>2. CASE m.reorder = "bytepack"
  BY <1>2 DEF ReorderFits, TypeSize
<1>3. CASE m.reorder = "renibble"
  BY <1>3, SetUpSizes
<1> QED
  BY <1>1, <1>2, <1>3

(* With room for the data no reorder function leaves a buffer, and each    *)
(* takes the whole cube.                                                   *)
LEMMA ReorderRoom ==
  ASSUME CarefulPrograms, TypeOK, NEW h \in Handles,
         SetUp(size[h], methods[h]), ReorderFits(size[h], methods[h]), HasRoom(h)
  PROVE  /\ ReorderInside(h)
         /\ ReordersAll(h)
         /\ SourceBytes(h) = MinReordered(size[h], Reor(h))
         /\ SourceBytes(h) >= ReorderedTouched(size[h], Diff(h), Reor(h),
                                               bytes[h]["reordered"])
<1> DEFINE s == size[h]
           r == Reor(h)
           d == Diff(h)
<1>1. /\ s \in SizeRecords /\ r \in Reorders /\ r # "bitpack"
      /\ Unwrapped(s) /\ s.frames # 0 /\ FramesAndSpare(s) # 0
      /\ DataBytes(s) \in Nat /\ MinReordered(s, r) \in Nat
      /\ MinReordered(s, r) < U32 /\ DataBytes(s) <= MinReordered(s, r)
      /\ r # "none" => TypeSize(s.type) = 2
      /\ bytes[h]["raw"] \in Nat /\ bytes[h]["reordered"] \in Nat
  BY SetUpSizes, TwoByteTypes DEF Reor, MethodRecords, TypeOK, Buffers
<1>2. bytes[h]["raw"] >= DataBytes(s) /\ bytes[h]["reordered"] >= MinReordered(s, r)
  BY DEF HasRoom, Data, MinSize
<1>3. RawTouched(s, d, r) = DataBytes(s)
  BY <1>1, RawTakenWhole DEF RawTouched
<1>4. /\ ReorderedTouched(s, d, r, bytes[h]["reordered"]) \in Nat
      /\ ReorderedTouched(s, d, r, bytes[h]["reordered"]) <= MinReordered(s, r)
  <2>1. CASE r = "none"
    BY <1>1, <2>1 DEF ReorderedTouched
  <2>2. CASE r # "none"
    <3>1. ReorderedTouched(s, d, r, MinReordered(s, r)) <= MinReordered(s, r)
      BY <1>1, <2>2, ReorderedFits
    <3>2. ReorderedTouched(s, d, r, bytes[h]["reordered"])
            = ReorderedTouched(s, d, r, MinReordered(s, r))
      BY <1>1, <2>2 DEF ReorderedTouched, Reorders
    <3>3. CopiedBytes(s, d) \in Nat /\ ReorderedPixels(s, d) \in Nat
      BY <1>1, <2>2, TwoBytesAPixel, ReorderedPixelsBound
    <3>4. ReorderedTouched(s, d, r, bytes[h]["reordered"]) \in Nat
      BY <1>1, <2>2, <3>3 DEF ReorderedTouched, Reorders, HalfUp
    <3> QED
      BY <3>1, <3>2, <3>4
  <2> QED
    BY <2>1, <2>2
<1>5. SourceBytes(h) = MinReordered(s, r)
  BY <1>1, ModSmall DEF SourceBytes, MinSize
<1> HIDE DEF s, r, d
<1>6. ReorderInside(h) /\ ReordersAll(h)
  BY <1>1, <1>2, <1>3, <1>4 DEF ReorderInside, ReordersAll, Data, s, r, d
<1> QED
  BY <1>1, <1>4, <1>5, <1>6 DEF s, r, d

-----------------------------------------------------------------------------
(* A step of one handle leaves the others alone.                           *)

Same(g) ==
  /\ size'[g] = size[g] /\ methods'[g] = methods[g]
  /\ compress_on_raw'[g] = compress_on_raw[g]
  /\ compressed_size'[g] = compressed_size[g]
  /\ bytes'[g] = bytes[g] /\ data'[g] = data[g]
  /\ call'[g] = call[g] /\ holds'[g] = holds[g] /\ loaded'[g] = loaded[g]
  /\ reading'[g] = reading[g] /\ rv'[g] = rv[g]

LEMMA SameKeeps ==
  ASSUME NEW g \in Handles, HandleOK(g), Same(g)
  PROVE  HandleOK(g)'
<1>1. /\ Data(g)' = Data(g) /\ Idle(g)' = Idle(g)
      /\ StreamBuffer(g)' = StreamBuffer(g)
      /\ HasRoom(g)' = HasRoom(g)
      /\ DifferencedData(g)' = DifferencedData(g)
      /\ ReorderedData(g)' = ReorderedData(g)
      /\ StreamData(g)' = StreamData(g)
      /\ NotRefused(g)' = NotRefused(g)
      /\ ReadingOK(g)' = ReadingOK(g)
  BY DEF Same, Data, Idle, StreamBuffer, Target, HasRoom, MinSize, Reor, Comp,
         DifferencedData, ReorderedData, StreamData, NotRefused, ReadingOK
<1>2. KeepsStream(g)' = KeepsStream(g)
  BY <1>1 DEF Same, KeepsStream, HasForm
<1>3. /\ AtRest(g)' = AtRest(g)
      /\ Encoding(g)' = Encoding(g)
      /\ Decoding(g)' = Decoding(g)
  BY <1>1, <1>2 DEF Same, AtRest, Encoding, Decoding, HasForm
<1> QED
  BY <1>1, <1>3 DEF Same, HandleOK

LEMMA OneHandle ==
  ASSUME CodecInv, NEW h \in Handles,
         TypeOK', reading' = [g \in Handles |-> reading'[g]], FileOK(file'),
         \A g \in Handles \ {h} : Same(g), HandleOK(h)'
  PROVE  CodecInv'
<1>1. \A g \in Handles \ {h} : HandleOK(g)'
  BY SameKeeps DEF CodecInv
<1> QED
  BY <1>1 DEF CodecInv

\* Contents given up.
LEMMA GivenUp ==
  ASSUME NEW h \in Handles, HandleOK(h), Idle(h)', holds'[h] = "nothing", loaded'[h] = None,
         size'[h] = size[h] \/ \E setup \in Setups : size'[h] = setup.size,
         methods'[h].reorder # "bitpack",
         \A b \in Buffers : bytes'[h][b] < U32,
         FileOK(reading'[h]),
         reading'[h] # NoFile => /\ size'[h] = reading'[h].size
                                 /\ methods'[h] = reading'[h].methods
                                 /\ compressed_size'[h] = reading'[h].compressed_size
  PROVE  HandleOK(h)'
<1>1. AtRest(h)' /\ ReadingOK(h)'
  BY DEF AtRest, ReadingOK, Idle
<1> QED
  BY <1>1 DEF HandleOK, Idle, EncodeStages, DecodeStages

-----------------------------------------------------------------------------
(* Setting handles up.                                                     *)

LEMMA SetSizePreserves ==
  ASSUME CodecInv, NEW h \in Handles, NEW setup \in Setups, SetSize(h, setup.size)
  PROVE  CodecInv'
<1>1. TypeOK /\ HandleOK(h)
  BY DEF CodecInv
<1>2. TypeOK'
  BY <1>1, CodecAssumption, ContentsTypes
  DEF SetSize, GiveUp, Hold, TypeOK, ReturnCodes
<1>3. HandleOK(h)'
  BY <1>1, GivenUp
  DEF SetSize, GiveUp, Hold, Idle, HandleOK, TypeOK, FileOK, CodecInv
<1>4. \A g \in Handles \ {h} : Same(g)
  BY <1>1 DEF SetSize, GiveUp, Hold, Same, TypeOK, CodecInv
<1>5. reading' = [g \in Handles |-> reading'[g]] /\ FileOK(file')
  BY DEF SetSize, CodecInv
<1> QED
  BY <1>2, <1>3, <1>4, <1>5, OneHandle

LEMMA ConfigurePreserves ==
  ASSUME CarefulPrograms, CodecInv, NEW h \in Handles, NEW setup \in Setups,
         Configure(h, setup.methods)
  PROVE  CodecInv'
<1>1. TypeOK /\ HandleOK(h) /\ Idle(h) /\ AtRest(h)
  BY DEF CodecInv, HandleOK, Configure
<1>2. TypeOK'
  BY <1>1, CodecAssumption DEF Configure, TypeOK
<1>3. HandleOK(h)'
  <2>1. /\ UNCHANGED <<size[h], bytes[h], data[h], call[h], holds[h], loaded[h]>>
        /\ methods'[h] = setup.methods /\ reading'[h] = NoFile
        /\ holds[h] # "stream"
    BY <1>1 DEF Configure, TypeOK, CodecInv
  <2>2. AtRest(h)'
    BY <1>1, <2>1 DEF AtRest, HasForm, Data
  <2>3. ReadingOK(h)'
    BY <2>1 DEF ReadingOK, FileOK
  <2> QED
    BY <1>1, <2>1, <2>2, <2>3
    DEF HandleOK, Idle, EncodeStages, DecodeStages, CarefulPrograms, SupportedSetups
<1>4. \A g \in Handles \ {h} : Same(g)
  BY <1>1 DEF Configure, Same, TypeOK, CodecInv
<1>5. reading' = [g \in Handles |-> reading'[g]] /\ FileOK(file')
  BY DEF Configure, CodecInv
<1> QED
  BY <1>2, <1>3, <1>4, <1>5, OneHandle

LEMMA SetCompressOnRawPreserves ==
  ASSUME CodecInv, NEW h \in Handles, NEW onRaw \in BOOLEAN, SetCompressOnRaw(h, onRaw)
  PROVE  CodecInv'
<1>1. TypeOK /\ HandleOK(h) /\ Idle(h) /\ AtRest(h) /\ ReadingOK(h)
  BY DEF CodecInv, HandleOK, SetCompressOnRaw
<1>2. TypeOK'
  BY <1>1 DEF SetCompressOnRaw, TypeOK
<1>3. HandleOK(h)'
  <2>1. /\ UNCHANGED <<size, methods, compressed_size, bytes, data, call, holds,
                       loaded, reading>>
        /\ holds[h] # "stream"
    BY DEF SetCompressOnRaw, files
  <2>2. AtRest(h)' /\ ReadingOK(h)'
    BY <1>1, <2>1 DEF AtRest, ReadingOK, HasForm, Data, Idle
  <2> QED
    BY <1>1, <2>1, <2>2 DEF HandleOK, Idle, EncodeStages, DecodeStages
<1>4. \A g \in Handles \ {h} : Same(g)
  BY <1>1 DEF SetCompressOnRaw, Same, TypeOK, files
<1>5. reading' = [g \in Handles |-> reading'[g]] /\ FileOK(file')
  BY DEF SetCompressOnRaw, CodecInv, files
<1> QED
  BY <1>2, <1>3, <1>4, <1>5, OneHandle

LEMMA MinSizeNat ==
  ASSUME TypeOK, NEW h \in Handles, NEW b \in Buffers
  PROVE  MinSize(h, b) \in Nat
<1>1. size[h] \in SizeRecords /\ compress_on_raw[h] \in BOOLEAN
  BY DEF TypeOK
<1> QED
  BY <1>1, MinReorderedNat, MinCompressedNat, MinRawNat DEF MinSize, Buffers

LEMMA MinSizeBelow ==
  ASSUME CarefulPrograms, TypeOK, NEW h \in Handles, HandleOK(h), Data(h) # 0,
         NEW b \in Buffers
  PROVE  MinSize(h, b) < U32
<1>1. /\ Reor(h) \in Reorders \ {"bitpack"} /\ Comp(h) \in Compressors
      /\ "none" \in Compressors
  BY DEF TypeOK, HandleOK, Reor, Comp, Compressors
<1>2. PICK setup \in Setups : size[h] = setup.size
  BY UnsizedIsEmpty DEF HandleOK, Data
<1>3. /\ MinReordered(size[h], Reor(h)) < U32
      /\ MinCompressed(size[h], Reor(h), Comp(h)) < U32
      /\ MinCompressed(size[h], Reor(h), "none") < U32
  BY <1>1, <1>2 DEF CarefulPrograms, BelowFourGiB
<1>4. DataBytes(size[h]) < U32
  BY <1>3 DEF MinCompressed
<1> QED
  BY <1>3, <1>4 DEF MinSize, MinRaw, AtLeast, Buffers

LEMMA AllocatePreserves ==
  ASSUME CarefulPrograms, CodecInv, NEW h \in Handles, Allocate(h)
  PROVE  CodecInv'
<1>1. TypeOK /\ HandleOK(h) /\ Idle(h) /\ Data(h) # 0
  BY DEF CodecInv, Allocate
<1> DEFINE new == {"raw", "reordered"} \cup {Target(h)}
<1>2. bytes' = [bytes EXCEPT ![h] =
                  [b \in Buffers |-> IF b \in new THEN MinSize(h, b) ELSE bytes[h][b]]]
  BY <1>1 DEF Allocate, TypeOK
<1>3. /\ GiveUp(h) /\ UNCHANGED <<size, methods, compress_on_raw, compressed_size, call>>
      /\ UNCHANGED <<file, reading>>
  BY DEF Allocate, files
<1> HIDE DEF new
<1>4. TypeOK'
  BY <1>1, <1>2, <1>3, MinSizeNat, ContentsTypes DEF GiveUp, Hold, TypeOK, ReturnCodes
<1>5. \A b \in Buffers : bytes'[h][b] < U32
  BY <1>1, <1>2, MinSizeBelow DEF HandleOK, TypeOK
<1>6. HandleOK(h)'
  <2>1. /\ ReadingOK(h) /\ methods[h].reorder # "bitpack" /\ Idle(h)'
        /\ holds'[h] = "nothing" /\ loaded'[h] = None
    BY <1>1, <1>3 DEF HandleOK, GiveUp, Hold, TypeOK, Idle
  <2> QED
    BY <1>1, <1>3, <1>5, <2>1, GivenUp DEF ReadingOK
<1>7. \A g \in Handles \ {h} : Same(g)
  BY <1>1, <1>2, <1>3 DEF GiveUp, Hold, Same, TypeOK
<1>8. reading' = [g \in Handles |-> reading'[g]] /\ FileOK(file')
  BY <1>3 DEF CodecInv
<1> QED
  BY <1>4, <1>6, <1>7, <1>8, OneHandle

LEMMA SetBufferPreserves ==
  ASSUME CarefulPrograms, CodecInv, NEW h \in Handles, NEW loan \in Loans,
         SetBuffer(h, loan.buffer, loan.bytes)
  PROVE  CodecInv'
<1> DEFINE b == loan.buffer
           n == loan.bytes
<1>1. /\ TypeOK /\ HandleOK(h) /\ Idle(h) /\ AtRest(h) /\ ReadingOK(h)
      /\ b \in Buffers /\ n \in Nat /\ n < U32
  BY CodecAssumption
  DEF CodecInv, HandleOK, SetBuffer, CarefulPrograms, BelowFourGiB
<1>2. /\ bytes' = [bytes EXCEPT ![h][b] = n]
      /\ UNCHANGED <<size, methods, compress_on_raw, compressed_size, call>>
      /\ UNCHANGED <<file, reading>>
  BY DEF SetBuffer, files
<1>3. \A c \in Buffers : bytes'[h][c] = IF c = b THEN n ELSE bytes[h][c]
  BY <1>1, <1>2 DEF TypeOK
<1>4. \A c \in Buffers : bytes'[h][c] < U32
  BY <1>1, <1>3 DEF HandleOK
<1>5. reading' = [g \in Handles |-> reading'[g]] /\ FileOK(file')
  BY <1>2 DEF CodecInv
<1>6. CASE KeepsWithout(h, b)
  <2>1. Put(h, b, Unknown) /\ UNCHANGED <<holds, loaded, rv>>
    BY <1>6 DEF SetBuffer
  <2> HIDE DEF b, n
  <2>2. TypeOK'
    BY <1>1, <1>2, <2>1, ContentsTypes DEF Put, TypeOK
  <2>3. \A c \in Buffers : data'[h][c] = IF c = b THEN Unknown ELSE data[h][c]
    BY <1>1, <2>1 DEF Put, TypeOK
  <2>4. AtRest(h)'
    <3>1. CASE holds[h] = "cube"
      <4>1. b # "raw" /\ Data(h) # 0 /\ HasForm(h, "raw", Plain(loaded[h]))
        BY <1>1, <1>6, <3>1 DEF KeepsWithout, AtRest
      <4>2. data'[h]["raw"] = data[h]["raw"]
        BY <2>3, <4>1 DEF Buffers
      <4> QED
        BY <1>2, <2>1, <3>1, <4>1, <4>2 DEF AtRest, HasForm, Data
    <3>2. CASE holds[h] = "stream"
      <4>1. b # StreamBuffer(h) /\ KeepsStream(h) /\ NotRefused(h)
        BY <1>1, <1>6, <3>2 DEF KeepsWithout, AtRest
      <4>2. StreamBuffer(h) \in Buffers
        BY DEF StreamBuffer, Target, Buffers
      <4>3. /\ data'[h][StreamBuffer(h)] = data[h][StreamBuffer(h)]
            /\ bytes'[h][StreamBuffer(h)] = bytes[h][StreamBuffer(h)]
        BY <1>3, <2>3, <4>1, <4>2
      <4>4. StreamBuffer(h)' = StreamBuffer(h)
        BY <1>2 DEF StreamBuffer, Target
      <4> QED
        BY <1>2, <2>1, <3>2, <4>1, <4>3, <4>4
        DEF AtRest, HasForm, KeepsStream, StreamData, NotRefused
    <3> QED
      BY <1>6, <3>1, <3>2 DEF KeepsWithout
  <2>5. HandleOK(h)'
    BY <1>1, <1>2, <1>4, <2>1, <2>4
    DEF HandleOK, ReadingOK, Idle, EncodeStages, DecodeStages
  <2>6. \A g \in Handles \ {h} : Same(g)
    BY <1>1, <1>2, <2>1 DEF Put, Same, TypeOK
  <2> QED
    BY <1>5, <2>2, <2>5, <2>6, OneHandle
<1>7. CASE GiveUp(h)
  <2> HIDE DEF b, n
  <2>1. TypeOK'
    BY <1>1, <1>2, <1>7, ContentsTypes DEF GiveUp, Hold, TypeOK, ReturnCodes
  <2>2. HandleOK(h)'
    <3>1. /\ methods[h].reorder # "bitpack" /\ Idle(h)'
          /\ holds'[h] = "nothing" /\ loaded'[h] = None
      BY <1>1, <1>2, <1>7 DEF HandleOK, GiveUp, Hold, TypeOK, Idle
    <3> QED
      BY <1>1, <1>2, <1>4, <3>1, GivenUp DEF ReadingOK
  <2>3. \A g \in Handles \ {h} : Same(g)
    BY <1>1, <1>2, <1>7 DEF GiveUp, Hold, Same, TypeOK
  <2> QED
    BY <1>5, <2>1, <2>2, <2>3, OneHandle
<1> QED
  BY <1>6, <1>7 DEF SetBuffer

LEMMA LoadCubePreserves ==
  ASSUME CarefulPrograms, CodecInv, NEW h \in Handles, NEW c \in Cubes, LoadCube(h, c)
  PROVE  CodecInv'
<1>1. TypeOK /\ HandleOK(h) /\ Idle(h) /\ Data(h) # 0
  BY DEF CodecInv, LoadCube
<1>2. /\ data' = [data EXCEPT ![h] = [NoData EXCEPT !["raw"] = Plain(c)]]
      /\ Hold(h, "cube", c)
      /\ reading' = [reading EXCEPT ![h] = NoFile]
      /\ UNCHANGED <<settings, compressed_size, call, file>>
  BY DEF LoadCube, CarefulPrograms
<1>3. TypeOK'
  <2>1. [NoData EXCEPT !["raw"] = Plain(c)] \in [Buffers -> Contents]
    BY ContentsTypes
  <2> QED
    BY <1>1, <1>2, <2>1 DEF Hold, TypeOK, settings, ReturnCodes
<1>4. HandleOK(h)'
  <2>1. /\ data'[h]["raw"] = Plain(c) /\ loaded'[h] = c /\ holds'[h] = "cube"
        /\ reading'[h] = NoFile
    BY <1>1, <1>2 DEF Hold, TypeOK, CodecInv, NoData, Buffers
  <2>2. AtRest(h)' /\ ReadingOK(h)'
    BY <1>1, <1>2, <2>1 DEF AtRest, HasForm, ReadingOK, FileOK, Data, settings
  <2> QED
    BY <1>1, <1>2, <2>2 DEF HandleOK, Idle, EncodeStages, DecodeStages, settings
<1>5. \A g \in Handles \ {h} : Same(g)
  BY <1>1, <1>2 DEF Hold, Same, TypeOK, CodecInv, settings
<1>6. reading' = [g \in Handles |-> reading'[g]] /\ FileOK(file')
  BY <1>2 DEF CodecInv
<1> QED
  BY <1>3, <1>4, <1>5, <1>6, OneHandle

-----------------------------------------------------------------------------
(* Files.                                                                  *)

(* What xrif_write_header loses of compressed_size is zero.                *)
LEMMA StoredOK ==
  ASSUME CarefulPrograms, TypeOK, NEW h \in Handles, HandleOK(h), Idle(h),
         holds[h] = "stream"
  PROVE  FileOK(Stored(h)) /\ Stored(h).data.cube = loaded[h]
<1>1. AtRest(h) /\ KeepsStream(h)
  BY DEF HandleOK, AtRest
<1>2. StreamBuffer(h) \in Buffers
  BY DEF StreamBuffer, Target, Buffers
<1>3. /\ compressed_size[h] \in Nat /\ bytes[h][StreamBuffer(h)] \in Nat
      /\ size[h] \in SizeRecords /\ methods[h] \in MethodRecords
  BY <1>2 DEF TypeOK, MethodRecords
<1>4. compressed_size[h] < U32
  BY <1>1, <1>2, <1>3, SizesAssumption DEF KeepsStream, HandleOK
<1>5. compressed_size[h] % U32 = compressed_size[h]
  BY <1>3, <1>4, ModSmall
<1>6. FileOK(Stored(h))
  BY <1>1, <1>3, <1>5 DEF Stored, FileOK, KeepsStream, HasForm, StreamData
<1>7. Stored(h).data.cube = loaded[h]
  BY <1>1, <1>3, FormTypes DEF Stored, KeepsStream, HasForm, StreamData
<1> QED
  BY <1>6, <1>7

LEMMA StorePreserves ==
  ASSUME CarefulPrograms, CodecInv, NEW h \in Handles, Store(h)
  PROVE  CodecInv'
<1>1. TypeOK /\ HandleOK(h) /\ Idle(h) /\ holds[h] = "stream"
  BY DEF CodecInv, Store
<1>2. /\ file' = Stored(h)
      /\ UNCHANGED <<settings, compressed_size, data, call, holds, loaded, reading, rv>>
  BY DEF Store
<1>3. FileOK(file')
  BY <1>1, <1>2, StoredOK
<1>4. TypeOK'
  BY <1>1, <1>2 DEF TypeOK, settings
<1>5. \A g \in Handles : Same(g)
  BY <1>2 DEF Same, settings
<1>6. HandleOK(h)'
  BY <1>1, <1>5, SameKeeps
<1>7. reading' = [g \in Handles |-> reading'[g]]
  BY <1>2 DEF CodecInv
<1> QED
  BY <1>3, <1>4, <1>5, <1>6, <1>7, OneHandle

LEMMA OpenPreserves ==
  ASSUME CarefulPrograms, CodecInv, NEW h \in Handles, Open(h)
  PROVE  CodecInv'
<1>1. TypeOK /\ HandleOK(h) /\ Idle(h) /\ file # NoFile /\ FileOK(file)
  BY DEF CodecInv, Open
<1>2. /\ SetUp(file.size, file.methods) /\ file.compressed_size \in Nat
      /\ file.size \in SizeRecords /\ file.methods \in MethodRecords
      /\ file.methods.reorder # "bitpack"
  BY <1>1, SetUpSizes DEF FileOK, Encodable
<1>3. \E setup \in Setups : file.size = setup.size
  BY <1>2 DEF SetUp
<1>4. TypeOK'
  BY <1>1, <1>2, ContentsTypes
  DEF Open, GiveUp, Hold, TypeOK, MethodRecords, ReturnCodes
<1>5. HandleOK(h)'
  <2>1. /\ size'[h] = file.size /\ methods'[h] = file.methods
        /\ compressed_size'[h] = file.compressed_size
        /\ reading'[h] = file /\ holds'[h] = "nothing" /\ loaded'[h] = None
        /\ UNCHANGED <<bytes, call>>
    BY <1>1 DEF Open, GiveUp, Hold, TypeOK, CodecInv
  <2> QED
    BY <1>1, <1>2, <1>3, <2>1, GivenUp DEF Idle, HandleOK
<1>6. \A g \in Handles \ {h} : Same(g)
  BY <1>1 DEF Open, GiveUp, Hold, Same, TypeOK, CodecInv
<1>7. reading' = [g \in Handles |-> reading'[g]] /\ FileOK(file')
  BY <1>1 DEF Open, CodecInv
<1> QED
  BY <1>4, <1>5, <1>6, <1>7, OneHandle

LEMMA FetchPreserves ==
  ASSUME CarefulPrograms, CodecInv, NEW h \in Handles, Fetch(h)
  PROVE  CodecInv'
<1> DEFINE f == reading[h]
           b == StreamBuffer(h)
<1>1. /\ TypeOK /\ HandleOK(h) /\ Idle(h) /\ ReadingOK(h) /\ f # NoFile
      /\ b \in Buffers
  BY DEF CodecInv, Fetch, HandleOK, StreamBuffer, Target, Buffers
<1>2. /\ Encodable(f.size, f.methods)
      /\ f.of \in Cubes /\ f.compressed_size \in Nat /\ f.bytes = f.compressed_size
      /\ f.data = StreamForm(f.of, f.size, f.methods, f.compressed_size)
      /\ size[h] = f.size /\ methods[h] = f.methods
      /\ compressed_size[h] = f.compressed_size
  BY <1>1 DEF ReadingOK, FileOK
<1>3. /\ Put(h, b, f.data) /\ Hold(h, "stream", f.of)
      /\ reading' = [reading EXCEPT ![h] = NoFile]
      /\ UNCHANGED <<settings, compressed_size, call, file>>
      /\ compressed_size[h] <= bytes[h][b]
  BY <1>2 DEF Fetch
<1>4. f.data \in Contents
  <2>1. f.size \in SizeRecords /\ f.methods \in MethodRecords
    BY <1>2, SetUpSizes DEF Encodable
  <2> QED
    BY <1>2, <2>1, FormTypes, ContentsTypes
<1> HIDE DEF f, b
<1>5. TypeOK'
  BY <1>1, <1>2, <1>3, <1>4 DEF Put, Hold, TypeOK, settings, ReturnCodes
<1>6. HandleOK(h)'
  <2>1. /\ data'[h][b] = f.data /\ loaded'[h] = f.of /\ holds'[h] = "stream"
        /\ rv'[h] = "noerror" /\ reading'[h] = NoFile
    BY <1>1, <1>3 DEF Put, Hold, TypeOK, CodecInv
  <2>2. StreamBuffer(h)' = b
    BY <1>3 DEF StreamBuffer, Target, settings, b
  <2>3. KeepsStream(h)' /\ NotRefused(h)' /\ ReadingOK(h)'
    BY <1>2, <1>3, <2>1, <2>2
    DEF KeepsStream, NotRefused, HasForm, StreamData, ReadingOK, FileOK, settings
  <2>4. AtRest(h)'
    BY <2>1, <2>3 DEF AtRest
  <2> QED
    BY <1>1, <1>3, <2>3, <2>4 DEF HandleOK, Idle, EncodeStages, DecodeStages, settings
<1>7. \A g \in Handles \ {h} : Same(g)
  BY <1>1, <1>3 DEF Put, Hold, Same, TypeOK, CodecInv, settings
<1>8. reading' = [g \in Handles |-> reading'[g]] /\ FileOK(file')
  BY <1>3 DEF CodecInv
<1> QED
  BY <1>5, <1>6, <1>7, <1>8, OneHandle

-----------------------------------------------------------------------------
(* The steps of an encode and a decode.                                    *)

CallNames == {"idle"} \cup EncodeStages \cup DecodeStages
HoldNames == {"nothing", "cube", "stream", "failed"}

\* What such a step may change.
StageStep(h, next, what, code, contents, n) ==
  /\ call' = [call EXCEPT ![h] = next]
  /\ holds' = [holds EXCEPT ![h] = what]
  /\ rv' = [rv EXCEPT ![h] = code]
  /\ data' = [data EXCEPT ![h] = contents]
  /\ compressed_size' = [compressed_size EXCEPT ![h] = n]
  /\ UNCHANGED <<settings, loaded, files>>

LEMMA StageValues ==
  ASSUME TypeOK, NEW h \in Handles, NEW next, NEW what, NEW code, NEW contents, NEW n,
         StageStep(h, next, what, code, contents, n)
  PROVE  /\ call'[h] = next /\ holds'[h] = what /\ rv'[h] = code
         /\ data'[h] = contents /\ compressed_size'[h] = n
         /\ UNCHANGED <<size, methods, compress_on_raw, bytes, loaded, reading>>
         /\ UNCHANGED <<HasRoom(h), StreamBuffer(h), Data(h)>>
BY DEF StageStep, TypeOK, settings, files, HasRoom, StreamBuffer, Target, Data,
       MinSize, Reor, Comp

LEMMA StagePreserves ==
  ASSUME CodecInv, NEW h \in Handles, NEW next \in CallNames, NEW what \in HoldNames,
         NEW code \in ReturnCodes, NEW contents \in [Buffers -> Contents], NEW n \in Nat,
         StageStep(h, next, what, code, contents, n),
         Idle(h) => holds[h] # "nothing",
         next = "idle" => AtRest(h)',
         next \in EncodeStages => Encoding(h)',
         next \in DecodeStages => Decoding(h)'
  PROVE  CodecInv'
<1>1. TypeOK /\ HandleOK(h)
  BY DEF CodecInv
<1>2. TypeOK'
  BY <1>1 DEF StageStep, TypeOK, settings, files, CallNames, HoldNames
<1>3. \A g \in Handles \ {h} : Same(g)
  BY <1>1 DEF StageStep, Same, TypeOK, settings, files
<1>4. reading' = [g \in Handles |-> reading'[g]] /\ FileOK(file')
  BY DEF StageStep, CodecInv, files
<1>5. HandleOK(h)'
  <2>1. /\ call'[h] = next
        /\ UNCHANGED <<size, methods, bytes, reading>>
    BY <1>1, StageValues
  <2>2. ReadingOK(h)'
    BY <1>1, <2>1 DEF HandleOK, ReadingOK, FileOK
  <2> QED
    BY <1>1, <2>1, <2>2 DEF HandleOK, Idle
<1> QED
  BY <1>2, <1>3, <1>4, <1>5, OneHandle

LEMMA GoingStep ==
  ASSUME TypeOK, NEW h \in Handles, NEW next, NEW contents, NEW n,
         Going(h, next), UNCHANGED <<settings, files>>,
         data' = [data EXCEPT ![h] = contents],
         compressed_size' = [compressed_size EXCEPT ![h] = n]
  PROVE  StageStep(h, next, holds[h], rv[h], contents, n)
BY DEF Going, StageStep, TypeOK

LEMMA ReturnStep ==
  ASSUME TypeOK, NEW h \in Handles, NEW code, NEW what, NEW contents, NEW n,
         Return(h, code, what), UNCHANGED <<settings, files>>,
         data' = [data EXCEPT ![h] = contents],
         compressed_size' = [compressed_size EXCEPT ![h] = n]
  PROVE  StageStep(h, "idle", what, code, contents, n)
BY DEF Return, StageStep, TypeOK

\* The buffers of a handle after a change of one of them, or of none.
LEMMA Changed ==
  ASSUME TypeOK, NEW h \in Handles
  PROVE  /\ data = [data EXCEPT ![h] = data[h]]
         /\ compressed_size = [compressed_size EXCEPT ![h] = compressed_size[h]]
         /\ data[h] \in [Buffers -> Contents]
         /\ compressed_size[h] \in Nat
         /\ rv[h] \in ReturnCodes /\ holds[h] \in HoldNames
         /\ size[h] \in SizeRecords /\ methods[h] \in MethodRecords
         /\ \A b \in Buffers, x \in Contents :
              /\ Put(h, b, x) => data' = [data EXCEPT ![h] = [data[h] EXCEPT ![b] = x]]
              /\ [data[h] EXCEPT ![b] = x] \in [Buffers -> Contents]
              /\ [data[h] EXCEPT ![b] = x][b] = x
              /\ \A c \in Buffers \ {b} : [data[h] EXCEPT ![b] = x][c] = data[h][c]
BY DEF TypeOK, Put, HoldNames, MethodRecords

\* With all methods "none" the encoded cube is the cube.
LEMMA NoMethodsForm ==
  ASSUME NEW h \in Handles, methods[h] = NoMethods
  PROVE  /\ \A n : StreamForm(loaded[h], size[h], methods[h], n) = Plain(loaded[h])
         /\ StreamBuffer(h) = "raw"
         /\ DifferenceFits(size[h], methods[h]) /\ ReorderFits(size[h], methods[h])
BY DEF NoMethods, StreamForm, ReorderedForm, DifferencedForm, StreamBuffer,
       DifferenceFits, ReorderFits

LEMMA EncodePreserves ==
  ASSUME CarefulPrograms, CodecInv, NEW h \in Handles, Encode(h)
  PROVE  CodecInv'
<1>1. /\ TypeOK /\ HandleOK(h) /\ Idle(h) /\ AtRest(h)
      /\ holds[h] = "cube" /\ HasRoom(h)
      /\ [size |-> size[h], methods |-> methods[h]] \in Setups
      /\ UNCHANGED <<settings, data, files>>
  BY DEF CodecInv, HandleOK, Encode, CarefulPrograms
<1>2. Data(h) # 0 /\ HasForm(h, "raw", Plain(loaded[h]))
  BY <1>1 DEF AtRest
<1>3. SetUp(size[h], methods[h])
  BY <1>1, <1>2 DEF SetUp, Data
<1>4. CASE /\ methods[h] = NoMethods
           /\ compressed_size' = [compressed_size EXCEPT ![h] = Data(h)]
           /\ Return(h, "noerror", "stream")
  <2>1. StageStep(h, "idle", "stream", "noerror", data[h], Data(h))
    BY <1>1, <1>4, Changed, ReturnStep
  <2>2. AtRest(h)'
    <3>1. /\ holds'[h] = "stream" /\ rv'[h] = "noerror" /\ data'[h] = data[h]
          /\ compressed_size'[h] = Data(h)
          /\ UNCHANGED <<size, methods, compress_on_raw, bytes, loaded>>
          /\ StreamBuffer(h)' = StreamBuffer(h)
      BY <1>1, <2>1, StageValues
    <3>2. /\ StreamForm(loaded[h], size[h], methods[h], Data(h)) = Plain(loaded[h])
          /\ StreamBuffer(h) = "raw"
          /\ Encodable(size[h], methods[h])
      BY <1>3, <1>4, NoMethodsForm DEF Encodable
    <3>3. Data(h) <= bytes[h]["raw"]
      BY <1>1, <1>3, SetUpSizes DEF HasRoom, Data, TypeOK, Buffers
    <3>4. KeepsStream(h)' /\ NotRefused(h)'
      BY <1>2, <3>1, <3>2, <3>3 DEF KeepsStream, NotRefused, HasForm, StreamData
    <3> QED
      BY <3>1, <3>4 DEF AtRest
  <2>3. Data(h) \in Nat
    BY <1>3, SetUpSizes DEF Data
  <2> QED
    BY <1>1, <2>1, <2>2, <2>3, Changed, StagePreserves
    DEF CallNames, HoldNames, ReturnCodes, EncodeStages, DecodeStages
<1>5. CASE methods[h] # NoMethods /\ Going(h, "difference") /\ UNCHANGED compressed_size
  <2>1. StageStep(h, "difference", "cube", rv[h], data[h], compressed_size[h])
    <3>1. /\ data' = [data EXCEPT ![h] = data[h]]
          /\ compressed_size' = [compressed_size EXCEPT ![h] = compressed_size[h]]
      BY <1>1, <1>5, Changed
    <3>2. StageStep(h, "difference", holds[h], rv[h], data[h], compressed_size[h])
      BY <1>1, <1>5, <3>1, GoingStep
    <3> QED
      BY <1>1, <3>2
  <2>2. Encoding(h)'
    <3>1. /\ call'[h] = "difference" /\ holds'[h] = "cube" /\ data'[h] = data[h]
          /\ UNCHANGED <<size, methods, compress_on_raw, bytes, loaded>>
          /\ HasRoom(h)' = HasRoom(h)
      BY <1>1, <2>1, StageValues
    <3> QED
      BY <1>1, <1>2, <1>3, <1>5, <3>1 DEF Encoding, HasForm
  <2> QED
    BY <1>1, <2>1, <2>2, Changed, StagePreserves
    DEF CallNames, HoldNames, EncodeStages, DecodeStages
<1> QED
  BY <1>1, <1>4, <1>5 DEF Encode

LEMMA DifferenceOutcome ==
  ASSUME CarefulPrograms, TypeOK, NEW h \in Handles, NEW unsupported,
         SetUp(size[h], methods[h]), HasRoom(h)
  PROVE  /\ DifferenceError(h, unsupported) =
              IF DifferenceFits(size[h], methods[h]) THEN "noerror" ELSE unsupported
         /\ ~ bytes[h]["raw"] < Data(h)
<1>1. /\ bytes[h]["raw"] \in Nat /\ bytes[h]["raw"] >= DataBytes(size[h])
      /\ DataBytes(size[h]) \in Nat /\ DataBytes(size[h]) > 0
      /\ Pixels(size[h]) \in Nat /\ Pixels(size[h]) # 0
      /\ Pixels(size[h]) <= DataBytes(size[h])
  BY SetUpSizes DEF HasRoom, Data, TypeOK, Buffers
<1>2. /\ bytes[h]["raw"] # 0
      /\ ~ bytes[h]["raw"] < Pixels(size[h])
      /\ ~ bytes[h]["raw"] < DataBytes(size[h])
  BY <1>1
<1> QED
  BY <1>1, <1>2 DEF DifferenceError, DifferenceFits, Diff, Data

LEMMA DifferencePreserves ==
  ASSUME CarefulPrograms, CodecInv, NEW h \in Handles, Difference(h)
  PROVE  CodecInv'
<1> DEFINE error == DifferenceError(h, "notimpl")
           form == DifferencedForm(loaded[h], methods[h])
<1>1. /\ TypeOK /\ HandleOK(h) /\ call[h] = "difference" /\ Encoding(h)
      /\ ~ Idle(h) /\ UNCHANGED <<settings, files>> /\ UNCHANGED compressed_size
  BY DEF CodecInv, HandleOK, Difference, EncodeStages, Idle
<1>2. /\ holds[h] = "cube" /\ methods[h] # NoMethods /\ SetUp(size[h], methods[h])
      /\ HasRoom(h) /\ loaded[h] \in Cubes /\ data[h]["raw"] = Plain(loaded[h])
  BY <1>1 DEF Encoding, HasForm
<1>3. /\ error = IF DifferenceFits(size[h], methods[h]) THEN "noerror" ELSE "notimpl"
      /\ ~ bytes[h]["raw"] < Data(h)
  BY <1>1, <1>2, DifferenceOutcome
<1>4. CASE error # "noerror" /\ Return(h, error, "failed") /\ UNCHANGED data
  <2>1. StageStep(h, "idle", "failed", "notimpl", data[h], compressed_size[h])
    BY <1>1, <1>3, <1>4, Changed, ReturnStep
  <2>2. AtRest(h)'
    <3>1. holds'[h] = "failed" /\ data'[h] = data[h] /\ loaded' = loaded
      BY <1>1, <2>1, StageValues
    <3> QED
      BY <1>2, <3>1 DEF AtRest, Plain, Buffers
  <2> QED
    BY <1>1, <2>1, <2>2, Changed, StagePreserves
    DEF CallNames, HoldNames, ReturnCodes, EncodeStages, DecodeStages
<1>5. CASE /\ error = "noerror"
           /\ Going(h, "reorder")
           /\ IF Diff(h) = "none"
              THEN UNCHANGED data
              ELSE Put(h, "raw", IF bytes[h]["raw"] < Data(h) THEN Unknown
                                 ELSE Add(data[h]["raw"], Layer(Diff(h), 0, 0)))
  <2>1. DifferenceFits(size[h], methods[h]) /\ form \in Contents
    BY <1>1, <1>2, <1>3, <1>5, Changed, FormTypes, ContentsTypes
  <2> DEFINE contents == IF Diff(h) = "none" THEN data[h]
                         ELSE [data[h] EXCEPT !["raw"] = form]
  <2>2. /\ data' = [data EXCEPT ![h] = contents]
        /\ contents \in [Buffers -> Contents]
        /\ contents["raw"] = form
    <3>1. CASE Diff(h) = "none"
      <4>1. form = data[h]["raw"]
        BY <1>2, <3>1 DEF DifferencedForm, Diff
      <4> QED
        BY <1>1, <1>5, <3>1, <4>1, Changed
    <3>2. CASE Diff(h) # "none"
      <4>1. form = Add(data[h]["raw"], Layer(Diff(h), 0, 0))
        BY <1>2, <3>2 DEF DifferencedForm, Diff
      <4>2. Put(h, "raw", form) /\ "raw" \in Buffers
        BY <1>3, <1>5, <3>2, <4>1 DEF Buffers
      <4> HIDE DEF form
      <4> QED
        BY <1>1, <2>1, <3>2, <4>2, Changed
    <3> QED
      BY <3>1, <3>2
  <2> HIDE DEF contents, form
  <2>3. StageStep(h, "reorder", "cube", rv[h], contents, compressed_size[h])
    <3>1. StageStep(h, "reorder", holds[h], rv[h], contents, compressed_size[h])
      BY <1>1, <1>5, <2>2, Changed, GoingStep
    <3> QED
      BY <1>2, <3>1
  <2>4. Encoding(h)'
    <3>1. /\ call'[h] = "reorder" /\ holds'[h] = "cube" /\ data'[h] = contents
          /\ UNCHANGED <<size, methods, bytes, loaded>>
          /\ HasRoom(h)' = HasRoom(h)
      BY <1>1, <2>3, StageValues
    <3> QED
      BY <1>2, <2>1, <2>2, <3>1 DEF Encoding, HasForm, DifferencedData, form
  <2> QED
    BY <1>1, <2>2, <2>3, <2>4, Changed, StagePreserves
    DEF CallNames, HoldNames, EncodeStages, DecodeStages
<1> QED
  BY <1>4, <1>5 DEF Difference

LEMMA ReorderOutcome ==
  ASSUME CarefulPrograms, TypeOK, NEW h \in Handles,
         SetUp(size[h], methods[h]), HasRoom(h)
  PROVE  ReorderError(h) =
           IF ReorderFits(size[h], methods[h]) THEN "noerror" ELSE "notimpl"
<1> DEFINE s == size[h]
           d == Diff(h)
           n == ReorderedPixels(s, d)
           copied == CopiedBytes(s, d)
<1>1. /\ s \in SizeRecords /\ Unwrapped(s) /\ s.frames # 0
      /\ DataBytes(s) \in Nat /\ MinReordered(s, Reor(h)) \in Nat
      /\ DataBytes(s) <= MinReordered(s, Reor(h))
      /\ Reor(h) \in Reorders /\ Reor(h) # "bitpack"
      /\ bytes[h]["raw"] \in Nat /\ bytes[h]["reordered"] \in Nat
  BY SetUpSizes DEF Reor, MethodRecords, TypeOK, Buffers
<1>2. /\ bytes[h]["raw"] >= DataBytes(s)
      /\ bytes[h]["reordered"] >= MinReordered(s, Reor(h))
      /\ bytes[h]["reordered"] >= DataBytes(s)
  BY <1>1 DEF HasRoom, Data, MinSize
<1>3. CASE Reor(h) = "none"
  BY <1>1, <1>2, <1>3 DEF ReorderError, ReorderFits, Reor, Data
<1>4. CASE Reor(h) # "none" /\ ~ ReorderFits(s, methods[h])
  BY <1>4 DEF ReorderError, ReorderFits, Reor
<1>5. CASE Reor(h) # "none" /\ ReorderFits(s, methods[h])
  <2>1. TypeSize(s.type) = 2
    BY <1>5, TwoByteTypes DEF Reor
  <2>2. RawTouched(s, d, Reor(h)) = DataBytes(s) /\ n \in Nat /\ copied \in Nat
    BY <1>1, <2>1, RawTakenWhole, ReorderedPixelsBound, TwoBytesAPixel
  <2>3. Payload(h) = DataBytes(s)
    <3>1. Payload(h) = copied + n * 2
      BY <2>1 DEF Payload
    <3>2. DataBytes(s) = copied + 2 * n
      BY <1>5, <2>2 DEF RawTouched
    <3> QED
      BY <2>2, <3>1, <3>2
  <2>4. /\ ~ bytes[h]["raw"] < Payload(h) /\ ~ bytes[h]["reordered"] < Payload(h)
        /\ ~ bytes[h]["reordered"] < MinSize(h, "reordered")
    BY <1>1, <1>2, <2>3 DEF MinSize
  <2>5. Reor(h) = "bytepack" => s.type \in {"int16", "uint16"}
    BY <1>5 DEF ReorderFits, Reor
  <2> QED
    BY <1>1, <1>5, <2>4, <2>5 DEF ReorderError, Reorders
<1> QED
  BY <1>3, <1>4, <1>5

\* The layer of a reorder method other than bitpack.
LEMMA ReorderedStep ==
  ASSUME NEW h \in Handles, methods[h].reorder # "bitpack"
  PROVE  ReorderedData(h) =
           IF Reor(h) = "none" THEN DifferencedData(h)
           ELSE Add(DifferencedData(h), ReorderLayer(h))
BY DEF ReorderedData, ReorderedForm, DifferencedData, ReorderLayer, Reor, Diff

LEMMA ReorderPreserves ==
  ASSUME CarefulPrograms, CodecInv, NEW h \in Handles, Reorder(h)
  PROVE  CodecInv'
<1> DEFINE error == ReorderError(h)
           form == ReorderedData(h)
           contents == [data[h] EXCEPT !["reordered"] = form]
<1>1. /\ TypeOK /\ HandleOK(h) /\ call[h] = "reorder" /\ Encoding(h)
      /\ ~ Idle(h) /\ UNCHANGED <<settings, files>> /\ UNCHANGED compressed_size
  BY DEF CodecInv, HandleOK, Reorder, EncodeStages, Idle
<1>2. /\ holds[h] = "cube" /\ methods[h] # NoMethods /\ SetUp(size[h], methods[h])
      /\ HasRoom(h) /\ DifferenceFits(size[h], methods[h])
      /\ loaded[h] \in Cubes /\ data[h]["raw"] = DifferencedData(h)
      /\ methods[h].reorder # "bitpack"
  BY <1>1 DEF Encoding, HasForm, HandleOK
<1>3. error = IF ReorderFits(size[h], methods[h]) THEN "noerror" ELSE "notimpl"
  BY <1>1, <1>2, ReorderOutcome
<1>4. /\ DifferencedData(h).cube = loaded[h] /\ form \in Contents
      /\ size[h] \in SizeRecords /\ methods[h] \in MethodRecords
  BY <1>1, <1>2, Changed, FormTypes, ContentsTypes DEF DifferencedData, ReorderedData
<1>5. CASE error # "noerror" /\ Return(h, error, "failed") /\ UNCHANGED data
  <2>1. StageStep(h, "idle", "failed", "notimpl", data[h], compressed_size[h])
    BY <1>1, <1>3, <1>5, Changed, ReturnStep
  <2>2. AtRest(h)'
    <3>1. holds'[h] = "failed" /\ data'[h] = data[h] /\ loaded' = loaded
      BY <1>1, <2>1, StageValues
    <3> QED
      BY <1>2, <1>4, <3>1 DEF AtRest, Buffers
  <2> QED
    BY <1>1, <2>1, <2>2, Changed, StagePreserves
    DEF CallNames, HoldNames, ReturnCodes, EncodeStages, DecodeStages
<1>6. CASE /\ error = "noerror"
           /\ Going(h, "compress")
           /\ Put(h, "reordered",
                  IF Reor(h) = "none" THEN data[h]["raw"]
                  ELSE IF ReorderInside(h) /\ ReordersAll(h)
                  THEN Add(data[h]["raw"], ReorderLayer(h))
                  ELSE Unknown)
  <2>1. ReorderFits(size[h], methods[h])
    BY <1>3, <1>6
  <2>2. ReorderInside(h) /\ ReordersAll(h)
    BY <1>1, <1>2, <2>1, ReorderRoom
  <2>3. Put(h, "reordered", form) /\ "reordered" \in Buffers
    BY <1>2, <1>6, <2>2, ReorderedStep DEF Buffers
  <2> HIDE DEF form
  <2>4. /\ data' = [data EXCEPT ![h] = contents]
        /\ contents \in [Buffers -> Contents]
        /\ contents["reordered"] = form
    BY <1>1, <1>4, <2>3, Changed
  <2> HIDE DEF contents
  <2>5. StageStep(h, "compress", "cube", rv[h], contents, compressed_size[h])
    <3>1. StageStep(h, "compress", holds[h], rv[h], contents, compressed_size[h])
      BY <1>1, <1>6, <2>4, Changed, GoingStep
    <3> QED
      BY <1>2, <3>1
  <2>6. Encoding(h)'
    <3>1. /\ call'[h] = "compress" /\ holds'[h] = "cube" /\ data'[h] = contents
          /\ UNCHANGED <<size, methods, bytes, loaded>>
          /\ HasRoom(h)' = HasRoom(h)
      BY <1>1, <2>5, StageValues
    <3>2. ReorderedData(h)' = form
      BY <3>1 DEF ReorderedData, form
    <3> QED
      BY <1>2, <2>1, <2>4, <3>1, <3>2 DEF Encoding, Encodable, HasForm
  <2> QED
    BY <1>1, <2>4, <2>5, <2>6, Changed, StagePreserves
    DEF CallNames, HoldNames, EncodeStages, DecodeStages
<1> QED
  BY <1>5, <1>6 DEF Reorder

\* xrif_encode has stored a stream of n bytes.
LEMMA StreamStored ==
  ASSUME TypeOK, NEW h \in Handles, methods[h] # NoMethods,
         Encodable(size[h], methods[h]), loaded[h] \in Cubes,
         NEW contents \in [Buffers -> Contents], NEW n \in Nat,
         StageStep(h, "idle", "stream", "noerror", contents, n),
         contents[Target(h)] = StreamForm(loaded[h], size[h], methods[h], n),
         n <= bytes[h][Target(h)]
  PROVE  AtRest(h)'
<1>1. /\ holds'[h] = "stream" /\ rv'[h] = "noerror" /\ data'[h] = contents
      /\ compressed_size'[h] = n
      /\ UNCHANGED <<size, methods, bytes, loaded>>
      /\ StreamBuffer(h)' = StreamBuffer(h)
  BY StageValues
<1>2. StreamBuffer(h) = Target(h)
  BY DEF StreamBuffer
<1>3. KeepsStream(h)' /\ NotRefused(h)'
  BY <1>1, <1>2 DEF KeepsStream, NotRefused, HasForm, StreamData
<1> QED
  BY <1>1, <1>3 DEF AtRest

LEMMA CompressPreserves ==
  ASSUME CarefulPrograms, CodecInv, NEW h \in Handles, Compress(h)
  PROVE  CodecInv'
<1> DEFINE form == ReorderedData(h)
           target == Target(h)
<1>1. /\ TypeOK /\ HandleOK(h) /\ call[h] = "compress" /\ Encoding(h)
      /\ ~ Idle(h) /\ UNCHANGED <<settings, files>>
  BY DEF CodecInv, HandleOK, Compress, EncodeStages, Idle
<1>2. /\ methods[h] # NoMethods /\ SetUp(size[h], methods[h])
      /\ HasRoom(h) /\ Encodable(size[h], methods[h])
      /\ loaded[h] \in Cubes /\ data[h]["reordered"] = form
  BY <1>1 DEF Encoding, HasForm
<1>3. /\ form \in CubeContents /\ form \in Contents /\ form.cube = loaded[h]
      /\ size[h] \in SizeRecords /\ methods[h] \in MethodRecords
  BY <1>1, <1>2, Changed, FormTypes, ContentsTypes DEF ReorderedData
<1>4. /\ target \in Buffers /\ target # "reordered" /\ "reordered" \in Buffers
      /\ bytes[h][target] \in Nat /\ bytes[h]["reordered"] \in Nat
  BY <1>1 DEF Target, Buffers, TypeOK
\* A failure leaves the reordered buffer.
<1>5. ASSUME NEW contents \in [Buffers -> Contents], NEW n \in Nat,
             StageStep(h, "idle", "failed", "insufficient_size", contents, n),
             contents["reordered"] = form
      PROVE  CodecInv'
  <2>1. AtRest(h)'
    <3>1. holds'[h] = "failed" /\ data'[h] = contents /\ loaded' = loaded
      BY <1>1, <1>5, StageValues
    <3> QED
      BY <1>3, <1>4, <1>5, <3>1 DEF AtRest
  <2> QED
    BY <1>1, <1>5, <2>1, StagePreserves
    DEF CallNames, HoldNames, ReturnCodes, EncodeStages, DecodeStages
\* A success has put a stream of n bytes in the target.
<1>6. ASSUME NEW n \in Nat, n <= bytes[h][target],
             compressed_size' = [compressed_size EXCEPT ![h] = n],
             Return(h, "noerror", "stream"),
             Put(h, target, StreamForm(loaded[h], size[h], methods[h], n))
      PROVE  CodecInv'
  <2> DEFINE stream == StreamForm(loaded[h], size[h], methods[h], n)
             contents == [data[h] EXCEPT ![target] = stream]
  <2>1. stream \in Contents
    BY <1>2, <1>3, FormTypes, ContentsTypes
  <2> HIDE DEF stream, target, form
  <2>2. /\ data' = [data EXCEPT ![h] = contents]
        /\ contents \in [Buffers -> Contents]
        /\ contents[target] = stream
    BY <1>1, <1>4, <1>6, <2>1, Changed DEF stream
  <2> HIDE DEF contents
  <2>3. StageStep(h, "idle", "stream", "noerror", contents, n)
    BY <1>1, <1>6, <2>2, ReturnStep
  <2>4. AtRest(h)'
    BY <1>1, <1>2, <1>6, <2>2, <2>3, StreamStored DEF stream, target
  <2> QED
    BY <1>1, <2>2, <2>3, <2>4, StagePreserves
    DEF CallNames, HoldNames, ReturnCodes, EncodeStages, DecodeStages
<1>7. ASSUME Comp(h) = "none", CompressNone(h)
      PROVE  CodecInv'
  <2>1. CASE bytes[h][target] < bytes[h]["reordered"]
    <3>1. /\ Return(h, "insufficient_size", "failed")
          /\ UNCHANGED <<data, compressed_size>>
      BY <1>7, <2>1 DEF CompressNone
    <3>2. StageStep(h, "idle", "failed", "insufficient_size", data[h], compressed_size[h])
      BY <1>1, <3>1, Changed, ReturnStep
    <3> HIDE DEF form
    <3> QED
      BY <1>1, <1>2, <1>5, <3>2, Changed
  <2>2. CASE ~ bytes[h][target] < bytes[h]["reordered"]
    <3>1. StreamForm(loaded[h], size[h], methods[h], bytes[h]["reordered"])
            = data[h]["reordered"]
      BY <1>2, <1>7 DEF StreamForm, ReorderedData, Comp
    <3>2. bytes[h]["reordered"] <= bytes[h][target]
      BY <1>4, <2>2
    <3>3. /\ compressed_size' = [compressed_size EXCEPT ![h] = bytes[h]["reordered"]]
          /\ Return(h, "noerror", "stream")
          /\ Put(h, target, data[h]["reordered"])
      BY <1>7, <2>2 DEF CompressNone
    <3> QED
      BY <1>4, <1>6, <3>1, <3>2, <3>3
  <2> QED
    BY <2>1, <2>2
<1>8. ASSUME Comp(h) = "lz4", CompressLZ4(h)
      PROVE  CodecInv'
  <2>1. /\ SourceBytes(h) = MinReordered(size[h], Reor(h))
        /\ SourceBytes(h) >= ReorderedTouched(size[h], Diff(h), Reor(h),
                                              bytes[h]["reordered"])
        /\ SourceBytes(h) \in Nat
    BY <1>1, <1>2, ReorderRoom, SetUpSizes DEF Encodable, Reor
  <2>2. CASE /\ compressed_size' = [compressed_size EXCEPT ![h] = 0]
             /\ Return(h, "insufficient_size", "failed")
             /\ UNCHANGED data
    <3>1. StageStep(h, "idle", "failed", "insufficient_size", data[h], 0)
      BY <1>1, <2>2, Changed, ReturnStep
    <3> HIDE DEF form
    <3> QED
      BY <1>1, <1>2, <1>5, <3>1, Changed
  <2>3. CASE /\ compressed_size' = [compressed_size EXCEPT ![h] = 0]
             /\ Return(h, "insufficient_size", "failed")
             /\ Put(h, target, Unknown)
    <3> DEFINE contents == [data[h] EXCEPT ![target] = Unknown]
    <3> HIDE DEF form, target
    <3>1. /\ data' = [data EXCEPT ![h] = contents]
          /\ contents \in [Buffers -> Contents]
          /\ contents["reordered"] = form
      BY <1>1, <1>2, <1>4, <2>3, Changed, ContentsTypes
    <3> HIDE DEF contents
    <3>2. StageStep(h, "idle", "failed", "insufficient_size", contents, 0)
      BY <1>1, <2>3, <3>1, ReturnStep
    <3> QED
      BY <1>5, <3>1, <3>2
  <2>4. ASSUME NEW output \in CompressedSizes(SourceBytes(h)),
               output <= bytes[h][target],
               compressed_size' = [compressed_size EXCEPT ![h] = output],
               Return(h, "noerror", "stream"),
               Put(h, target, Add(data[h]["reordered"],
                                  Layer("lz4", SourceBytes(h), output)))
        PROVE  CodecInv'
    <3>1. output \in Nat
      BY <2>1, CompressBoundNat DEF CompressedSizes
    <3>2. StreamForm(loaded[h], size[h], methods[h], output)
            = Add(data[h]["reordered"], Layer("lz4", SourceBytes(h), output))
      BY <1>2, <1>8, <2>1 DEF StreamForm, ReorderedData, Comp, Reor
    <3> QED
      BY <1>6, <2>4, <3>1, <3>2
  <2> QED
    BY <1>8, <2>1, <2>2, <2>3, <2>4 DEF CompressLZ4
<1> QED
  BY <1>7, <1>8 DEF Compress

\* A stream stays when another buffer changes.
LEMMA StreamStays ==
  ASSUME TypeOK, NEW h \in Handles, KeepsStream(h),
         NEW next, NEW what, NEW code, NEW contents \in [Buffers -> Contents],
         StageStep(h, next, what, code, contents, compressed_size[h]),
         contents[StreamBuffer(h)] = data[h][StreamBuffer(h)]
  PROVE  KeepsStream(h)'
<1>1. /\ data'[h] = contents /\ compressed_size'[h] = compressed_size[h]
      /\ UNCHANGED <<size, methods, bytes, loaded>>
      /\ StreamBuffer(h)' = StreamBuffer(h)
  BY StageValues
<1> QED
  BY <1>1 DEF KeepsStream, HasForm, StreamData

LEMMA DecodePreserves ==
  ASSUME CarefulPrograms, CodecInv, NEW h \in Handles, Decode(h)
  PROVE  CodecInv'
<1>1. /\ TypeOK /\ HandleOK(h) /\ Idle(h) /\ AtRest(h)
      /\ holds[h] = "stream" /\ HasRoom(h)
      /\ UNCHANGED <<settings, files>> /\ UNCHANGED <<compressed_size, data>>
  BY DEF CodecInv, HandleOK, Decode, CarefulPrograms
<1> TypeOK
  BY <1>1
<1>2. KeepsStream(h) /\ NotRefused(h) /\ Encodable(size[h], methods[h])
  BY <1>1 DEF AtRest, KeepsStream
<1>3. /\ data' = [data EXCEPT ![h] = data[h]]
      /\ compressed_size' = [compressed_size EXCEPT ![h] = compressed_size[h]]
  BY <1>1, Changed
<1>4. CASE methods[h] = NoMethods /\ Return(h, "noerror", "cube")
  <2>1. StageStep(h, "idle", "cube", "noerror", data[h], compressed_size[h])
    BY <1>1, <1>3, <1>4, ReturnStep
  <2>2. AtRest(h)'
    <3>1. HasForm(h, "raw", Plain(loaded[h])) /\ Data(h) # 0
      BY <1>2, <1>4, NoMethodsForm DEF KeepsStream, HasForm, StreamData, Encodable, SetUp, Data
    <3>2. /\ holds'[h] = "cube" /\ data'[h] = data[h] /\ loaded' = loaded
          /\ Data(h)' = Data(h)
      BY <1>1, <2>1, StageValues
    <3> QED
      BY <3>1, <3>2 DEF AtRest, HasForm
  <2> QED
    BY <1>1, <2>1, <2>2, Changed, StagePreserves
    DEF CallNames, HoldNames, ReturnCodes, EncodeStages, DecodeStages
<1>5. CASE methods[h] # NoMethods /\ Going(h, "decompress")
  <2>1. StageStep(h, "decompress", "stream", rv[h], data[h], compressed_size[h])
    <3>1. StageStep(h, "decompress", holds[h], rv[h], data[h], compressed_size[h])
      BY <1>1, <1>3, <1>5, GoingStep
    <3> QED
      BY <1>1, <3>1
  <2>2. Decoding(h)'
    <3>1. /\ call'[h] = "decompress" /\ holds'[h] = "stream" /\ rv'[h] = rv[h]
          /\ data'[h] = data[h]
          /\ UNCHANGED <<size, methods, bytes, loaded>>
          /\ HasRoom(h)' = HasRoom(h)
      BY <2>1, StageValues
    <3>2. KeepsStream(h)'
      BY <1>1, <1>2, <2>1, Changed, StreamStays
    <3> QED
      BY <1>1, <1>2, <1>5, <3>1, <3>2
      DEF Decoding, KeepsStream, NotRefused, HasForm, StreamData
  <2> QED
    BY <1>1, <2>1, <2>2, Changed, StagePreserves
    DEF CallNames, HoldNames, EncodeStages, DecodeStages
<1> QED
  BY <1>1, <1>4, <1>5 DEF Decode

(* LZ4 gives back what it was given, and in the size that is expected.     *)
LEMMA LZ4Outcome ==
  ASSUME CarefulPrograms, TypeOK, NEW h \in Handles, KeepsStream(h), HasRoom(h),
         Comp(h) = "lz4"
  PROVE  /\ LZ4Accepts(h)
         /\ Outermost(data[h][Target(h)]).from = MinSize(h, "reordered")
         /\ TakeOff(data[h][Target(h)], Outermost(data[h][Target(h)])) = ReorderedData(h)
<1> DEFINE layer == Layer("lz4", MinReordered(size[h], methods[h].reorder),
                          compressed_size[h])
           form == ReorderedData(h)
<1>1. /\ size[h] \in SizeRecords /\ methods[h] \in MethodRecords
      /\ compressed_size[h] \in Nat /\ loaded[h] \in Cubes
  BY Changed DEF KeepsStream, HasForm
<1>2. form \in CubeContents /\ layer \in LayerRecords
  BY <1>1, FormTypes, LayerTypes DEF ReorderedData
<1>3. StreamBuffer(h) = Target(h)
  BY DEF StreamBuffer, NoMethods, Comp
<1>4. data[h][Target(h)] = Add(form, layer)
  BY <1>3 DEF KeepsStream, HasForm, StreamData, StreamForm, ReorderedData, Comp
<1> HIDE DEF form, layer
<1>5. /\ data[h][Target(h)].layers # <<>>
      /\ Outermost(data[h][Target(h)]) = layer
      /\ TakeOff(data[h][Target(h)], layer) = form
  BY <1>2, <1>4, AddLayer
<1>6. /\ layer.by = "lz4" /\ layer.param = compressed_size[h]
      /\ layer.from = MinSize(h, "reordered")
  BY DEF layer, Layer, MinSize, Reor
<1>7. layer.from <= bytes[h]["reordered"]
  BY <1>1, <1>6, MinSizeNat DEF HasRoom, TypeOK, Buffers
<1> QED
  BY <1>5, <1>6, <1>7 DEF LZ4Accepts, form

LEMMA DecompressPreserves ==
  ASSUME CarefulPrograms, CodecInv, NEW h \in Handles, Decompress(h)
  PROVE  CodecInv'
<1> DEFINE form == ReorderedData(h)
           contents == [data[h] EXCEPT !["reordered"] = form]
<1>1. /\ TypeOK /\ HandleOK(h) /\ call[h] = "decompress" /\ Decoding(h)
      /\ ~ Idle(h) /\ UNCHANGED <<settings, files>> /\ UNCHANGED compressed_size
  BY DEF CodecInv, HandleOK, Decompress, DecodeStages, Idle
<1>2. /\ holds[h] = "stream" /\ methods[h] # NoMethods
      /\ Encodable(size[h], methods[h]) /\ HasRoom(h) /\ NotRefused(h)
      /\ KeepsStream(h)
  BY <1>1 DEF Decoding
<1>3. /\ StreamBuffer(h) = Target(h) /\ StreamBuffer(h) \in Buffers
      /\ StreamBuffer(h) # "reordered" /\ "reordered" \in Buffers
  BY <1>2 DEF StreamBuffer, Target, Buffers
<1>4. loaded[h] \in Cubes /\ form \in Contents
  <2>1. loaded[h] \in Cubes /\ size[h] \in SizeRecords /\ methods[h] \in MethodRecords
    BY <1>1, <1>2, Changed DEF KeepsStream, HasForm
  <2> QED
    BY <2>1, FormTypes, ContentsTypes DEF ReorderedData
<1>5. CASE Return(h, "insufficient_size", "stream") /\ UNCHANGED data
  <2>1. StageStep(h, "idle", "stream", "insufficient_size", data[h], compressed_size[h])
    BY <1>1, <1>5, Changed, ReturnStep
  <2>2. KeepsStream(h)'
    BY <1>1, <1>2, <2>1, Changed, StreamStays
  <2>3. AtRest(h)'
    <3>1. holds'[h] = "stream" /\ rv'[h] = "insufficient_size"
      BY <1>1, <2>1, StageValues
    <3> QED
      BY <2>2, <3>1 DEF AtRest, NotRefused
  <2> QED
    BY <1>1, <2>1, <2>3, Changed, StagePreserves
    DEF CallNames, HoldNames, ReturnCodes, EncodeStages, DecodeStages
<1>6. CASE Going(h, "unreorder") /\ Put(h, "reordered", form)
  <2> HIDE DEF form
  <2>1. /\ data' = [data EXCEPT ![h] = contents]
        /\ contents \in [Buffers -> Contents]
        /\ contents["reordered"] = form
        /\ contents[StreamBuffer(h)] = data[h][StreamBuffer(h)]
    BY <1>1, <1>3, <1>4, <1>6, Changed
  <2> HIDE DEF contents
  <2>2. StageStep(h, "unreorder", "stream", rv[h], contents, compressed_size[h])
    <3>1. StageStep(h, "unreorder", holds[h], rv[h], contents, compressed_size[h])
      BY <1>1, <1>6, <2>1, Changed, GoingStep
    <3> QED
      BY <1>2, <3>1
  <2>3. KeepsStream(h)'
    BY <1>1, <1>2, <2>1, <2>2, StreamStays
  <2>4. Decoding(h)'
    <3>1. /\ call'[h] = "unreorder" /\ holds'[h] = "stream" /\ rv'[h] = rv[h]
          /\ data'[h] = contents
          /\ UNCHANGED <<size, methods, bytes, loaded>>
          /\ HasRoom(h)' = HasRoom(h)
      BY <1>1, <2>2, StageValues
    <3>2. ReorderedData(h)' = form
      BY <3>1 DEF ReorderedData, form
    <3> QED
      BY <1>2, <1>4, <2>1, <2>3, <3>1, <3>2 DEF Decoding, NotRefused, HasForm
  <2> QED
    BY <1>1, <2>1, <2>2, <2>4, Changed, StagePreserves
    DEF CallNames, HoldNames, EncodeStages, DecodeStages
<1>7. CASE Comp(h) = "none" /\ DecompressNone(h)
  <2>1. data[h][Target(h)] = form
    BY <1>2, <1>3, <1>7 DEF KeepsStream, HasForm, StreamData, StreamForm, ReorderedData, Comp
  <2> QED
    BY <1>5, <1>6, <1>7, <2>1 DEF DecompressNone
<1>8. CASE Comp(h) = "lz4" /\ DecompressLZ4(h)
  BY <1>1, <1>2, <1>6, <1>8, LZ4Outcome DEF DecompressLZ4
<1> QED
  BY <1>7, <1>8 DEF Decompress

LEMMA UnreorderPreserves ==
  ASSUME CarefulPrograms, CodecInv, NEW h \in Handles, Unreorder(h)
  PROVE  CodecInv'
<1> DEFINE form == DifferencedData(h)
           contents == [data[h] EXCEPT !["raw"] = form]
<1>1. /\ TypeOK /\ HandleOK(h) /\ call[h] = "unreorder" /\ Decoding(h)
      /\ ~ Idle(h) /\ UNCHANGED <<settings, files>> /\ UNCHANGED compressed_size
  BY DEF CodecInv, HandleOK, Unreorder, DecodeStages, Idle
<1>2. /\ holds[h] = "stream" /\ methods[h] # NoMethods
      /\ Encodable(size[h], methods[h]) /\ HasRoom(h) /\ NotRefused(h)
      /\ loaded[h] \in Cubes /\ data[h]["reordered"] = ReorderedData(h)
  BY <1>1 DEF Decoding, HasForm
<1>3. /\ SetUp(size[h], methods[h]) /\ ReorderFits(size[h], methods[h])
      /\ size[h] \in SizeRecords /\ methods[h] \in MethodRecords
      /\ methods[h].reorder # "bitpack"
  BY <1>2, SetUpSizes DEF Encodable
<1>4. UnreorderError(h) = "noerror"
  <2>1. /\ bytes[h]["raw"] \in Nat /\ bytes[h]["reordered"] \in Nat
        /\ bytes[h]["raw"] >= Data(h)
        /\ bytes[h]["reordered"] >= MinReordered(size[h], methods[h].reorder)
        /\ MinReordered(size[h], methods[h].reorder) \in Nat
        /\ Data(h) \in Nat /\ Data(h) <= MinReordered(size[h], methods[h].reorder)
    BY <1>1, <1>2, <1>3, SetUpSizes DEF HasRoom, MinSize, Data, Reor, TypeOK, Buffers
  <2>2. ~ bytes[h]["raw"] < Data(h) /\ ~ bytes[h]["reordered"] < Data(h)
    BY <2>1
  <2> QED
    BY <1>3, <2>2 DEF UnreorderError, ReorderFits, Reor
<1>5. ReorderInside(h)
  BY <1>1, <1>2, <1>3, ReorderRoom
<1>6. form \in CubeContents /\ form \in Contents
  BY <1>2, <1>3, FormTypes, ContentsTypes DEF DifferencedData
<1>7. Going(h, "undifference") /\ Put(h, "raw", form)
  <2>1. CASE Reor(h) = "none"
    <3>1. data[h]["reordered"] = form
      BY <1>2, <1>3, <2>1, ReorderedStep
    <3> QED
      BY <1>4, <2>1, <3>1 DEF Unreorder
  <2>2. CASE Reor(h) # "none"
    <3>1. data[h]["reordered"] = Add(form, ReorderLayer(h))
      BY <1>2, <1>3, <2>2, ReorderedStep
    <3>2. ReorderLayer(h) \in LayerRecords
      BY <1>1, <1>3, LayerTypes DEF ReorderLayer, Reor, Diff
    <3>3. TakeOff(data[h]["reordered"], ReorderLayer(h)) = form
      BY <1>6, <3>1, <3>2, AddLayer
    <3> HIDE DEF form
    <3> QED
      BY <1>4, <1>5, <2>2, <3>3 DEF Unreorder
  <2> QED
    BY <2>1, <2>2
<1> HIDE DEF form
<1>8. /\ data' = [data EXCEPT ![h] = contents]
      /\ contents \in [Buffers -> Contents]
      /\ contents["raw"] = form
  BY <1>1, <1>6, <1>7, Changed DEF Buffers
<1> HIDE DEF contents
<1>9. StageStep(h, "undifference", "stream", rv[h], contents, compressed_size[h])
  <2>1. StageStep(h, "undifference", holds[h], rv[h], contents, compressed_size[h])
    BY <1>1, <1>7, <1>8, Changed, GoingStep
  <2> QED
    BY <1>2, <2>1
<1>10. Decoding(h)'
  <2>1. /\ call'[h] = "undifference" /\ holds'[h] = "stream" /\ rv'[h] = rv[h]
        /\ data'[h] = contents
        /\ UNCHANGED <<size, methods, bytes, loaded>>
        /\ HasRoom(h)' = HasRoom(h)
    BY <1>1, <1>9, StageValues
  <2>2. DifferencedData(h)' = form
    BY <2>1 DEF DifferencedData, form
  <2> QED
    BY <1>2, <1>8, <2>1, <2>2 DEF Decoding, NotRefused, HasForm
<1> QED
  BY <1>1, <1>8, <1>9, <1>10, Changed, StagePreserves
  DEF CallNames, HoldNames, EncodeStages, DecodeStages

(* The last stage cannot fail: the type passed it on the way in, and the   *)
(* stream it replaced may be gone.                                         *)
LEMMA UndifferenceStep ==
  ASSUME CarefulPrograms, TypeOK, NEW h \in Handles, HandleOK(h), Undifference(h)
  PROVE  \E contents \in [Buffers -> Contents] :
           /\ StageStep(h, "idle", "cube", "noerror", contents, compressed_size[h])
           /\ contents["raw"] = Plain(loaded[h])
<1>1. /\ call[h] = "undifference" /\ Decoding(h)
      /\ ~ Idle(h) /\ UNCHANGED <<settings, files>> /\ UNCHANGED compressed_size
  BY DEF HandleOK, Undifference, DecodeStages, Idle
<1>2. /\ SetUp(size[h], methods[h]) /\ DifferenceFits(size[h], methods[h])
      /\ HasRoom(h)
      /\ loaded[h] \in Cubes /\ data[h]["raw"] = DifferencedData(h)
  BY <1>1 DEF Decoding, HasForm, Encodable
<1>3. DifferenceError(h, "nullptr") = "noerror" /\ ~ bytes[h]["raw"] < Data(h)
  BY <1>2, DifferenceOutcome
<1> DEFINE plain == Plain(loaded[h])
           contents == IF Diff(h) = "none" THEN data[h]
                       ELSE [data[h] EXCEPT !["raw"] = plain]
<1>4. plain \in CubeContents /\ plain \in Contents /\ "raw" \in Buffers
  BY <1>2, ContentsTypes DEF Buffers
<1>5. /\ data' = [data EXCEPT ![h] = contents]
      /\ contents \in [Buffers -> Contents]
      /\ contents["raw"] = plain
  <2>1. CASE Diff(h) = "none"
    <3>1. data[h]["raw"] = plain
      BY <1>2, <2>1 DEF DifferencedData, DifferencedForm, Diff
    <3>2. UNCHANGED data
      BY <1>3, <2>1 DEF Undifference
    <3> QED
      BY <2>1, <3>1, <3>2, Changed
  <2>2. CASE Diff(h) # "none"
    <3>1. data[h]["raw"] = Add(plain, Layer(Diff(h), 0, 0))
      BY <1>2, <2>2 DEF DifferencedData, DifferencedForm, Diff
    <3>2. Layer(Diff(h), 0, 0) \in LayerRecords
      BY Changed, LayerTypes DEF Diff
    <3>3. TakeOff(data[h]["raw"], Layer(Diff(h), 0, 0)) = plain
      BY <1>4, <3>1, <3>2, AddLayer
    <3> HIDE DEF plain
    <3>4. Put(h, "raw", plain)
      BY <1>3, <2>2, <3>3 DEF Undifference
    <3> QED
      BY <1>4, <2>2, <3>4, Changed
  <2> QED
    BY <2>1, <2>2
<1>6. Return(h, "noerror", "cube")
  BY <1>3 DEF Undifference
<1> HIDE DEF contents
<1>7. StageStep(h, "idle", "cube", "noerror", contents, compressed_size[h])
  BY <1>1, <1>5, <1>6, Changed, ReturnStep
<1> QED
  BY <1>5, <1>7

LEMMA UndifferencePreserves ==
  ASSUME CarefulPrograms, CodecInv, NEW h \in Handles, Undifference(h)
  PROVE  CodecInv'
<1>1. /\ TypeOK /\ HandleOK(h) /\ call[h] = "undifference" /\ Decoding(h)
      /\ ~ Idle(h)
  BY DEF CodecInv, HandleOK, Undifference, DecodeStages, Idle
<1>2. Data(h) # 0 /\ loaded[h] \in Cubes
  BY <1>1 DEF Decoding, Encodable, SetUp, Data, HasForm
<1>3. ASSUME NEW contents \in [Buffers -> Contents],
             StageStep(h, "idle", "cube", "noerror", contents, compressed_size[h]),
             contents["raw"] = Plain(loaded[h])
      PROVE  CodecInv'
  <2>1. /\ holds'[h] = "cube" /\ data'[h] = contents /\ loaded' = loaded
        /\ Data(h)' = Data(h)
    BY <1>1, <1>3, StageValues
  <2>2. AtRest(h)'
    BY <1>2, <1>3, <2>1 DEF AtRest, HasForm
  <2> QED
    BY <1>1, <1>3, <2>2, Changed, StagePreserves
    DEF CallNames, HoldNames, ReturnCodes, EncodeStages, DecodeStages
<1> QED
  BY <1>1, <1>3, UndifferenceStep

-----------------------------------------------------------------------------
(* The invariant holds throughout.                                         *)

LEMMA InitCodecInv == Init => CodecInv
<1> SUFFICES ASSUME Init PROVE CodecInv
  OBVIOUS
<1>1. TypeOK
  <2>1. Unsized \in SizeRecords
    BY SizesAssumption DEF Unsized, SizeRecords
  <2>2. DefaultMethods \in MethodRecords
    BY DEF DefaultMethods, MethodRecords, Differences, Reorders, Compressors
  <2> QED
    BY <2>1, <2>2, ContentsTypes DEF Init, TypeOK, MethodRecords, ReturnCodes
<1>2. \A h \in Handles : HandleOK(h)
  <2> SUFFICES ASSUME NEW h \in Handles PROVE HandleOK(h)
    OBVIOUS
  <2>1. /\ size[h] = Unsized /\ methods[h].reorder # "bitpack"
        /\ call[h] = "idle" /\ holds[h] = "nothing" /\ loaded[h] = None
        /\ reading[h] = NoFile
    BY DEF Init, DefaultMethods
  <2>2. \A b \in Buffers : bytes[h][b] < U32
    BY SizesAssumption DEF Init
  <2> QED
    BY <2>1, <2>2
    DEF HandleOK, AtRest, Idle, ReadingOK, FileOK, EncodeStages, DecodeStages
<1> QED
  BY <1>1, <1>2 DEF CodecInv, Init, FileOK

LEMMA StutterCodecInv ==
  ASSUME CodecInv, UNCHANGED vars
  PROVE  CodecInv'
<1>1. TypeOK' /\ reading' = [h \in Handles |-> reading'[h]] /\ FileOK(file')
  BY DEF CodecInv, TypeOK, vars, settings, files
<1>2. \A h \in Handles : Same(h)
  BY DEF Same, vars, settings, files
<1> QED
  BY <1>1, <1>2, SameKeeps DEF CodecInv

LEMMA NextCodecInv ==
  ASSUME CarefulPrograms, CodecInv, [Next]_vars
  PROVE  CodecInv'
<1>1. ASSUME NEW h \in Handles, Prepare(h) PROVE CodecInv'
  BY <1>1, SetCompressOnRawPreserves, AllocatePreserves, SetBufferPreserves DEF Prepare
<1>2. ASSUME NEW h \in Handles, Stage(h) PROVE CodecInv'
  BY <1>2, DifferencePreserves, ReorderPreserves, CompressPreserves,
     DecompressPreserves, UnreorderPreserves, UndifferencePreserves
  DEF Stage
<1>3. ASSUME NEW h \in Handles, Write(h) PROVE CodecInv'
  BY <1>3, SetSizePreserves, ConfigurePreserves, LoadCubePreserves, EncodePreserves,
     StorePreserves
  DEF Write
<1>4. ASSUME NEW h \in Handles, Read(h) PROVE CodecInv'
  BY <1>4, OpenPreserves, FetchPreserves DEF Read
<1>5. ASSUME NEW h \in Handles, Decode(h) PROVE CodecInv'
  BY <1>5, DecodePreserves
<1> QED
  BY <1>1, <1>2, <1>3, <1>4, <1>5, StutterCodecInv DEF Next, Handles

(* Between any two stages the buffers of a handle hold what its settings   *)
(* say: a cube, the cube as the stages so far have transformed it, or the  *)
(* encoded cube; and so does the file behind its header.                   *)
THEOREM SpecCodecInv ==
  ASSUME CarefulPrograms
  PROVE  Spec => []CodecInv
<1>1. Init => CodecInv
  BY InitCodecInv
<1>2. CodecInv /\ [Next]_vars => CodecInv'
  BY NextCodecInv
<1> QED
  BY <1>1, <1>2, PTL DEF Spec

(* Every variable of the codec keeps to its type: the return codes and the *)
(* layers are the ones that the stages can make.                           *)
THEOREM SpecCodecTypeOK ==
  ASSUME CarefulPrograms
  PROVE  Spec => []TypeOK
<1>1. CodecInv => TypeOK
  BY DEF CodecInv
<1> QED
  BY <1>1, SpecCodecInv, PTL

-----------------------------------------------------------------------------
(* What follows from it.                                                   *)

\* The stages that a stream has been through.
LEMMA StreamStages ==
  ASSUME NEW c \in Cubes, NEW s \in SizeRecords, NEW m \in MethodRecords, NEW n \in Nat
  PROVE  Stages(StreamForm(c, s, m, n)) =
           (IF m.difference = "none" THEN {} ELSE {m.difference})
             \cup (IF m.reorder = "none" THEN {} ELSE {m.reorder})
             \cup (IF m.compress = "none" THEN {} ELSE {m.compress})
<1>1. Stages(Plain(c)) = {} /\ Plain(c) \in CubeContents
  BY ContentsTypes DEF Stages, Plain
<1>2. Stages(DifferencedForm(c, m)) = IF m.difference = "none" THEN {} ELSE {m.difference}
  BY <1>1, LayerTypes, AddStage, ZenonT(60) DEF DifferencedForm, Layer
<1>3. Stages(ReorderedForm(c, s, m)) =
        Stages(DifferencedForm(c, m)) \cup (IF m.reorder = "none" THEN {} ELSE {m.reorder})
  <2> DEFINE layer == Layer(m.reorder, CopiedBytes(s, m.difference), 0)
  <2>1. layer \in LayerRecords /\ layer.by = m.reorder
    BY LayerTypes DEF Layer
  <2>2. DifferencedForm(c, m) \in CubeContents
    BY FormTypes
  <2> HIDE DEF layer
  <2>3. Stages(Add(DifferencedForm(c, m), layer))
          = Stages(DifferencedForm(c, m)) \cup {m.reorder}
    BY <2>1, <2>2, AddStage
  <2> QED
    BY <2>3 DEF ReorderedForm, layer
<1>4. Stages(StreamForm(c, s, m, n)) =
        Stages(ReorderedForm(c, s, m)) \cup (IF m.compress = "none" THEN {} ELSE {"lz4"})
  <2> DEFINE layer == Layer("lz4", MinReordered(s, m.reorder), n)
  <2>1. layer \in LayerRecords /\ layer.by = "lz4"
    BY LayerTypes DEF Layer
  <2>2. ReorderedForm(c, s, m) \in CubeContents
    BY FormTypes
  <2> HIDE DEF layer
  <2>3. Stages(Add(ReorderedForm(c, s, m), layer))
          = Stages(ReorderedForm(c, s, m)) \cup {"lz4"}
    BY <2>1, <2>2, AddStage
  <2> QED
    BY <2>3 DEF StreamForm, layer
<1>5. m.compress # "none" => m.compress = "lz4"
  BY DEF MethodRecords, Compressors
<1> QED
  BY <1>2, <1>3, <1>4, <1>5

(* Whatever was called before, a decode that succeeds gives back the cube. *)
THEOREM SpecRoundTrip ==
  ASSUME CarefulPrograms
  PROVE  Spec => []RoundTrip
<1>1. CodecInv => RoundTrip
  BY DEF CodecInv, HandleOK, AtRest, HasForm, RoundTrip
<1> QED
  BY <1>1, SpecCodecInv, PTL

(* The cube can be had back from some buffer between any two stages.       *)
THEOREM SpecCubeNeverLost ==
  ASSUME CarefulPrograms
  PROVE  Spec => []CubeNeverLost
<1>1. ASSUME CodecInv, NEW h \in Handles, loaded[h] # None
      PROVE  \E b \in Buffers : data[h][b].cube = loaded[h]
  <2>1. /\ TypeOK /\ HandleOK(h)
        /\ size[h] \in SizeRecords /\ methods[h] \in MethodRecords
        /\ compressed_size[h] \in Nat
        /\ call[h] \in CallNames
    BY <1>1 DEF CodecInv, TypeOK, MethodRecords, CallNames
  <2>2. /\ loaded[h] \in Cubes => /\ DifferencedData(h).cube = loaded[h]
                                  /\ ReorderedData(h).cube = loaded[h]
                                  /\ StreamData(h).cube = loaded[h]
        /\ Plain(loaded[h]).cube = loaded[h]
    BY <2>1, FormTypes DEF DifferencedData, ReorderedData, StreamData, Plain
  <2>3. "raw" \in Buffers /\ "reordered" \in Buffers /\ StreamBuffer(h) \in Buffers
    BY DEF Buffers, StreamBuffer, Target
  <2>4. CASE Idle(h)
    BY <1>1, <2>1, <2>2, <2>3, <2>4 DEF HandleOK, AtRest, KeepsStream, HasForm
  <2>5. CASE call[h] \in EncodeStages
    BY <2>1, <2>2, <2>3, <2>5 DEF HandleOK, Encoding, HasForm
  <2>6. CASE call[h] \in DecodeStages
    BY <2>1, <2>2, <2>3, <2>6 DEF HandleOK, Decoding, KeepsStream, HasForm
  <2> QED
    BY <2>1, <2>4, <2>5, <2>6 DEF CallNames, Idle
<1>2. CodecInv => CubeNeverLost
  BY <1>1 DEF CubeNeverLost
<1> QED
  BY <1>2, SpecCodecInv, PTL

(* No failing decode touches the encoded cube.                             *)
THEOREM SpecStreamKept ==
  ASSUME CarefulPrograms
  PROVE  Spec => []StreamKept
<1>1. ASSUME CodecInv, NEW h \in Handles, Idle(h), holds[h] = "stream"
      PROVE  Encoded(h, loaded[h])
  <2> DEFINE stream == StreamForm(loaded[h], size[h], methods[h], compressed_size[h])
  <2>1. /\ size[h] \in SizeRecords /\ methods[h] \in MethodRecords
        /\ compressed_size[h] \in Nat
    BY <1>1 DEF CodecInv, TypeOK, MethodRecords
  <2>2. loaded[h] \in Cubes /\ data[h][StreamBuffer(h)] = stream
    BY <1>1 DEF CodecInv, HandleOK, AtRest, KeepsStream, HasForm, StreamData
  <2>3. stream.cube = loaded[h]
    BY <2>1, <2>2, FormTypes
  <2>4. Stages(stream) = (IF Diff(h) = "none" THEN {} ELSE {Diff(h)})
                           \cup (IF Reor(h) = "none" THEN {} ELSE {Reor(h)})
                           \cup (IF Comp(h) = "none" THEN {} ELSE {Comp(h)})
    BY <2>1, <2>2, StreamStages DEF Diff, Reor, Comp
  <2> HIDE DEF stream
  <2> QED
    BY <2>2, <2>3, <2>4 DEF Encoded, Stages
<1>2. CodecInv => StreamKept
  BY <1>1 DEF StreamKept
<1> QED
  BY <1>2, SpecCodecInv, PTL

(* compressed_size never exceeds the buffer that the encoded cube is in.   *)
THEOREM SpecStreamWithinBuffer ==
  ASSUME CarefulPrograms
  PROVE  Spec => []StreamWithinBuffer
<1>1. CodecInv => StreamWithinBuffer
  BY DEF CodecInv, HandleOK, AtRest, KeepsStream, StreamWithinBuffer
<1> QED
  BY <1>1, SpecCodecInv, PTL

(* A handle configured by a header decodes what follows the header, unless *)
(* its buffers are too small.                                              *)
THEOREM SpecNoStreamRejected ==
  ASSUME CarefulPrograms
  PROVE  Spec => []NoStreamRejected
<1>1. ASSUME CodecInv, NEW h \in Handles, holds[h] = "stream"
      PROVE  rv[h] \in {"noerror", "insufficient_size"}
  <2>1. HandleOK(h) /\ call[h] \in CallNames
    BY <1>1 DEF CodecInv, TypeOK, CallNames
  <2> QED
    BY <1>1, <2>1 DEF HandleOK, AtRest, Encoding, Decoding, NotRefused, CallNames, Idle
<1>2. CodecInv => NoStreamRejected
  BY <1>1 DEF NoStreamRejected
<1> QED
  BY <1>2, SpecCodecInv, PTL

(* With room for the data no stage of an encode or a decode leaves the raw *)
(* or the reordered buffer, whatever the set-up.                           *)
THEOREM SpecStagesStayInside ==
  ASSUME CarefulPrograms
  PROVE  Spec => []StagesStayInside
<1>1. ASSUME CodecInv, NEW h \in Handles, call[h] \in EncodeStages
      PROVE  /\ bytes[h]["raw"] >= Data(h)
             /\ call[h] = "reorder" /\ ReorderError(h) = "noerror" => ReorderInside(h)
  <2>1. TypeOK /\ SetUp(size[h], methods[h]) /\ HasRoom(h)
    BY <1>1 DEF CodecInv, HandleOK, Encoding
  <2>2. ReorderError(h) = "noerror" => ReorderFits(size[h], methods[h])
    BY DEF ReorderError, ReorderFits, Reor
  <2> QED
    BY <2>1, <2>2, ReorderRoom DEF HasRoom
<1>2. ASSUME CodecInv, NEW h \in Handles, call[h] \in DecodeStages
      PROVE  bytes[h]["raw"] >= Data(h) /\ ReorderInside(h)
  <2>1. TypeOK /\ Encodable(size[h], methods[h]) /\ HasRoom(h)
    BY <1>2 DEF CodecInv, HandleOK, Decoding
  <2> QED
    BY <2>1, ReorderRoom DEF HasRoom, Encodable
<1>3. CodecInv => EncodeStaysInside
  BY <1>1 DEF EncodeStaysInside, EncodeStages
<1>4. CodecInv => DecodeStaysInside
  BY <1>2 DEF DecodeStaysInside, DecodeStages
<1>5. CodecInv => StagesStayInside
  BY <1>3, <1>4 DEF StagesStayInside
<1> QED
  BY <1>5, SpecCodecInv, PTL

-----------------------------------------------------------------------------
(* The codec implements the store of XrifArchive.                          *)

\* What the store shows of a handle.
Shown(h) == IF Idle(h) /\ holds[h] = "cube" THEN loaded[h] ELSE None

LEMMA VisibleIsShown == CodecInv => Visible = [h \in Handles |-> Shown(h)]
<1> SUFFICES ASSUME CodecInv, NEW h \in Handles, Idle(h), holds[h] = "cube"
             PROVE  Seen(data[h]["raw"]) = loaded[h]
  BY DEF Visible, Shown
<1>1. data[h]["raw"] = Plain(loaded[h])
  BY DEF CodecInv, HandleOK, AtRest, HasForm
<1> QED
  BY <1>1 DEF Seen, Plain

LEMMA VisibleIsShownNext == (CodecInv => Visible = [h \in Handles |-> Shown(h)])'
BY VisibleIsShown, PTL

\* A step of one handle, as the store sees it.
LEMMA StoreSees ==
  ASSUME CodecInv, CodecInv', NEW h \in Handles, \A g \in Handles \ {h} : Same(g)
  PROVE  /\ Visible' = [Visible EXCEPT ![h] = Shown(h)']
         /\ Opened' = [Opened EXCEPT ![h] = reading'[h].data.cube]
         /\ Visible = [Visible EXCEPT ![h] = Shown(h)]
         /\ Opened = [Opened EXCEPT ![h] = reading[h].data.cube]
         /\ loaded = [loaded EXCEPT ![h] = loaded[h]]
<1>1. Visible = [g \in Handles |-> Shown(g)]
  BY VisibleIsShown
<1>2. Visible' = [g \in Handles |-> Shown(g)']
  BY VisibleIsShownNext
<1>3. \A g \in Handles \ {h} : Shown(g)' = Shown(g)
  BY DEF Same, Shown, Idle
<1>4. \A g \in Handles \ {h} : reading'[g].data.cube = reading[g].data.cube
  BY DEF Same
<1>5. loaded = [loaded EXCEPT ![h] = loaded[h]]
  BY DEF CodecInv, TypeOK
<1> QED
  BY <1>1, <1>2, <1>3, <1>4, <1>5 DEF Opened

\* The cube of a file.
LEMMA FileCube ==
  ASSUME CarefulPrograms, NEW f, FileOK(f), f # NoFile
  PROVE  f.data.cube = f.of /\ f.of \in Cubes
<1>1. /\ SetUp(f.size, f.methods) /\ f.of \in Cubes /\ f.compressed_size \in Nat
      /\ f.data = StreamForm(f.of, f.size, f.methods, f.compressed_size)
  BY DEF FileOK, Encodable
<1>2. f.size \in SizeRecords /\ f.methods \in MethodRecords
  BY <1>1, SetUpSizes
<1> QED
  BY <1>1, <1>2, FormTypes

\* Steps of the program and of the stages touch one handle.
LEMMA Elsewhere ==
  ASSUME CodecInv, NEW h \in Handles,
         \/ Prepare(h) \/ Write(h) \/ Read(h) \/ Decode(h) \/ Stage(h)
  PROVE  \A g \in Handles \ {h} : Same(g)
<1> TypeOK /\ reading = [g \in Handles |-> reading[g]]
  BY DEF CodecInv
<1>1. CASE Prepare(h)
  <2>1. ASSUME NEW onRaw \in BOOLEAN, SetCompressOnRaw(h, onRaw)
        PROVE  \A g \in Handles \ {h} : Same(g)
    BY <2>1 DEF SetCompressOnRaw, Same, TypeOK, files
  <2>2. CASE Allocate(h)
    BY <2>2 DEF Allocate, GiveUp, Hold, Same, TypeOK, files
  <2>3. ASSUME NEW b, NEW n, SetBuffer(h, b, n)
        PROVE  \A g \in Handles \ {h} : Same(g)
    BY <2>3 DEF SetBuffer, Put, GiveUp, Hold, Same, TypeOK, files
  <2> QED
    BY <1>1, <2>1, <2>2, <2>3 DEF Prepare
<1>2. CASE Write(h)
  <2>1. ASSUME NEW s, SetSize(h, s) PROVE \A g \in Handles \ {h} : Same(g)
    BY <2>1 DEF SetSize, GiveUp, Hold, Same, TypeOK
  <2>2. ASSUME NEW m, Configure(h, m) PROVE \A g \in Handles \ {h} : Same(g)
    BY <2>2 DEF Configure, Same, TypeOK
  <2>3. ASSUME NEW c, LoadCube(h, c) PROVE \A g \in Handles \ {h} : Same(g)
    BY <2>3 DEF LoadCube, Hold, Same, TypeOK, settings
  <2>4. CASE Encode(h)
    BY <2>4 DEF Encode, Return, Going, Same, TypeOK, settings, files
  <2>5. CASE Store(h)
    BY <2>5 DEF Store, Same, TypeOK, settings
  <2> QED
    BY <1>2, <2>1, <2>2, <2>3, <2>4, <2>5 DEF Write
<1>3. CASE Read(h)
  <2>1. CASE Open(h)
    BY <2>1 DEF Open, GiveUp, Hold, Same, TypeOK
  <2>2. CASE Fetch(h)
    BY <2>2 DEF Fetch, Put, Hold, Same, TypeOK, settings
  <2> QED
    BY <1>3, <2>1, <2>2 DEF Read
<1>4. CASE Decode(h)
  BY <1>4 DEF Decode, Return, Going, Same, TypeOK, settings, files
<1>5. CASE Stage(h)
  <2>1. CASE Difference(h)
    BY <2>1 DEF Difference, Put, Return, Going, Same, TypeOK, settings, files
  <2>2. CASE Reorder(h)
    BY <2>2 DEF Reorder, Put, Return, Going, Same, TypeOK, settings, files
  <2>3. CASE Compress(h)
    BY <2>3 DEF Compress, CompressNone, CompressLZ4, Put, Return, Same, TypeOK,
                settings, files
  <2>4. CASE Decompress(h)
    BY <2>4 DEF Decompress, DecompressNone, DecompressLZ4, Put, Return, Going, Same,
                TypeOK, settings, files
  <2>5. CASE Unreorder(h)
    BY <2>5 DEF Unreorder, Put, Return, Going, Same, TypeOK, settings, files
  <2>6. CASE Undifference(h)
    BY <2>6 DEF Undifference, Put, Return, Same, TypeOK, settings, files
  <2> QED
    BY <1>5, <2>1, <2>2, <2>3, <2>4, <2>5, <2>6 DEF Stage
<1> QED
  BY <1>1, <1>2, <1>3, <1>4, <1>5

\* A step that the store does not see.
LEMMA NotSeen ==
  ASSUME CodecInv, CodecInv', NEW h \in Handles, \A g \in Handles \ {h} : Same(g),
         UNCHANGED <<loaded, files>>, Shown(h)' = Shown(h)
  PROVE  UNCHANGED Archive!vars
<1>1. UNCHANGED <<loaded, file, reading>>
  BY DEF files
<1>2. UNCHANGED <<Visible, Opened>>
  BY <1>1, StoreSees
<1> QED
  BY <1>1, <1>2 DEF Archive!vars

LEMMA PrepareInStore ==
  ASSUME CarefulPrograms, CodecInv, CodecInv', NEW h \in Handles, Prepare(h)
  PROVE  Archive!Drop(h) \/ UNCHANGED Archive!vars
<1>1. TypeOK /\ \A g \in Handles \ {h} : Same(g)
  BY Elsewhere DEF CodecInv
<1>2. CASE /\ GiveUp(h) /\ UNCHANGED <<call, files>>
  <2>1. Shown(h)' = None /\ loaded' = [loaded EXCEPT ![h] = None]
        /\ UNCHANGED <<file, reading>>
    BY <1>1, <1>2 DEF GiveUp, Hold, Shown, Idle, TypeOK, files
  <2>2. Visible' = [Visible EXCEPT ![h] = None] /\ Opened' = Opened
    BY <1>1, <2>1, StoreSees
  <2> QED
    BY <2>1, <2>2 DEF Archive!Drop
<1>3. CASE UNCHANGED <<call, holds, loaded, files>>
  <2>1. Shown(h)' = Shown(h)
    BY <1>3 DEF Shown, Idle
  <2> QED
    BY <1>1, <1>3, <2>1, NotSeen
<1>4. ASSUME NEW onRaw, SetCompressOnRaw(h, onRaw)
      PROVE  UNCHANGED <<call, holds, loaded, files>>
  BY <1>4 DEF SetCompressOnRaw
<1>5. CASE Allocate(h)
  BY <1>2, <1>5 DEF Allocate
<1>6. ASSUME NEW b, NEW n, SetBuffer(h, b, n)
      PROVE  \/ GiveUp(h) /\ UNCHANGED <<call, files>>
             \/ UNCHANGED <<call, holds, loaded, files>>
  BY <1>6 DEF SetBuffer
<1> QED
  BY <1>2, <1>3, <1>4, <1>5, <1>6 DEF Prepare

LEMMA WriteInStore ==
  ASSUME CarefulPrograms, CodecInv, CodecInv', NEW h \in Handles, Write(h)
  PROVE  \/ Archive!Drop(h) \/ Archive!Close(h) \/ Archive!Load(h)
         \/ Archive!Encode(h) \/ Archive!Store(h)
<1>1. /\ TypeOK /\ \A g \in Handles \ {h} : Same(g)
      /\ reading = [g \in Handles |-> reading[g]]
  BY Elsewhere DEF CodecInv
<1>2. NoFile.data.cube = None
  BY DEF NoFile, Unknown
<1>3. ASSUME NEW s, SetSize(h, s) PROVE Archive!Drop(h)
  <2>1. /\ Shown(h)' = None /\ loaded' = [loaded EXCEPT ![h] = None]
        /\ reading'[h] = NoFile /\ UNCHANGED file
    BY <1>1, <1>3 DEF SetSize, GiveUp, Hold, Shown, TypeOK
  <2>2. /\ Visible' = [Visible EXCEPT ![h] = None]
        /\ Opened' = [Opened EXCEPT ![h] = None]
    BY <1>1, <1>2, <2>1, StoreSees
  <2> QED
    BY <2>1, <2>2 DEF Archive!Drop
<1>4. ASSUME NEW m, Configure(h, m) PROVE Archive!Close(h)
  <2>1. /\ Shown(h)' = Shown(h) /\ reading'[h] = NoFile /\ UNCHANGED <<loaded, file>>
    BY <1>1, <1>4 DEF Configure, Shown, Idle
  <2>2. /\ Visible' = Visible
        /\ Opened' = [Opened EXCEPT ![h] = None]
    BY <1>1, <1>2, <2>1, StoreSees
  <2> QED
    BY <2>1, <2>2 DEF Archive!Close
<1>5. ASSUME NEW c \in Cubes, LoadCube(h, c) PROVE Archive!Load(h)
  <2>1. /\ Shown(h)' = c /\ loaded' = [loaded EXCEPT ![h] = c]
        /\ reading'[h] = NoFile /\ UNCHANGED file
    BY <1>1, <1>5 DEF LoadCube, Hold, Shown, Idle, TypeOK
  <2>2. /\ Visible' = [Visible EXCEPT ![h] = c]
        /\ Opened' = [Opened EXCEPT ![h] = None]
    BY <1>1, <1>2, <2>1, StoreSees
  <2> QED
    BY <2>1, <2>2 DEF Archive!Load
<1>6. CASE Encode(h)
  <2>1. Shown(h)' = None /\ UNCHANGED <<loaded, file, reading>>
    BY <1>1, <1>6 DEF Encode, Going, Return, Shown, Idle, TypeOK, files
  <2>2. Visible' = [Visible EXCEPT ![h] = None] /\ Opened' = Opened
    BY <1>1, <2>1, StoreSees
  <2> QED
    BY <2>1, <2>2 DEF Archive!Encode
<1>7. CASE Store(h)
  <2>1. /\ Idle(h) /\ holds[h] = "stream" /\ HandleOK(h)
        /\ file' = Stored(h) /\ UNCHANGED <<call, holds, loaded, reading>>
    BY <1>7 DEF Store, CodecInv
  <2>2. /\ loaded[h] \in Cubes
        /\ data[h][StreamBuffer(h)] = StreamData(h)
    BY <2>1 DEF HandleOK, AtRest, KeepsStream, HasForm
  <2>3. StreamData(h).cube = loaded[h]
    BY <1>1, <2>2, Changed, FormTypes DEF StreamData
  <2>4. file'.data.cube = loaded[h]
    BY <2>1, <2>2, <2>3 DEF Stored
  <2>5. loaded[h] # None
    BY <2>2, CodecAssumption
  <2>6. Shown(h)' = Shown(h)
    BY <2>1 DEF Shown, Idle
  <2>7. Visible' = Visible /\ Opened' = Opened
    BY <1>1, <2>1, <2>6, StoreSees
  <2> QED
    BY <2>1, <2>4, <2>5, <2>7 DEF Archive!Store
<1> QED
  BY <1>3, <1>4, <1>5, <1>6, <1>7 DEF Write

LEMMA ReadInStore ==
  ASSUME CarefulPrograms, CodecInv, CodecInv', NEW h \in Handles, Read(h)
  PROVE  Archive!Open(h) \/ Archive!Fetch(h)
<1>1. /\ TypeOK /\ \A g \in Handles \ {h} : Same(g)
      /\ reading = [g \in Handles |-> reading[g]]
      /\ FileOK(file) /\ FileOK(reading[h])
  BY Elsewhere DEF CodecInv, HandleOK, ReadingOK
<1>2. CASE Open(h)
  <2>1. /\ Shown(h)' = None /\ loaded' = [loaded EXCEPT ![h] = None]
        /\ reading'[h] = file /\ UNCHANGED file /\ file # NoFile
    BY <1>1, <1>2 DEF Open, GiveUp, Hold, Shown, TypeOK
  <2>2. file.data.cube # None
    BY <1>1, <2>1, FileCube, CodecAssumption
  <2>3. /\ Visible' = [Visible EXCEPT ![h] = None]
        /\ Opened' = [Opened EXCEPT ![h] = file.data.cube]
    BY <1>1, <2>1, StoreSees
  <2> QED
    BY <2>1, <2>2, <2>3 DEF Archive!Open
<1>3. CASE Fetch(h)
  <2>1. /\ Shown(h)' = None /\ loaded' = [loaded EXCEPT ![h] = reading[h].of]
        /\ reading'[h] = NoFile /\ UNCHANGED file /\ reading[h] # NoFile
    BY <1>1, <1>3 DEF Fetch, Hold, Shown, TypeOK
  <2>2. reading[h].data.cube = reading[h].of /\ reading[h].of # None
    BY <1>1, <2>1, FileCube, CodecAssumption
  <2>3. Opened[h] = reading[h].of
    BY <2>2 DEF Opened
  <2>4. NoFile.data.cube = None
    BY DEF NoFile, Unknown
  <2>5. /\ Visible' = [Visible EXCEPT ![h] = None]
        /\ Opened' = [Opened EXCEPT ![h] = None]
    BY <1>1, <2>1, <2>4, StoreSees
  <2> QED
    BY <2>1, <2>2, <2>3, <2>5 DEF Archive!Fetch
<1> QED
  BY <1>2, <1>3 DEF Read

\* A cube comes back.
LEMMA GivenBack ==
  ASSUME CodecInv, CodecInv', NEW h \in Handles, \A g \in Handles \ {h} : Same(g),
         UNCHANGED <<loaded, files>>, call'[h] = "idle", holds'[h] = "cube"
  PROVE  Archive!Decode(h)
<1>1. Shown(h)' = loaded[h] /\ UNCHANGED <<loaded, file, reading>>
  BY DEF Shown, Idle, files
<1>2. Visible' = [Visible EXCEPT ![h] = loaded[h]] /\ Opened' = Opened
  BY <1>1, StoreSees
<1> QED
  BY <1>1, <1>2 DEF Archive!Decode

LEMMA DecodeInStore ==
  ASSUME CarefulPrograms, CodecInv, CodecInv', NEW h \in Handles, Decode(h)
  PROVE  Archive!Decode(h) \/ UNCHANGED Archive!vars
<1>1. /\ TypeOK /\ \A g \in Handles \ {h} : Same(g)
      /\ UNCHANGED <<loaded, files>> /\ holds[h] = "stream"
  BY Elsewhere DEF CodecInv, Decode, Return, Going
<1>2. CASE Return(h, "noerror", "cube")
  <2>1. call'[h] = "idle" /\ holds'[h] = "cube"
    BY <1>1, <1>2 DEF Return, TypeOK
  <2> QED
    BY <1>1, <2>1, GivenBack
<1>3. CASE Going(h, "decompress")
  <2>1. Shown(h)' = Shown(h)
    BY <1>1, <1>3 DEF Going, Shown
  <2> QED
    BY <1>1, <2>1, NotSeen
<1> QED
  BY <1>2, <1>3 DEF Decode

LEMMA StageInStore ==
  ASSUME CarefulPrograms, CodecInv, CodecInv', NEW h \in Handles, Stage(h)
  PROVE  Archive!Decode(h) \/ UNCHANGED Archive!vars
<1>1. /\ TypeOK /\ HandleOK(h) /\ \A g \in Handles \ {h} : Same(g)
  BY Elsewhere DEF CodecInv
<1>2. CASE Undifference(h)
  <2>1. PICK contents \in [Buffers -> Contents] :
          StageStep(h, "idle", "cube", "noerror", contents, compressed_size[h])
    BY <1>1, <1>2, UndifferenceStep
  <2>2. call'[h] = "idle" /\ holds'[h] = "cube" /\ UNCHANGED <<loaded, files>>
    BY <1>1, <2>1 DEF StageStep, TypeOK
  <2> QED
    BY <1>1, <2>2, GivenBack
<1>3. CASE /\ call[h] # "idle"
           /\ UNCHANGED <<loaded, files>>
           /\ call'[h] # "idle" \/ holds'[h] # "cube"
  <2>1. Shown(h)' = Shown(h)
    BY <1>3 DEF Shown, Idle
  <2> QED
    BY <1>1, <1>3, <2>1, NotSeen
<1>4. ASSUME NEW next \in EncodeStages \cup DecodeStages, Going(h, next)
      PROVE  call'[h] # "idle" /\ UNCHANGED loaded
  BY <1>1, <1>4 DEF Going, TypeOK, EncodeStages, DecodeStages
<1>5. ASSUME NEW code, NEW what \in {"failed", "stream"}, Return(h, code, what)
      PROVE  holds'[h] # "cube" /\ UNCHANGED loaded
  BY <1>1, <1>5 DEF Return, TypeOK
<1>6. CASE Difference(h)
  BY <1>3, <1>4, <1>5, <1>6 DEF Difference, EncodeStages
<1>7. CASE Reorder(h)
  BY <1>3, <1>4, <1>5, <1>7 DEF Reorder, EncodeStages
<1>8. CASE Compress(h)
  BY <1>3, <1>5, <1>8 DEF Compress, CompressNone, CompressLZ4
<1>9. CASE Decompress(h)
  BY <1>3, <1>4, <1>5, <1>9 DEF Decompress, DecompressNone, DecompressLZ4, DecodeStages
<1>10. CASE Unreorder(h)
  BY <1>3, <1>4, <1>5, <1>10 DEF Unreorder, DecodeStages
<1> QED
  BY <1>2, <1>6, <1>7, <1>8, <1>9, <1>10 DEF Stage

(* Every behaviour of the codec is one of the store: nothing but the cube  *)
(* that was loaded, or the one in the file that was opened, ever comes     *)
(* back, and neither an encode nor a failing decode changes a cube.        *)
THEOREM SpecImplementsArchive ==
  ASSUME CarefulPrograms
  PROVE  Spec => ImplementsArchive
<1>1. Init => Archive!Init
  BY DEF Init, Archive!Init, Visible, Opened, Idle, NoFile, Unknown
<1>2. CodecInv /\ CodecInv' /\ [Next]_vars => [Archive!Next]_(Archive!vars)
  <2> SUFFICES ASSUME CodecInv, CodecInv', [Next]_vars
               PROVE  Archive!Next \/ UNCHANGED Archive!vars
    OBVIOUS
  <2>1. ASSUME NEW h \in Handles, Prepare(h) \/ Decode(h) \/ Stage(h)
        PROVE  Archive!Next \/ UNCHANGED Archive!vars
    BY <2>1, PrepareInStore, DecodeInStore, StageInStore DEF Archive!Next
  <2>2. ASSUME NEW h \in Handles, Write(h) PROVE Archive!Next
    BY <2>2, WriteInStore DEF Archive!Next
  <2>3. ASSUME NEW h \in Handles, Read(h) PROVE Archive!Next
    BY <2>3, ReadInStore DEF Archive!Next
  <2>4. CASE UNCHANGED vars
    BY <2>4 DEF vars, settings, files, Archive!vars, Visible, Opened, Idle
  <2> QED
    BY <2>1, <2>2, <2>3, <2>4 DEF Next, Handles
<1> QED
  BY <1>1, <1>2, SpecCodecInv, PTL DEF Spec, ImplementsArchive, Archive!Spec

=============================================================================
