---------------------------- MODULE MCXrifHandle ----------------------------
(* Small instances of XrifHandle.  U32 and LZ4Max are scaled down together;*)
(* a cube within LZ4's limit and one beyond it are both a few pixels.      *)
EXTENDS XrifHandleProofs, TLC

CONSTANTS a1, a2, a3

AddrSymmetry == Permutations(Addr)

Cube(w, h, d, f, t) ==
  [width |-> w, height |-> h, depth |-> d, frames |-> f, type |-> t]

\* An even cube and an odd one, each in its own type.
SmallCubes == {Cube(2, 1, 1, 2, "int16"), Cube(3, 1, 1, 2, "int16")}
MixedCubes == {Cube(2, 1, 1, 2, "int16"), Cube(3, 1, 1, 2, "int32")}
OneCube == {Cube(2, 1, 1, 2, "int16")}
RejectedCubes == {Cube(0, 1, 1, 2, "int16"), Cube(2, 1, 1, 2, "none")}

\* Beyond LZ4_MAX_INPUT_SIZE, but not beyond a uint32_t.
LargeCube == Cube(4, 4, 1, 4, "int16")

\* The theorems are about these instances, but for those with the large cube.
ASSUME LargeCube \notin Sizes => ValidInputs /\ EncodableInputs

OneAndRejected == OneCube \cup RejectedCubes
SmallAndLarge == SmallCubes \cup {LargeCube}

HeaderOf(s, d, r, c) ==
  [size |-> s, difference |-> d, reorder |-> r, compress |-> c]

SmallHeaders == {HeaderOf(Cube(3, 1, 1, 3, "int16"), "first", "renibble", "none")}
NoHeaders == {}

AllStages == <<"previous", "bytepack", "lz4">>
PixelRenibble == <<"pixel", "renibble", "lz4">>
BitpackOnly == <<"none", "bitpack", "lz4">>
RenibbleUncompressed == <<"previous", "renibble", "none">>
NoStages == <<"none", "none", "none">>
Unrecognised == <<"bogus", "none", "bogus">>

FewConfigs == {AllStages, Unrecognised}
VariedConfigs ==
  {AllStages, PixelRenibble, BitpackOnly, NoStages, Unrecognised}
EncodingConfigs == VariedConfigs \cup {RenibbleUncompressed}

=============================================================================
