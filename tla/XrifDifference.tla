--------------------------- MODULE XrifDifference ---------------------------
(***************************************************************************)
(* The difference stage of xrif: xrif_difference_{previous,first,pixel}    *)
(* and their xrif_undifference_ counterparts, which rewrite the raw buffer *)
(* of a handle in place.                                                   *)
(*                                                                         *)
(* The three methods share one shape.  Two sequential loops walk over the  *)
(* planes (frame, depth) of the cube; the pixels of one plane are a loop   *)
(* under `#pragma omp parallel if (omp_parallel > 0)` and `#pragma omp     *)
(* for`: the iterations are dealt out to a team of threads, each thread    *)
(* runs its own in increasing order, and the region ends with a barrier.   *)
(* One iteration is a read-modify-write of one pixel: it loads the pixel   *)
(* and its reference pixel (Load) and writes the result (Store).           *)
(*                                                                         *)
(* The stage starts on a handle whose size, type and raw buffer passed the *)
(* checks of the dispatching function.                                     *)
(***************************************************************************)
EXTENDS Integers

CONSTANTS
  Frames, Depth,  \* handle->frames and handle->depth
  Npix,           \* pixels of a plane, handle->width * handle->height
  Word,           \* number of values of a pixel: 2^8, 2^16, 2^32 or 2^64
  Methods,        \* the difference methods that callers configure
  Threads,        \* the threads of an OpenMP team
  Schedules,      \* per method, how a parallel loop may be dealt to the team
  Cubes           \* the image cubes that callers load

Iterations == 0 .. Npix - 1
Cells == (0 .. Frames - 1) \X (0 .. Depth - 1) \X Iterations
Values == 0 .. Word - 1

ASSUME DifferenceAssumption ==
  /\ Frames \in Nat \ {0}
  /\ Depth \in Nat \ {0}
  /\ Npix \in Nat \ {0}
  /\ Word \in Nat \ {0}
  /\ Methods \subseteq {"previous", "first", "pixel"}
  /\ Schedules \in [Methods -> SUBSET [Iterations -> Threads]]
  /\ Cubes \subseteq [Cells -> Values]

Idle == -1   \* a thread with no iteration in flight

VARIABLES
  orig,     \* history: the cube the caller loaded
  raw,      \* the raw buffer, by <<frame, depth, pixel>>
  method,   \* the difference method of the handle
  phase,    \* "raw" and "differenced" between calls, "difference" and
            \* "undifference" inside one
  n, kk,    \* the counters of the two sequential loops
  team,     \* TRUE inside a parallel region
  owner,    \* which thread runs which iteration of the region
  pending,  \* iterations of the region whose result is not yet stored
  at, val   \* per thread, the iteration in flight and the value it computed

vars == <<orig, raw, method, phase, n, kk, team, owner, pending, at, val>>

-----------------------------------------------------------------------------
(* Two's-complement arithmetic on words held as their unsigned values.     *)

\* Variants: without wrap-around, and saturating.
MinusUnwrapped(a, b) == a - b
PlusSaturating(a, b) == IF a + b < Word THEN a + b ELSE Word - 1

Minus(a, b) == IF a >= b THEN a - b ELSE a - b + Word
Plus(a, b) == IF a + b < Word THEN a + b ELSE a + b - Word

(* The pixel a pixel is differenced against: the same pixel of the frame   *)
(* before, the same pixel of the first frame, or the pixel before in the   *)
(* same plane.                                                             *)
PreviousReference(c) == <<c[1] - 1, c[2], c[3]>>
FirstReference(c) == <<0, c[2], c[3]>>
PixelReference(c) == <<c[1], c[2], c[3] - 1>>

Reference(m, c) ==
  CASE m = "previous" -> PreviousReference(c)
    [] m = "first" -> FirstReference(c)
    [] m = "pixel" -> PixelReference(c)

\* The first frame, or the first pixel of a plane, is kept as it is.
HasReference(m, c) == IF m = "pixel" THEN c[3] > 0 ELSE c[1] > 0

\* What differencing a cube with method m must produce.
Differenced(m, cube) ==
  [c \in Cells |-> IF HasReference(m, c)
                   THEN Minus(cube[c], cube[Reference(m, c)])
                   ELSE cube[c]]

-----------------------------------------------------------------------------
(* Loop bounds and index arithmetic, by direction (phase) and method.      *)

FirstN(m, dir) == IF m # "pixel" /\ dir = "undifference" THEN 1 ELSE 0
LastN(m, dir) == IF m # "pixel" /\ dir = "difference" THEN Frames - 2
                                                      ELSE Frames - 1

\* Variant: differencing walks the frames forward.
FrameForward(m, dir, nn) == IF m # "pixel" /\ dir = "difference" THEN nn + 1 ELSE nn

\* n_stride: differencing walks the frames from last to second.
FrameOf(m, dir, nn) == IF m # "pixel" /\ dir = "difference"
                       THEN Frames - 1 - nn ELSE nn

\* Variant: pixel differencing stops one pixel short.
PlaneIterationsShort(m, dir) ==
  IF m = "pixel"
  THEN IF dir = "difference" THEN 0 .. Npix - 3 ELSE 1 .. Npix - 1
  ELSE Iterations

\* The iterations of the pixel loop of one plane.
PlaneIterations(m, dir) ==
  IF m = "pixel"
  THEN IF dir = "difference" THEN 0 .. Npix - 2 ELSE 1 .. Npix - 1
  ELSE Iterations

\* Pixel differencing walks a plane from its last pixel to its second.
PixelOf(m, dir, i) == IF m = "pixel" /\ dir = "difference"
                      THEN Npix - 1 - i ELSE i

\* The pixel that iteration i of the current region rewrites.
Target(i) == <<FrameOf(method, phase, n), kk, PixelOf(method, phase, i)>>

\* What it computes from that pixel and its reference.
Result(c) == IF phase = "difference"
             THEN Minus(raw[c], raw[Reference(method, c)])
             ELSE Plus(raw[c], raw[Reference(method, c)])

InLoops == phase \in {"difference", "undifference"}

-----------------------------------------------------------------------------
Init ==
  /\ orig \in Cubes
  /\ raw = orig
  /\ method \in Methods
  /\ phase = "raw"
  /\ n = 0 /\ kk = 0
  /\ team = FALSE
  /\ owner \in Schedules[method]
  /\ pending = {}
  /\ at = [t \in Threads |-> Idle]
  /\ val = [t \in Threads |-> 0]

\* The caller fills the raw buffer with the next cube.
LoadCube(cube) ==
  /\ phase = "raw"
  /\ orig' = cube
  /\ raw' = cube
  /\ UNCHANGED <<method, phase, n, kk, team, owner, pending, at, val>>

StartDifference(m) ==
  /\ phase = "raw"
  /\ phase' = "difference"
  /\ method' = m
  /\ n' = FirstN(m, "difference")
  /\ kk' = 0
  /\ UNCHANGED <<orig, raw, team, owner, pending, at, val>>

StartUndifference ==
  /\ phase = "differenced"
  /\ phase' = "undifference"
  /\ n' = FirstN(method, "undifference")
  /\ kk' = 0
  /\ UNCHANGED <<orig, raw, method, team, owner, pending, at, val>>

\* Entry of the parallel region of the plane (n, kk).
Fork ==
  /\ InLoops
  /\ ~ team
  /\ n <= LastN(method, phase)
  /\ team' = TRUE
  /\ owner' \in Schedules[method]
  /\ pending' = PlaneIterations(method, phase)
  /\ UNCHANGED <<orig, raw, method, phase, n, kk, at, val>>

\* Variants: a region without `omp for`, in which every thread runs every
\* iteration, and one in which a thread takes its iterations in any order.
LoadUnshared(t) ==
  /\ team
  /\ at[t] = Idle
  /\ \E i \in pending :
       /\ at' = [at EXCEPT ![t] = i]
       /\ val' = [val EXCEPT ![t] = Result(Target(i))]
  /\ UNCHANGED <<orig, raw, method, phase, n, kk, team, owner, pending>>

LoadUnordered(t) ==
  /\ team
  /\ at[t] = Idle
  /\ \E i \in pending :
       /\ owner[i] = t
       /\ at' = [at EXCEPT ![t] = i]
       /\ val' = [val EXCEPT ![t] = Result(Target(i))]
  /\ UNCHANGED <<orig, raw, method, phase, n, kk, team, owner, pending>>

\* Thread t starts its next iteration: it loads both pixels and computes.
Load(t) ==
  /\ team
  /\ at[t] = Idle
  /\ \E i \in pending :
       /\ owner[i] = t
       /\ \A j \in pending : owner[j] = t => i <= j
       /\ at' = [at EXCEPT ![t] = i]
       /\ val' = [val EXCEPT ![t] = Result(Target(i))]
  /\ UNCHANGED <<orig, raw, method, phase, n, kk, team, owner, pending>>

\* Variant: an iteration that is done is run again.
StoreAgain(t) ==
  /\ at[t] # Idle
  /\ raw' = [raw EXCEPT ![Target(at[t])] = val[t]]
  /\ at' = [at EXCEPT ![t] = Idle]
  /\ UNCHANGED <<orig, method, phase, n, kk, team, owner, pending, val>>

\* Thread t writes the result of its iteration.
Store(t) ==
  /\ at[t] # Idle
  /\ raw' = [raw EXCEPT ![Target(at[t])] = val[t]]
  /\ pending' = pending \ {at[t]}
  /\ at' = [at EXCEPT ![t] = Idle]
  /\ UNCHANGED <<orig, method, phase, n, kk, team, owner, val>>

\* The barrier that ends the region, and the step to the next plane.
Join ==
  /\ team
  /\ pending = {}
  /\ team' = FALSE
  /\ IF kk < Depth - 1
     THEN kk' = kk + 1 /\ n' = n
     ELSE kk' = 0 /\ n' = n + 1
  /\ UNCHANGED <<orig, raw, method, phase, owner, pending, at, val>>

\* The loops are done and the function returns XRIF_NOERROR.
Return ==
  /\ InLoops
  /\ ~ team
  /\ n > LastN(method, phase)
  /\ phase' = IF phase = "difference" THEN "differenced" ELSE "raw"
  /\ UNCHANGED <<orig, raw, method, n, kk, team, owner, pending, at, val>>

Next ==
  \/ \E cube \in Cubes : LoadCube(cube)
  \/ \E m \in Methods : StartDifference(m)
  \/ StartUndifference
  \/ Fork
  \/ \E t \in Threads : Load(t)
  \/ \E t \in Threads : Store(t)
  \/ Join
  \/ Return

Spec == Init /\ [][Next]_vars

(* A call that has started runs on: the operating system schedules every   *)
(* thread of the team.  Callers owe no call.                               *)
Fairness ==
  /\ WF_vars(Fork)
  /\ \A t \in Threads : WF_vars(Load(t)) /\ WF_vars(Store(t))
  /\ WF_vars(Join)
  /\ WF_vars(Return)

FairSpec == Spec /\ Fairness

-----------------------------------------------------------------------------
TypeOK ==
  /\ orig \in [Cells -> Values]
  /\ raw \in [Cells -> Values]
  /\ method \in Methods
  /\ phase \in {"raw", "difference", "differenced", "undifference"}
  /\ n \in 0 .. Frames
  /\ kk \in 0 .. Depth - 1
  /\ team \in BOOLEAN
  /\ owner \in [Iterations -> Threads]
  /\ pending \subseteq Iterations
  /\ at \in [Threads -> Iterations \cup {Idle}]
  /\ val \in [Threads -> Values]

(* Lossless: when no call is running and every difference has been undone, *)
(* the raw buffer holds the cube the caller loaded.  xrif's promise of     *)
(* lossless compression, for the stage that works in place.                *)
Lossless == phase = "raw" => raw = orig

(* The differenced cube is a function of the loaded cube alone: it does    *)
(* not depend on the number of threads, on the schedule or on the order in *)
(* which the threads ran.                                                  *)
DifferenceDeterministic ==
  phase = "differenced" => raw = Differenced(method, orig)

(* No pixel is read or written by one iteration while another thread is    *)
(* about to write it: `omp for` promises nothing about such loops.         *)
NoDataRace ==
  \A t, u \in Threads :
    t # u /\ at[t] # Idle /\ at[u] # Idle =>
      Target(at[u]) \notin {Target(at[t]), Reference(method, Target(at[t]))}

(* The reference a running iteration has read is still there when its      *)
(* result is stored: the reference pixel holds the loaded value all along, *)
(* whatever the other threads of the team and the earlier planes did.      *)
ReferenceStable ==
  \A t \in Threads :
    at[t] # Idle =>
      LET r == Reference(method, Target(at[t])) IN raw[r] = orig[r]

(* The stage, seen from xrif_encode and xrif_decode, is the one-step        *)
(* exchange of XrifInPlace: a call in progress still shows the cube it was *)
(* given.                                                                  *)
Stage == INSTANCE XrifInPlace WITH
  loaded <- orig,
  cube <- CASE phase = "difference" -> orig
            [] phase = "undifference" -> Differenced(method, orig)
            [] OTHER -> raw,
  form <- IF phase \in {"raw", "difference"} THEN "plain" ELSE method

(* Every behaviour of the loops and their threads is, to the caller, a     *)
(* behaviour of XrifInPlace: whole-cube steps only, and undifferencing     *)
(* gives back the loaded cube.                                             *)
ImplementsInPlace == Stage!Spec

(* A difference or undifference call that has started returns.             *)
CallsReturn ==
  /\ phase = "difference" ~> phase = "differenced"
  /\ phase = "undifference" ~> phase = "raw"

=============================================================================
