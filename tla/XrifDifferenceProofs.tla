----------------------- MODULE XrifDifferenceProofs -----------------------
(***************************************************************************)
(* Proofs about XrifDifference, for every cube size, word width, team and  *)
(* schedule.  The frame methods are lossless under any schedule; the pixel *)
(* method is when its loops run on one thread (PixelSerial).               *)
(***************************************************************************)
EXTENDS XrifDifference, TLAPS

\* The pixel loops are not dealt out: all iterations go to one thread.
PixelSerial ==
  "pixel" \in Methods =>
    \A s \in Schedules["pixel"] : \A i, j \in Iterations : s[i] = s[j]

-----------------------------------------------------------------------------
(* The inductive invariant.  It says, pixel by pixel, how far the running  *)
(* call has got.                                                           *)

\* The turn of a pixel: the counter n and the iteration that rewrite it.
TurnOf(c) == IF method # "pixel" /\ phase = "difference"
             THEN Frames - 1 - c[1] ELSE c[1]
IterationOf(c) == IF method = "pixel" /\ phase = "difference"
                  THEN Npix - 1 - c[3] ELSE c[3]

\* The running call has rewritten pixel c.
Rewritten(c) ==
  /\ HasReference(method, c)
  /\ \/ TurnOf(c) < n
     \/ /\ TurnOf(c) = n
        /\ \/ c[2] < kk
           \/ c[2] = kk /\ team /\ IterationOf(c) \notin pending

\* What the running call leaves in pixel c, and what it found there.
After(c) == IF phase = "difference" THEN Differenced(method, orig)[c]
                                    ELSE orig[c]
Before(c) == IF phase = "difference" THEN orig[c]
                                     ELSE Differenced(method, orig)[c]

Contents ==
  /\ phase = "raw" => raw = orig
  /\ phase = "differenced" => raw = Differenced(method, orig)
  /\ InLoops => \A c \in Cells :
                  raw[c] = IF Rewritten(c) THEN After(c) ELSE Before(c)

Control ==
  /\ InLoops => FirstN(method, phase) <= n /\ n <= LastN(method, phase) + 1
  /\ team => /\ InLoops
             /\ n <= LastN(method, phase)
             /\ pending \subseteq PlaneIterations(method, phase)
             /\ owner \in Schedules[method]
  /\ ~ team => pending = {}

InFlight ==
  \A t \in Threads :
    at[t] # Idle => /\ team
                    /\ at[t] \in pending
                    /\ owner[at[t]] = t
                    /\ \A j \in pending : owner[j] = t => at[t] <= j
                    /\ val[t] = After(Target(at[t]))

\* On one thread the iterations of a plane are stored in increasing order.
PixelOrder ==
  method = "pixel" /\ team =>
    \A i \in PlaneIterations(method, phase), j \in pending :
      i > j => i \in pending

IInv == TypeOK /\ Contents /\ Control /\ InFlight /\ PixelOrder

-----------------------------------------------------------------------------
(* Subtracting and adding back a word is the identity, wrap-around         *)
(* included.                                                               *)
LEMMA PlusMinus ==
  ASSUME NEW a \in Values, NEW b \in Values
  PROVE  /\ Minus(a, b) \in Values
         /\ Plus(a, b) \in Values
         /\ Plus(Minus(a, b), b) = a
BY DifferenceAssumption DEF Values, Minus, Plus

(* A pixel that has a reference has it inside the cube.                    *)
LEMMA ReferenceInCube ==
  ASSUME NEW m \in Methods, NEW c \in Cells, HasReference(m, c)
  PROVE  Reference(m, c) \in Cells
<1>1. c[1] \in 0 .. Frames - 1 /\ c[2] \in 0 .. Depth - 1 /\ c[3] \in 0 .. Npix - 1
  BY DEF Cells, Iterations
<1>2. CASE m = "previous"
  BY <1>1, <1>2, DifferenceAssumption
  DEF Reference, PreviousReference, HasReference, Cells, Iterations
<1>3. CASE m = "first"
  BY <1>1, <1>3, DifferenceAssumption
  DEF Reference, FirstReference, HasReference, Cells, Iterations
<1>4. CASE m = "pixel"
  BY <1>1, <1>4, DifferenceAssumption
  DEF Reference, PixelReference, HasReference, Cells, Iterations
<1> QED
  BY <1>2, <1>3, <1>4, DifferenceAssumption

(* The differenced form of a cube is a cube.                               *)
LEMMA DifferencedType ==
  ASSUME NEW m \in Methods, NEW cube \in [Cells -> Values]
  PROVE  Differenced(m, cube) \in [Cells -> Values]
<1>1. ASSUME NEW c \in Cells
      PROVE  (IF HasReference(m, c)
              THEN Minus(cube[c], cube[Reference(m, c)]) ELSE cube[c]) \in Values
  <2>1. CASE HasReference(m, c)
    <3>1. Reference(m, c) \in Cells
      BY <2>1, ReferenceInCube
    <3> QED
      BY <2>1, <3>1, PlusMinus
  <2> QED
    BY <2>1
<1> QED
  BY <1>1 DEF Differenced

-----------------------------------------------------------------------------
(* Where the iterations of a region write.                                 *)

(* Iteration i of the current region rewrites one pixel of the cube, which *)
(* has a reference and whose turn it is.                                   *)
LEMMA TargetOfIteration ==
  ASSUME TypeOK, Control, team, NEW i \in PlaneIterations(method, phase)
  PROVE  /\ Target(i) \in Cells
         /\ HasReference(method, Target(i))
         /\ TurnOf(Target(i)) = n
         /\ Target(i)[2] = kk
         /\ IterationOf(Target(i)) = i
         /\ i \in Iterations
<1>1. /\ phase \in {"difference", "undifference"}
      /\ FirstN(method, phase) <= n /\ n <= LastN(method, phase)
      /\ kk \in 0 .. Depth - 1 /\ n \in 0 .. Frames
  BY DEF Control, InLoops, TypeOK
<1>2. FrameOf(method, phase, n) \in 0 .. Frames - 1
  BY <1>1, DifferenceAssumption DEF FrameOf, FirstN, LastN
<1>3. i \in Iterations /\ PixelOf(method, phase, i) \in Iterations
  BY <1>1, DifferenceAssumption DEF PixelOf, PlaneIterations, Iterations
<1>4. Target(i) \in Cells
  BY <1>1, <1>2, <1>3 DEF Target, Cells
<1>5. HasReference(method, Target(i))
  BY <1>1, <1>3, DifferenceAssumption
  DEF HasReference, Target, FrameOf, PixelOf, PlaneIterations, FirstN, LastN, Iterations
<1>6. TurnOf(Target(i)) = n /\ IterationOf(Target(i)) = i /\ Target(i)[2] = kk
  BY <1>1, <1>3, DifferenceAssumption
  DEF TurnOf, IterationOf, Target, FrameOf, PixelOf, Iterations
<1> QED
  BY <1>3, <1>4, <1>5, <1>6

(* It is the only pixel of the plane that belongs to iteration i.          *)
LEMMA TargetUnique ==
  ASSUME TypeOK, NEW i \in Iterations, NEW c \in Cells,
         TurnOf(c) = n, c[2] = kk, IterationOf(c) = i
  PROVE  c = Target(i)
<1>1. /\ c = <<c[1], c[2], c[3]>>
      /\ c[1] \in 0 .. Frames - 1 /\ c[3] \in 0 .. Npix - 1
  BY DEF Cells, Iterations
<1>2. c[1] = FrameOf(method, phase, n)
  BY <1>1, DifferenceAssumption DEF TurnOf, FrameOf, TypeOK
<1>3. c[3] = PixelOf(method, phase, i)
  BY <1>1, DifferenceAssumption DEF IterationOf, PixelOf
<1> QED
  BY <1>1, <1>2, <1>3 DEF Target

(* A pixel with a reference belongs to an iteration of its plane's region. *)
LEMMA IterationInPlane ==
  ASSUME TypeOK, InLoops, NEW c \in Cells, HasReference(method, c)
  PROVE  IterationOf(c) \in PlaneIterations(method, phase)
<1>1. c[3] \in 0 .. Npix - 1
  BY DEF Cells, Iterations
<1> QED
  BY <1>1, DifferenceAssumption
  DEF IterationOf, PlaneIterations, HasReference, InLoops, Iterations

(* The reference pixel of an iteration that may start holds the loaded     *)
(* value: it is not yet differenced, or already restored.  For the frame   *)
(* methods this is the direction of the outer loop, for the pixel method   *)
(* the direction of the inner one.                                         *)
LEMMA ReferenceIsLoaded ==
  ASSUME IInv, team, NEW i \in pending,
         method = "pixel" => \A j \in pending : i <= j
  PROVE  LET r == Reference(method, Target(i)) IN r \in Cells /\ raw[r] = orig[r]
<1> DEFINE c == Target(i)
           r == Reference(method, c)
<1>1. TypeOK /\ Contents /\ Control /\ method \in Methods
  BY DEF IInv, TypeOK
<1>2. i \in PlaneIterations(method, phase) /\ InLoops
  BY <1>1 DEF Control
<1>3. /\ c \in Cells /\ HasReference(method, c) /\ TurnOf(c) = n
      /\ c[2] = kk /\ IterationOf(c) = i /\ i \in Iterations
  BY <1>1, <1>2, TargetOfIteration
<1>4. r \in Cells
  BY <1>1, <1>3, ReferenceInCube
<1>5. c[1] \in 0 .. Frames - 1 /\ c[2] \in 0 .. Depth - 1 /\ c[3] \in 0 .. Npix - 1
  BY <1>3 DEF Cells, Iterations
<1>6. raw[r] = IF Rewritten(r) THEN After(r) ELSE Before(r)
  BY <1>1, <1>2, <1>4 DEF Contents
<1>7. ~ HasReference(method, r) => After(r) = orig[r] /\ Before(r) = orig[r]
  BY <1>4 DEF After, Before, Differenced
<1>8. CASE phase = "difference"
  <2>1. ~ Rewritten(r)
    <3>1. CASE method = "previous"
      BY <1>1, <1>3, <1>5, <1>8, <3>1, DifferenceAssumption
      DEF Rewritten, TurnOf, Reference, PreviousReference, TypeOK
    <3>2. CASE method = "first"
      BY <1>3, <1>5, <1>8, <3>2 DEF Rewritten, HasReference, Reference, FirstReference
    <3>3. CASE method = "pixel"
      <4>1. r = <<c[1], c[2], c[3] - 1>>
        BY <3>3 DEF Reference, PixelReference
      <4>2. TurnOf(r) = n /\ r[2] = kk /\ IterationOf(r) = i + 1
        BY <1>3, <1>5, <1>8, <3>3, <4>1, DifferenceAssumption DEF TurnOf, IterationOf
      <4>3. SUFFICES ASSUME HasReference(method, r)
                     PROVE  IterationOf(r) \in pending
        BY <1>1, <1>5, <4>1, <4>2 DEF Rewritten, TypeOK
      <4>4. IterationOf(r) \in PlaneIterations(method, phase)
        BY <1>1, <1>2, <1>4, <4>3, IterationInPlane
      <4> QED
        BY <1>3, <3>3, <4>2, <4>4 DEF IInv, PixelOrder, Iterations
    <3> QED
      BY <1>1, <3>1, <3>2, <3>3, DifferenceAssumption
  <2> QED
    BY <1>4, <1>6, <1>8, <2>1 DEF Before
<1>9. CASE phase = "undifference"
  <2>1. HasReference(method, r) => Rewritten(r)
    <3>1. CASE method = "previous"
      BY <1>1, <1>3, <1>5, <1>9, <3>1, DifferenceAssumption
      DEF Rewritten, TurnOf, Reference, PreviousReference, TypeOK
    <3>2. CASE method = "first"
      BY <1>3, <1>5, <1>9, <3>2 DEF HasReference, Reference, FirstReference
    <3>3. CASE method = "pixel"
      <4>1. r = <<c[1], c[2], c[3] - 1>>
        BY <3>3 DEF Reference, PixelReference
      <4>2. TurnOf(r) = n /\ r[2] = kk /\ IterationOf(r) = i - 1
        BY <1>3, <1>5, <1>9, <3>3, <4>1, DifferenceAssumption DEF TurnOf, IterationOf
      <4>3. IterationOf(r) \notin pending
        BY <1>3, <3>3, <4>2 DEF Iterations
      <4> QED
        BY <4>2, <4>3 DEF Rewritten
    <3> QED
      BY <1>1, <3>1, <3>2, <3>3, DifferenceAssumption
  <2> QED
    BY <1>4, <1>6, <1>7, <1>9, <2>1 DEF After
<1> QED
  BY <1>2, <1>4, <1>8, <1>9 DEF InLoops

-----------------------------------------------------------------------------
(* The invariant holds initially and every action preserves it.            *)

LEMMA InitIInv == Init => IInv
<1> SUFFICES ASSUME Init PROVE IInv
  OBVIOUS
<1>1. 0 \in Values /\ 0 \in 0 .. Frames /\ 0 \in 0 .. Depth - 1
  BY DifferenceAssumption DEF Values
<1>2. owner \in [Iterations -> Threads]
  BY DifferenceAssumption DEF Init
<1>3. TypeOK
  BY <1>1, <1>2, DifferenceAssumption DEF Init, TypeOK
<1>4. Contents /\ Control /\ InFlight /\ PixelOrder
  BY DEF Init, Contents, Control, InFlight, PixelOrder, InLoops
<1> QED
  BY <1>3, <1>4 DEF IInv

(* Outside the loops no thread is in a region.                             *)
LEMMA StartPreserves ==
  ASSUME IInv, NEW m \in Methods, StartDifference(m) \/ StartUndifference
  PROVE  IInv'
<1>1. TypeOK /\ ~ team /\ pending = {} /\ \A t \in Threads : at[t] = Idle
  BY DEF IInv, Control, InFlight, InLoops, StartDifference, StartUndifference
<1>2. TypeOK'
  BY <1>1, DifferenceAssumption DEF TypeOK, StartDifference, StartUndifference, FirstN
<1>3. \A c \in Cells : ~ Rewritten(c)'
  <2> SUFFICES ASSUME NEW c \in Cells, HasReference(method', c) PROVE ~ Rewritten(c)'
    BY DEF Rewritten
  <2>1. c[1] \in 0 .. Frames - 1 /\ c[2] \in 0 .. Depth - 1
    BY DEF Cells
  <2>2. kk' = 0 /\ ~ team' /\ n' = FirstN(method', phase')
        /\ phase' \in {"difference", "undifference"}
    BY <1>1 DEF StartDifference, StartUndifference
  <2>3. TurnOf(c)' >= n'
    BY <2>1, <2>2, DifferenceAssumption DEF TurnOf, FirstN, HasReference
  <2>4. n' \in Int /\ TurnOf(c)' \in Int
    BY <2>1, <1>2, DifferenceAssumption DEF TypeOK, TurnOf
  <2> QED
    BY <2>1, <2>2, <2>3, <2>4 DEF Rewritten
<1>4. Contents'
  BY <1>3 DEF IInv, Contents, InLoops, Before, StartDifference, StartUndifference
<1>5. Control'
  BY <1>1, DifferenceAssumption
  DEF Control, InLoops, StartDifference, StartUndifference, FirstN, LastN
<1>6. InFlight' /\ PixelOrder'
  BY <1>1 DEF InFlight, PixelOrder, StartDifference, StartUndifference
<1> QED
  BY <1>2, <1>4, <1>5, <1>6 DEF IInv

LEMMA LoadCubePreserves ==
  ASSUME IInv, NEW cube \in Cubes, LoadCube(cube)
  PROVE  IInv'
BY DifferenceAssumption
DEF IInv, TypeOK, Contents, Control, InFlight, PixelOrder, InLoops, LoadCube

(* A region starts with every iteration of its plane pending.              *)
LEMMA ForkPreserves ==
  ASSUME IInv, Fork
  PROVE  IInv'
<1>1. /\ TypeOK /\ InLoops /\ ~ team /\ pending = {} /\ method \in Methods
      /\ \A t \in Threads : at[t] = Idle
  BY DEF IInv, TypeOK, Control, InFlight, Fork
<1>2. TypeOK'
  BY <1>1, DifferenceAssumption DEF TypeOK, Fork, PlaneIterations, Iterations
<1>3. ASSUME NEW c \in Cells PROVE Rewritten(c)' <=> Rewritten(c)
  <2>1. HasReference(method, c) => IterationOf(c) \in pending'
    BY <1>1, IterationInPlane DEF Fork
  <2> QED
    BY <1>1, <2>1 DEF Rewritten, TurnOf, IterationOf, Fork
<1>4. Contents'
  BY <1>1, <1>3 DEF IInv, Contents, InLoops, After, Before, Fork
<1>5. Control'
  BY <1>1 DEF IInv, Control, InLoops, Fork
<1>6. InFlight' /\ PixelOrder'
  BY <1>1 DEF InFlight, PixelOrder, Fork
<1> QED
  BY <1>2, <1>4, <1>5, <1>6 DEF IInv

(* On one thread, the iteration a thread may start is the least pending.   *)
LEMMA LeastPending ==
  ASSUME PixelSerial, IInv, team, method = "pixel", NEW t \in Threads,
         NEW i \in pending, owner[i] = t,
         \A j \in pending : owner[j] = t => i <= j
  PROVE  \A j \in pending : i <= j
<1>1. /\ pending \subseteq Iterations /\ owner \in Schedules["pixel"]
      /\ "pixel" \in Methods
  BY DEF IInv, TypeOK, Control
<1> QED
  BY <1>1 DEF PixelSerial

LEMMA LoadPreserves ==
  ASSUME PixelSerial, IInv, NEW t \in Threads, Load(t)
  PROVE  IInv'
<1>1. PICK i \in pending :
        /\ owner[i] = t
        /\ \A j \in pending : owner[j] = t => i <= j
        /\ at' = [at EXCEPT ![t] = i]
        /\ val' = [val EXCEPT ![t] = Result(Target(i))]
  BY DEF Load
<1>2. /\ TypeOK /\ Contents /\ Control /\ InFlight /\ team
      /\ i \in PlaneIterations(method, phase) /\ InLoops /\ method \in Methods
  BY DEF IInv, TypeOK, Control, Load
<1>3. /\ Target(i) \in Cells /\ HasReference(method, Target(i))
      /\ TurnOf(Target(i)) = n /\ Target(i)[2] = kk
      /\ IterationOf(Target(i)) = i /\ i \in Iterations
  BY <1>2, TargetOfIteration
<1>4. raw[Target(i)] = Before(Target(i))
  <2>1. ~ Rewritten(Target(i))
    BY <1>2, <1>3 DEF Rewritten, TypeOK
  <2> QED
    BY <1>2, <1>3, <2>1 DEF Contents
<1> DEFINE r == Reference(method, Target(i))
<1>5. r \in Cells /\ raw[r] = orig[r]
  <2>1. method = "pixel" => \A j \in pending : i <= j
    BY <1>1, <1>2, LeastPending
  <2> QED
    BY <1>2, <2>1, ReferenceIsLoaded
<1>6. Result(Target(i)) = After(Target(i)) /\ Result(Target(i)) \in Values
  <2>1. orig[Target(i)] \in Values /\ orig[r] \in Values
    BY <1>2, <1>3, <1>5 DEF TypeOK
  <2>2. Differenced(method, orig)[Target(i)] = Minus(orig[Target(i)], orig[r])
    BY <1>3 DEF Differenced
  <2>3. CASE phase = "difference"
    BY <1>4, <1>5, <2>1, <2>2, <2>3, PlusMinus DEF Result, After, Before
  <2>4. CASE phase = "undifference"
    BY <1>4, <1>5, <2>1, <2>2, <2>4, PlusMinus DEF Result, After, Before
  <2> QED
    BY <1>2, <2>3, <2>4 DEF InLoops
<1>7. TypeOK'
  BY <1>1, <1>2, <1>3, <1>6 DEF TypeOK, Load
<1>8. Contents'
  BY <1>2 DEF Contents, InLoops, Rewritten, After, Before, TurnOf, IterationOf, Load
<1>9. Control'
  BY <1>2 DEF Control, InLoops, Load
<1>10. InFlight'
  <2> SUFFICES ASSUME NEW u \in Threads, at'[u] # Idle
               PROVE  /\ team' /\ at'[u] \in pending' /\ owner'[at'[u]] = u
                      /\ \A j \in pending' : owner'[j] = u => at'[u] <= j
                      /\ val'[u] = After(Target(at[u]))'
    BY DEF InFlight
  <2>1. CASE u = t
    BY <1>1, <1>2, <1>6, <2>1 DEF Load, TypeOK, After, Target
  <2>2. CASE u # t
    BY <1>1, <1>2, <2>2 DEF Load, TypeOK, InFlight, After, Target
  <2> QED
    BY <2>1, <2>2
<1>11. PixelOrder'
  BY DEF IInv, PixelOrder, Load
<1> QED
  BY <1>7, <1>8, <1>9, <1>10, <1>11 DEF IInv

LEMMA StorePreserves ==
  ASSUME PixelSerial, IInv, NEW t \in Threads, Store(t)
  PROVE  IInv'
<1> DEFINE i == at[t]
<1>1. /\ TypeOK /\ Contents /\ Control /\ InFlight /\ team /\ i \in pending
      /\ owner[i] = t /\ val[t] = After(Target(i)) /\ method \in Methods
      /\ i \in PlaneIterations(method, phase) /\ InLoops
  BY DEF IInv, TypeOK, InFlight, Control, Store
<1>2. /\ Target(i) \in Cells /\ HasReference(method, Target(i))
      /\ TurnOf(Target(i)) = n /\ Target(i)[2] = kk
      /\ IterationOf(Target(i)) = i /\ i \in Iterations
  BY <1>1, TargetOfIteration
<1>3. TypeOK'
  BY <1>1, <1>2 DEF TypeOK, Store
<1>4. Contents'
  <2> SUFFICES ASSUME NEW c \in Cells
               PROVE  raw'[c] = IF Rewritten(c)' THEN After(c)' ELSE Before(c)'
    BY <1>1 DEF Contents, InLoops, Store
  <2>1. After(c)' = After(c) /\ Before(c)' = Before(c)
    BY DEF After, Before, Store
  <2>2. CASE c = Target(i)
    <3>1. Rewritten(c)'
      BY <1>2, <1>1, <2>2 DEF Rewritten, TurnOf, IterationOf, Store
    <3>2. raw'[c] = val[t]
      BY <1>1, <1>2, <2>2 DEF Store, TypeOK
    <3> QED
      BY <1>1, <2>1, <2>2, <3>1, <3>2
  <2>3. CASE c # Target(i)
    <3>1. Rewritten(c)' <=> Rewritten(c)
      <4>1. ~ (TurnOf(c) = n /\ c[2] = kk /\ IterationOf(c) = i)
        BY <1>1, <1>2, <2>3, TargetUnique
      <4> QED
        BY <1>1, <4>1 DEF Rewritten, TurnOf, IterationOf, Store
    <3>2. raw'[c] = raw[c]
      BY <1>1, <1>2, <2>3 DEF Store, TypeOK
    <3> QED
      BY <1>1, <2>1, <3>1, <3>2 DEF Contents
  <2> QED
    BY <2>2, <2>3
<1>5. Control'
  BY <1>1 DEF Control, InLoops, Store
<1>6. InFlight'
  <2> SUFFICES ASSUME NEW u \in Threads, at'[u] # Idle
               PROVE  /\ team' /\ at'[u] \in pending' /\ owner'[at'[u]] = u
                      /\ \A j \in pending' : owner'[j] = u => at'[u] <= j
                      /\ val'[u] = After(Target(at[u]))' 
    BY DEF InFlight
  <2>1. u # t /\ at'[u] = at[u]
    BY <1>1 DEF Store, TypeOK
  <2>2. /\ at[u] \in pending /\ owner[at[u]] = u /\ val[u] = After(Target(at[u]))
        /\ \A j \in pending : owner[j] = u => at[u] <= j
    BY <2>1 DEF IInv, InFlight
  <2> QED
    BY <1>1, <2>1, <2>2 DEF Store, After, Target
<1>7. PixelOrder'
  <2> SUFFICES ASSUME method = "pixel", NEW j \in PlaneIterations(method, phase),
                      NEW k \in pending \ {i}, j > k
               PROVE  j \in pending \ {i}
    BY <1>1 DEF PixelOrder, Store
  <2>1. j \in pending
    BY <1>1 DEF IInv, PixelOrder
  <2>2. \A p \in pending : owner[p] = t
    BY <1>1, <1>2 DEF PixelSerial, TypeOK, Control
  <2>3. i <= k
    BY <1>1, <2>2 DEF InFlight, Store
  <2>4. i \in Int /\ j \in Int /\ k \in Int
    BY <1>1, <1>2 DEF PlaneIterations, Iterations, TypeOK
  <2> QED
    BY <2>1, <2>3, <2>4
<1> QED
  BY <1>3, <1>4, <1>5, <1>6, <1>7 DEF IInv

(* The barrier: with no iteration pending the whole plane is rewritten.    *)
LEMMA JoinPreserves ==
  ASSUME IInv, Join
  PROVE  IInv'
<1>1. /\ TypeOK /\ InLoops /\ team /\ pending = {} /\ method \in Methods
      /\ n <= LastN(method, phase) /\ FirstN(method, phase) <= n
      /\ \A t \in Threads : at[t] = Idle
  BY DEF IInv, TypeOK, Control, InFlight, Join
<1>2. TypeOK'
  <2>1. n' \in 0 .. Frames /\ kk' \in 0 .. Depth - 1
    BY <1>1, DifferenceAssumption DEF TypeOK, Join, LastN
  <2> QED
    BY <1>1, <2>1 DEF TypeOK, Join
<1>3. ASSUME NEW c \in Cells PROVE Rewritten(c)' <=> Rewritten(c)
  <2>1. c[1] \in 0 .. Frames - 1 /\ c[2] \in 0 .. Depth - 1
    BY DEF Cells
  <2>2. TurnOf(c) \in Int /\ TurnOf(c)' = TurnOf(c)
    BY <2>1, DifferenceAssumption DEF TurnOf, Join
  <2>3. kk \in 0 .. Depth - 1 /\ n \in Int /\ Depth \in Int
    BY <1>1, DifferenceAssumption DEF TypeOK
  <2>4. CASE kk < Depth - 1
    BY <1>1, <2>1, <2>2, <2>3, <2>4 DEF Rewritten, Join
  <2>5. CASE ~ (kk < Depth - 1)
    BY <1>1, <2>1, <2>2, <2>3, <2>5 DEF Rewritten, Join
  <2> QED
    BY <2>4, <2>5
<1>4. Contents'
  BY <1>1, <1>3 DEF IInv, Contents, InLoops, After, Before, Join
<1>5. Control'
  BY <1>1, DifferenceAssumption DEF Control, InLoops, Join, FirstN, LastN, TypeOK
<1>6. InFlight' /\ PixelOrder'
  BY <1>1 DEF InFlight, PixelOrder, Join
<1> QED
  BY <1>2, <1>4, <1>5, <1>6 DEF IInv

(* When the loops are done every pixel with a reference is rewritten.      *)
LEMMA LoopsDone ==
  ASSUME IInv, Return, NEW c \in Cells
  PROVE  raw[c] = After(c)
<1>1. TypeOK /\ InLoops /\ n > LastN(method, phase)
  BY DEF IInv, Return
<1>2. raw[c] = IF Rewritten(c) THEN After(c) ELSE Before(c)
  BY <1>1 DEF IInv, Contents
<1>3. CASE HasReference(method, c)
  <2>1. c[1] \in 0 .. Frames - 1
    BY DEF Cells
  <2>2. TurnOf(c) < n
    BY <1>1, <1>3, <2>1, DifferenceAssumption
    DEF TurnOf, LastN, HasReference, InLoops, TypeOK
  <2> QED
    BY <1>2, <1>3, <2>2 DEF Rewritten
<1>4. CASE ~ HasReference(method, c)
  BY <1>2, <1>4 DEF Rewritten, After, Before, Differenced
<1> QED
  BY <1>3, <1>4

LEMMA ReturnPreserves ==
  ASSUME IInv, Return
  PROVE  IInv'
<1>1. /\ TypeOK /\ InLoops /\ ~ team /\ pending = {} /\ method \in Methods
      /\ \A t \in Threads : at[t] = Idle
  BY DEF IInv, TypeOK, Control, InFlight, Return
<1>2. TypeOK'
  BY <1>1 DEF TypeOK, Return
<1>3. Contents'
  <2>1. raw = [c \in Cells |-> After(c)]
    BY <1>1, LoopsDone DEF TypeOK
  <2>2. CASE phase = "difference"
    <3>1. raw = Differenced(method, orig)
      <4>1. Differenced(method, orig) \in [Cells -> Values]
        BY <1>1, DifferencedType DEF TypeOK
      <4> QED
        BY <2>1, <2>2, <4>1 DEF After
    <3> QED
      BY <2>2, <3>1 DEF Contents, InLoops, Return
  <2>3. CASE phase = "undifference"
    <3>1. raw = orig
      BY <1>1, <2>1, <2>3 DEF After, TypeOK
    <3> QED
      BY <2>3, <3>1 DEF Contents, InLoops, Return
  <2> QED
    BY <1>1, <2>2, <2>3 DEF InLoops
<1>4. Control' /\ InFlight' /\ PixelOrder'
  BY <1>1 DEF Control, InFlight, PixelOrder, InLoops, Return
<1> QED
  BY <1>2, <1>3, <1>4 DEF IInv

LEMMA NextIInv ==
  ASSUME PixelSerial, IInv, [Next]_vars
  PROVE  IInv'
<1>1. CASE \E cube \in Cubes : LoadCube(cube)
  BY <1>1, LoadCubePreserves
<1>2. CASE \E m \in Methods : StartDifference(m)
  BY <1>2, StartPreserves
<1>3. CASE StartUndifference
  BY <1>3, StartPreserves DEF IInv, TypeOK
<1>4. CASE Fork
  BY <1>4, ForkPreserves
<1>5. CASE \E t \in Threads : Load(t)
  BY <1>5, LoadPreserves
<1>6. CASE \E t \in Threads : Store(t)
  BY <1>6, StorePreserves
<1>7. CASE Join
  BY <1>7, JoinPreserves
<1>8. CASE Return
  BY <1>8, ReturnPreserves
<1>9. CASE UNCHANGED vars
  BY <1>9
  DEF vars, IInv, TypeOK, Contents, Control, InFlight, PixelOrder, InLoops,
      Rewritten, After, Before, TurnOf, IterationOf, Target
<1> QED
  BY <1>1, <1>2, <1>3, <1>4, <1>5, <1>6, <1>7, <1>8, <1>9 DEF Next

-----------------------------------------------------------------------------
THEOREM SpecIInv ==
  ASSUME PixelSerial
  PROVE  Spec => []IInv
BY InitIInv, NextIInv, PTL DEF Spec

(* The types are right in every reachable state.                           *)
THEOREM SpecTypeOK ==
  ASSUME PixelSerial
  PROVE  Spec => []TypeOK
<1>1. IInv => TypeOK
  BY DEF IInv
<1> QED
  BY <1>1, SpecIInv, PTL

(* Between calls the raw buffer holds the loaded cube: differencing and    *)
(* undifferencing in place lose nothing, whatever the size of the cube,    *)
(* the width of its words, the team and the schedule.                      *)
THEOREM SpecLossless ==
  ASSUME PixelSerial
  PROVE  Spec => []Lossless
<1>1. IInv => Lossless
  BY DEF IInv, Contents, Lossless
<1> QED
  BY <1>1, SpecIInv, PTL

(* The differenced cube depends on the loaded cube alone, not on how the   *)
(* threads of the team were scheduled.                                     *)
THEOREM SpecDeterministic ==
  ASSUME PixelSerial
  PROVE  Spec => []DifferenceDeterministic
<1>1. IInv => DifferenceDeterministic
  BY DEF IInv, Contents, DifferenceDeterministic
<1> QED
  BY <1>1, SpecIInv, PTL

(* The loops are free of data races: no iteration touches a pixel that an  *)
(* iteration in flight on another thread will write.                       *)
THEOREM SpecNoDataRace ==
  ASSUME PixelSerial
  PROVE  Spec => []NoDataRace
<1>1. ASSUME IInv PROVE NoDataRace
  <2> SUFFICES ASSUME NEW t \in Threads, NEW u \in Threads, t # u,
                      at[t] # Idle, at[u] # Idle
               PROVE  Target(at[u]) \notin
                        {Target(at[t]), Reference(method, Target(at[t]))}
    BY DEF NoDataRace
  <2>1. /\ TypeOK /\ Control /\ team /\ method \in Methods
        /\ owner[at[t]] = t /\ owner[at[u]] = u
        /\ at[t] \in PlaneIterations(method, phase)
        /\ at[u] \in PlaneIterations(method, phase)
    BY <1>1 DEF IInv, InFlight, Control, TypeOK
  <2>2. /\ HasReference(method, Target(at[t]))
        /\ IterationOf(Target(at[t])) = at[t] /\ at[t] \in Iterations
        /\ Target(at[t]) \in Cells
        /\ TurnOf(Target(at[t])) = n
    BY <2>1, TargetOfIteration
  <2>3. /\ IterationOf(Target(at[u])) = at[u] /\ at[u] \in Iterations
        /\ Target(at[u]) \in Cells
        /\ TurnOf(Target(at[u])) = n
    BY <2>1, TargetOfIteration
  <2>4. method # "pixel"
    BY <2>1, <2>2, <2>3 DEF PixelSerial, Control
  <2>5. Target(at[u]) # Target(at[t])
    BY <2>1, <2>2, <2>3
  <2>6. Target(at[u])[1] = Target(at[t])[1]
    BY DEF Target
  <2>7. Target(at[t])[1] \in 0 .. Frames - 1
    BY <2>2 DEF Cells
  <2>8. CASE method = "previous"
    BY <2>5, <2>6, <2>7, <2>8, DifferenceAssumption DEF Reference, PreviousReference
  <2>9. CASE method = "first"
    BY <2>2, <2>5, <2>6, <2>7, <2>9 DEF Reference, FirstReference, HasReference
  <2> QED
    BY <2>1, <2>4, <2>8, <2>9, DifferenceAssumption
<1> QED
  BY <1>1, SpecIInv, PTL

(* The reference pixel of a running iteration holds the loaded value until *)
(* the iteration is done.                                                  *)
THEOREM SpecReferenceStable ==
  ASSUME PixelSerial
  PROVE  Spec => []ReferenceStable
<1>1. ASSUME IInv PROVE ReferenceStable
  <2> SUFFICES ASSUME NEW t \in Threads, at[t] # Idle
               PROVE  LET r == Reference(method, Target(at[t])) IN raw[r] = orig[r]
    BY DEF ReferenceStable
  <2>1. /\ team /\ at[t] \in pending /\ owner[at[t]] = t
        /\ \A j \in pending : owner[j] = t => at[t] <= j
    BY <1>1 DEF IInv, InFlight
  <2>2. method = "pixel" => \A j \in pending : at[t] <= j
    BY <1>1, <2>1, LeastPending
  <2> QED
    BY <1>1, <2>1, <2>2, ReferenceIsLoaded
<1> QED
  BY <1>1, SpecIInv, PTL

-----------------------------------------------------------------------------
(* The stage implements XrifInPlace.                                       *)

LEMMA StageInit == Init => Stage!Init
BY DEF Init, Stage!Init

LEMMA StageStep ==
  ASSUME IInv, IInv', [Next]_vars
  PROVE  [Stage!Next]_(Stage!vars)
<1>1. ASSUME NEW cube \in Cubes, LoadCube(cube)
      PROVE  Stage!Load
  BY <1>1 DEF LoadCube, Stage!Load
<1>2. ASSUME NEW m \in Methods, StartDifference(m)
      PROVE  UNCHANGED Stage!vars
  BY <1>2 DEF StartDifference, IInv, Contents, Stage!vars
<1>3. CASE StartUndifference
  BY <1>3 DEF StartUndifference, IInv, Contents, Stage!vars
<1>4. CASE Fork
  BY <1>4 DEF Fork, InLoops, Stage!vars
<1>5. ASSUME NEW t \in Threads, Load(t)
      PROVE  UNCHANGED Stage!vars
  BY <1>5 DEF Load, Stage!vars
<1>6. ASSUME NEW t \in Threads, Store(t)
      PROVE  UNCHANGED Stage!vars
  BY <1>6 DEF Store, IInv, InFlight, Control, InLoops, Stage!vars
<1>7. CASE Join
  BY <1>7 DEF Join, IInv, Control, InLoops, Stage!vars
<1>8. CASE Return
  <2>1. CASE phase = "difference"
    <3>1. phase' = "differenced" /\ raw' = Differenced(method', orig')
      BY <1>8, <2>1 DEF Return, IInv, Contents
    <3>2. method \in Methods /\ method' = method /\ orig' = orig
      BY <1>8 DEF Return, IInv, TypeOK
    <3>3. Stage!Difference(method)
      BY <2>1, <3>1, <3>2 DEF Stage!Difference
    <3> QED
      BY <3>2, <3>3 DEF Stage!Next
  <2>2. CASE phase = "undifference"
    <3>1. phase' = "raw" /\ raw' = orig' /\ orig' = orig
      BY <1>8, <2>2 DEF Return, IInv, Contents
    <3>2. method # "plain"
      BY DifferenceAssumption DEF IInv, TypeOK
    <3>3. Stage!Undifference
      BY <2>2, <3>1, <3>2 DEF Stage!Undifference
    <3> QED
      BY <3>3 DEF Stage!Next
  <2> QED
    BY <1>8, <2>1, <2>2 DEF Return, InLoops
<1>9. CASE UNCHANGED vars
  BY <1>9 DEF vars, Stage!vars
<1> QED
  BY <1>1, <1>2, <1>3, <1>4, <1>5, <1>6, <1>7, <1>8, <1>9 DEF Next, Stage!Next

(* Every behaviour of the loops and their threads shows the caller only    *)
(* whole-cube exchanges.                                                   *)
THEOREM SpecImplementsInPlace ==
  ASSUME PixelSerial
  PROVE  Spec => ImplementsInPlace
<1>1. Init => Stage!Init
  BY StageInit
<1>2. IInv /\ IInv' /\ [Next]_vars => [Stage!Next]_(Stage!vars)
  BY StageStep
<1> QED
  BY <1>1, <1>2, SpecIInv, PTL DEF Spec, ImplementsInPlace, Stage!Spec

=============================================================================
