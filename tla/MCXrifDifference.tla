-------------------------- MODULE MCXrifDifference --------------------------
(* Small instances of XrifDifference: how a plane is dealt to a team, and  *)
(* cubes whose differences wrap around in both directions.                 *)
EXTENDS XrifDifferenceProofs

CONSTANTS t1, t2

\* omp_parallel = 0: the calling thread runs every iteration.
SerialSchedules == {[i \in Iterations |-> t1]}

\* schedule(static) on two threads: at most two contiguous chunks.
StaticSchedules ==
  {[i \in Iterations |-> IF i < b THEN t1 ELSE t2] : b \in 0 .. Npix}

\* omp_parallel = 1 for the methods whose iterations are independent.
FrameParallel ==
  [m \in Methods |-> IF m = "pixel" THEN SerialSchedules ELSE StaticSchedules]

\* omp_parallel = 1 for every method.
AllParallel == [m \in Methods |-> StaticSchedules]

\* A ramp, its reverse and a cube that alternates the extreme values.
SampleCubes ==
  { [c \in Cells |-> (c[1] + 3 * c[2] + 2 * c[3]) % Word],
    [c \in Cells |-> (Word - 1) - ((c[1] * c[1] + c[2] + c[3]) % Word)],
    [c \in Cells |-> IF (c[1] + c[2] + c[3]) % 2 = 0 THEN 0 ELSE Word - 1] }

=============================================================================
