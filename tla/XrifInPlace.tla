---------------------------- MODULE XrifInPlace ----------------------------
(***************************************************************************)
(* What the difference stage promises to xrif_encode and xrif_decode: it   *)
(* replaces the whole cube by its differenced form in one step, and gives  *)
(* the loaded cube back in one step.  No intermediate cube is visible to   *)
(* the caller.                                                             *)
(***************************************************************************)
CONSTANTS
  Methods,                 \* the difference methods
  Cubes,                   \* the cubes that callers load
  Differenced(_, _)        \* the differenced form of a cube, by method

VARIABLES
  loaded,   \* the cube the caller loaded last
  cube,     \* the contents of the raw buffer
  form      \* "plain", or the method the cube is differenced with

vars == <<loaded, cube, form>>

Init ==
  /\ loaded \in Cubes
  /\ cube = loaded
  /\ form = "plain"

Load ==
  /\ form = "plain"
  /\ loaded' \in Cubes
  /\ cube' = loaded'
  /\ UNCHANGED form

Difference(m) ==
  /\ form = "plain"
  /\ cube' = Differenced(m, cube)
  /\ form' = m
  /\ UNCHANGED loaded

Undifference ==
  /\ form # "plain"
  /\ cube' = loaded
  /\ form' = "plain"
  /\ UNCHANGED loaded

Next ==
  \/ Load
  \/ \E m \in Methods : Difference(m)
  \/ Undifference

Spec == Init /\ [][Next]_vars

=============================================================================
