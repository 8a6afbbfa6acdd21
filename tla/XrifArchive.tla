----------------------------- MODULE XrifArchive -----------------------------
(***************************************************************************)
(* What xrif promises a program that encodes cubes, stores them in a file, *)
(* and decodes them with the same handle or another one: whatever is given *)
(* back is the cube that was loaded.                                       *)
(***************************************************************************)
CONSTANTS
  Handles,
  Cubes,
  None     \* no cube

VARIABLES
  cube,      \* per handle, the cube it stands for, or None
  visible,   \* per handle, the cube in its raw buffer, None while encoded
  stored,    \* the cube of the latest file, or None
  opened     \* per handle, the cube of the file it reads, or None

vars == <<cube, visible, stored, opened>>

Init ==
  /\ cube = [h \in Handles |-> None]
  /\ visible = [h \in Handles |-> None]
  /\ stored = None
  /\ opened = [h \in Handles |-> None]

Load(h) ==
  /\ \E c \in Cubes : /\ cube' = [cube EXCEPT ![h] = c]
                      /\ visible' = [visible EXCEPT ![h] = c]
  /\ opened' = [opened EXCEPT ![h] = None]
  /\ UNCHANGED stored

\* Encoding, or failing to, hides the cube but does not change it.
Encode(h) ==
  /\ visible' = [visible EXCEPT ![h] = None]
  /\ UNCHANGED <<cube, stored, opened>>

Decode(h) ==
  /\ visible' = [visible EXCEPT ![h] = cube[h]]
  /\ UNCHANGED <<cube, stored, opened>>

Store(h) ==
  /\ cube[h] # None
  /\ stored' = cube[h]
  /\ UNCHANGED <<cube, visible, opened>>

Open(h) ==
  /\ stored # None
  /\ cube' = [cube EXCEPT ![h] = None]
  /\ visible' = [visible EXCEPT ![h] = None]
  /\ opened' = [opened EXCEPT ![h] = stored]
  /\ UNCHANGED stored

Fetch(h) ==
  /\ opened[h] # None
  /\ cube' = [cube EXCEPT ![h] = opened[h]]
  /\ visible' = [visible EXCEPT ![h] = None]
  /\ opened' = [opened EXCEPT ![h] = None]
  /\ UNCHANGED stored

\* The program gives up the cube, the file, or both.
Drop(h) ==
  /\ cube' = [cube EXCEPT ![h] = None]
  /\ visible' = [visible EXCEPT ![h] = None]
  /\ opened' \in {opened, [opened EXCEPT ![h] = None]}
  /\ UNCHANGED stored

Close(h) ==
  /\ opened' = [opened EXCEPT ![h] = None]
  /\ UNCHANGED <<cube, visible, stored>>

Next ==
  \E h \in Handles :
    \/ Load(h) \/ Encode(h) \/ Decode(h) \/ Store(h)
    \/ Open(h) \/ Fetch(h) \/ Drop(h) \/ Close(h)

Spec == Init /\ [][Next]_vars

=============================================================================
