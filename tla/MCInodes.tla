------------------------------ MODULE MCInodes ------------------------------
(***************************************************************************)
(* Two files and two handles.                                              *)
(***************************************************************************)
EXTENDS Inodes, TLC

CONSTANTS f0, f1, h0, h1

Files == {f0, f1}
Handles == {h0, h1}
Symmetry == Permutations(Files) \cup Permutations(Handles)
OpenFlagSets == {{}, {"WRONLY"}, {"RDWR", "CREATE"}}
=============================================================================
