------------------------------ MODULE MCMemory ------------------------------
EXTENDS Memory, TLC

CONSTANTS m0, m1, m2

Spaces == {m0, m1, m2}
Symmetry == Permutations(Spaces)

\* One page of program, and the trap context.
ImageRanges == <<<<0, 1>>, <<TrapCx, Tramp>>>>
=============================================================================
