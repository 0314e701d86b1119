------------------------------ MODULE MCStride ------------------------------
EXTENDS Stride

CONSTANTS init, a, b, none

Tasks3 == {init, a, b}
=============================================================================
