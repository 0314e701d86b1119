---------------------------- MODULE MCBlockCache ----------------------------
EXTENDS BlockCache

CONSTANTS b0, b1, b2, o0, o1, o2

Blocks == {b0, b1, b2}
Objs == {o0, o1, o2}
=============================================================================
