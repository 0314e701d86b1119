---------------------------- MODULE MCDirectory ----------------------------
(***************************************************************************)
(* Names of 1 byte, of exactly the field's size, and of more than that.    *)
(***************************************************************************)
EXTENDS Recovery, TLC

CONSTANTS na, nb, nc, nd, ne, full, long

Names == {na, nb, nc, nd, ne, full, long}
Short == {na, nb, nc, nd, ne}
NameLength == [n \in Names |-> IF n = full THEN Limit + 1 ELSE IF n = long THEN Limit + 2 ELSE 1]
Symmetry == Permutations(Short)
=============================================================================
