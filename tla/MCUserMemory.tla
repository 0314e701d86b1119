---------------------------- MODULE MCUserMemory ----------------------------
(***************************************************************************)
(* Three pages of four bytes in four frames, a usize of two bytes,         *)
(* structures of one and two words, up to three arguments, or more than    *)
(* the vector has room for.                                                *)
(***************************************************************************)
EXTENDS UserMemory

Strings == {<<>>, <<1>>, <<2, 1>>}
Lists == {<<>>} \cup {<<a>> : a \in Strings} \cup {<<a, b>> : a, b \in Strings}
         \cup {<<a, b, c>> : a, b, c \in Strings} \cup {[i \in 1 .. 8 |-> <<>>]}
=============================================================================
