----------------------------- MODULE PlainFiles -----------------------------
(***************************************************************************)
(* What open files promise to user programs: a file is a sequence of cells *)
(* that grows at its end, a handle has a position, and cells that nobody   *)
(* wrote, between the old end and the position of a write, are zero.       *)
(***************************************************************************)
EXTENDS Naturals, Sequences

CONSTANTS Name, Hnd, Data, Chunk, Blank, Shut

VARIABLES content,  \* the cells of each file
          pos       \* the file and the position of each open handle

pvars == <<content, pos>>

PInit ==
    /\ content = [f \in Name |-> <<>>]
    /\ pos = [h \in Hnd |-> Shut]

POpen(h, f) ==
    /\ pos[h] = Shut
    /\ pos' = [pos EXCEPT ![h] = [file |-> f, offset |-> 0]]
    /\ content' \in {content, [content EXCEPT ![f] = <<>>]}

PClose(h) ==
    /\ pos' = [pos EXCEPT ![h] = Shut]
    /\ UNCHANGED content

Longer(a, b) == IF a > b THEN a ELSE b

\* Cells from + 1 .. to of s become d; cells in a gap before them become blank.
Patched(s, from, to, d) ==
    [k \in 1 .. Longer(Len(s), to) |->
        IF from < k /\ k <= to THEN d ELSE IF k <= Len(s) THEN s[k] ELSE Blank]

PWrite(h, n, d) ==
    /\ pos[h] # Shut
    /\ pos' = [pos EXCEPT ![h].offset = @ + n]
    /\ content' = [content EXCEPT ![pos[h].file] =
                     Patched(@, pos[h].offset, pos[h].offset + n, d)]

\* A read stops at the end of the file, and reads nothing beyond it.
PRead(h, n) ==
    LET end == Len(content[pos[h].file])
        to == pos[h].offset + n
    IN
    /\ pos[h] # Shut
    /\ pos' = [pos EXCEPT ![h].offset = Longer(@, IF to > end THEN end ELSE to)]
    /\ UNCHANGED content

PNext ==
    \E h \in Hnd :
       \/ \E f \in Name : POpen(h, f)
       \/ PClose(h)
       \/ \E n \in Chunk : PRead(h, n) \/ \E d \in Data : PWrite(h, n, d)

PSpec == PInit /\ [][PNext]_pvars
=============================================================================
