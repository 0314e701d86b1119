------------------------------ MODULE Channel ------------------------------
(***************************************************************************)
(* What a pipe promises to the processes that share it: a bounded first-in *)
(* first-out channel of bytes that is opened once, shut once, for good,    *)
(* when its last write end goes, and reports the end of file only when it  *)
(* is shut and drained.                                                    *)
(***************************************************************************)
EXTENDS Naturals, Sequences

CONSTANTS Data, Capacity

VARIABLES queue,   \* bytes sent and not yet received
          phase,   \* "new", "open" or "shut"
          got,     \* the byte received last
          eof      \* some reader has been told of the end of file

cvars == <<queue, phase, got, eof>>

CInit ==
    /\ queue = <<>> /\ phase = "new" /\ eof = FALSE
    /\ got \in Data

Open == phase = "new" /\ phase' = "open" /\ UNCHANGED <<queue, got, eof>>

Shut == phase = "open" /\ phase' = "shut" /\ UNCHANGED <<queue, got, eof>>

Send(b) ==
    /\ phase = "open" /\ Len(queue) < Capacity
    /\ queue' = Append(queue, b)
    /\ UNCHANGED <<phase, got, eof>>

Receive ==
    /\ queue # <<>>
    /\ got' = Head(queue)
    /\ queue' = Tail(queue)
    /\ UNCHANGED <<phase, eof>>

EndOfFile ==
    /\ phase = "shut" /\ queue = <<>>
    /\ eof' = TRUE
    /\ UNCHANGED <<queue, phase, got>>

CNext ==
    \/ Open \/ Shut \/ Receive \/ EndOfFile
    \/ \E b \in Data : Send(b)

CSpec == CInit /\ [][CNext]_cvars
============================================================================
