---------------------------- MODULE IdealStride ----------------------------
(***************************************************************************)
(* Stride scheduling as the textbook has it, with unbounded numbers.  The  *)
(* lag of a queued task is the distance from the virtual time (the pass of *)
(* the task dispatched last) to its own pass: the scheduler runs a task of *)
(* least lag, and a task that is queued again lags by one stride.          *)
(***************************************************************************)
EXTENDS Naturals

CONSTANTS Proc, First, None, Strides

VARIABLES lag,     \* queued task -> its lag
          running  \* the task on the processor, or None

ivars == <<lag, running>>

IInit ==
    /\ running = None
    /\ \E s \in Strides : lag = [p \in {First} |-> s]

Enqueue(p, s) == [q \in DOMAIN lag \cup {p} |-> IF q = p THEN s ELSE lag[q]]

Run(p) ==
    /\ running = None
    /\ \A q \in DOMAIN lag : lag[p] <= lag[q]
    /\ running' = p
    /\ lag' = [q \in DOMAIN lag \ {p} |-> lag[q] - lag[p]]

Requeue(p) ==
    /\ running = p
    /\ running' = None
    /\ \E s \in Strides : lag' = Enqueue(p, s)

Create(p, c) ==
    /\ running = p
    /\ c \notin DOMAIN lag /\ c # p
    /\ \E s \in Strides : lag' = Enqueue(c, s)
    /\ UNCHANGED running

Leave(p) ==
    /\ running = p
    /\ running' = None
    /\ UNCHANGED lag

INext == \/ \E p \in DOMAIN lag : Run(p)
         \/ \E p \in Proc : \/ Requeue(p)
                            \/ Leave(p)
                            \/ \E c \in Proc : Create(p, c)

ISpec == IInit /\ [][INext]_ivars
============================================================================
