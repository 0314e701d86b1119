----------------------------- MODULE Lifecycle -----------------------------
(***************************************************************************)
(* What the process subsystem promises to user programs, without pids,     *)
(* queues or reference counts: a process is absent, live or a zombie, every *)
(* process but the first has a parent, orphans are adopted by the first    *)
(* process, and only its parent removes a zombie.                          *)
(***************************************************************************)
CONSTANTS Proc, First, None

VARIABLES state, parentOf

avars == <<state, parentOf>>

AInit ==
    /\ state = [p \in Proc |-> IF p = First THEN "live" ELSE "absent"]
    /\ parentOf = [p \in Proc |-> None]

Spawn(p, c) ==
    /\ state[p] = "live" /\ state[c] = "absent"
    /\ state' = [state EXCEPT ![c] = "live"]
    /\ parentOf' = [parentOf EXCEPT ![c] = p]

\* The first process never dies; it adopts the children of the one that does.
Die(p) ==
    /\ p # First /\ state[p] = "live"
    /\ state' = [state EXCEPT ![p] = "zombie"]
    /\ parentOf' = [c \in Proc |-> IF parentOf[c] = p THEN First ELSE parentOf[c]]

Collect(p, c) ==
    /\ state[p] = "live" /\ state[c] = "zombie" /\ parentOf[c] = p
    /\ state' = [state EXCEPT ![c] = "absent"]
    /\ parentOf' = [parentOf EXCEPT ![c] = None]

ANext == \E p \in Proc : \/ Die(p)
                         \/ \E c \in Proc : Spawn(p, c) \/ Collect(p, c)

ASpec == AInit /\ [][ANext]_avars
============================================================================
