---------------------------- MODULE DurableDisk ----------------------------
(***************************************************************************)
(* What the block cache promises to the file system: an array of blocks    *)
(* where a read returns what was written last.  After a power loss each    *)
(* block has one of the values it had since the last flush, chosen for     *)
(* each block by itself.                                                   *)
(***************************************************************************)
CONSTANTS Key, Datum

VARIABLES view,  \* contents of the blocks as the file system sees them
          since  \* the values each block has had since the last flush

dvars == <<view, since>>

DInit ==
    /\ view \in [Key -> Datum]
    /\ since = [k \in Key |-> {view[k]}]

Write(k, d) ==
    /\ view' = [view EXCEPT ![k] = d]
    /\ since' = [since EXCEPT ![k] = @ \cup {d}]

Flush ==
    /\ since' = [k \in Key |-> {view[k]}]
    /\ UNCHANGED view

PowerLoss ==
    /\ view' \in [Key -> Datum]
    /\ \A k \in Key : view'[k] \in since[k]
    /\ since' = [k \in Key |-> {view'[k]}]

DNext ==
    \/ \E k \in Key, d \in Datum : Write(k, d)
    \/ Flush
    \/ PowerLoss

DSpec == DInit /\ [][DNext]_dvars
============================================================================
