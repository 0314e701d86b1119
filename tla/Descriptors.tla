----------------------------- MODULE Descriptors -----------------------------
(***************************************************************************)
(* The fd_table of a process: a vector of optional files, here a function  *)
(* from 0 .. len - 1.  The operations of os/src/syscall/fs.rs on it are    *)
(* pure operators from tables to tables; the vector never shrinks.         *)
(***************************************************************************)
EXTENDS Naturals, FiniteSets, FiniteSetsExt, SequencesExt

\* A file is the console, a plain file or one end of a pipe.
File(kind, pipe) == [kind |-> kind, pipe |-> pipe]
NoFile      == File("none", 0)
Stdin       == File("stdin", 0)
Stdout      == File("stdout", 0)
ReadEnd(k)  == File("read", k)
WriteEnd(k) == File("write", k)

\* TaskControlBlock::new
InitialTable == [fd \in 0 .. 2 |-> IF fd = 0 THEN Stdin ELSE Stdout]

Open(t)  == {fd \in DOMAIN t : t[fd] # NoFile}
Holds(t) == {t[fd] : fd \in Open(t)}
Free(t)  == DOMAIN t \ Open(t)
Len_(t)  == Cardinality(DOMAIN t)

\* Faulty variant: a new descriptor is always pushed at the end.
AllocFd_Push(t) == Len_(t)

\* alloc_fd: the lowest free descriptor, or one more.
AllocFd(t) == IF Free(t) # {} THEN Min(Free(t)) ELSE Len_(t)

\* fd_table[alloc_fd()] = Some(f)
Install(t, f) ==
    [fd \in DOMAIN t \cup {AllocFd(t)} |-> IF fd = AllocFd(t) THEN f ELSE t[fd]]

\* sys_close and sys_dup; a descriptor that is not open changes nothing.
CloseFd(t, fd) == IF fd \in Open(t) THEN [t EXCEPT ![fd] = NoFile] ELSE t
Dup(t, fd)     == IF fd \in Open(t) THEN Install(t, t[fd]) ELSE t
=============================================================================
