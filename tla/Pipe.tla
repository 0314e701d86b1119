-------------------------------- MODULE Pipe --------------------------------
(***************************************************************************)
(* One pipe of os/src/fs/pipe.rs: the ring buffer, the blocking read and   *)
(* write loops that processes interleave whenever one of them suspends,    *)
(* and the file descriptors that keep its ends open across sys_pipe, dup,  *)
(* close, fork, exit and waitpid.  Processes live and die as in module     *)
(* Lifecycle, which module Tasks implements.                               *)
(*                                                                         *)
(* A process in the kernel keeps the processor until it suspends, so one   *)
(* system call is a run of the small steps below with current unchanged.   *)
(* System calls that return -1 for a bad descriptor change nothing and are *)
(* left out.                                                               *)
(***************************************************************************)
EXTENDS Naturals, Sequences, Lifecycle

CONSTANTS Byte,     \* values of a byte
          Zero,     \* the byte 0
          Size,     \* RING_BUFFER_SIZE
          MaxLen,   \* bound on the length of a user buffer
          MaxFds    \* bound on the descriptors of one end in one process

ASSUME ProcAssumption == First \in Proc /\ None \notin Proc
ASSUME PipeAssumption ==
    /\ Size \in Nat \ {0}
    /\ MaxLen \in Nat /\ MaxFds \in Nat \ {0}
    /\ Zero \in Byte

VARIABLES
    arr, head, tail, status,  \* PipeRingBuffer
    made,      \* sys_pipe has created the pipe
    rfd, wfd,  \* entries of a process's fd_table that hold the read/write end
    current,   \* the process on the processor
    op,        \* "user", or in File::read ("read") or File::write ("write")
    left,      \* bytes of the user buffer that buf_iter has still to yield
    loop,      \* iterations left of the inner for loop
    got,       \* the byte read_byte returned last
    eof        \* history: some read found all write ends closed

ring  == <<arr, head, tail, status>>
fds   == <<made, rfd, wfd>>
calls == <<op, left, loop>>
vars  == <<arr, head, tail, status, made, rfd, wfd, current, op, left, loop,
           got, eof, state, parentOf>>

Index == 0 .. Size - 1

Init ==
    /\ AInit
    /\ arr = [i \in Index |-> Zero] /\ head = 0 /\ tail = 0 /\ status = "EMPTY"
    /\ made = FALSE
    /\ rfd = [p \in Proc |-> 0] /\ wfd = [p \in Proc |-> 0]
    /\ current = None
    /\ op = [p \in Proc |-> "user"]
    /\ left = [p \in Proc |-> 0] /\ loop = [p \in Proc |-> 0]
    /\ got = Zero /\ eof = FALSE

----------------------------------------------------------------------------
\* The indices of PipeRingBuffer go round.
Inc(i) == (i + 1) % Size

\* Faulty variant: a full ring counts as an empty one.
AvailableRead_FullIsEmpty ==
    IF status = "EMPTY" THEN 0
    ELSE IF tail >= head THEN tail - head ELSE tail + Size - head

AvailableRead ==
    IF status = "EMPTY" THEN 0
    ELSE IF tail > head THEN tail - head ELSE tail + Size - head

\* Faulty variant: the unread bytes are not subtracted.
AvailableWrite_Whole == IF status = "FULL" THEN 0 ELSE Size

AvailableWrite == IF status = "FULL" THEN 0 ELSE Size - AvailableRead

\* The Weak of the write end cannot be upgraded: no fd_table entry and no call
\* in progress holds its Arc.  The fd_table of a zombie still does.
AllWriteEndsClosed == \A p \in Proc : wfd[p] = 0 /\ op[p] # "write"

\* read_byte
TakeByte ==
    /\ got' = arr[head]
    /\ head' = Inc(head)
    /\ status' = IF Inc(head) = tail THEN "EMPTY" ELSE "NORMAL"
    /\ UNCHANGED <<arr, tail>>

\* write_byte
PutByte(b) ==
    /\ arr' = [arr EXCEPT ![tail] = b]
    /\ tail' = Inc(tail)
    /\ status' = IF Inc(tail) = head THEN "FULL" ELSE "NORMAL"
    /\ UNCHANGED head

----------------------------------------------------------------------------
\* run_tasks: any live process may come next.
Dispatch(p) ==
    /\ current = None /\ state[p] = "live"
    /\ current' = p
    /\ UNCHANGED <<ring, fds, calls, got, eof, avars>>

\* p runs its user program.
InUser(p) == current = p /\ op[p] = "user"

Yield(p) ==
    /\ InUser(p)
    /\ current' = None
    /\ UNCHANGED <<ring, fds, calls, got, eof, avars>>

\* sys_read and sys_write up to the first iteration of the loop
Enter(p, call, n) ==
    /\ InUser(p)
    /\ op' = [op EXCEPT ![p] = call]
    /\ left' = [left EXCEPT ![p] = n]
    /\ UNCHANGED <<ring, fds, current, loop, got, eof, avars>>

ReadCall(p, n)  == rfd[p] > 0 /\ Enter(p, "read", n)
WriteCall(p, n) == wfd[p] > 0 /\ Enter(p, "write", n)

\* The top of the loop of p's call, and its inner for loop.
AtTop(p, call)  == current = p /\ op[p] = call /\ loop[p] = 0
InLoop(p, call) == current = p /\ op[p] = call /\ loop[p] > 0

Return(p) ==
    /\ op' = [op EXCEPT ![p] = "user"]
    /\ left' = [left EXCEPT ![p] = 0]
    /\ loop' = [loop EXCEPT ![p] = 0]
    /\ UNCHANGED <<ring, fds, current, got, avars>>

\* suspend_current_and_run_next and continue
Wait == current' = None /\ UNCHANGED <<ring, fds, calls, got, eof, avars>>

\* Enter the for loop with a budget of n bytes.
Chunk(p, n) ==
    /\ loop' = [loop EXCEPT ![p] = n]
    /\ UNCHANGED <<ring, fds, current, op, left, got, eof, avars>>

\* Faulty variant: an empty ring always waits.
ReadWait_Always(p) == AtTop(p, "read") /\ AvailableRead = 0 /\ Wait

\* Faulty variant: the budget is not counted down.
NextByte_Unbounded(p) ==
    /\ left[p] > 0
    /\ left' = [left EXCEPT ![p] = @ - 1]
    /\ UNCHANGED <<loop, op, fds, current, eof, avars>>

ReadEof(p)   == /\ AtTop(p, "read") /\ AvailableRead = 0 /\ AllWriteEndsClosed
                /\ Return(p)
                /\ eof' = TRUE
ReadWait(p)  == /\ AtTop(p, "read") /\ AvailableRead = 0 /\ ~AllWriteEndsClosed
                /\ Wait
ReadChunk(p) == AtTop(p, "read") /\ AvailableRead > 0 /\ Chunk(p, AvailableRead)

\* buf_iter.next() is Some
NextByte(p) ==
    /\ left[p] > 0
    /\ left' = [left EXCEPT ![p] = @ - 1]
    /\ loop' = [loop EXCEPT ![p] = @ - 1]
    /\ UNCHANGED <<op, fds, current, eof, avars>>

ReadByte(p) == InLoop(p, "read") /\ NextByte(p) /\ TakeByte

\* buf_iter.next() is None
Done(p, call) == InLoop(p, call) /\ left[p] = 0 /\ Return(p) /\ UNCHANGED eof

WriteWait(p)    == AtTop(p, "write") /\ AvailableWrite = 0 /\ Wait
WriteChunk(p)   == /\ AtTop(p, "write") /\ AvailableWrite > 0
                   /\ Chunk(p, AvailableWrite)
WriteByte(p, b) == /\ InLoop(p, "write") /\ NextByte(p) /\ PutByte(b)
                   /\ UNCHANGED got

----------------------------------------------------------------------------
\* sys_pipe with make_pipe
MakePipe(p) ==
    /\ InUser(p) /\ ~made
    /\ made' = TRUE
    /\ rfd' = [rfd EXCEPT ![p] = 1]
    /\ wfd' = [wfd EXCEPT ![p] = 1]
    /\ UNCHANGED <<ring, current, calls, got, eof, avars>>

\* sys_dup and sys_close of a descriptor of either end
Dup(p) ==
    /\ InUser(p)
    /\ \/ /\ rfd[p] \in 1 .. MaxFds - 1
          /\ rfd' = [rfd EXCEPT ![p] = @ + 1] /\ UNCHANGED wfd
       \/ /\ wfd[p] \in 1 .. MaxFds - 1
          /\ wfd' = [wfd EXCEPT ![p] = @ + 1] /\ UNCHANGED rfd
    /\ UNCHANGED <<ring, made, current, calls, got, eof, avars>>

Close(p) ==
    /\ InUser(p)
    /\ \/ rfd[p] > 0 /\ rfd' = [rfd EXCEPT ![p] = @ - 1] /\ UNCHANGED wfd
       \/ wfd[p] > 0 /\ wfd' = [wfd EXCEPT ![p] = @ - 1] /\ UNCHANGED rfd
    /\ UNCHANGED <<ring, made, current, calls, got, eof, avars>>

\* TaskControlBlock::fork copies the fd_table.
Fork(p, c) ==
    /\ InUser(p)
    /\ Spawn(p, c)
    /\ rfd' = [rfd EXCEPT ![c] = rfd[p]]
    /\ wfd' = [wfd EXCEPT ![c] = wfd[p]]
    /\ UNCHANGED <<ring, made, current, calls, got, eof>>

\* exit_current_and_run_next leaves the fd_table as it is.
Exit(p) ==
    /\ InUser(p)
    /\ Die(p)
    /\ current' = None
    /\ UNCHANGED <<ring, fds, calls, got, eof>>

\* sys_waitpid drops the TCB of the zombie and with it the fd_table.
Reap(p, c) ==
    /\ InUser(p)
    /\ Collect(p, c)
    /\ rfd' = [rfd EXCEPT ![c] = 0]
    /\ wfd' = [wfd EXCEPT ![c] = 0]
    /\ UNCHANGED <<ring, made, current, calls, got, eof>>

Kernel(p) ==
    \/ ReadEof(p) \/ ReadWait(p) \/ ReadChunk(p) \/ ReadByte(p)
    \/ Done(p, "read") \/ Done(p, "write")
    \/ WriteWait(p) \/ WriteChunk(p) \/ \E b \in Byte : WriteByte(p, b)

User(p) ==
    \/ \E n \in 0 .. MaxLen : ReadCall(p, n) \/ WriteCall(p, n)
    \/ MakePipe(p) \/ Dup(p) \/ Close(p) \/ Exit(p)
    \/ \E c \in Proc : Fork(p, c) \/ Reap(p, c)

Next == \E p \in Proc : Dispatch(p) \/ Yield(p) \/ Kernel(p) \/ User(p)

Spec == Init /\ [][Next]_vars

\* The kernel runs on until it suspends or returns.  A timer interrupt that falls
\* into a system call is taken on the return to user mode, so a program cannot
\* avoid it with system calls: Yield is strongly fair.  No live process is passed
\* over for ever (NoStarvation of module Stride).
Fairness ==
    \A p \in Proc : /\ SF_vars(Dispatch(p))
                    /\ WF_vars(Kernel(p))
                    /\ SF_vars(Yield(p))

FairSpec == Spec /\ Fairness

----------------------------------------------------------------------------
TypeOK ==
    /\ arr \in [Index -> Byte] /\ head \in Index /\ tail \in Index
    /\ status \in {"EMPTY", "FULL", "NORMAL"}
    /\ made \in BOOLEAN
    /\ rfd \in [Proc -> 0 .. MaxFds] /\ wfd \in [Proc -> 0 .. MaxFds]
    /\ current \in Proc \cup {None}
    /\ op \in [Proc -> {"user", "read", "write"}]
    /\ left \in [Proc -> 0 .. MaxLen] /\ loop \in [Proc -> 0 .. Size]
    /\ got \in Byte /\ eof \in BOOLEAN
    /\ state \in [Proc -> {"absent", "live", "zombie"}]
    /\ parentOf \in [Proc -> Proc \cup {None}]

\* head and tail coincide exactly when the ring is empty or full, and the status
\* tells which: available_read is the number of unread bytes.
StatusTellsApart == (status = "NORMAL") <=> (head # tail)

\* The budget that read and write take from the ring before their for loop is
\* still there at every byte of it: read_byte never runs on an empty ring and
\* write_byte never overwrites an unread byte, whoever ran before.
BudgetCovered ==
    \A p \in Proc : loop[p] > 0 =>
       /\ current = p /\ op[p] # "user"
       /\ op[p] = "read" => loop[p] <= AvailableRead
       /\ op[p] = "write" => loop[p] <= AvailableWrite

\* A process in a call is live and its own descriptor keeps the end open, so a
\* blocked writer counts as a writer and a dead one cannot be inside write.
CallHoldsEnd ==
    \A p \in Proc : op[p] # "user" =>
       /\ state[p] = "live"
       /\ IF op[p] = "read" THEN rfd[p] > 0 ELSE wfd[p] > 0

\* The end of file is final: once a read has reported it, the ring stays drained
\* and no process has or can get a write end again.
EofFinal == eof => made /\ status = "EMPTY" /\ AllWriteEndsClosed

Slot(k) == (head + k) % Size

\* The unread bytes, oldest first.
Contents == [k \in 1 .. AvailableRead |-> arr[Slot(k - 1)]]

\* The ring buffer with its loops and descriptors implements the channel.
Chan == INSTANCE Channel WITH
           Data <- Byte, Capacity <- Size,
           queue <- Contents,
           phase <- IF ~made THEN "new"
                    ELSE IF AllWriteEndsClosed THEN "shut" ELSE "open"

ChannelSpec == Chan!CSpec

\* Readers and writers inside the kernel never keep one another waiting for ever:
\* while calls of both kinds are pending, bytes keep moving.
NoMutualWait ==
    <>[](\E r, w \in Proc : op[r] = "read" /\ op[w] = "write")
      => []<><<ring' # ring>>_ring

\* Once the last write end is gone every pending read returns.
EofDelivered ==
    \A r \in Proc : (op[r] = "read" /\ AllWriteEndsClosed) ~> (op[r] = "user")
=============================================================================
