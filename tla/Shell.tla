------------------------------- MODULE Shell --------------------------------
(***************************************************************************)
(* The shell of user/src/bin/user_shell.rs running a line of commands that *)
(* pipes connect: the pipe, fork, close and waitpid calls of the shell,    *)
(* the redirections that each forked child sets up before its exec, and    *)
(* the programs, which read descriptor 0 and write descriptor 1.  The      *)
(* kernel side is the fd_table (module Descriptors), the blocking pipes,   *)
(* the fork that copies the table, and the zombie that keeps its table     *)
(* until waitpid drops it.                                                 *)
(*                                                                         *)
(* The kernel is not preempted, so one system call is one step; only a     *)
(* pipe call that finds its ring drained or full is cut into slices, at    *)
(* the suspend_current_and_run_next of module Pipe.  Pipes are counted in  *)
(* bytes; a read from the console finds its key.  Stage i of a line is     *)
(* process i, the shell is process 0.  Lines whose redirection lacks its   *)
(* file name are left out (the shell itself panics over them while it      *)
(* splits the line).                                                       *)
(***************************************************************************)
EXTENDS Sequences, Descriptors

CONSTANTS Lines,     \* the lines a user may type: sequences of commands
          MaxStages, \* bound on the commands of a line
          Size,      \* RING_BUFFER_SIZE
          Message,   \* bytes of the shell's error messages, which fit a ring
          Report,    \* bytes of the panic handler's message, which do not
          MaxLen,    \* bound on the buffer of a program's read or write
          MaxCalls   \* bound on the reads and writes of one program

Command == [input   : {"", "file", "missing"},  \* after <
            output  : {"", "file"},             \* after >
            program : {"found", "missing", "empty"}]

ASSUME ShellAssumption ==
    /\ {Size, MaxStages} \subseteq Nat \ {0}
    /\ {MaxLen, MaxCalls} \subseteq Nat
    /\ Message \in 0 .. Size - 1 /\ Report \in Nat /\ Report >= Size
    /\ \A l \in Lines : l \in Seq(Command) /\ Len(l) \in 1 .. MaxStages

Stage == 1 .. MaxStages
Proc  == 0 .. MaxStages

VARIABLES
    line,    \* process_arguments_list, <<>> at the prompt
    at,      \* where the shell is: "prompt", "pipe", "fork", "close" or "wait"
    i,       \* index of the shell's loop at that place
    pipes,   \* pipes_fd: the descriptors <<read, write>> of each pipe
    table,   \* fd_table of each process
    status,  \* of each stage: "absent", "setup", "running" or "zombie"
    todo,    \* the calls a stage is about to make, the one under way first
    made,    \* reads and writes the program of a stage has made
    fill,    \* unread bytes of each pipe
    failed   \* stages that an assertion of the shell has ended

shell == <<line, at, i, pipes>>
vars  == <<line, at, i, pipes, table, status, todo, made, fill, failed>>

NoTable == [fd \in {} |-> NoFile]

Init ==
    /\ line = <<>> /\ at = "prompt" /\ i = 1 /\ pipes = <<>>
    /\ table = [p \in Proc |-> IF p = 0 THEN InitialTable ELSE NoTable]
    /\ status = [s \in Stage |-> "absent"]
    /\ todo = [s \in Stage |-> <<>>]
    /\ made = [s \in Stage |-> 0]
    /\ fill = [k \in Stage |-> 0]
    /\ failed = {}

----------------------------------------------------------------------------
\* The calls of a child.  open takes the descriptor it is to replace, dup the one
\* it has to return, read and write the bytes still to move.
Call(op, fd, n) == [op |-> op, fd |-> fd, n |-> n]
OpenFor(fd)     == Call("open", fd, 0)
DupTo(fd, want) == Call("dup", fd, want)
Read(n)         == Call("read", 0, n)
Write(n)        == Call("write", 1, n)
Exec            == Call("exec", 0, 0)
SysExit         == Call("exit", 0, 0)

\* close and exit of the user library flush the console buffer, empty or not.
Close(fd) == IF fd = 1 THEN <<Write(0), Call("close", 1, 0)>>
                       ELSE <<Call("close", fd, 0)>>
Exit      == <<Write(0), SysExit>>

\* println! writes at the end of the line and flushes what is left: nothing.
Complain(n) == <<Write(n), Write(0)>> \o Exit

\* The panic handler reports and exits.
Panicked == Complain(Report)

When(cond, calls) == IF cond THEN calls ELSE <<>>

\* The descriptor of end j of the pipes, read and write ends in turn.
EndFd(j) == pipes[(j + 1) \div 2][IF j % 2 = 1 THEN 1 ELSE 2]

\* Every pipe end the child has inherited.  None of them is descriptor 1, for which
\* close would flush (PipesAbove in module ShellProofs).
CloseEnds == [j \in 1 .. 2 * Len(pipes) |-> Call("close", EndFd(j), 0)]

\* What the child of stage s does between fork and exec.
Setup(s) ==
    When(line[s].input # "", <<OpenFor(0)>>)
    \o When(line[s].output # "", <<OpenFor(1)>>)
    \o When(s > 1, Close(0) \o <<DupTo(pipes[s - 1][1], 0)>>)
    \o When(s < Len(line), Close(1) \o <<DupTo(pipes[s][2], 1)>>)
    \o CloseEnds \o <<Exec>>

----------------------------------------------------------------------------
\* The shell

\* Only the first command may redirect its input and only the last its output.
Valid(l) ==
    \/ Len(l) = 1
    \/ \A s \in 1 .. Len(l) : /\ l[s].input # "" => s = 1
                              /\ l[s].output # "" => s = Len(l)

\* A line is typed; one that is not valid only prints a message.
ReadLine(l) ==
    /\ at = "prompt"
    /\ IF Valid(l) THEN line' = l /\ at' = "pipe" ELSE UNCHANGED <<line, at>>
    /\ UNCHANGED <<i, pipes, table, status, todo, made, fill, failed>>

\* The loop that is over gives way to the next one.
Proceed(place) == at' = place /\ i' = 1

MakePipe ==
    /\ at = "pipe"
    /\ IF i < Len(line)
       THEN LET r == AllocFd(table[0])
                t == Install(table[0], ReadEnd(i))
            IN  /\ table' = [table EXCEPT ![0] = Install(t, WriteEnd(i))]
                /\ pipes' = Append(pipes, <<r, AllocFd(t)>>)
                /\ fill' = [fill EXCEPT ![i] = 0]
                /\ i' = i + 1 /\ UNCHANGED at
       ELSE Proceed("fork") /\ UNCHANGED <<table, pipes, fill>>
    /\ UNCHANGED <<line, status, todo, made, failed>>

\* sys_fork copies the fd_table.
Fork ==
    /\ at = "fork"
    /\ IF i <= Len(line)
       THEN /\ table' = [table EXCEPT ![i] = table[0]]
            /\ status' = [status EXCEPT ![i] = "setup"]
            /\ todo' = [todo EXCEPT ![i] = Setup(i)]
            /\ i' = i + 1 /\ UNCHANGED at
       ELSE Proceed("close") /\ UNCHANGED <<table, status, todo>>
    /\ UNCHANGED <<line, pipes, made, fill, failed>>

\* Faulty variant: the shell keeps the write ends of its pipes.
CloseInShell_ReadOnly ==
    /\ at = "close"
    /\ IF i <= 2 * Len(pipes)
       THEN LET e == pipes[(i + 1) \div 2]
            IN  /\ table' = [table EXCEPT ![0] = CloseFd(@, e[1])]
                /\ i' = i + 1 /\ UNCHANGED at
       ELSE Proceed("wait") /\ UNCHANGED table
    /\ UNCHANGED <<line, pipes, status, todo, made, fill, failed>>

\* One close call; read and write ends alternate.
CloseInShell ==
    /\ at = "close"
    /\ IF i <= 2 * Len(pipes)
       THEN /\ table' = [table EXCEPT ![0] = CloseFd(@, EndFd(i))]
            /\ i' = i + 1 /\ UNCHANGED at
       ELSE Proceed("wait") /\ UNCHANGED table
    /\ UNCHANGED <<line, pipes, status, todo, made, fill, failed>>

\* sys_waitpid drops the TCB of the zombie s and with it its fd_table.
Reap(s) ==
    /\ status[s] = "zombie"
    /\ status' = [status EXCEPT ![s] = "absent"]
    /\ table' = [table EXCEPT ![s] = NoTable]
    /\ made' = [made EXCEPT ![s] = 0]

\* Back to the prompt, with the line cleared.
Prompt ==
    /\ line' = <<>> /\ pipes' = <<>> /\ Proceed("prompt")
    /\ UNCHANGED <<table, status, made>>

\* Faulty variant: the children are collected from the last to the first.
Wait_Backwards ==
    /\ at = "wait"
    /\ IF i <= Len(line)
       THEN Reap(Len(line) + 1 - i) /\ i' = i + 1 /\ UNCHANGED <<line, at, pipes>>
       ELSE Prompt
    /\ UNCHANGED <<todo, fill, failed>>

\* waitpid of the user library yields until sys_waitpid finds the zombie.
Wait ==
    /\ at = "wait"
    /\ IF i <= Len(line)
       THEN Reap(i) /\ i' = i + 1 /\ UNCHANGED <<line, at, pipes>>
       ELSE Prompt
    /\ UNCHANGED <<todo, fill, failed>>

----------------------------------------------------------------------------
\* The stages

\* s makes the call op next.
Makes(s, op) == todo[s] # <<>> /\ Head(todo[s]).op = op

\* The call under way returns and the calls in calls come next, before the rest.
Return(s, calls) == todo' = [todo EXCEPT ![s] = calls \o Tail(@)]

\* The child gives up: it makes the calls in calls and nothing else.
GiveUp(s, calls) == todo' = [todo EXCEPT ![s] = calls]

\* open, then close, dup and close to move the file to its place
OpenCall(s) ==
    /\ Makes(s, "open")
    /\ LET want == Head(todo[s]).fd
           fd   == AllocFd(table[s])
       IN  IF want = 0 /\ line[s].input = "missing"
           THEN GiveUp(s, Complain(Message)) /\ UNCHANGED table
           ELSE /\ table' = [table EXCEPT ![s] =
                     Install(@, File(IF want = 0 THEN "input" ELSE "output", 0))]
                /\ Return(s, Close(want) \o <<DupTo(fd, want)>> \o Close(fd))
    /\ UNCHANGED <<shell, status, made, fill, failed>>

CloseCall(s) ==
    /\ Makes(s, "close")
    /\ table' = [table EXCEPT ![s] = CloseFd(@, Head(todo[s]).fd)]
    /\ Return(s, <<>>)
    /\ UNCHANGED <<shell, status, made, fill, failed>>

\* dup under assert_eq!, whose failure is a panic of the child
DupCall(s) ==
    /\ Makes(s, "dup")
    /\ LET c == Head(todo[s])
       IN  /\ table' = [table EXCEPT ![s] = Dup(@, c.fd)]
           /\ IF c.fd \in Open(table[s]) /\ AllocFd(table[s]) = c.n
              THEN Return(s, <<>>) /\ UNCHANGED failed
              ELSE GiveUp(s, Panicked) /\ failed' = failed \cup {s}
    /\ UNCHANGED <<shell, status, made, fill>>

\* exec leaves the fd_table alone.  An empty command panics over its first word.
ExecCall(s) ==
    /\ Makes(s, "exec")
    /\ IF line[s].program = "found"
       THEN Return(s, <<>>) /\ status' = [status EXCEPT ![s] = "running"]
       ELSE /\ GiveUp(s, IF line[s].program = "empty" THEN Panicked
                         ELSE Complain(Message))
            /\ UNCHANGED status
    /\ UNCHANGED <<shell, table, made, fill, failed>>

\* The file behind descriptor fd of stage s.
FileOf(s, fd) == IF fd \in Open(table[s]) THEN table[s][fd] ELSE NoFile

\* The program makes a read or a write of its own choice, or ends.  It reads the
\* console byte by byte (getchar), as Stdin::read asserts.
Program(s) ==
    /\ status[s] = "running" /\ todo[s] = <<>>
    /\ \/ /\ made[s] < MaxCalls
          /\ made' = [made EXCEPT ![s] = @ + 1]
          /\ \E n \in 0 .. MaxLen :
               \/ /\ FileOf(s, 0) = Stdin => n = 1
                  /\ todo' = [todo EXCEPT ![s] = <<Read(n)>>]
               \/ todo' = [todo EXCEPT ![s] = <<Write(n)>>]
       \/ todo' = [todo EXCEPT ![s] = Exit] /\ UNCHANGED made
    /\ UNCHANGED <<shell, table, status, fill, failed>>

\* No table holds the write end of pipe k; that of a zombie counts.
AllWriteEndsClosed(k) == \A p \in Proc : WriteEnd(k) \notin Holds(table[p])

\* The bytes at hand have moved and the call goes on with n fewer to move.
Slice(s, n) == todo' = [todo EXCEPT ![s][1].n = @ - n]

\* A read returns when a byte is left over for the next one or at the end of the
\* file; otherwise it takes what there is and waits.
ReadPipe(s, k) ==
    LET n == Head(todo[s]).n
    IN  \/ /\ fill[k] > n
           /\ Return(s, <<>>) /\ fill' = [fill EXCEPT ![k] = @ - n]
        \/ /\ fill[k] <= n /\ AllWriteEndsClosed(k)
           /\ Return(s, <<>>) /\ fill' = [fill EXCEPT ![k] = 0]
        \/ /\ fill[k] \in 1 .. n /\ ~AllWriteEndsClosed(k)
           /\ Slice(s, fill[k]) /\ fill' = [fill EXCEPT ![k] = 0]

\* A write returns only while the ring has room left, also one of no bytes.
WritePipe(s, k) ==
    LET n     == Head(todo[s]).n
        space == Size - fill[k]
    IN  \/ /\ space > n
           /\ Return(s, <<>>) /\ fill' = [fill EXCEPT ![k] = @ + n]
        \/ /\ space \in 1 .. n
           /\ Slice(s, space) /\ fill' = [fill EXCEPT ![k] = Size]

\* sys_read and sys_write: on the console and on plain files, and with -1 on a
\* descriptor that is closed or the wrong end of a pipe, the call returns at once.
Transfer(s) ==
    /\ Makes(s, "read") \/ Makes(s, "write")
    /\ LET c == Head(todo[s])
           f == FileOf(s, c.fd)
       IN  IF f.kind = c.op
           THEN IF c.op = "read" THEN ReadPipe(s, f.pipe) ELSE WritePipe(s, f.pipe)
           ELSE Return(s, <<>>) /\ UNCHANGED fill
    /\ UNCHANGED <<shell, table, status, made, failed>>

\* exit_current_and_run_next: a zombie keeps its fd_table.
ExitCall(s) ==
    /\ Makes(s, "exit")
    /\ status' = [status EXCEPT ![s] = "zombie"]
    /\ Return(s, <<>>)
    /\ UNCHANGED <<shell, table, made, fill, failed>>

----------------------------------------------------------------------------
RunShell == MakePipe \/ Fork \/ CloseInShell \/ Wait
RunStage(s) == \/ OpenCall(s) \/ CloseCall(s) \/ DupCall(s) \/ ExecCall(s)
               \/ Program(s) \/ Transfer(s) \/ ExitCall(s)

Next == \/ \E l \in Lines : ReadLine(l)
        \/ RunShell
        \/ \E s \in Stage : RunStage(s)

\* No process that can go on is passed over for ever (NoStarvation of module
\* Stride).  Nothing makes the user type a line.
Fairness == WF_vars(RunShell) /\ \A s \in Stage : WF_vars(RunStage(s))

Spec == Init /\ [][Next]_vars /\ Fairness

----------------------------------------------------------------------------
TypeOK ==
    /\ line = <<>> \/ line \in Lines
    /\ at \in {"prompt", "pipe", "fork", "close", "wait"}
    /\ i \in 1 .. 2 * MaxStages
    /\ \A p \in Proc : Open(table[p]) \subseteq 0 .. 3 + 2 * MaxStages
    /\ status \in [Stage -> {"absent", "setup", "running", "zombie"}]
    /\ made \in [Stage -> 0 .. MaxCalls]
    /\ fill \in [Stage -> 0 .. Size]
    /\ failed \subseteq Stage

\* What the descriptors 0 and 1 of stage s have to be.
Source(s) == IF s > 1 THEN ReadEnd(s - 1)
             ELSE IF line[s].input = "" THEN Stdin ELSE File("input", 0)
Target(s) == IF s < Len(line) THEN WriteEnd(s)
             ELSE IF line[s].output = "" THEN Stdout ELSE File("output", 0)

\* A program starts with the descriptors the line asks for and no others: its
\* neighbours' pipe ends or its redirections at 0 and 1, the console at 2, and no
\* end of any pipe left over from the shell; the shell's assertions on dup hold.
WiredRight ==
    /\ failed = {}
    /\ \A s \in Stage : status[s] = "running" =>
          /\ Open(table[s]) = 0 .. 2
          /\ table[s][0] = Source(s) /\ table[s][1] = Target(s)
          /\ table[s][2] = Stdout

\* A line leaves nothing behind: at the prompt the shell has its three descriptors
\* and no others, no child is left running or as a zombie, and so no table holds
\* an end of a pipe, however the stages of the line have ended.
PromptIsClean ==
    at = "prompt" =>
       /\ Open(table[0]) = 0 .. 2
       /\ \A fd \in 0 .. 2 : table[0][fd] = InitialTable[fd]
       /\ \A s \in Stage : status[s] = "absent" /\ table[s] = NoTable

\* A stage writes into a full pipe and every process that can read it has ended:
\* there is no error and no signal for this writer, it waits for ever.
Stuck ==
    \E s \in Stage :
       /\ Makes(s, "write") /\ FileOf(s, 1).kind = "write"
       /\ LET k == FileOf(s, 1).pipe
          IN  /\ fill[k] = Size
              /\ \A r \in Stage : ReadEnd(k) \in Holds(table[r])
                                    => status[r] = "zombie"

\* Every line comes back to the prompt, whatever its stages do and in whatever
\* order they end, unless a stage writes to one that has ended before it.  It
\* takes the shell's close of every end, the children's, and waits from the first
\* stage to the last: a zombie counts as a writer until it is collected.
LineEnds == (at # "prompt") ~> (at = "prompt" \/ Stuck)
=============================================================================
