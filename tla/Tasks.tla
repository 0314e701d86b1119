------------------------------- MODULE Tasks -------------------------------
(***************************************************************************)
(* The life cycle of processes in os/src/task and os/src/syscall/process:  *)
(* the task control blocks (TCBs), the tree of parents and children, the   *)
(* pid allocator, the kernel stacks keyed by pid, the processor's current  *)
(* slot and the task manager's ready queue with its heap of pids.          *)
(*                                                                         *)
(* The kernel runs on one hart and is never interrupted in kernel mode, so *)
(* a system call is one step unless it calls suspend_current_and_run_next. *)
(* Every Arc<TaskControlBlock> the code clones, moves or drops is counted  *)
(* in strong; a TCB whose count falls to zero is dropped.  The order in    *)
(* which the heap yields pids is left open here (module Stride models it). *)
(***************************************************************************)
EXTENDS Naturals, Sequences

CONSTANTS Task,      \* identities of TCB allocations
          InitProc,  \* the TCB of the static INITPROC
          NoTask,    \* Option::None
          MaxPid,    \* bound on the pids the model hands out
          Stoppable  \* bound: tasks that SIGSTOP is sent to

ASSUME TaskAssumption == InitProc \in Task /\ NoTask \notin Task
ASSUME PidAssumption == MaxPid \in Nat

VARIABLES
    status,    \* "Free" (no such TCB), "Ready", "Running" or "Zombie"
    pid,       \* TCB.pid
    parent,    \* inner.parent, a Weak
    children,  \* inner.children, a Vec of Arcs
    held,      \* a blocked sys_read/sys_write holds a clone of its own TCB
    strong,    \* Arc::strong_count of the TCB
    frozen,    \* tasks in the loop of handle_signals, off user mode after SIGSTOP
    current,   \* PROCESSOR.current
    rq,        \* TASK_MANAGER.ready_queue, pid -> Arc
    heap,      \* how many entries of the scheduler's heap carry the pid
    nextPid,   \* PidAllocator.current
    recycled,  \* PidAllocator.recycled
    kstack,    \* pids whose kernel stack is mapped in KERNEL_SPACE
    panic      \* "none", or the assertion that stopped the kernel

tcbs  == <<status, pid, parent, children, held, strong, frozen>>
sched == <<current, rq, heap>>
pids  == <<nextPid, recycled, kstack>>
vars  == <<status, pid, parent, children, held, strong, frozen, current,
           rq, heap, nextPid, recycled, kstack, panic>>

Pids == 0 .. MaxPid

Alloc(t) == status[t] # "Free"
Live(t)  == status[t] \in {"Ready", "Running"}

\* A panic shuts the machine down: nothing runs after it.
Crash(reason) == panic' = reason /\ UNCHANGED <<tcbs, sched, pids>>

----------------------------------------------------------------------------
\* Boot: INITPROC is created with the first pid and add_initproc queues it.
Init ==
    /\ status = [t \in Task |-> IF t = InitProc THEN "Ready" ELSE "Free"]
    /\ pid = [t \in Task |-> 0]
    /\ parent = [t \in Task |-> NoTask]
    /\ children = [t \in Task |-> <<>>]
    /\ held = [t \in Task |-> FALSE]
    /\ strong = [t \in Task |-> IF t = InitProc THEN 2 ELSE 0]
    /\ frozen = {}
    /\ current = NoTask
    /\ rq = [p \in Pids |-> IF p = 0 THEN InitProc ELSE NoTask]
    /\ heap = [p \in Pids |-> IF p = 0 THEN 1 ELSE 0]
    /\ nextPid = 1
    /\ recycled = <<>>
    /\ kstack = {0}
    /\ panic = "none"

----------------------------------------------------------------------------
\* Faulty variant: a task blocked in a call counts as running its program.
InUser_IgnoresCall(t) == panic = "none" /\ current = t /\ t \notin frozen

\* The user program of the current task is running and may trap.
InUser(t) == panic = "none" /\ current = t /\ ~held[t] /\ t \notin frozen

\* run_tasks: the idle loop pops one pid.  TaskManager::fetch drops a pid that
\* is not in the ready queue and goes on, otherwise that task runs.
Dispatch(p) ==
    /\ panic = "none" /\ current = NoTask
    /\ heap[p] > 0
    /\ heap' = [heap EXCEPT ![p] = @ - 1]
    /\ IF rq[p] = NoTask
       THEN UNCHANGED <<current, rq, status>>
       ELSE /\ current' = rq[p]
            /\ rq' = [rq EXCEPT ![p] = NoTask]
            /\ status' = [status EXCEPT ![rq[p]] = "Running"]
    /\ UNCHANGED <<pid, parent, children, held, strong, frozen, pids, panic>>

\* TaskManager::add moves an Arc into the ready queue under the task's pid.
AddTask(t, p) ==
    /\ heap' = [heap EXCEPT ![p] = @ + 1]
    /\ rq' = [rq EXCEPT ![p] = t]

\* Faulty variant: the status is not set back.
Suspend_KeepsStatus(t) ==
    /\ current' = NoTask
    /\ AddTask(t, pid[t])
    /\ UNCHANGED status

\* suspend_current_and_run_next: the Arc taken from the processor moves to
\* the ready queue.
Suspend(t) ==
    /\ current' = NoTask
    /\ status' = [status EXCEPT ![t] = "Ready"]
    /\ AddTask(t, pid[t])

\* sys_yield, or a timer interrupt in user mode.
Yield(t) ==
    /\ InUser(t)
    /\ Suspend(t)
    /\ UNCHANGED <<pid, parent, children, held, strong, frozen, pids, panic>>

\* sys_read or sys_write on a file that is not ready: the system call clones
\* the current Arc and the file suspends with the clone on the kernel stack.
Block(t) ==
    /\ InUser(t)
    /\ held' = [held EXCEPT ![t] = TRUE]
    /\ strong' = [strong EXCEPT ![t] = @ + 1]
    /\ Suspend(t)
    /\ UNCHANGED <<pid, parent, children, frozen, pids, panic>>

\* The file is still not ready when the blocked task runs again.
BlockAgain(t) ==
    /\ panic = "none" /\ current = t /\ held[t]
    /\ Suspend(t)
    /\ UNCHANGED <<pid, parent, children, held, strong, frozen, pids, panic>>

\* Faulty variant: the clone is leaked.
Unblock_Leaks(t) ==
    /\ panic = "none" /\ current = t /\ held[t]
    /\ held' = [held EXCEPT ![t] = FALSE]
    /\ UNCHANGED <<status, pid, parent, children, strong, frozen, sched, pids, panic>>

\* The system call completes and drops its clone.
Unblock(t) ==
    /\ panic = "none" /\ current = t /\ held[t]
    /\ held' = [held EXCEPT ![t] = FALSE]
    /\ strong' = [strong EXCEPT ![t] = @ - 1]
    /\ UNCHANGED <<status, pid, parent, children, frozen, sched, pids, panic>>

\* handle_signals at the end of a trap meets SIGSTOP, which any process may send to any
\* pid, INITPROC's too: the task suspends itself in the loop of handle_signals ...
Stop(t) ==
    /\ InUser(t) /\ t \in Stoppable
    /\ frozen' = frozen \cup {t}
    /\ Suspend(t)
    /\ UNCHANGED <<pid, parent, children, held, strong, pids, panic>>

\* ... and again each time it gets the processor, while the flag is set ...
StayStopped(t) ==
    /\ panic = "none" /\ current = t /\ t \in frozen
    /\ Suspend(t)
    /\ UNCHANGED <<pid, parent, children, held, strong, frozen, pids, panic>>

\* ... until SIGCONT, or a signal that kills it, has been seen there.
Continue(t) ==
    /\ panic = "none" /\ current = t /\ t \in frozen
    /\ frozen' = frozen \ {t}
    /\ UNCHANGED <<status, pid, parent, children, held, strong, sched, pids, panic>>

----------------------------------------------------------------------------
\* Faulty variant: the pid popped from recycled is not the one handed out.
AllocPid_Fresh == nextPid

\* PidAllocator::alloc reuses the pid freed last, else takes a fresh one.
AllocPid ==
    IF recycled # <<>> THEN recycled[Len(recycled)] ELSE nextPid

\* sys_fork: TaskControlBlock::fork builds the child c (one Arc in the parent's
\* children, the returned one goes to the ready queue).  Mapping a kernel
\* stack that is still mapped trips the assertion of PageTable::map.
Fork(t, c) ==
    /\ InUser(t)
    /\ ~Alloc(c)
    /\ AllocPid <= MaxPid
    /\ IF AllocPid \in kstack
       THEN Crash("KernelStackMapped")
       ELSE /\ IF recycled # <<>>
               THEN /\ recycled' = SubSeq(recycled, 1, Len(recycled) - 1)
                    /\ UNCHANGED nextPid
               ELSE /\ nextPid' = nextPid + 1
                    /\ UNCHANGED recycled
            /\ kstack' = kstack \cup {AllocPid}
            /\ status' = [status EXCEPT ![c] = "Ready"]
            /\ pid' = [pid EXCEPT ![c] = AllocPid]
            /\ parent' = [parent EXCEPT ![c] = t]
            /\ children' = [children EXCEPT ![t] = Append(@, c), ![c] = <<>>]
            /\ held' = [held EXCEPT ![c] = FALSE]
            /\ strong' = [strong EXCEPT ![c] = 2]
            /\ AddTask(c, AllocPid)
            /\ frozen' = frozen \ {c}
            /\ UNCHANGED <<current, panic>>

\* Faulty variant: the parents are left as they are, or skip one generation only.
Adopt_Not(t) == parent
Adopt_ToParent(t) ==
    [c \in Task |-> IF parent[c] = t THEN parent[t] ELSE parent[c]]

\* exit_current_and_run_next sets the parent of each child to INITPROC ...
Adopt(t) ==
    [c \in Task |-> IF \E i \in DOMAIN children[t] : children[t][i] = c
                    THEN InitProc ELSE parent[c]]

\* Faulty variant: the children are cleared and not handed on.
MoveVec_Drops(t) == [children EXCEPT ![t] = <<>>]

\* ... and pushes the child to INITPROC's Vec.
MoveVec(t) == [children EXCEPT ![InitProc] = @ \o children[t], ![t] = <<>>]

\* exit_current_and_run_next, from sys_exit or for a fatal signal: the Arc of
\* the processor is dropped and the children move to INITPROC.  The function
\* holds the borrow of the exiting TCB while it borrows INITPROC, so an exit of
\* INITPROC itself panics.
Exit(t) ==
    /\ InUser(t)
    /\ IF t = InitProc
       THEN Crash("InitProcBorrowed")
       ELSE /\ status' = [status EXCEPT ![t] = "Zombie"]
            /\ parent' = Adopt(t)
            /\ children' = MoveVec(t)
            /\ strong' = [strong EXCEPT ![t] = @ - 1]
            /\ current' = NoTask
            /\ UNCHANGED <<pid, held, frozen, rq, heap, pids, panic>>

\* Vec::remove
Remove(s, i) == [j \in 1 .. Len(s) - 1 |-> IF j < i THEN s[j] ELSE s[j + 1]]

\* The children waitpid(arg) accepts; arg is a pid or -1, written NoTask.
Matches(arg, c) == arg = NoTask \/ arg = pid[c]

\* sys_waitpid when a zombie child matches: the first one in the Vec is removed,
\* must be the last reference, and is dropped: its pid is deallocated, then
\* its kernel stack unmapped.
Reap(t, arg, i) ==
    LET c == children[t][i]
    IN  /\ InUser(t)
        /\ status[c] = "Zombie" /\ Matches(arg, c)
        /\ \A j \in 1 .. i - 1 :
              ~(status[children[t][j]] = "Zombie" /\ Matches(arg, children[t][j]))
        /\ IF strong[c] # 1
           THEN Crash("StrongCount")
           ELSE IF \/ pid[c] >= nextPid
                   \/ \E j \in DOMAIN recycled : recycled[j] = pid[c]
                THEN Crash("PidDeallocated")
                ELSE /\ children' = [children EXCEPT ![t] = Remove(@, i)]
                     /\ strong' = [strong EXCEPT ![c] = 0]
                     /\ status' = [status EXCEPT ![c] = "Free"]
                     /\ parent' = [parent EXCEPT ![c] = NoTask]
                     /\ recycled' = Append(recycled, pid[c])
                     /\ kstack' = kstack \ {pid[c]}
                     /\ UNCHANGED <<pid, held, frozen, sched, nextPid, panic>>

ReapAny(t) == \E i \in DOMAIN children[t] : Reap(t, NoTask, i)

Next ==
    \/ \E p \in Pids : Dispatch(p)
    \/ \E t \in Task :
          \/ Yield(t)
          \/ Block(t)
          \/ BlockAgain(t)
          \/ Unblock(t)
          \/ Stop(t)
          \/ StayStopped(t)
          \/ Continue(t)
          \/ \E c \in Task : Fork(t, c)
          \/ Exit(t)
          \/ \E i \in DOMAIN children[t] :
                \E arg \in Pids \cup {NoTask} : Reap(t, arg, i)

Spec == Init /\ [][Next]_vars

----------------------------------------------------------------------------
TypeOK ==
    /\ status \in [Task -> {"Free", "Ready", "Running", "Zombie"}]
    /\ pid \in [Task -> Pids]
    /\ parent \in [Task -> Task \cup {NoTask}]
    /\ children \in [Task -> Seq(Task)]
    /\ held \in [Task -> BOOLEAN]
    /\ strong \in [Task -> Nat]
    /\ frozen \in SUBSET Task
    /\ current \in Task \cup {NoTask}
    /\ rq \in [Pids -> Task \cup {NoTask}]
    /\ heap \in [Pids -> Nat]
    /\ nextPid \in 0 .. MaxPid + 1
    /\ recycled \in Seq(Pids)
    /\ kstack \in SUBSET Pids
    /\ panic \in {"none", "KernelStackMapped",
                  "InitProcBorrowed", "StrongCount",
                  "PidDeallocated"}

\* The places that can hold the Arc of a TCB.
InStatic(t) == IF t = InitProc THEN 1 ELSE 0
InCpu(t)    == IF current = t THEN 1 ELSE 0
InQueue(t)  == IF \E p \in Pids : rq[p] = t THEN 1 ELSE 0
InVec(t)    == IF \E q \in Task : \E i \in DOMAIN children[q] : children[q][i] = t
               THEN 1 ELSE 0
InCall(t)   == IF held[t] THEN 1 ELSE 0

\* pid2task, the lookup of sys_kill: the current task or one that is queued.
Pid2Task(p) ==
    IF current # NoTask /\ pid[current] = p THEN current ELSE rq[p]

\* The processor runs exactly the task whose status is Running, every Ready task
\* is in the ready queue under its own pid and nothing else is, and the heap
\* holds one entry for each queued pid: fetch never meets a stale pid.
QueueInSync ==
    /\ \A t \in Task : (status[t] = "Running") <=> (current = t)
    /\ \A t \in Task : status[t] = "Ready" => rq[pid[t]] = t
    /\ \A p \in Pids : rq[p] # NoTask => status[rq[p]] = "Ready" /\ pid[rq[p]] = p
    /\ \A p \in Pids : heap[p] = IF rq[p] # NoTask THEN 1 ELSE 0

\* The parts of the pid bookkeeping: owned pids are distinct, were handed out
\* and are not free; free pids were handed out and are free once; every pid
\* handed out is owned or free; the kernel stacks are those of the owned pids.
OwnedDistinct ==
    \A t, u \in Task : Alloc(t) /\ Alloc(u) /\ pid[t] = pid[u] => t = u
OwnedInUse ==
    \A t \in Task : Alloc(t) => /\ pid[t] < nextPid
                                /\ \A i \in DOMAIN recycled : recycled[i] # pid[t]
FreeOnce ==
    /\ \A i \in DOMAIN recycled : recycled[i] < nextPid
    /\ \A i, j \in DOMAIN recycled : recycled[i] = recycled[j] => i = j
OwnedOrFree ==
    \A p \in Pids : p < nextPid =>
       \/ \E t \in Task : Alloc(t) /\ pid[t] = p
       \/ \E i \in DOMAIN recycled : recycled[i] = p
StackPerOwner ==
    \A p \in Pids : p \in kstack <=> \E t \in Task : Alloc(t) /\ pid[t] = p

\* Every pid ever handed out is owned by exactly one TCB or waits in recycled
\* exactly once, and the kernel stacks mapped are those of the owned pids:
\* PidAllocator::dealloc and PageTable::map never assert.
PidPartition ==
    OwnedDistinct /\ OwnedInUse /\ FreeOnce /\ OwnedOrFree /\ StackPerOwner

\* The parts of the family tree: INITPROC is live; an entry of a children Vec
\* is an allocated TCB whose parent is the live owner of the Vec; no entry is
\* there twice; and every TCB but INITPROC is in its parent's Vec.
RootLive == Live(InitProc)
EntryOfParent ==
    \A q \in Task : \A i \in DOMAIN children[q] :
       /\ Alloc(children[q][i]) /\ children[q][i] # InitProc
       /\ parent[children[q][i]] = q /\ Live(q)
EntryOnce ==
    \A q \in Task : \A i, j \in DOMAIN children[q] :
       children[q][i] = children[q][j] => i = j
ParentHasEntry ==
    \A c \in Task : Alloc(c) /\ c # InitProc =>
       /\ parent[c] \in Task
       /\ \E i \in DOMAIN children[parent[c]] : children[parent[c]][i] = c

\* Every process but INITPROC stands exactly once in exactly one children Vec,
\* that of its parent, and that parent has not exited: whatever order forks,
\* exits and waits happen in, no process is lost and none has two collectors.
FamilyTree == RootLive /\ EntryOfParent /\ EntryOnce /\ ParentHasEntry

\* The strong count of every TCB is the number of places that hold its Arc: the
\* static, the processor, the ready queue, a children Vec, a blocked call.
StrongCountExact ==
    \A t \in Task :
       strong[t] = InStatic(t) + InCpu(t) + InQueue(t) + InVec(t) + InCall(t)

\* The lookup of sys_kill finds each live process under its pid, also after the
\* pid has been reused, and never returns a zombie or a freed TCB.
LookupExact ==
    panic = "none" =>
       /\ \A t \in Task : Live(t) => Pid2Task(pid[t]) = t
       /\ \A p \in Pids : Pid2Task(p) # NoTask => Live(Pid2Task(p)) /\ pid[Pid2Task(p)] = p

\* The assertions of sys_waitpid, PidAllocator::dealloc and PageTable::map on
\* these paths hold; only an exit of INITPROC stops the kernel.
OnlyInitExitPanics == panic \in {"none", "InitProcBorrowed"}

\* What the invariants above need to be inductive and the refinement to hold:
\* blocked tasks are live, a TCB that is free or INITPROC's has no parent.
HeldIsLive == \A t \in Task : held[t] => Live(t)
NoParent == \A t \in Task : ~Alloc(t) \/ t = InitProc => parent[t] = NoTask

\* A task blocked in a system call keeps its TCB alive and stays a live process:
\* it is neither reaped nor turned into a zombie under its own feet.
BlockedStaysLive ==
    [][\A t \in Task : held[t] => Live(t)' /\ pid'[t] = pid[t]]_vars

----------------------------------------------------------------------------
\* The process subsystem implements the abstract life cycle.
AbstractState ==
    [t \in Task |-> IF Live(t) THEN "live"
                    ELSE IF status[t] = "Zombie" THEN "zombie" ELSE "absent"]

LC == INSTANCE Lifecycle WITH Proc <- Task, First <- InitProc, None <- NoTask,
                              state <- AbstractState, parentOf <- parent

LifecycleSpec == LC!ASpec

----------------------------------------------------------------------------
\* Fairness.  Stride scheduling starves no queued task (module Stride), the timer
\* takes the processor from a running task, the loops of blocked and of stopped tasks
\* suspend, and initproc.rs calls wait() again and again when it is in user mode and never
\* waits on a file (its console writes complete).  Other tasks may stay blocked for ever,
\* and nobody has to send SIGCONT to a task that is stopped.
Fairness ==
    /\ \A p \in Pids : SF_vars(Dispatch(p))
    /\ \A t \in Task : WF_vars(Yield(t) \/ BlockAgain(t) \/ StayStopped(t))
    /\ SF_vars(Unblock(InitProc))
    /\ SF_vars(ReapAny(InitProc))

FairSpec == Spec /\ Fairness

\* Unless INITPROC stays stopped for ever, which a SIGSTOP to pid 0 without a SIGCONT does,
\* a zombie whose parent is INITPROC, adopted ones included, is reaped and its TCB freed,
\* or the kernel has panicked.
ZombiesOfInitReaped ==
    []<>(InitProc \notin frozen) =>
       \A t \in Task : (status[t] = "Zombie" /\ parent[t] = InitProc)
                         ~> (status[t] = "Free" \/ panic # "none")

============================================================================
