------------------------------- MODULE Stride -------------------------------
(***************************************************************************)
(* The stride scheduler of os/src/task/scheduler.rs and the places that    *)
(* feed it: TaskManager::add and fetch, sys_set_priority, fork, suspend    *)
(* and exit.  A pass is a machine word that wraps around; the comparison   *)
(* of heap entries is meant to undo the wrap.  Word is 2^64 in the build.  *)
(***************************************************************************)
EXTENDS Naturals

CONSTANTS Task,         \* tasks, in the heap known by their pid
          InitProc,     \* queued at boot
          NoTask,       \* no task is current
          Half,         \* half the number of values of a usize
          DefaultPrio   \* the priority INITPROC starts with (16)

Word == 2 * Half
Big  == Word - 1        \* BIG_STRIDE, usize::MAX

\* What sys_set_priority accepts: at least 2 as a signed integer.
Prios == 2 .. Half - 1

ASSUME StrideAssumption ==
    /\ InitProc \in Task /\ NoTask \notin Task
    /\ Half \in Nat
    /\ DefaultPrio \in Prios

VARIABLES
    prio,     \* inner.priority
    pass,     \* inner.pass, a usize
    heap,     \* the BinaryHeap: entries [id, pass]
    current,  \* the task on the processor
    vt        \* history: the pass of the task dispatched last

svars == <<prio, pass, heap, current, vt>>

Usize == 0 .. Big

\* usize addition in a release build.
WrapAdd(a, b) == IF a + b >= Word THEN a + b - Word ELSE a + b

----------------------------------------------------------------------------
\* Stride::abs_diff
AbsDiff(x, y) ==
    IF x.pass < y.pass THEN y.pass - x.pass ELSE x.pass - y.pass

\* Faulty variant: the order of passes, so that the greatest pass is popped.
Cmp_Forward(x, y) == CASE x.pass < y.pass -> "Less"
                       [] x.pass = y.pass -> "Equal"
                       [] x.pass > y.pass -> "Greater"

\* Ord::cmp is the reverse of the order of passes.
Cmp(x, y) == CASE x.pass < y.pass -> "Greater"
               [] x.pass = y.pass -> "Equal"
               [] x.pass > y.pass -> "Less"

Reverse(o) == CASE o = "Less"    -> "Greater"
                [] o = "Equal"   -> "Equal"
                [] o = "Greater" -> "Less"

\* Faulty variant: wrapped passes are not told apart.
PartialCmp_Plain(x, y) == Cmp(x, y)

\* PartialOrd::partial_cmp, the comparison BinaryHeap calls.
PartialCmp(x, y) ==
    IF AbsDiff(x, y) <= Big \div 2 THEN Cmp(x, y) ELSE Reverse(Cmp(x, y))

\* BinaryHeap::pop returns a greatest entry, and some entry if the comparison is
\* no total order on the contents.
Popped ==
    LET greatest == {e \in heap : \A o \in heap : PartialCmp(o, e) # "Greater"}
    IN  IF greatest # {} THEN greatest ELSE heap

----------------------------------------------------------------------------
Queued == {e.id : e \in heap}

\* Faulty variant: the quotient is the wrong way round.
StrideOf_Inverted(p) == p \div Big

\* BIG_STRIDE / priority
StrideOf(p) == Big \div p

\* TaskManager::add: advance the pass by one stride, then push the entry.
Add(t, from, p) ==
    LET new == WrapAdd(from, StrideOf(p))
    IN  /\ pass' = [pass EXCEPT ![t] = new]
        /\ heap' = heap \cup {[id |-> t, pass |-> new]}

\* INITPROC is created with pass 0 and added.
StrideInit ==
    /\ prio = [t \in Task |-> DefaultPrio]
    /\ pass = [t \in Task |-> IF t = InitProc THEN StrideOf(DefaultPrio) ELSE 0]
    /\ heap = {[id |-> InitProc, pass |-> StrideOf(DefaultPrio)]}
    /\ current = NoTask
    /\ vt = 0

\* run_tasks with fetch
Dispatch ==
    /\ current = NoTask
    /\ \E e \in Popped :
          /\ heap' = heap \ {e}
          /\ current' = e.id
          /\ vt' = e.pass
    /\ UNCHANGED <<prio, pass>>

\* suspend_current_and_run_next
Suspend(t) ==
    /\ current = t
    /\ current' = NoTask
    /\ Add(t, pass[t], prio[t])
    /\ UNCHANGED <<prio, vt>>

\* sys_set_priority of an accepted priority; other values change nothing.
SetPriority(t, p) ==
    /\ current = t
    /\ p \in Prios
    /\ prio' = [prio EXCEPT ![t] = p]
    /\ UNCHANGED <<pass, heap, current, vt>>

\* Faulty variant: the child starts at pass 0.
Fork_ZeroPass(t, c) ==
    /\ current = t
    /\ c \notin Queued /\ c # t
    /\ prio' = [prio EXCEPT ![c] = prio[t]]
    /\ Add(c, 0, prio[t])
    /\ UNCHANGED <<current, vt>>

\* sys_fork: the child c copies priority and pass, then is added.
Fork(t, c) ==
    /\ current = t
    /\ c \notin Queued /\ c # t
    /\ prio' = [prio EXCEPT ![c] = prio[t]]
    /\ Add(c, pass[t], prio[t])
    /\ UNCHANGED <<current, vt>>

\* exit_current_and_run_next; INITPROC does not exit (module Tasks).
ExitCurrent(t) ==
    /\ current = t /\ t # InitProc
    /\ current' = NoTask
    /\ UNCHANGED <<prio, pass, heap, vt>>

StrideNext ==
    \/ Dispatch
    \/ \E t \in Task : \/ Suspend(t)
                       \/ ExitCurrent(t)
                       \/ \E p \in Prios : SetPriority(t, p)
                       \/ \E c \in Task : Fork(t, c)

StrideSpec == StrideInit /\ [][StrideNext]_svars

\* The idle loop dispatches, and the timer or an exit takes the processor away.
FairStrideSpec ==
    /\ StrideSpec
    /\ WF_svars(Dispatch)
    /\ \A t \in Task : WF_svars(Suspend(t) \/ ExitCurrent(t))

----------------------------------------------------------------------------
\* Distance on the circle of words from the virtual time to a pass.
Lag(p) == IF p >= vt THEN p - vt ELSE p + Word - vt

StrideTypeOK ==
    /\ prio \in [Task -> Prios]
    /\ pass \in [Task -> Usize]
    /\ heap \in SUBSET [id : Task, pass : Usize]
    /\ current \in Task \cup {NoTask}
    /\ vt \in Usize

\* A task is on the processor or has one heap entry, never both and never two
\* entries, and an entry repeats the pass of its TCB although the two are
\* written at different times.
HeapMatchesTcbs ==
    /\ \A e \in heap : e.pass = pass[e.id] /\ e.id # current
    /\ \A e, o \in heap : e.id = o.id => e = o
    /\ current # NoTask => pass[current] = vt

\* A queued task is never more than one stride of its own priority ahead of the
\* virtual time: this is its share, and with priorities of at least 2 it keeps
\* all passes within half of the circle of words.
LagWithinStride == \A e \in heap : Lag(e.pass) <= StrideOf(prio[e.id])

\* On the contents of the heap the wrapped comparison is the order of the true
\* distances, however often passes have overflowed: BinaryHeap sees a total
\* order and pops the task that stride scheduling prescribes.
ComparisonExact ==
    \A x, y \in heap :
       /\ PartialCmp(x, y) = "Greater" <=> Lag(x.pass) < Lag(y.pass)
       /\ PartialCmp(x, y) = "Equal" <=> Lag(x.pass) = Lag(y.pass)

Lags == [t \in Queued |-> Lag(pass[t])]

\* The word-sized scheduler implements stride scheduling with unbounded passes.
Ideal == INSTANCE IdealStride WITH
            Proc <- Task, First <- InitProc, None <- NoTask,
            Strides <- {StrideOf(p) : p \in Prios},
            running <- current,
            lag <- Lags

IdealSpec == Ideal!ISpec

\* No queued task waits for ever, whatever the priorities of the others.
NoStarvation == \A t \in Task : t \in Queued ~> current = t
=============================================================================
