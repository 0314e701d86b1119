---------------------------- MODULE TasksProofs ----------------------------
(***************************************************************************)
(* Proofs about module Tasks, for every set of TCBs and every bound on     *)
(* pids.  None of the invariants is inductive alone: that a reaped TCB     *)
(* has one reference needs the queue and the tree, the tree needs types,   *)
(* types need the counts.  IInv is their conjunction.                      *)
(***************************************************************************)
EXTENDS Tasks, TLAPS

IInv == /\ TypeOK
        /\ QueueInSync
        /\ PidPartition
        /\ FamilyTree
        /\ StrongCountExact
        /\ HeldIsLive
        /\ NoParent
        /\ OnlyInitExitPanics

\* Vec::remove shortens the Vec by one and keeps the other elements in order.
LEMMA RemoveFacts ==
    ASSUME NEW S, NEW s \in Seq(S), NEW i \in DOMAIN s
    PROVE  /\ Remove(s, i) \in Seq(S)
           /\ Len(Remove(s, i)) = Len(s) - 1
           /\ \A j \in 1 .. Len(s) - 1 :
                 Remove(s, i)[j] = IF j < i THEN s[j] ELSE s[j + 1]
  <1>1. Len(s) \in Nat /\ DOMAIN s = 1 .. Len(s) /\ Len(s) - 1 \in Nat
    OBVIOUS
  <1>2. \A j \in 1 .. Len(s) - 1 : (IF j < i THEN s[j] ELSE s[j + 1]) \in S
    BY <1>1
  <1> QED  BY <1>1, <1>2 DEF Remove

\* Pushing the elements of one Vec to the end of another.
LEMMA ConcatFacts ==
    ASSUME NEW S, NEW a \in Seq(S), NEW b \in Seq(S)
    PROVE  /\ DOMAIN (a \o b) = 1 .. Len(a) + Len(b)
           /\ \A i \in 1 .. Len(a) + Len(b) :
                 (a \o b)[i] = IF i <= Len(a) THEN a[i] ELSE b[i - Len(a)]
  OBVIOUS

\* The boot state satisfies the inductive invariant.
LEMMA InitIInv == Init => IInv
  <1> SUFFICES ASSUME Init PROVE IInv
    OBVIOUS
  <1> USE TaskAssumption, PidAssumption DEF Init, Pids
  <1>1. TypeOK
    BY DEF TypeOK
  <1>2. QueueInSync
    <2>1. \A t \in Task : (status[t] = "Running") <=> (current = t)
      OBVIOUS
    <2>2. \A t \in Task : status[t] = "Ready" => rq[pid[t]] = t
      OBVIOUS
    <2>3. \A p \in Pids : rq[p] # NoTask => status[rq[p]] = "Ready" /\ pid[rq[p]] = p
      OBVIOUS
    <2>4. \A p \in Pids : heap[p] = IF rq[p] # NoTask THEN 1 ELSE 0
      OBVIOUS
    <2> QED  BY <2>1, <2>2, <2>3, <2>4 DEF QueueInSync
  <1>3. PidPartition
    BY DEF PidPartition, OwnedDistinct, OwnedInUse, FreeOnce, OwnedOrFree,
           StackPerOwner, Alloc
  <1>4. FamilyTree
    BY DEF FamilyTree, RootLive, EntryOfParent, EntryOnce, ParentHasEntry, Alloc, Live
  <1>5. StrongCountExact
    <2> SUFFICES ASSUME NEW t \in Task
                 PROVE strong[t] = InStatic(t) + InCpu(t) + InQueue(t) + InVec(t) + InCall(t)
      BY DEF StrongCountExact
    <2>1. InVec(t) = 0 /\ InCall(t) = 0 /\ InCpu(t) = 0
      BY DEF InVec, InCall, InCpu
    <2>2. InQueue(t) = InStatic(t)
      BY DEF InQueue, InStatic
    <2> QED  BY <2>1, <2>2 DEF InStatic
  <1>6. HeldIsLive /\ NoParent /\ OnlyInitExitPanics
    BY DEF HeldIsLive, NoParent, OnlyInitExitPanics, Alloc
  <1> QED  BY <1>1, <1>2, <1>3, <1>4, <1>5, <1>6 DEF IInv

----------------------------------------------------------------------------
\* The count with the queue and the tree folded in: a TCB has one reference for
\* being live, one for being allocated (its parent's Vec, or the static) and
\* one for a blocked call.
LiveRef(t)  == IF Live(t) THEN 1 ELSE 0
AllocRef(t) == IF Alloc(t) THEN 1 ELSE 0

CountInv == \A t \in Task : strong[t] = LiveRef(t) + AllocRef(t) + InCall(t)

\* In a state where queue and tree are in order the two counts agree.
LEMMA CountForm ==
    TypeOK /\ QueueInSync /\ FamilyTree => (StrongCountExact <=> CountInv)
  <1> SUFFICES ASSUME TypeOK, QueueInSync, FamilyTree
               PROVE  StrongCountExact <=> CountInv
    OBVIOUS
  <1> USE TaskAssumption
  <1>1. ASSUME NEW t \in Task
        PROVE  /\ InCpu(t) + InQueue(t) = LiveRef(t)
               /\ InStatic(t) + InVec(t) = AllocRef(t)
    <2>1. (current = t) <=> (status[t] = "Running")
      BY DEF QueueInSync
    <2>2. (\E p \in Pids : rq[p] = t) <=> (status[t] = "Ready")
      <3>1. ASSUME status[t] = "Ready" PROVE pid[t] \in Pids /\ rq[pid[t]] = t
        BY <3>1 DEF QueueInSync, TypeOK
      <3>2. ASSUME NEW p \in Pids, rq[p] = t PROVE status[t] = "Ready"
        BY <3>2 DEF QueueInSync
      <3> QED  BY <3>1, <3>2
    <2>3. (\E q \in Task : \E i \in DOMAIN children[q] : children[q][i] = t)
              <=> (Alloc(t) /\ t # InitProc)
      BY DEF FamilyTree, EntryOfParent, ParentHasEntry
    <2>4. t = InitProc => Alloc(t)
      BY DEF FamilyTree, RootLive, Alloc, Live
    <2>5. InCpu(t) + InQueue(t) = LiveRef(t)
      BY <2>1, <2>2 DEF InCpu, InQueue, LiveRef, Live
    <2>6. InStatic(t) + InVec(t) = AllocRef(t)
      BY <2>3, <2>4 DEF InStatic, InVec, AllocRef
    <2> QED  BY <2>5, <2>6
  <1>2. \A t \in Task : /\ InCpu(t) \in Nat /\ InQueue(t) \in Nat /\ LiveRef(t) \in Nat
                        /\ InStatic(t) \in Nat /\ InVec(t) \in Nat
                        /\ AllocRef(t) \in Nat /\ InCall(t) \in Nat
    BY DEF InCpu, InQueue, LiveRef, InStatic, InVec, AllocRef, InCall
  <1>3. \A t \in Task : InStatic(t) + InCpu(t) + InQueue(t) + InVec(t) + InCall(t)
                          = LiveRef(t) + AllocRef(t) + InCall(t)
    <2> TAKE t \in Task
    <2>1. ASSUME NEW a \in Nat, NEW b \in Nat, NEW c \in Nat, NEW d \in Nat,
                 NEW e \in Nat
          PROVE  a + b + c + d + e = (b + c) + (a + d) + e
      OBVIOUS
    <2> QED  BY <1>1, <1>2, <2>1
  <1> QED  BY <1>3 DEF StrongCountExact, CountInv

\* A step that leaves pids and the tree alone, and changes a status only between
\* Ready and Running, keeps the invariants about them.
LEMMA TreeFrame ==
    ASSUME TypeOK, PidPartition, FamilyTree, NoParent,
           UNCHANGED <<pid, parent, children, nextPid, recycled, kstack>>,
           \A u \in Task : \/ status'[u] = status[u]
                           \/ /\ status[u] \in {"Ready", "Running"}
                              /\ status'[u] \in {"Ready", "Running"}
    PROVE  PidPartition' /\ FamilyTree' /\ NoParent'
  <1> USE TaskAssumption DEF Alloc, Live
  <1>1. PidPartition'
    BY DEF PidPartition, OwnedDistinct, OwnedInUse, FreeOnce, OwnedOrFree,
           StackPerOwner
  <1>2. RootLive'
    BY DEF FamilyTree, RootLive
  <1>3. EntryOfParent'
    <2> SUFFICES ASSUME NEW q \in Task, NEW i \in DOMAIN children[q]
                 PROVE  /\ status'[children[q][i]] # "Free"
                        /\ children[q][i] # InitProc
                        /\ parent[children[q][i]] = q
                        /\ status'[q] \in {"Ready", "Running"}
      BY DEF EntryOfParent
    <2>1. children[q][i] \in Task
      BY DEF TypeOK
    <2> QED  BY <2>1 DEF FamilyTree, EntryOfParent
  <1>4. EntryOnce'
    BY DEF FamilyTree, EntryOnce
  <1>5. ParentHasEntry'
    BY DEF FamilyTree, ParentHasEntry
  <1>6. NoParent'
    BY DEF NoParent
  <1> QED  BY <1>1, <1>2, <1>3, <1>4, <1>5, <1>6 DEF FamilyTree

\* The idle loop hands the processor to a queued task.
LEMMA DispatchIInv ==
    ASSUME IInv, NEW p \in Pids, Dispatch(p)
    PROVE  IInv'
  <1> USE TaskAssumption
  <1>1. heap[p] > 0 /\ rq[p] # NoTask
    BY DEF Dispatch, IInv, QueueInSync
  <1>2. PICK t \in Task : t = rq[p]
    BY <1>1 DEF IInv, TypeOK
  <1>3. status[t] = "Ready" /\ pid[t] = p /\ current = NoTask
    BY <1>1, <1>2 DEF IInv, QueueInSync, Dispatch
  <1>4. /\ current' = t
        /\ rq' = [rq EXCEPT ![p] = NoTask]
        /\ heap' = [heap EXCEPT ![p] = @ - 1]
        /\ status' = [status EXCEPT ![t] = "Running"]
        /\ UNCHANGED <<pid, parent, children, held, strong, frozen, panic>>
        /\ UNCHANGED <<nextPid, recycled, kstack>>
    BY <1>1, <1>2 DEF Dispatch, pids
  <1>5. TypeOK'
    BY <1>1, <1>2, <1>4 DEF IInv, TypeOK
  <1>6. PidPartition' /\ FamilyTree' /\ NoParent'
    <2>1. \A u \in Task : \/ status'[u] = status[u]
                          \/ /\ status[u] \in {"Ready", "Running"}
                             /\ status'[u] \in {"Ready", "Running"}
      BY <1>3, <1>4 DEF IInv, TypeOK
    <2> QED  BY <1>4, <2>1, TreeFrame DEF IInv
  <1>7. QueueInSync'
    <2>1. \A u \in Task : (status'[u] = "Running") <=> (current' = u)
      BY <1>3, <1>4 DEF IInv, QueueInSync, TypeOK
    <2>2. \A u \in Task : status'[u] = "Ready" => rq'[pid'[u]] = u
      BY <1>2, <1>3, <1>4 DEF IInv, QueueInSync, TypeOK
    <2>3. \A q \in Pids : rq'[q] # NoTask => status'[rq'[q]] = "Ready" /\ pid'[rq'[q]] = q
      BY <1>2, <1>3, <1>4 DEF IInv, QueueInSync, TypeOK
    <2>4. \A q \in Pids : heap'[q] = IF rq'[q] # NoTask THEN 1 ELSE 0
      BY <1>1, <1>4 DEF IInv, QueueInSync, TypeOK
    <2> QED  BY <2>1, <2>2, <2>3, <2>4 DEF QueueInSync
  <1>8. CountInv'
    BY <1>3, <1>4, CountForm
       DEF IInv, TypeOK, CountInv, LiveRef, AllocRef, InCall, Live, Alloc
  <1>9. StrongCountExact'
    BY <1>5, <1>6, <1>7, <1>8, CountForm, PTL
  <1>10. HeldIsLive' /\ OnlyInitExitPanics'
    BY <1>3, <1>4 DEF IInv, TypeOK, HeldIsLive, OnlyInitExitPanics, Live
  <1> QED  BY <1>5, <1>6, <1>7, <1>9, <1>10 DEF IInv

\* suspend_current_and_run_next moves the current task back to the queue, with
\* or without a system call that starts to hold a clone.
LEMMA SuspendIInv ==
    ASSUME IInv, NEW t \in Task, current = t, Suspend(t),
           UNCHANGED <<pid, parent, children, nextPid, recycled, kstack, panic>>,
           held' \in [Task -> BOOLEAN], strong' \in [Task -> Nat], frozen' \subseteq Task,
           \A u \in Task : held'[u] => held[u] \/ u = t,
           \A u \in Task : strong'[u] + (IF held[u] THEN 1 ELSE 0)
                             = strong[u] + (IF held'[u] THEN 1 ELSE 0)
    PROVE  IInv'
  <1> USE TaskAssumption
  <1>1. status[t] = "Running" /\ pid[t] \in Pids
    BY DEF IInv, QueueInSync, TypeOK
  <1>2. rq[pid[t]] = NoTask /\ heap[pid[t]] = 0
    <2> SUFFICES ASSUME rq[pid[t]] # NoTask PROVE FALSE
      BY <1>1 DEF IInv, QueueInSync
    <2>1. PICK u \in Task : u = rq[pid[t]]
      BY <1>1 DEF IInv, TypeOK
    <2>2. status[u] = "Ready" /\ pid[u] = pid[t]
      BY <1>1, <2>1 DEF IInv, QueueInSync
    <2> QED  BY <1>1, <2>2 DEF IInv, PidPartition, OwnedDistinct, Alloc
  <1>3. /\ current' = NoTask
        /\ status' = [status EXCEPT ![t] = "Ready"]
        /\ heap' = [heap EXCEPT ![pid[t]] = @ + 1]
        /\ rq' = [rq EXCEPT ![pid[t]] = t]
    BY DEF Suspend, AddTask
  <1>5. TypeOK'
    BY <1>1, <1>3 DEF IInv, TypeOK
  <1>6. PidPartition' /\ FamilyTree' /\ NoParent'
    <2>1. \A u \in Task : \/ status'[u] = status[u]
                          \/ /\ status[u] \in {"Ready", "Running"}
                             /\ status'[u] \in {"Ready", "Running"}
      BY <1>1, <1>3 DEF IInv, TypeOK
    <2> QED  BY <2>1, TreeFrame DEF IInv
  <1>7. QueueInSync'
    <2>1. \A u \in Task : (status'[u] = "Running") <=> (current' = u)
      BY <1>1, <1>3 DEF IInv, QueueInSync, TypeOK
    <2>2. \A u \in Task : status'[u] = "Ready" => rq'[pid'[u]] = u
      BY <1>1, <1>2, <1>3 DEF IInv, QueueInSync, TypeOK
    <2>3. \A q \in Pids : rq'[q] # NoTask => status'[rq'[q]] = "Ready" /\ pid'[rq'[q]] = q
      BY <1>1, <1>3 DEF IInv, QueueInSync, TypeOK
    <2>4. \A q \in Pids : heap'[q] = IF rq'[q] # NoTask THEN 1 ELSE 0
      BY <1>1, <1>2, <1>3 DEF IInv, QueueInSync, TypeOK
    <2> QED  BY <2>1, <2>2, <2>3, <2>4 DEF QueueInSync
  <1>8. CountInv'
    <2>1. CountInv
      BY CountForm DEF IInv
    <2>2. \A u \in Task : LiveRef(u)' = LiveRef(u) /\ AllocRef(u)' = AllocRef(u)
      BY <1>1, <1>3 DEF IInv, TypeOK, LiveRef, AllocRef, Live, Alloc
    <2>3. \A u \in Task : LiveRef(u) \in Nat /\ AllocRef(u) \in Nat /\ strong[u] \in Nat
      BY DEF LiveRef, AllocRef, IInv, TypeOK
    <2> QED  BY <2>1, <2>2, <2>3 DEF CountInv, InCall
  <1>9. StrongCountExact'
    BY <1>5, <1>6, <1>7, <1>8, CountForm, PTL
  <1>10. HeldIsLive' /\ OnlyInitExitPanics'
    BY <1>1, <1>3 DEF IInv, TypeOK, HeldIsLive, OnlyInitExitPanics, Live
  <1> QED  BY <1>5, <1>6, <1>7, <1>9, <1>10 DEF IInv

\* A blocked call that completes drops its clone.
LEMMA UnblockIInv ==
    ASSUME IInv, NEW t \in Task, Unblock(t)
    PROVE  IInv'
  <1> USE TaskAssumption
  <1>1. /\ held[t]
        /\ held' = [held EXCEPT ![t] = FALSE]
        /\ strong' = [strong EXCEPT ![t] = @ - 1]
        /\ UNCHANGED <<status, pid, parent, children, frozen, current, rq, heap>>
        /\ UNCHANGED <<nextPid, recycled, kstack, panic>>
    BY DEF Unblock, sched, pids
  <1>2. CountInv
    BY CountForm DEF IInv
  <1>3. strong[t] > 0
    BY <1>1, <1>2 DEF CountInv, LiveRef, AllocRef, InCall
  <1>4. TypeOK'
    <2>1. held \in [Task -> BOOLEAN] /\ strong \in [Task -> Nat]
      BY DEF IInv, TypeOK
    <2>2. held' \in [Task -> BOOLEAN]
      BY <1>1, <2>1
    <2>3. strong' \in [Task -> Nat]
      BY <1>1, <1>3, <2>1
    <2> QED  BY <1>1, <2>2, <2>3 DEF IInv, TypeOK
  <1>5. PidPartition' /\ FamilyTree' /\ NoParent'
    BY <1>1, TreeFrame DEF IInv
  <1>6. QueueInSync'
    BY <1>1 DEF IInv, QueueInSync
  <1>7. CountInv'
    BY <1>1, <1>2, <1>3 DEF IInv, TypeOK, CountInv, LiveRef, AllocRef, InCall, Live, Alloc
  <1>8. StrongCountExact'
    BY <1>4, <1>5, <1>6, <1>7, CountForm, PTL
  <1>9. HeldIsLive' /\ OnlyInitExitPanics'
    BY <1>1 DEF IInv, TypeOK, HeldIsLive, OnlyInitExitPanics, Live
  <1> QED  BY <1>4, <1>5, <1>6, <1>8, <1>9 DEF IInv

\* The pid that alloc returns is owned by no TCB, and is not free afterwards.
LEMMA AllocPidFresh ==
    ASSUME IInv, AllocPid <= MaxPid
    PROVE  /\ AllocPid \in Pids /\ AllocPid \notin kstack
           /\ \A u \in Task : Alloc(u) => pid[u] # AllocPid
           /\ rq[AllocPid] = NoTask /\ heap[AllocPid] = 0
  <1> USE TaskAssumption, PidAssumption
  <1>1. AllocPid \in Pids
    BY DEF AllocPid, IInv, TypeOK, Pids
  <1>2. \A u \in Task : Alloc(u) => pid[u] # AllocPid
    <2>1. CASE recycled # <<>>
      <3>1. Len(recycled) \in DOMAIN recycled /\ AllocPid = recycled[Len(recycled)]
        BY <2>1 DEF IInv, TypeOK, AllocPid
      <3> QED  BY <3>1 DEF IInv, PidPartition, OwnedInUse
    <2>2. CASE recycled = <<>>
      BY <2>2 DEF IInv, PidPartition, OwnedInUse, TypeOK, AllocPid, Pids
    <2> QED  BY <2>1, <2>2
  <1>3. AllocPid \notin kstack
    BY <1>1, <1>2 DEF IInv, PidPartition, StackPerOwner
  <1>4. rq[AllocPid] = NoTask
    <2> SUFFICES ASSUME rq[AllocPid] # NoTask PROVE FALSE
      OBVIOUS
    <2>1. PICK u \in Task : u = rq[AllocPid]
      BY <1>1 DEF IInv, TypeOK
    <2> QED  BY <1>1, <1>2, <2>1 DEF IInv, QueueInSync, Alloc
  <1>5. heap[AllocPid] = 0
    BY <1>1, <1>4 DEF IInv, QueueInSync
  <1> QED  BY <1>1, <1>2, <1>3, <1>4, <1>5

\* sys_fork: the child gets a fresh pid, one entry in its parent's Vec and one in
\* the ready queue.
LEMMA ForkIInv ==
    ASSUME IInv, NEW t \in Task, NEW c \in Task, Fork(t, c)
    PROVE  IInv'
  <1> USE TaskAssumption, PidAssumption
  <1> DEFINE n == AllocPid
  <1>1. /\ n \in Pids /\ n \notin kstack
        /\ \A u \in Task : Alloc(u) => pid[u] # n
        /\ rq[n] = NoTask /\ heap[n] = 0
    BY AllocPidFresh DEF Fork
  <1>2. /\ current = t /\ status[t] = "Running" /\ status[c] = "Free"
        /\ c # t /\ c # InitProc
    BY DEF Fork, InUser, IInv, QueueInSync, Alloc, FamilyTree, RootLive, Live
  <1>3. /\ status' = [status EXCEPT ![c] = "Ready"]
        /\ pid' = [pid EXCEPT ![c] = n]
        /\ parent' = [parent EXCEPT ![c] = t]
        /\ children' = [children EXCEPT ![t] = Append(@, c), ![c] = <<>>]
        /\ held' = [held EXCEPT ![c] = FALSE]
        /\ strong' = [strong EXCEPT ![c] = 2]
        /\ heap' = [heap EXCEPT ![n] = @ + 1]
        /\ rq' = [rq EXCEPT ![n] = c]
        /\ kstack' = kstack \cup {n}
        /\ frozen' = frozen \ {c}
        /\ UNCHANGED <<current, panic>>
    BY <1>1 DEF Fork, AddTask
  <1>4. \/ /\ recycled # <<>> /\ n = recycled[Len(recycled)]
           /\ recycled' = SubSeq(recycled, 1, Len(recycled) - 1)
           /\ nextPid' = nextPid
        \/ /\ recycled = <<>> /\ n = nextPid
           /\ recycled' = recycled /\ nextPid' = nextPid + 1
    BY <1>1 DEF Fork, AllocPid
  <1> HIDE DEF n
  <1>5. recycled' \in Seq(Pids) /\ nextPid' \in 0 .. MaxPid + 1
    <2>1. CASE recycled # <<>>
      <3>1. /\ recycled' = SubSeq(recycled, 1, Len(recycled) - 1)
            /\ nextPid' = nextPid
        BY <1>4, <2>1
      <3>2. recycled \in Seq(Pids) /\ nextPid \in 0 .. MaxPid + 1
        BY DEF IInv, TypeOK
      <3> QED  BY <2>1, <3>1, <3>2
    <2>2. CASE recycled = <<>>
      BY <1>1, <1>4, <2>2 DEF IInv, TypeOK, Pids
    <2> QED  BY <2>1, <2>2
  <1>6. TypeOK'
    <2>1. children' \in [Task -> Seq(Task)]
      <3>1. children \in [Task -> Seq(Task)]
        BY DEF IInv, TypeOK
      <3>2. Append(children[t], c) \in Seq(Task) /\ <<>> \in Seq(Task)
        BY <3>1
      <3> QED  BY <1>3, <3>1, <3>2
    <2>2. /\ status' \in [Task -> {"Free", "Ready", "Running", "Zombie"}]
          /\ pid' \in [Task -> Pids] /\ parent' \in [Task -> Task \cup {NoTask}]
          /\ strong' \in [Task -> Nat] /\ current' \in Task \cup {NoTask}
          /\ rq' \in [Pids -> Task \cup {NoTask}] /\ heap' \in [Pids -> Nat]
          /\ kstack' \in SUBSET Pids /\ panic' = panic /\ frozen' \in SUBSET Task
      BY <1>1, <1>3 DEF IInv, TypeOK
    <2>3. held' \in [Task -> BOOLEAN]
      <3>1. held \in [Task -> BOOLEAN] /\ held' = [held EXCEPT ![c] = FALSE]
        BY <1>3 DEF IInv, TypeOK
      <3> QED  BY <3>1
    <2> QED  BY <1>5, <2>1, <2>2, <2>3 DEF IInv, TypeOK
  <1>7. QueueInSync'
    <2>1. \A u \in Task : (status'[u] = "Running") <=> (current' = u)
      BY <1>2, <1>3 DEF IInv, QueueInSync, TypeOK
    <2>2. \A u \in Task : status'[u] = "Ready" => rq'[pid'[u]] = u
      BY <1>1, <1>3 DEF IInv, QueueInSync, TypeOK, Alloc
    <2>3. \A q \in Pids : rq'[q] # NoTask => status'[rq'[q]] = "Ready" /\ pid'[rq'[q]] = q
      <3> SUFFICES ASSUME NEW q \in Pids, rq'[q] # NoTask
                   PROVE  status'[rq'[q]] = "Ready" /\ pid'[rq'[q]] = q
        OBVIOUS
      <3>1. CASE q = n
        BY <1>1, <1>3, <3>1 DEF IInv, TypeOK
      <3>2. CASE q # n
        <4>1. rq'[q] = rq[q] /\ rq[q] \in Task
          BY <1>1, <1>3, <3>2 DEF IInv, TypeOK
        <4>2. status[rq[q]] = "Ready" /\ pid[rq[q]] = q
          BY <4>1 DEF IInv, QueueInSync
        <4> QED  BY <1>2, <1>3, <4>1, <4>2 DEF IInv, TypeOK
      <3> QED  BY <3>1, <3>2
    <2>4. \A q \in Pids : heap'[q] = IF rq'[q] # NoTask THEN 1 ELSE 0
      BY <1>1, <1>3 DEF IInv, QueueInSync, TypeOK
    <2> QED  BY <2>1, <2>2, <2>3, <2>4 DEF QueueInSync
  <1>8. PidPartition'
    <2> USE DEF Alloc, IInv, PidPartition
    <2>1. /\ \A u \in Task \ {c} : pid'[u] = pid[u] /\ status'[u] = status[u]
          /\ pid'[c] = n /\ status'[c] = "Ready"
      BY <1>3 DEF TypeOK
    <2>2. OwnedDistinct'
      BY <1>1, <2>1 DEF OwnedDistinct
    <2>3. StackPerOwner'
      BY <1>1, <1>2, <1>3, <2>1 DEF StackPerOwner, TypeOK
    <2>4. CASE recycled # <<>>
      <3> DEFINE k == Len(recycled)
      <3>1. /\ recycled \in Seq(Pids) /\ k \in Nat \ {0} /\ nextPid' = nextPid
            /\ recycled' = SubSeq(recycled, 1, k - 1) /\ n = recycled[k]
        BY <1>4, <2>4 DEF TypeOK
      <3>2. /\ DOMAIN recycled = 1 .. k /\ DOMAIN recycled' = 1 .. k - 1
            /\ \A i \in 1 .. k - 1 : recycled'[i] = recycled[i]
        BY <3>1
      <3> HIDE DEF k
      <3>3. \A i \in 1 .. k - 1 : recycled[i] # n
        BY <3>1, <3>2 DEF FreeOnce
      <3>4. n < nextPid
        BY <3>1, <3>2 DEF FreeOnce
      <3>5. OwnedInUse'
        BY <2>1, <3>1, <3>2, <3>3, <3>4 DEF OwnedInUse
      <3>6. FreeOnce'
        BY <3>1, <3>2 DEF FreeOnce
      <3>7. OwnedOrFree'
        <4> SUFFICES ASSUME NEW p \in Pids, p < nextPid, p # n
                     PROVE  \/ \E u \in Task : status'[u] # "Free" /\ pid'[u] = p
                            \/ \E i \in DOMAIN recycled' : recycled'[i] = p
          BY <2>1, <3>1 DEF OwnedOrFree
        <4>1. CASE \E u \in Task : Alloc(u) /\ pid[u] = p
          BY <1>2, <2>1, <4>1
        <4>2. CASE \E i \in DOMAIN recycled : recycled[i] = p
          <5>1. PICK i \in 1 .. k : recycled[i] = p
            BY <3>2, <4>2
          <5>2. i \in 1 .. k - 1
            BY <3>1, <5>1
          <5> QED  BY <3>2, <5>1, <5>2
        <4> QED  BY <4>1, <4>2 DEF OwnedOrFree
      <3> QED  BY <2>2, <2>3, <3>5, <3>6, <3>7
    <2>5. CASE recycled = <<>>
      <3>1. recycled' = <<>> /\ n = nextPid /\ nextPid' = nextPid + 1 /\ nextPid \in Nat
        BY <1>4, <2>5 DEF TypeOK
      <3>2. DOMAIN recycled = {} /\ DOMAIN recycled' = {}
        BY <2>5, <3>1
      <3>3. OwnedInUse'
        <4> SUFFICES ASSUME NEW u \in Task, status'[u] # "Free"
                     PROVE  pid'[u] < nextPid'
          BY <3>2 DEF OwnedInUse
        <4>1. CASE u = c
          BY <2>1, <3>1, <4>1
        <4>2. CASE u # c
          <5>1. pid'[u] = pid[u] /\ pid[u] < nextPid
            BY <2>1, <4>2 DEF OwnedInUse
          <5>2. pid[u] \in Nat
            BY DEF TypeOK, Pids
          <5> QED  BY <3>1, <5>1, <5>2
        <4> QED  BY <4>1, <4>2
      <3>4. FreeOnce'
        BY <3>2 DEF FreeOnce
      <3>5. OwnedOrFree'
        <4> SUFFICES ASSUME NEW p \in Pids, p < nextPid + 1, p # n
                     PROVE  \E u \in Task : status'[u] # "Free" /\ pid'[u] = p
          BY <2>1, <3>1 DEF OwnedOrFree
        <4>1. p < nextPid
          BY <3>1 DEF Pids
        <4> QED  BY <1>2, <2>1, <3>2, <4>1 DEF OwnedOrFree
      <3> QED  BY <2>2, <2>3, <3>3, <3>4, <3>5
    <2> QED  BY <2>4, <2>5
  <1>9. FamilyTree'
    <2> USE DEF Alloc, Live, IInv, FamilyTree
    <2>1. /\ \A u \in Task \ {c} : status'[u] = status[u] /\ parent'[u] = parent[u]
          /\ parent'[c] = t /\ status'[c] = "Ready"
      BY <1>3 DEF TypeOK
    <2>2. /\ children'[t] = Append(children[t], c) /\ children'[c] = <<>>
          /\ \A q \in Task \ {t, c} : children'[q] = children[q]
          /\ \A q \in Task : children[q] \in Seq(Task)
      BY <1>2, <1>3 DEF TypeOK
    <2>3. \A q \in Task : \A i \in DOMAIN children[q] : children[q][i] # c
      BY <1>2 DEF EntryOfParent
    <2>4. /\ DOMAIN children'[t] = 1 .. Len(children[t]) + 1
          /\ DOMAIN children[t] = 1 .. Len(children[t])
          /\ \A i \in 1 .. Len(children[t]) : children'[t][i] = children[t][i]
          /\ children'[t][Len(children[t]) + 1] = c
          /\ Len(children[t]) \in Nat /\ DOMAIN children'[c] = {}
      BY <2>2
    <2>5. RootLive'
      BY <1>2, <2>1 DEF RootLive
    <2>6. EntryOfParent'
      <3> SUFFICES ASSUME NEW q \in Task, NEW i \in DOMAIN children'[q]
                   PROVE  /\ status'[children'[q][i]] # "Free"
                          /\ children'[q][i] # InitProc
                          /\ parent'[children'[q][i]] = q
                          /\ status'[q] \in {"Ready", "Running"}
        BY DEF EntryOfParent
      <3>1. CASE q # t
        <4>1. q # c /\ children'[q] = children[q] /\ children[q][i] \in Task
          BY <2>2, <2>4, <3>1
        <4> QED  BY <2>1, <2>3, <4>1 DEF EntryOfParent
      <3>2. CASE q = t /\ i = Len(children[t]) + 1
        BY <1>2, <2>1, <2>4, <3>2
      <3>3. CASE q = t /\ i # Len(children[t]) + 1
        <4>1. i \in DOMAIN children[t] /\ children'[t][i] = children[t][i]
          BY <2>4, <3>3
        <4>2. children[t][i] \in Task /\ children[t][i] # c
          BY <2>2, <2>3, <4>1
        <4> QED  BY <1>2, <2>1, <3>3, <4>1, <4>2 DEF EntryOfParent
      <3> QED  BY <3>1, <3>2, <3>3
    <2>7. EntryOnce'
      <3> SUFFICES ASSUME NEW q \in Task, NEW i \in DOMAIN children'[q],
                          NEW j \in DOMAIN children'[q],
                          children'[q][i] = children'[q][j]
                   PROVE  i = j
        BY DEF EntryOnce
      <3>1. CASE q = t
        <4>1. \A l \in 1 .. Len(children[t]) : children'[t][l] # c
          BY <2>3, <2>4
        <4>2. CASE i \in 1 .. Len(children[t]) /\ j \in 1 .. Len(children[t])
          BY <2>4, <3>1, <4>2 DEF EntryOnce
        <4>3. CASE i = Len(children[t]) + 1 \/ j = Len(children[t]) + 1
          BY <2>4, <3>1, <4>1, <4>3
        <4> QED  BY <2>4, <3>1, <4>2, <4>3
      <3>2. CASE q # t
        BY <2>2, <2>4, <3>2 DEF EntryOnce
      <3> QED  BY <3>1, <3>2
    <2>8. ParentHasEntry'
      <3> SUFFICES ASSUME NEW d \in Task, status'[d] # "Free", d # InitProc
                   PROVE  /\ parent'[d] \in Task
                          /\ \E i \in DOMAIN children'[parent'[d]] :
                                children'[parent'[d]][i] = d
        BY DEF ParentHasEntry
      <3>1. CASE d = c
        BY <2>1, <2>4, <3>1
      <3>2. CASE d # c
        <4>1. parent'[d] = parent[d] /\ parent[d] \in Task
          BY <2>1, <3>2 DEF ParentHasEntry
        <4>2. PICK i \in DOMAIN children[parent[d]] : children[parent[d]][i] = d
          BY <2>1, <3>2 DEF ParentHasEntry
        <4>3. parent[d] # c
          BY <1>2, <4>1, <4>2 DEF EntryOfParent
        <4>4. CASE parent[d] = t
          <5>1. i \in DOMAIN children'[t] /\ children'[t][i] = d
            BY <2>4, <4>2, <4>4
          <5> QED  BY <4>1, <4>4, <5>1
        <4>5. CASE parent[d] # t
          BY <2>2, <4>1, <4>2, <4>3, <4>5
        <4> QED  BY <4>4, <4>5
      <3> QED  BY <3>1, <3>2
    <2> QED  BY <2>5, <2>6, <2>7, <2>8
  <1>10. CountInv'
    <2>1. CountInv
      BY CountForm DEF IInv
    <2>2. \A u \in Task \ {c} : /\ strong'[u] = strong[u] /\ held'[u] = held[u]
                                /\ status'[u] = status[u]
      BY <1>3 DEF IInv, TypeOK
    <2>3. strong'[c] = 2 /\ ~held'[c] /\ status'[c] = "Ready"
      BY <1>3 DEF IInv, TypeOK
    <2> QED  BY <2>1, <2>2, <2>3
                DEF CountInv, LiveRef, AllocRef, InCall, Live, Alloc
  <1>11. StrongCountExact'
    BY <1>6, <1>7, <1>9, <1>10, CountForm, PTL
  <1>12. HeldIsLive' /\ NoParent' /\ OnlyInitExitPanics'
    BY <1>2, <1>3 DEF IInv, TypeOK, HeldIsLive, NoParent, OnlyInitExitPanics, Live, Alloc
  <1> QED  BY <1>6, <1>7, <1>8, <1>9, <1>11, <1>12 DEF IInv

\* exit_current_and_run_next: the exiting task becomes a zombie in its parent's
\* Vec and its own Vec moves, in order, to the end of INITPROC's.
LEMMA ExitIInv ==
    ASSUME IInv, NEW t \in Task, Exit(t)
    PROVE  IInv'
  <1> USE TaskAssumption
  <1>1. /\ panic = "none" /\ current = t /\ ~held[t] /\ status[t] = "Running"
        /\ status[t] # "Free" /\ status[t] # "Zombie" /\ status[t] # "Ready"
    BY DEF Exit, InUser, IInv, QueueInSync
  <1>2. CASE t = InitProc
    <2>1. UNCHANGED <<status, pid, parent, children, held, strong, frozen, current, rq, heap>>
      BY <1>2 DEF Exit, Crash, tcbs, sched
    <2>2. UNCHANGED <<nextPid, recycled, kstack>> /\ panic' = "InitProcBorrowed"
      BY <1>2 DEF Exit, Crash, pids
    <2>3. TypeOK'
      BY <2>1, <2>2 DEF IInv, TypeOK
    <2>4. PidPartition' /\ FamilyTree' /\ NoParent'
      BY <2>1, <2>2, TreeFrame DEF IInv
    <2>5. QueueInSync' /\ CountInv'
      BY <2>1, CountForm
         DEF IInv, QueueInSync, CountInv, LiveRef, AllocRef, InCall, Live, Alloc
    <2>6. StrongCountExact'
      BY <2>3, <2>4, <2>5, CountForm, PTL
    <2>7. HeldIsLive' /\ OnlyInitExitPanics'
      BY <2>1, <2>2 DEF IInv, HeldIsLive, OnlyInitExitPanics, Live
    <2> QED  BY <2>3, <2>4, <2>5, <2>6, <2>7 DEF IInv
  <1>3. CASE t # InitProc
    <2>1. /\ status' = [status EXCEPT ![t] = "Zombie"]
          /\ parent' = [c \in Task |->
                          IF \E i \in DOMAIN children[t] : children[t][i] = c
                          THEN InitProc ELSE parent[c]]
          /\ children' = [children EXCEPT ![InitProc] = @ \o children[t], ![t] = <<>>]
          /\ strong' = [strong EXCEPT ![t] = @ - 1]
          /\ current' = NoTask
          /\ UNCHANGED <<pid, held, frozen, rq, heap, panic, nextPid, recycled, kstack>>
      BY <1>3 DEF Exit, Adopt, MoveVec, pids
    <2>2. CountInv
      BY CountForm DEF IInv
    <2>3. strong[t] = 2 /\ \A u \in Task : strong[u] \in Nat
      <3>1. \A u \in Task : strong[u] \in Nat
        BY DEF IInv, TypeOK
      <3>2. LiveRef(t) = 1 /\ AllocRef(t) = 1 /\ InCall(t) = 0
        BY <1>1 DEF LiveRef, AllocRef, InCall, Live, Alloc
      <3> QED  BY <2>2, <3>1, <3>2 DEF CountInv
    <2>4. /\ \A u \in Task \ {t} : status'[u] = status[u] /\ strong'[u] = strong[u]
          /\ status'[t] = "Zombie" /\ strong'[t] = 1
      BY <2>1, <2>3 DEF IInv, TypeOK
    <2>5. \A q \in Task : children[q] \in Seq(Task)
      BY DEF IInv, TypeOK
    <2>6. TypeOK'
      <3>1. children' \in [Task -> Seq(Task)]
        <4>1. children \in [Task -> Seq(Task)]
          BY DEF IInv, TypeOK
        <4>2. children[InitProc] \o children[t] \in Seq(Task) /\ <<>> \in Seq(Task)
          BY <2>5
        <4> QED  BY <2>1, <4>1, <4>2
      <3>2. /\ status' \in [Task -> {"Free", "Ready", "Running", "Zombie"}]
            /\ strong' \in [Task -> Nat]
        BY <2>1, <2>3 DEF IInv, TypeOK
      <3>3. parent' \in [Task -> Task \cup {NoTask}]
        BY <2>1 DEF IInv, TypeOK
      <3> QED  BY <2>1, <3>1, <3>2, <3>3 DEF IInv, TypeOK
    <2>7. QueueInSync'
      <3>1. \A u \in Task : (status'[u] = "Running") <=> (current' = u)
        BY <1>1, <2>1, <2>4 DEF IInv, QueueInSync
      <3>2. \A u \in Task : status'[u] = "Ready" => rq'[pid'[u]] = u
        BY <2>1, <2>4 DEF IInv, QueueInSync
      <3>3. \A q \in Pids : rq'[q] # NoTask => status'[rq'[q]] = "Ready" /\ pid'[rq'[q]] = q
        <4> SUFFICES ASSUME NEW q \in Pids, rq[q] # NoTask
                     PROVE  status'[rq[q]] = "Ready" /\ pid[rq[q]] = q
          BY <2>1
        <4>1. rq[q] \in Task /\ status[rq[q]] = "Ready" /\ pid[rq[q]] = q
          BY DEF IInv, TypeOK, QueueInSync
        <4> QED  BY <1>1, <2>4, <4>1
      <3>4. \A q \in Pids : heap'[q] = IF rq'[q] # NoTask THEN 1 ELSE 0
        BY <2>1 DEF IInv, QueueInSync
      <3> QED  BY <3>1, <3>2, <3>3, <3>4 DEF QueueInSync
    <2>8. PidPartition'
      <3>1. \A u \in Task : (status'[u] = "Free") <=> (status[u] = "Free")
        BY <1>1, <2>4
      <3> QED  BY <2>1, <3>1 DEF IInv, PidPartition, OwnedDistinct, OwnedInUse,
                                FreeOnce, OwnedOrFree, StackPerOwner, Alloc
    <2>9. FamilyTree'
      <3> USE DEF Alloc, Live, IInv, FamilyTree
      <3> DEFINE a == children[InitProc]
                 b == children[t]
      <3>1. /\ children'[InitProc] = a \o b /\ children'[t] = <<>>
            /\ \A q \in Task \ {t, InitProc} : children'[q] = children[q]
            /\ a \in Seq(Task) /\ b \in Seq(Task)
        BY <1>3, <2>1, <2>5 DEF TypeOK
      <3>2. /\ DOMAIN a = 1 .. Len(a) /\ DOMAIN b = 1 .. Len(b)
            /\ Len(a) \in Nat /\ Len(b) \in Nat
            /\ DOMAIN children'[InitProc] = 1 .. Len(a) + Len(b)
            /\ \A i \in 1 .. Len(a) + Len(b) :
                  children'[InitProc][i] = IF i <= Len(a) THEN a[i] ELSE b[i - Len(a)]
            /\ DOMAIN children'[t] = {}
        <4> HIDE DEF a, b
        <4>1. /\ DOMAIN a = 1 .. Len(a) /\ DOMAIN b = 1 .. Len(b)
              /\ Len(a) \in Nat /\ Len(b) \in Nat
          BY <3>1
        <4>2. /\ DOMAIN (a \o b) = 1 .. Len(a) + Len(b)
              /\ \A i \in 1 .. Len(a) + Len(b) :
                    (a \o b)[i] = IF i <= Len(a) THEN a[i] ELSE b[i - Len(a)]
          BY <3>1, ConcatFacts
        <4>3. DOMAIN children'[t] = {}
          BY <3>1
        <4> QED  BY <3>1, <4>1, <4>2, <4>3
      <3>3. /\ \A i \in 1 .. Len(a) : /\ a[i] \in Task /\ status[a[i]] # "Free"
                                      /\ a[i] # InitProc /\ parent[a[i]] = InitProc
            /\ \A i \in 1 .. Len(b) : /\ b[i] \in Task /\ status[b[i]] # "Free"
                                      /\ b[i] # InitProc /\ parent[b[i]] = t
        BY <3>1, <3>2 DEF EntryOfParent
      <3>4. /\ \A i \in 1 .. Len(b) : parent'[b[i]] = InitProc
            /\ \A c \in Task : parent[c] # t => parent'[c] = parent[c]
        BY <2>1, <3>2, <3>3
      <3>5. \A i, j \in 1 .. Len(a) : a[i] = a[j] => i = j
        BY <3>2 DEF EntryOnce
      <3>6. \A i, j \in 1 .. Len(b) : b[i] = b[j] => i = j
        BY <3>2 DEF EntryOnce
      <3> HIDE DEF a, b
      <3>7. RootLive'
        BY <1>3, <2>4 DEF RootLive
      <3>8. EntryOfParent'
        <4> SUFFICES ASSUME NEW q \in Task, NEW i \in DOMAIN children'[q]
                     PROVE  /\ status'[children'[q][i]] # "Free"
                            /\ children'[q][i] # InitProc
                            /\ parent'[children'[q][i]] = q
                            /\ status'[q] \in {"Ready", "Running"}
          BY DEF EntryOfParent
        <4>1. CASE q = InitProc /\ i <= Len(a)
          <5>1. i \in 1 .. Len(a) /\ children'[q][i] = a[i]
            BY <3>2, <4>1
          <5> QED  BY <1>1, <1>3, <2>4, <3>3, <3>4, <3>7, <4>1, <5>1 DEF RootLive
        <4>2. CASE q = InitProc /\ ~(i <= Len(a))
          <5>1. i - Len(a) \in 1 .. Len(b) /\ children'[q][i] = b[i - Len(a)]
            BY <3>2, <4>2
          <5> QED  BY <1>1, <2>4, <3>3, <3>4, <3>7, <4>2, <5>1 DEF RootLive
        <4>3. CASE q # InitProc
          <5>1. q # t /\ children'[q] = children[q] /\ children[q][i] \in Task
            BY <2>5, <3>1, <3>2, <4>3
          <5>2. /\ status[children[q][i]] # "Free" /\ children[q][i] # InitProc
                /\ parent[children[q][i]] = q /\ status[q] \in {"Ready", "Running"}
            BY <5>1 DEF EntryOfParent
          <5> QED  BY <1>1, <2>4, <3>4, <5>1, <5>2
        <4> QED  BY <4>1, <4>2, <4>3
      <3>9. EntryOnce'
        <4> SUFFICES ASSUME NEW q \in Task, NEW i \in DOMAIN children'[q],
                            NEW j \in DOMAIN children'[q],
                            children'[q][i] = children'[q][j]
                     PROVE  i = j
          BY DEF EntryOnce
        <4>1. CASE q # InitProc
          BY <3>1, <3>2, <4>1 DEF EntryOnce
        <4>2. CASE q = InitProc
          <5>1. i \in 1 .. Len(a) + Len(b) /\ j \in 1 .. Len(a) + Len(b)
            BY <3>2, <4>2
          <5>2. CASE i <= Len(a) /\ j <= Len(a)
            BY <3>2, <3>5, <4>2, <5>1, <5>2
          <5>3. CASE ~(i <= Len(a)) /\ ~(j <= Len(a))
            <6>1. i - Len(a) \in 1 .. Len(b) /\ j - Len(a) \in 1 .. Len(b)
              BY <3>2, <5>1, <5>3
            <6>2. b[i - Len(a)] = b[j - Len(a)]
              BY <3>2, <4>2, <5>1, <5>3
            <6>3. i - Len(a) = j - Len(a)
              BY <3>6, <6>1, <6>2
            <6> QED  BY <3>2, <5>1, <6>3
          <5>4. ASSUME NEW k \in 1 .. Len(a), NEW l \in 1 .. Len(b) PROVE a[k] # b[l]
            BY <1>3, <3>3
          <5>5. CASE i <= Len(a) /\ ~(j <= Len(a))
            <6>1. i \in 1 .. Len(a) /\ j - Len(a) \in 1 .. Len(b)
              BY <3>2, <5>1, <5>5
            <6>2. a[i] = b[j - Len(a)]
              BY <3>2, <4>2, <5>1, <5>5
            <6> QED  BY <5>4, <6>1, <6>2
          <5>6. CASE ~(i <= Len(a)) /\ j <= Len(a)
            <6>1. j \in 1 .. Len(a) /\ i - Len(a) \in 1 .. Len(b)
              BY <3>2, <5>1, <5>6
            <6>2. a[j] = b[i - Len(a)]
              BY <3>2, <4>2, <5>1, <5>6
            <6> QED  BY <5>4, <6>1, <6>2
          <5> QED  BY <5>2, <5>3, <5>5, <5>6
        <4> QED  BY <4>1, <4>2
      <3>10. ParentHasEntry'
        <4> SUFFICES ASSUME NEW d \in Task, status'[d] # "Free", d # InitProc
                     PROVE  /\ parent'[d] \in Task
                            /\ \E i \in DOMAIN children'[parent'[d]] :
                                  children'[parent'[d]][i] = d
          BY DEF ParentHasEntry
        <4>1. status[d] # "Free"
          BY <1>1, <2>4
        <4>2. PICK i \in DOMAIN children[parent[d]] :
                 parent[d] \in Task /\ children[parent[d]][i] = d
          BY <4>1 DEF ParentHasEntry
        <4>3. CASE parent[d] = t
          <5>1. i \in 1 .. Len(b) /\ b[i] = d
            BY <3>2, <4>2, <4>3 DEF b
          <5>2. parent'[d] = InitProc
            BY <3>4, <5>1
          <5>3. Len(a) + i \in DOMAIN children'[InitProc] /\ children'[InitProc][Len(a) + i] = d
            <6>1. Len(a) + i \in 1 .. Len(a) + Len(b) /\ ~(Len(a) + i <= Len(a))
                  /\ (Len(a) + i) - Len(a) = i
              BY <3>2, <5>1
            <6> QED  BY <3>2, <5>1, <6>1
          <5> QED  BY <5>2, <5>3
        <4>4. CASE parent[d] = InitProc
          <5>1. i \in 1 .. Len(a) /\ a[i] = d
            BY <3>2, <4>2, <4>4 DEF a
          <5>2. parent'[d] = InitProc
            BY <1>3, <3>4, <4>4
          <5>3. i \in 1 .. Len(a) + Len(b) /\ i <= Len(a)
            BY <3>2, <5>1
          <5> QED  BY <3>2, <5>1, <5>2, <5>3
        <4>5. CASE parent[d] # t /\ parent[d] # InitProc
          <5>1. parent'[d] = parent[d]
            BY <3>4, <4>5
          <5>2. parent[d] \in Task /\ children'[parent[d]] = children[parent[d]]
            BY <3>1, <4>2, <4>5
          <5>3. i \in DOMAIN children'[parent[d]] /\ children'[parent[d]][i] = d
            BY <4>2, <5>2
          <5> QED  BY <5>1, <5>2, <5>3
        <4> QED  BY <4>3, <4>4, <4>5
      <3> QED  BY <3>7, <3>8, <3>9, <3>10
    <2>10. CountInv'
      BY <1>1, <2>1, <2>2, <2>3, <2>4
         DEF CountInv, LiveRef, AllocRef, InCall, Live, Alloc
    <2>11. StrongCountExact'
      BY <2>6, <2>7, <2>9, <2>10, CountForm, PTL
    <2>12. HeldIsLive' /\ OnlyInitExitPanics'
      BY <1>1, <2>1, <2>4 DEF IInv, HeldIsLive, OnlyInitExitPanics, Live
    <2>13. NoParent'
      <3> SUFFICES ASSUME NEW u \in Task, status'[u] = "Free" \/ u = InitProc
                   PROVE  parent'[u] = NoTask
        BY DEF NoParent, Alloc
      <3>1. ~\E i \in DOMAIN children[t] : children[t][i] = u
        BY <2>4, <1>1 DEF IInv, FamilyTree, EntryOfParent, Alloc
      <3> QED  BY <2>1, <2>4, <1>1, <3>1 DEF IInv, NoParent, Alloc
    <2> QED  BY <2>6, <2>7, <2>8, <2>9, <2>11, <2>12, <2>13 DEF IInv
  <1> QED  BY <1>2, <1>3

\* A zombie child is referenced by its parent's Vec only, and its pid is not free:
\* the assertions of sys_waitpid and PidAllocator::dealloc hold.
LEMMA ZombieFacts ==
    ASSUME IInv, NEW c \in Task, status[c] = "Zombie"
    PROVE  /\ strong[c] = 1 /\ ~held[c]
           /\ pid[c] < nextPid /\ ~(pid[c] >= nextPid)
           /\ \A j \in DOMAIN recycled : recycled[j] # pid[c]
           /\ \A p \in Pids : rq[p] # c
           /\ current # c
  <1>1. CountInv
    BY CountForm DEF IInv
  <1>2. ~held[c]
    BY DEF IInv, HeldIsLive, Live
  <1>3. strong[c] = 1
    BY <1>1, <1>2 DEF CountInv, LiveRef, AllocRef, InCall, Live, Alloc
  <1>4. pid[c] < nextPid /\ \A j \in DOMAIN recycled : recycled[j] # pid[c]
    BY DEF IInv, PidPartition, OwnedInUse, Alloc
  <1>5. ~(pid[c] >= nextPid)
    BY <1>4, PidAssumption DEF IInv, TypeOK, Pids
  <1>6. (\A p \in Pids : rq[p] # c) /\ current # c
    BY TaskAssumption DEF IInv, QueueInSync
  <1> QED  BY <1>2, <1>3, <1>4, <1>5, <1>6

\* sys_waitpid reaping a child: entry, TCB, pid and kernel stack go together.
LEMMA ReapIInv ==
    ASSUME IInv, NEW t \in Task, NEW i \in DOMAIN children[t],
           NEW arg, Reap(t, arg, i)
    PROVE  IInv'
  <1> USE TaskAssumption
  <1>1. PICK c \in Task : c = children[t][i]
    BY DEF IInv, TypeOK
  <1>2. current = t /\ status[t] = "Running" /\ status[c] = "Zombie" /\ c # t
    BY <1>1 DEF Reap, InUser, IInv, QueueInSync
  <1>3. /\ strong[c] = 1 /\ ~held[c]
        /\ pid[c] < nextPid /\ ~(pid[c] >= nextPid)
        /\ \A j \in DOMAIN recycled : recycled[j] # pid[c]
        /\ \A p \in Pids : rq[p] # c
        /\ current # c
    BY <1>2, ZombieFacts
  <1>4. /\ children' = [children EXCEPT ![t] = Remove(@, i)]
        /\ strong' = [strong EXCEPT ![c] = 0]
        /\ status' = [status EXCEPT ![c] = "Free"]
        /\ parent' = [parent EXCEPT ![c] = NoTask]
        /\ recycled' = Append(recycled, pid[c])
        /\ kstack' = kstack \ {pid[c]}
        /\ UNCHANGED <<pid, held, frozen, current, rq, heap, nextPid, panic>>
    BY <1>1, <1>3 DEF Reap, sched
  <1>5. /\ \A u \in Task \ {c} : /\ status'[u] = status[u] /\ strong'[u] = strong[u]
                                 /\ parent'[u] = parent[u]
        /\ status'[c] = "Free" /\ strong'[c] = 0 /\ parent'[c] = NoTask
    BY <1>4 DEF IInv, TypeOK
  <1>6. /\ children[t] \in Seq(Task)
        /\ Remove(children[t], i) \in Seq(Task)
        /\ Len(Remove(children[t], i)) = Len(children[t]) - 1
        /\ \A j \in 1 .. Len(children[t]) - 1 :
              Remove(children[t], i)[j]
                = IF j < i THEN children[t][j] ELSE children[t][j + 1]
    <2>1. children[t] \in Seq(Task)
      BY DEF IInv, TypeOK
    <2> QED  BY <2>1, RemoveFacts
  <1>7. TypeOK'
    <2>1. children' \in [Task -> Seq(Task)]
      BY <1>4, <1>6 DEF IInv, TypeOK
    <2>2. recycled' \in Seq(Pids)
      <3>1. recycled \in Seq(Pids) /\ pid[c] \in Pids
        BY DEF IInv, TypeOK
      <3> QED  BY <1>4, <3>1
    <2>3. /\ status' \in [Task -> {"Free", "Ready", "Running", "Zombie"}]
          /\ strong' \in [Task -> Nat] /\ parent' \in [Task -> Task \cup {NoTask}]
          /\ kstack' \in SUBSET Pids
      BY <1>4 DEF IInv, TypeOK
    <2> QED  BY <1>4, <2>1, <2>2, <2>3 DEF IInv, TypeOK
  <1>8. QueueInSync'
    <2>1. \A u \in Task : (status'[u] = "Running") <=> (current' = u)
      BY <1>3, <1>4, <1>5 DEF IInv, QueueInSync
    <2>2. \A u \in Task : status'[u] = "Ready" => rq'[pid'[u]] = u
      BY <1>4, <1>5 DEF IInv, QueueInSync
    <2>3. \A q \in Pids : rq'[q] # NoTask => status'[rq'[q]] = "Ready" /\ pid'[rq'[q]] = q
      <3> SUFFICES ASSUME NEW q \in Pids, rq[q] # NoTask
                   PROVE  status'[rq[q]] = "Ready" /\ pid[rq[q]] = q
        BY <1>4
      <3>1. rq[q] \in Task /\ rq[q] # c /\ status[rq[q]] = "Ready" /\ pid[rq[q]] = q
        BY <1>3 DEF IInv, TypeOK, QueueInSync
      <3> QED  BY <1>5, <3>1
    <2>4. \A q \in Pids : heap'[q] = IF rq'[q] # NoTask THEN 1 ELSE 0
      BY <1>4 DEF IInv, QueueInSync
    <2> QED  BY <2>1, <2>2, <2>3, <2>4 DEF QueueInSync
  <1>9. PidPartition'
    <2> USE DEF Alloc, IInv, PidPartition
    <2> DEFINE k == Len(recycled)
    <2>1. /\ k \in Nat /\ DOMAIN recycled = 1 .. k /\ DOMAIN recycled' = 1 .. k + 1
          /\ \A j \in 1 .. k : recycled'[j] = recycled[j]
          /\ recycled'[k + 1] = pid[c]
      <3>1. recycled \in Seq(Pids) /\ recycled' = Append(recycled, pid[c])
        BY <1>4 DEF TypeOK
      <3> QED  BY ONLY <3>1
    <2> HIDE DEF k
    <2>2. \A u \in Task \ {c} : status[u] # "Free" => pid[u] # pid[c]
      BY <1>2 DEF OwnedDistinct
    <2>3. OwnedDistinct'
      BY <1>4, <1>5 DEF OwnedDistinct
    <2>4. OwnedInUse'
      <3> SUFFICES ASSUME NEW u \in Task, status'[u] # "Free"
                   PROVE  /\ pid[u] < nextPid
                          /\ \A j \in 1 .. k + 1 : recycled'[j] # pid[u]
        BY <1>4, <2>1 DEF OwnedInUse
      <3>1. u # c /\ status[u] # "Free"
        BY <1>5
      <3>2. pid[u] < nextPid /\ \A j \in 1 .. k : recycled[j] # pid[u]
        BY <2>1, <3>1 DEF OwnedInUse
      <3>3. \A j \in 1 .. k + 1 : j \in 1 .. k \/ j = k + 1
        BY <2>1
      <3> QED  BY <2>1, <2>2, <3>1, <3>2, <3>3
    <2>5. FreeOnce'
      <3>1. \A j \in 1 .. k + 1 : j \in 1 .. k \/ j = k + 1
        BY <2>1
      <3>2. \A j \in 1 .. k : recycled[j] # pid[c] /\ recycled[j] < nextPid
        BY <1>3, <2>1 DEF FreeOnce
      <3>3. \A j, l \in 1 .. k : recycled[j] = recycled[l] => j = l
        BY <2>1 DEF FreeOnce
      <3>4. \A j \in DOMAIN recycled' : recycled'[j] < nextPid'
        BY <1>3, <1>4, <2>1, <3>1, <3>2
      <3>5. \A j, l \in DOMAIN recycled' : recycled'[j] = recycled'[l] => j = l
        BY <2>1, <3>1, <3>2, <3>3
      <3> QED  BY <3>4, <3>5 DEF FreeOnce
    <2>6. OwnedOrFree'
      <3> SUFFICES ASSUME NEW p \in Pids, p < nextPid, p # pid[c]
                   PROVE  \/ \E u \in Task : status'[u] # "Free" /\ pid[u] = p
                          \/ \E j \in DOMAIN recycled' : recycled'[j] = p
        BY <1>4, <2>1 DEF OwnedOrFree
      <3>1. CASE \E u \in Task : Alloc(u) /\ pid[u] = p
        BY <1>5, <3>1
      <3>2. CASE \E j \in DOMAIN recycled : recycled[j] = p
        BY <2>1, <3>2
      <3> QED  BY <3>1, <3>2 DEF OwnedOrFree
    <2>7. StackPerOwner'
      <3> SUFFICES ASSUME NEW p \in Pids
                   PROVE  p \in kstack' <=> \E u \in Task : status'[u] # "Free" /\ pid[u] = p
        BY <1>4 DEF StackPerOwner
      <3>1. p \in kstack <=> \E u \in Task : status[u] # "Free" /\ pid[u] = p
        BY DEF StackPerOwner
      <3> QED  BY <1>2, <1>4, <1>5, <2>2, <3>1
    <2> QED  BY <2>3, <2>4, <2>5, <2>6, <2>7
  <1>10. FamilyTree'
    <2> USE DEF Alloc, Live, IInv, FamilyTree
    <2> DEFINE m == Len(children[t])
               s == children'[t]
    <2>1. /\ m \in Nat /\ i \in 1 .. m /\ DOMAIN children[t] = 1 .. m
          /\ DOMAIN s = 1 .. m - 1
          /\ \A j \in 1 .. m - 1 : s[j] = IF j < i THEN children[t][j] ELSE children[t][j + 1]
          /\ \A q \in Task \ {t} : children'[q] = children[q]
          /\ \A q \in Task : children[q] \in Seq(Task)
      <3>1. children'[t] = Remove(children[t], i)
        BY <1>4 DEF TypeOK
      <3>2. /\ \A q \in Task \ {t} : children'[q] = children[q]
            /\ \A q \in Task : children[q] \in Seq(Task)
        BY <1>4 DEF TypeOK
      <3>3. m \in Nat /\ DOMAIN children[t] = 1 .. m
        BY <1>6
      <3>4. DOMAIN s = 1 .. m - 1
        BY <1>6, <3>1, <3>3
      <3> QED  BY <1>6, <3>1, <3>2, <3>3, <3>4
    <2> HIDE DEF m, s
    <2>2. \A j \in 1 .. m : j # i => children[t][j] # c
      BY <1>1, <2>1 DEF EntryOnce
    <2>3. \A j \in 1 .. m - 1 :
             \E l \in 1 .. m : l # i /\ s[j] = children[t][l] /\ (j < i => l = j)
                               /\ (~(j < i) => l = j + 1)
      <3> TAKE j \in 1 .. m - 1
      <3>1. CASE j < i
        <4>1. j \in 1 .. m /\ j # i /\ s[j] = children[t][j]
          BY <2>1, <3>1
        <4> QED  BY <3>1, <4>1
      <3>2. CASE ~(j < i)
        <4>1. j + 1 \in 1 .. m /\ j + 1 # i /\ s[j] = children[t][j + 1]
          BY <2>1, <3>2
        <4> QED  BY <3>2, <4>1
      <3> QED  BY <3>1, <3>2
    <2>4. \A q \in Task \ {t} : \A j \in DOMAIN children[q] : children[q][j] # c
      BY <1>1 DEF EntryOfParent
    <2>5. RootLive'
      BY <1>2, <1>5 DEF RootLive
    <2>6. EntryOfParent'
      <3> SUFFICES ASSUME NEW q \in Task, NEW j \in DOMAIN children'[q]
                   PROVE  /\ status'[children'[q][j]] # "Free"
                          /\ children'[q][j] # InitProc
                          /\ parent'[children'[q][j]] = q
                          /\ status'[q] \in {"Ready", "Running"}
        BY DEF EntryOfParent
      <3>1. PICK l \in DOMAIN children[q] : children'[q][j] = children[q][l]
                                            /\ children[q][l] # c
        <4>1. CASE q = t
          BY <2>1, <2>2, <2>3, <4>1 DEF s
        <4>2. CASE q # t
          BY <2>1, <2>4, <4>2
        <4> QED  BY <4>1, <4>2
      <3>2. children[q][l] \in Task /\ q # c
        BY <1>2, <2>1 DEF EntryOfParent
      <3> QED  BY <1>5, <3>1, <3>2 DEF EntryOfParent
    <2>7. EntryOnce'
      <3> SUFFICES ASSUME NEW q \in Task, NEW j \in DOMAIN children'[q],
                          NEW l \in DOMAIN children'[q],
                          children'[q][j] = children'[q][l]
                   PROVE  j = l
        BY DEF EntryOnce
      <3>1. CASE q # t
        BY <2>1, <3>1 DEF EntryOnce
      <3>2. CASE q = t
        <4>1. j \in 1 .. m - 1 /\ l \in 1 .. m - 1 /\ s[j] = s[l]
          BY <2>1, <3>2 DEF s
        <4>2. PICK j1 \in 1 .. m : j1 # i /\ s[j] = children[t][j1]
                 /\ (j < i => j1 = j) /\ (~(j < i) => j1 = j + 1)
          BY <2>3, <4>1
        <4>3. PICK l1 \in 1 .. m : l1 # i /\ s[l] = children[t][l1]
                 /\ (l < i => l1 = l) /\ (~(l < i) => l1 = l + 1)
          BY <2>3, <4>1
        <4>4. j1 = l1
          BY <2>1, <4>1, <4>2, <4>3 DEF EntryOnce
        <4> QED  BY <2>1, <4>1, <4>2, <4>3, <4>4
      <3> QED  BY <3>1, <3>2
    <2>8. ParentHasEntry'
      <3> SUFFICES ASSUME NEW d \in Task, status'[d] # "Free", d # InitProc
                   PROVE  /\ parent'[d] \in Task
                          /\ \E j \in DOMAIN children'[parent'[d]] :
                                children'[parent'[d]][j] = d
        BY DEF ParentHasEntry
      <3>1. d # c /\ status[d] # "Free" /\ parent'[d] = parent[d]
        BY <1>5
      <3>2. PICK l \in DOMAIN children[parent[d]] :
               parent[d] \in Task /\ children[parent[d]][l] = d
        BY <3>1 DEF ParentHasEntry
      <3>3. CASE parent[d] # t
        BY <2>1, <3>1, <3>2, <3>3
      <3>4. CASE parent[d] = t
        <4>1. l \in 1 .. m /\ children[t][l] = d /\ l # i
          BY <1>1, <2>1, <3>1, <3>2, <3>4
        <4>2. CASE l < i
          <5>1. l \in 1 .. m - 1
            BY <2>1, <4>1, <4>2
          <5> QED  BY <2>1, <3>1, <3>4, <4>1, <4>2, <5>1 DEF s
        <4>3. CASE ~(l < i)
          <5>1. l - 1 \in 1 .. m - 1 /\ ~(l - 1 < i) /\ (l - 1) + 1 = l
            BY <2>1, <4>1, <4>3
          <5>2. s[l - 1] = d
            BY <2>1, <4>1, <5>1
          <5> QED  BY <2>1, <3>1, <3>4, <5>1, <5>2 DEF s
        <4> QED  BY <4>2, <4>3
      <3> QED  BY <3>3, <3>4
    <2> QED  BY <2>5, <2>6, <2>7, <2>8
  <1>11. CountInv'
    <2>1. CountInv
      BY CountForm DEF IInv
    <2> QED  BY <1>3, <1>4, <1>5, <2>1
                DEF CountInv, LiveRef, AllocRef, InCall, Live, Alloc
  <1>12. StrongCountExact'
    BY <1>7, <1>8, <1>10, <1>11, CountForm, PTL
  <1>13. HeldIsLive' /\ NoParent' /\ OnlyInitExitPanics'
    BY <1>3, <1>4, <1>5 DEF IInv, HeldIsLive, NoParent, OnlyInitExitPanics, Live, Alloc
  <1> QED  BY <1>7, <1>8, <1>9, <1>10, <1>12, <1>13 DEF IInv

----------------------------------------------------------------------------
\* Every step of the process subsystem preserves the inductive invariant.
LEMMA NextIInv == IInv /\ [Next]_vars => IInv'
  <1> SUFFICES ASSUME IInv, [Next]_vars PROVE IInv'
    OBVIOUS
  <1> USE TaskAssumption
  <1>1. ASSUME NEW p \in Pids, Dispatch(p) PROVE IInv'
    BY <1>1, DispatchIInv
  <1>2. ASSUME NEW t \in Task, Yield(t) \/ BlockAgain(t) \/ Stop(t) \/ StayStopped(t)
        PROVE  IInv'
    <2>1. /\ current = t /\ Suspend(t)
          /\ UNCHANGED <<pid, parent, children, nextPid, recycled, kstack, panic>>
          /\ UNCHANGED <<held, strong>>
      BY <1>2 DEF Yield, BlockAgain, Stop, StayStopped, InUser, pids
    <2>2. held' \in [Task -> BOOLEAN] /\ strong' \in [Task -> Nat]
      BY <2>1 DEF IInv, TypeOK
    <2>3. frozen' \subseteq Task
      BY <1>2 DEF Yield, BlockAgain, Stop, StayStopped, IInv, TypeOK
    <2> QED  BY <2>1, <2>2, <2>3, SuspendIInv
  <1>3. ASSUME NEW t \in Task, Block(t) PROVE IInv'
    <2>1. /\ current = t /\ Suspend(t) /\ ~held[t]
          /\ held' = [held EXCEPT ![t] = TRUE]
          /\ strong' = [strong EXCEPT ![t] = @ + 1]
          /\ UNCHANGED <<pid, parent, children, nextPid, recycled, kstack, panic>>
      BY <1>3 DEF Block, InUser, pids
    <2>2. held \in [Task -> BOOLEAN] /\ strong \in [Task -> Nat]
      BY DEF IInv, TypeOK
    <2>3. held' \in [Task -> BOOLEAN] /\ strong' \in [Task -> Nat]
      BY <2>1, <2>2
    <2>4. /\ \A u \in Task \ {t} : held'[u] = held[u] /\ strong'[u] = strong[u]
          /\ held'[t] /\ strong'[t] = strong[t] + 1
      BY <2>1, <2>2
    <2>5. \A u \in Task : held'[u] => held[u] \/ u = t
      BY <2>4
    <2>6. \A u \in Task : strong'[u] + (IF held[u] THEN 1 ELSE 0)
                             = strong[u] + (IF held'[u] THEN 1 ELSE 0)
      BY <2>1, <2>2, <2>4
    <2>7. frozen' \subseteq Task
      BY <1>3 DEF Block, IInv, TypeOK
    <2> QED  BY <2>1, <2>3, <2>5, <2>6, <2>7, SuspendIInv
  <1>4. ASSUME NEW t \in Task, Unblock(t) PROVE IInv'
    BY <1>4, UnblockIInv
  <1>5. ASSUME NEW t \in Task, NEW c \in Task, Fork(t, c) PROVE IInv'
    BY <1>5, ForkIInv
  <1>6. ASSUME NEW t \in Task, Exit(t) PROVE IInv'
    BY <1>6, ExitIInv
  <1>7. ASSUME NEW t \in Task, NEW i \in DOMAIN children[t],
               NEW arg \in Pids \cup {NoTask}, Reap(t, arg, i)
        PROVE  IInv'
    BY <1>7, ReapIInv
  <1>8. ASSUME UNCHANGED vars \/ \E t \in Task : Continue(t) PROVE IInv'
    <2>1. /\ UNCHANGED <<status, pid, parent, children, held, strong, current, rq, heap>>
          /\ UNCHANGED <<nextPid, recycled, kstack, panic>>
      BY <1>8 DEF vars, Continue, sched, pids
    <2>0. frozen' \subseteq frozen
      BY <1>8 DEF vars, Continue
    <2>2. TypeOK'
      BY <2>0, <2>1 DEF IInv, TypeOK
    <2>3. PidPartition' /\ FamilyTree' /\ NoParent'
      BY <2>1, TreeFrame DEF IInv
    <2>4. QueueInSync' /\ CountInv'
      BY <2>1, CountForm
         DEF IInv, QueueInSync, CountInv, LiveRef, AllocRef, InCall, Live, Alloc
    <2>5. StrongCountExact'
      BY <2>2, <2>3, <2>4, CountForm, PTL
    <2>6. HeldIsLive' /\ OnlyInitExitPanics'
      BY <2>1 DEF IInv, HeldIsLive, OnlyInitExitPanics, Live
    <2> QED  BY <2>2, <2>3, <2>4, <2>5, <2>6 DEF IInv
  <1> QED  BY <1>1, <1>2, <1>3, <1>4, <1>5, <1>6, <1>7, <1>8 DEF Next

\* The inductive invariant holds in every reachable state.
THEOREM Invariance == Spec => []IInv
  BY InitIInv, NextIInv, PTL DEF Spec

\* Every state is well typed: no count, pid or queue entry leaves its range.
THEOREM TypeCorrect == Spec => []TypeOK
  <1>1. IInv => TypeOK
    BY DEF IInv
  <1> QED  BY <1>1, Invariance, PTL

\* The ready queue, the heap and the statuses always agree, so fetch never drops
\* a pid and never runs a task that is not Ready.
THEOREM QueueSafety == Spec => []QueueInSync
  <1>1. IInv => QueueInSync
    BY DEF IInv
  <1> QED  BY <1>1, Invariance, PTL

\* No pid is owned twice, freed twice or lost, and kernel stacks follow pids.
THEOREM PidSafety == Spec => []PidPartition
  <1>1. IInv => PidPartition
    BY DEF IInv
  <1> QED  BY <1>1, Invariance, PTL

\* No process is lost from the tree or listed twice, whatever exits first.
THEOREM TreeSafety == Spec => []FamilyTree
  <1>1. IInv => FamilyTree
    BY DEF IInv
  <1> QED  BY <1>1, Invariance, PTL

\* Reference counts are exact: no TCB leaks and none is freed while referenced.
THEOREM CountSafety == Spec => []StrongCountExact
  <1>1. IInv => StrongCountExact
    BY DEF IInv
  <1> QED  BY <1>1, Invariance, PTL

\* The kernel's own assertions on these paths never fail; only an exit of
\* INITPROC panics.
THEOREM PanicSafety == Spec => []OnlyInitExitPanics
  <1>1. IInv => OnlyInitExitPanics
    BY DEF IInv
  <1> QED  BY <1>1, Invariance, PTL

\* A pid names the live process that owns it now, and nothing else.
THEOREM LookupSafety == Spec => []LookupExact
  <1>1. IInv => LookupExact
    <2> SUFFICES ASSUME IInv
                 PROVE  /\ \A t \in Task : Live(t) => Pid2Task(pid[t]) = t
                        /\ \A p \in Pids : Pid2Task(p) # NoTask =>
                              Live(Pid2Task(p)) /\ pid[Pid2Task(p)] = p
      BY DEF LookupExact
    <2> USE TaskAssumption
    <2>1. current # NoTask => current \in Task /\ status[current] = "Running"
      BY DEF IInv, TypeOK, QueueInSync
    <2>2. ASSUME NEW t \in Task, Live(t) PROVE Pid2Task(pid[t]) = t
      <3>1. CASE current # NoTask /\ pid[current] = pid[t]
        <4>1. current = t
          BY <2>1, <2>2, <3>1 DEF IInv, PidPartition, OwnedDistinct, Alloc, Live
        <4> QED  BY <3>1, <4>1 DEF Pid2Task
      <3>2. CASE ~(current # NoTask /\ pid[current] = pid[t])
        <4>1. current # t
          BY <3>2
        <4>2. rq[pid[t]] = t
          BY <2>2, <4>1 DEF IInv, QueueInSync, Live
        <4> QED  BY <3>2, <4>2 DEF Pid2Task
      <3> QED  BY <3>1, <3>2
    <2>3. ASSUME NEW p \in Pids, Pid2Task(p) # NoTask
          PROVE  Live(Pid2Task(p)) /\ pid[Pid2Task(p)] = p
      <3>1. CASE current # NoTask /\ pid[current] = p
        BY <2>1, <3>1 DEF Pid2Task, Live
      <3>2. CASE ~(current # NoTask /\ pid[current] = p)
        BY <2>3, <3>2 DEF Pid2Task, Live, IInv, QueueInSync
      <3> QED  BY <3>1, <3>2
    <2> QED  BY <2>2, <2>3
  <1> QED  BY <1>1, Invariance, PTL

\* A task blocked in a system call stays a live process with its pid.
THEOREM BlockedSafety == Spec => BlockedStaysLive
  <1>1. IInv /\ IInv' /\ [Next]_vars =>
           [\A t \in Task : held[t] => Live(t)' /\ pid'[t] = pid[t]]_vars
    <2> SUFFICES ASSUME IInv, IInv', Next, NEW t \in Task, held[t]
                 PROVE  status'[t] \in {"Ready", "Running"} /\ pid'[t] = pid[t]
      BY DEF Live
    <2> USE TaskAssumption
    <2>1. status \in [Task -> {"Free", "Ready", "Running", "Zombie"}]
      BY DEF IInv, TypeOK
    <2>2. pid \in [Task -> Pids]
      BY DEF IInv, TypeOK
    <2>3. status[t] \in {"Ready", "Running"}
      BY DEF IInv, HeldIsLive, Live
    <2>4. ASSUME NEW p \in Pids, Dispatch(p) PROVE status'[t] \in {"Ready", "Running"} /\ pid' = pid
      BY <2>1, <2>3, <2>4 DEF Dispatch
    <2>5. ASSUME NEW u \in Task, \/ Yield(u) \/ Block(u) \/ BlockAgain(u) \/ Unblock(u)
                                 \/ Stop(u) \/ StayStopped(u) \/ Continue(u)
          PROVE  status'[t] \in {"Ready", "Running"} /\ pid' = pid
      BY <2>1, <2>3, <2>5
         DEF Yield, Block, BlockAgain, Unblock, Stop, StayStopped, Continue, Suspend
    <2>6. ASSUME NEW u \in Task, NEW c \in Task, Fork(u, c)
          PROVE  status'[t] \in {"Ready", "Running"} /\ pid'[t] = pid[t]
      <3>1. c # t
        BY <2>3, <2>6 DEF Fork, Alloc
      <3> QED  BY <2>1, <2>2, <2>3, <2>6, <3>1 DEF Fork, Crash, tcbs
    <2>7. ASSUME NEW u \in Task, Exit(u)
          PROVE  status'[t] \in {"Ready", "Running"} /\ pid' = pid
      <3>1. u # t
        BY <2>7 DEF Exit, InUser
      <3> QED  BY <2>1, <2>3, <2>7, <3>1 DEF Exit, Crash, tcbs
    <2>8. ASSUME NEW u \in Task, NEW i \in DOMAIN children[u], NEW arg, Reap(u, arg, i)
          PROVE  status'[t] \in {"Ready", "Running"} /\ pid' = pid
      <3>1. children[u][i] # t
        BY <2>3, <2>8 DEF Reap
      <3> QED  BY <2>1, <2>3, <2>8, <3>1 DEF Reap, Crash, tcbs
    <2> QED  BY <2>4, <2>5, <2>6, <2>7, <2>8 DEF Next
  <1> QED  BY <1>1, Invariance, PTL DEF Spec, BlockedStaysLive

----------------------------------------------------------------------------
\* A step that keeps every parent, and each status within live, is a stutter of the abstract life
\* cycle.
LEMMA AbstractStutter ==
    ASSUME parent' = parent,
           \A u \in Task : \/ status'[u] = status[u]
                           \/ /\ status[u] \in {"Ready", "Running"}
                              /\ status'[u] \in {"Ready", "Running"}
    PROVE  UNCHANGED LC!avars
  <1>1. \A u \in Task :
           (IF status'[u] \in {"Ready", "Running"} THEN "live"
            ELSE IF status'[u] = "Zombie" THEN "zombie" ELSE "absent")
           = (IF status[u] \in {"Ready", "Running"} THEN "live"
              ELSE IF status[u] = "Zombie" THEN "zombie" ELSE "absent")
    OBVIOUS
  <1>2. AbstractState' = AbstractState
    BY <1>1 DEF AbstractState, Live
  <1> QED  BY <1>2 DEF LC!avars

\* The process subsystem implements the abstract life cycle: fork is Spawn, exit
\* is Die with adoption by INITPROC, waitpid is Collect by the parent, and
\* everything else is invisible.
THEOREM Refinement == Spec => LifecycleSpec
  <1> USE TaskAssumption
  <1>1. Init => LC!AInit
    BY DEF Init, LC!AInit, AbstractState, Live
  <1>2. IInv /\ [Next]_vars => [LC!ANext]_(LC!avars)
    <2> SUFFICES ASSUME IInv, [Next]_vars PROVE LC!ANext \/ UNCHANGED LC!avars
      OBVIOUS
    <2> DEFINE abs(x) == IF x \in {"Ready", "Running"} THEN "live"
                         ELSE IF x = "Zombie" THEN "zombie" ELSE "absent"
    <2>1. /\ AbstractState = [u \in Task |-> abs(status[u])]
          /\ AbstractState' = [u \in Task |-> abs(status'[u])]
      BY DEF AbstractState, Live
    <2>2. /\ status \in [Task -> {"Free", "Ready", "Running", "Zombie"}]
          /\ parent \in [Task -> Task \cup {NoTask}]
      BY DEF IInv, TypeOK
    <2>3. ASSUME NEW p \in Pids, Dispatch(p) PROVE UNCHANGED LC!avars
      <3>1. rq[p] # NoTask /\ rq[p] \in Task /\ status[rq[p]] = "Ready"
        BY <2>3 DEF Dispatch, IInv, QueueInSync, TypeOK
      <3>2. parent' = parent /\ status' = [status EXCEPT ![rq[p]] = "Running"]
        BY <2>3, <3>1 DEF Dispatch
      <3> QED  BY <2>2, <3>1, <3>2, AbstractStutter
    <2>4. ASSUME NEW t \in Task, \/ Yield(t) \/ Block(t) \/ BlockAgain(t) \/ Unblock(t)
                                 \/ Stop(t) \/ StayStopped(t) \/ Continue(t)
          PROVE  UNCHANGED LC!avars
      <3>1. status[t] = "Running"
        BY <2>4 DEF Yield, Block, BlockAgain, Unblock, Stop, StayStopped, Continue, InUser,
                    IInv, QueueInSync
      <3>2. parent' = parent /\ (status' = status \/ status' = [status EXCEPT ![t] = "Ready"])
        BY <2>4 DEF Yield, Block, BlockAgain, Unblock, Stop, StayStopped, Continue, Suspend
      <3> QED  BY <2>2, <3>1, <3>2, AbstractStutter
    <2>5. ASSUME NEW t \in Task, NEW c \in Task, Fork(t, c) PROVE LC!ANext
      <3>1. AllocPid \notin kstack
        BY <2>5, AllocPidFresh DEF Fork
      <3>2. status[t] = "Running" /\ status[c] = "Free"
        BY <2>5 DEF Fork, InUser, Alloc, IInv, QueueInSync
      <3>3. /\ status' = [status EXCEPT ![c] = "Ready"]
            /\ parent' = [parent EXCEPT ![c] = t]
        BY <2>5, <3>1 DEF Fork
      <3>4. AbstractState' = [AbstractState EXCEPT ![c] = "live"]
        BY <2>1, <2>2, <3>3
      <3>5. AbstractState[t] = "live" /\ AbstractState[c] = "absent"
        BY <2>1, <3>2
      <3>6. LC!Spawn(t, c)
        BY <3>3, <3>4, <3>5 DEF LC!Spawn
      <3> QED  BY <3>6 DEF LC!ANext
    <2>6. ASSUME NEW t \in Task, Exit(t) PROVE LC!ANext \/ UNCHANGED LC!avars
      <3>1. CASE t = InitProc
        <4>1. parent' = parent /\ status' = status
          BY <2>6, <3>1 DEF Exit, Crash, tcbs
        <4> QED  BY <4>1, AbstractStutter
      <3>2. CASE t # InitProc
        <4>1. status[t] = "Running"
          BY <2>6 DEF Exit, InUser, IInv, QueueInSync
        <4>2. /\ status' = [status EXCEPT ![t] = "Zombie"]
              /\ parent' = [c \in Task |->
                              IF \E i \in DOMAIN children[t] : children[t][i] = c
                              THEN InitProc ELSE parent[c]]
          BY <2>6, <3>2 DEF Exit, Adopt
        <4>3. \A c \in Task : (\E i \in DOMAIN children[t] : children[t][i] = c)
                              <=> parent[c] = t
          <5> TAKE c \in Task
          <5>1. (\E i \in DOMAIN children[t] : children[t][i] = c) => parent[c] = t
            BY DEF IInv, FamilyTree, EntryOfParent
          <5>2. parent[c] = t => Alloc(c) /\ c # InitProc
            BY DEF IInv, NoParent
          <5> QED  BY <5>1, <5>2 DEF IInv, FamilyTree, ParentHasEntry
        <4>4. parent' = [c \in Task |-> IF parent[c] = t THEN InitProc ELSE parent[c]]
          BY <4>2, <4>3
        <4>5. AbstractState' = [AbstractState EXCEPT ![t] = "zombie"]
          BY <2>1, <2>2, <4>2
        <4>6. AbstractState[t] = "live"
          BY <2>1, <4>1
        <4>7. LC!Die(t)
          BY <3>2, <4>4, <4>5, <4>6 DEF LC!Die
        <4> QED  BY <4>7 DEF LC!ANext
      <3> QED  BY <3>1, <3>2
    <2>7. ASSUME NEW t \in Task, NEW i \in DOMAIN children[t],
                 NEW arg \in Pids \cup {NoTask}, Reap(t, arg, i)
          PROVE  LC!ANext
      <3>1. PICK c \in Task : c = children[t][i]
        BY DEF IInv, TypeOK
      <3>2. status[c] = "Zombie" /\ status[t] = "Running" /\ parent[c] = t
        BY <2>7, <3>1 DEF Reap, InUser, IInv, QueueInSync, FamilyTree, EntryOfParent
      <3>3. /\ strong[c] = 1 /\ ~(pid[c] >= nextPid)
            /\ \A j \in DOMAIN recycled : recycled[j] # pid[c]
        BY <3>2, ZombieFacts
      <3>4. /\ status' = [status EXCEPT ![c] = "Free"]
            /\ parent' = [parent EXCEPT ![c] = NoTask]
        BY <2>7, <3>1, <3>3 DEF Reap
      <3>5. AbstractState' = [AbstractState EXCEPT ![c] = "absent"]
        BY <2>1, <2>2, <3>4
      <3>6. AbstractState[t] = "live" /\ AbstractState[c] = "zombie"
        BY <2>1, <3>2
      <3>7. LC!Collect(t, c)
        BY <3>2, <3>4, <3>5, <3>6 DEF LC!Collect
      <3> QED  BY <3>7 DEF LC!ANext
    <2>8. CASE UNCHANGED vars
      BY <2>8, AbstractStutter DEF vars
    <2> QED  BY <2>3, <2>4, <2>5, <2>6, <2>7, <2>8 DEF Next
  <1> QED  BY <1>1, <1>2, Invariance, PTL DEF Spec, LifecycleSpec, LC!ASpec

============================================================================
