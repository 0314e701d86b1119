---------------------------- MODULE ControlProofs ----------------------------
(***************************************************************************)
(* Proofs about what gives a task the processor and what takes it away.    *)
(*                                                                         *)
(* First module Stride, for every word size and every set of tasks: every  *)
(* queued pass stays within one stride of the virtual time, a stride is at *)
(* most half a circle because priorities are at least two, and within half *)
(* a circle the wrapped comparison is exact.                               *)
(*                                                                         *)
(* Then module Signals, for any set of signal numbers and any masks that   *)
(* programs pass: what a fatal or a stopping signal does to a process that *)
(* returns to user mode, that the interrupted program can be resumed, and  *)
(* that no signal is dropped.                                              *)
(***************************************************************************)
EXTENDS Stride, Signals, Integers, WellFoundedInduction, TLAPS

\* Half of BIG_STRIDE, the bound the comparison uses.
LEMMA HalfBig == Half >= 1 /\ Half \in Nat /\ Big = 2 * Half - 1 /\ Big \div 2 = Half - 1
  <1>1. Half \in Nat /\ Half >= 3
    BY StrideAssumption DEF Prios
  <1>2. Big = 2 * (Half - 1) + 1 /\ Half - 1 \in Nat
    BY <1>1 DEF Big, Word
  <1> QED  BY <1>1, <1>2 DEF Big, Word

\* Every accepted priority gives a stride of at least one and at most half a
\* circle: it moves a pass forward, and never past the point of comparison.
LEMMA StrideBound ==
    ASSUME NEW p \in Prios
    PROVE  StrideOf(p) \in 1 .. Half - 1
  <1>1. Half \in Nat /\ p \in Nat /\ p >= 2 /\ p <= Half - 1 /\ Big = 2 * Half - 1
    BY StrideAssumption, HalfBig DEF Prios
  <1> DEFINE q == StrideOf(p)
  <1>2. q \in Nat /\ q * p <= Big /\ Big < (q + 1) * p
    BY <1>1 DEF StrideOf
  <1>3. q * 2 <= q * p
    BY <1>1, <1>2
  <1>4. q >= 1
    <2> SUFFICES ASSUME q = 0 PROVE FALSE
      BY <1>2
    <2> QED  BY <1>1, <1>2
  <1> QED  BY <1>1, <1>2, <1>3, <1>4

StrideInv == StrideTypeOK /\ HeapMatchesTcbs /\ LagWithinStride

\* Adding a stride moves a pass forward by exactly that distance on the circle.
LEMMA WrapAddFacts ==
    ASSUME NEW m \in Usize, NEW s \in 1 .. Half - 1
    PROVE  /\ WrapAdd(m, s) \in Usize
           /\ (IF WrapAdd(m, s) >= m THEN WrapAdd(m, s) - m ELSE WrapAdd(m, s) + Word - m) = s
  BY HalfBig DEF WrapAdd, Usize, Word, Big

\* Moving the virtual time to the pass m, no farther away than p, shortens the
\* distance to p by the distance to m.
LEMMA LagShift ==
    ASSUME NEW v \in Usize, NEW m \in Usize, NEW p \in Usize,
           NEW dm, dm = IF m >= v THEN m - v ELSE m + Word - v,
           NEW dp, dp = IF p >= v THEN p - v ELSE p + Word - v,
           dm <= dp
    PROVE  (IF p >= m THEN p - m ELSE p + Word - m) = dp - dm
  BY HalfBig DEF Usize, Word, Big

\* Within half a circle of the virtual time the wrapped comparison orders passes
\* by their distance.
LEMMA ComparisonLemma ==
    ASSUME vt \in Usize,
           NEW x, NEW y, x.pass \in Usize, y.pass \in Usize,
           Lag(x.pass) <= Half - 1, Lag(y.pass) <= Half - 1
    PROVE  /\ (PartialCmp(x, y) = "Greater") <=> (Lag(x.pass) < Lag(y.pass))
           /\ (PartialCmp(x, y) = "Equal") <=> (Lag(x.pass) = Lag(y.pass))
  <1> DEFINE a == x.pass
             b == y.pass
  <1>1. /\ Half \in Nat /\ Half >= 1 /\ Word = 2 * Half /\ Big \div 2 = Half - 1
        /\ a \in Nat /\ b \in Nat /\ vt \in Nat
        /\ a < 2 * Half /\ b < 2 * Half /\ vt < 2 * Half
    BY HalfBig DEF Usize, Word, Big
  <1>2. Lag(a) = (IF a >= vt THEN a - vt ELSE a + 2 * Half - vt)
    BY <1>1 DEF Lag
  <1>3. Lag(b) = (IF b >= vt THEN b - vt ELSE b + 2 * Half - vt)
    BY <1>1 DEF Lag
  <1>4. PartialCmp(x, y) =
          IF (IF a < b THEN b - a ELSE a - b) <= Half - 1
          THEN Cmp(x, y) ELSE Reverse(Cmp(x, y))
    BY <1>1 DEF PartialCmp, AbsDiff
  <1>5. /\ a < b => Cmp(x, y) = "Greater" /\ Reverse(Cmp(x, y)) = "Less"
        /\ a = b => Cmp(x, y) = "Equal" /\ Reverse(Cmp(x, y)) = "Equal"
        /\ a > b => Cmp(x, y) = "Less" /\ Reverse(Cmp(x, y)) = "Greater"
    BY <1>1 DEF Cmp, Reverse
  <1> HIDE DEF a, b
  <1>6. Lag(a) <= Half - 1 /\ Lag(b) <= Half - 1
    BY DEF a, b
  <1>7. CASE a < b
    <2>1. PartialCmp(x, y) = IF b - a <= Half - 1 THEN "Greater" ELSE "Less"
      BY <1>4, <1>5, <1>7
    <2>2. (b - a <= Half - 1) <=> (Lag(a) < Lag(b))
      BY <1>1, <1>2, <1>3, <1>6, <1>7
    <2>3. Lag(a) # Lag(b)
      BY <1>1, <1>2, <1>3, <1>7
    <2> QED  BY <2>1, <2>2, <2>3 DEF a, b
  <1>8. CASE a = b
    <2>1. PartialCmp(x, y) = "Equal"
      BY <1>1, <1>4, <1>5, <1>8
    <2>2. Lag(a) = Lag(b) /\ ~(Lag(a) < Lag(b))
      BY <1>1, <1>2, <1>3, <1>8
    <2> QED  BY <2>1, <2>2 DEF a, b
  <1>9. CASE a > b
    <2>1. PartialCmp(x, y) = IF a - b <= Half - 1 THEN "Less" ELSE "Greater"
      BY <1>1, <1>4, <1>5, <1>9
    <2>2. (a - b <= Half - 1) <=> ~(Lag(a) < Lag(b))
      BY <1>1, <1>2, <1>3, <1>6, <1>9
    <2>3. Lag(a) # Lag(b)
      BY <1>1, <1>2, <1>3, <1>9
    <2> QED  BY <2>1, <2>2, <2>3 DEF a, b
  <1> QED  BY <1>1, <1>7, <1>8, <1>9

\* In a state of the invariant the comparison is exact on the whole heap.
LEMMA HeapOrder == StrideInv => ComparisonExact
  <1> SUFFICES ASSUME StrideInv, NEW x \in heap, NEW y \in heap
               PROVE  /\ (PartialCmp(x, y) = "Greater") <=> (Lag(x.pass) < Lag(y.pass))
                      /\ (PartialCmp(x, y) = "Equal") <=> (Lag(x.pass) = Lag(y.pass))
    BY DEF ComparisonExact
  <1>1. /\ x.pass \in Usize /\ y.pass \in Usize /\ vt \in Usize
        /\ x.id \in Task /\ y.id \in Task
        /\ prio[x.id] \in Prios /\ prio[y.id] \in Prios
    BY DEF StrideInv, StrideTypeOK
  <1>2. Lag(x.pass) \in Int /\ Lag(y.pass) \in Int
    BY <1>1, HalfBig DEF Lag, Usize, Word, Big
  <1>3. Lag(x.pass) <= Half - 1 /\ Lag(y.pass) <= Half - 1
    BY <1>1, <1>2, HalfBig, StrideBound DEF StrideInv, LagWithinStride
  <1> QED  BY <1>1, <1>3, ComparisonLemma

\* A set of naturals that is not empty has a least element.
LEMMA LeastNatural ==
    ASSUME NEW T \in SUBSET Nat, T # {}
    PROVE  \E x \in T : \A y \in T : x <= y
  <1>1. PICK R : /\ IsWellFoundedOn(R, Nat)
                 /\ \A x, y \in Nat : <<x, y>> \in R <=> x < y
    <2>1. IsWellFoundedOn(OpToRel(<, Nat), Nat)
      BY NatLessThanWellFounded
    <2>2. \A x, y \in Nat : <<x, y>> \in OpToRel(<, Nat) <=> x < y
      BY DEF OpToRel
    <2> QED  BY <2>1, <2>2
  <1>2. T \subseteq Nat
    OBVIOUS
  <1>3. \E x \in T : \A y \in T : ~(<<y, x>> \in R)
    <2>1. IsWellFoundedOn(R, Nat)
      BY <1>1
    <2> QED  BY <1>2, <2>1, WFMin, Zenon
  <1>4. PICK x \in T : \A y \in T : ~(<<y, x>> \in R)
    BY <1>3
  <1>5. ASSUME NEW y \in T PROVE x <= y
    <2>1. x \in Nat /\ y \in Nat
      BY <1>2
    <2>2. ~(y < x)
      BY <1>1, <1>4, <2>1, Zenon
    <2> QED  BY <2>1, <2>2
  <1> QED  BY <1>5

\* pop returns an entry of least lag.
LEMMA PoppedIsLeast ==
    ASSUME StrideInv, NEW e \in Popped
    PROVE  /\ e \in heap
           /\ \A o \in heap : Lag(e.pass) <= Lag(o.pass)
  <1> DEFINE lags == {Lag(o.pass) : o \in heap}
             greatest == {x \in heap : \A o \in heap : PartialCmp(o, x) # "Greater"}
  <1>1. ComparisonExact
    BY HeapOrder
  <1>2. \A o \in heap : o.pass \in Usize
    BY DEF StrideInv, StrideTypeOK
  <1>3. \A o \in heap : Lag(o.pass) \in Nat
    BY <1>2, HalfBig DEF StrideInv, StrideTypeOK, Lag, Usize, Word, Big
  <1>4. Popped = IF greatest # {} THEN greatest ELSE heap
    BY DEF Popped
  <1>5. e \in heap
    BY <1>4
  <1>6. greatest # {}
    <2>1. lags \in SUBSET Nat /\ lags # {}
      BY <1>3, <1>5
    <2>2. PICK n \in lags : \A k \in lags : n <= k
      BY <2>1, LeastNatural
    <2>3. PICK x \in heap : n = Lag(x.pass)
      BY <2>2
    <2>4. \A o \in heap : Lag(x.pass) <= Lag(o.pass)
      BY <2>2, <2>3
    <2>5. \A o \in heap : ~(Lag(o.pass) < Lag(x.pass))
      BY <1>3, <2>3, <2>4
    <2>6. \A o \in heap : PartialCmp(o, x) # "Greater"
      BY <1>1, <2>3, <2>5 DEF ComparisonExact
    <2> QED  BY <2>3, <2>6
  <1>7. \A o \in heap : PartialCmp(o, e) # "Greater"
    BY <1>4, <1>6
  <1>8. \A o \in heap : ~(Lag(o.pass) < Lag(e.pass))
    BY <1>1, <1>5, <1>7 DEF ComparisonExact
  <1> QED  BY <1>3, <1>5, <1>8

\* The boot state satisfies the invariant.
LEMMA InitStride == StrideInit => StrideInv
  <1> SUFFICES ASSUME StrideInit PROVE StrideInv
    OBVIOUS
  <1>1. InitProc \in Task /\ NoTask \notin Task /\ DefaultPrio \in Prios
    BY StrideAssumption
  <1>2. StrideOf(DefaultPrio) \in 1 .. Half - 1
    BY <1>1, StrideBound
  <1>3. 0 \in Usize /\ StrideOf(DefaultPrio) \in Usize
    BY <1>2, HalfBig DEF Usize
  <1>4. StrideTypeOK
    BY <1>1, <1>3 DEF StrideInit, StrideTypeOK
  <1>5. HeapMatchesTcbs
    BY <1>1 DEF StrideInit, HeapMatchesTcbs
  <1>6. LagWithinStride
    BY <1>1, <1>2, <1>3, HalfBig DEF StrideInit, LagWithinStride, Lag, Usize
  <1> QED  BY <1>4, <1>5, <1>6 DEF StrideInv

\* TaskManager::add of a task that is not queued, whose pass is the virtual time:
\* its entry lags by exactly one stride.
LEMMA AddFacts ==
    ASSUME StrideInv, NEW t \in Task, NEW p \in Prios, Add(t, vt, p)
    PROVE  \E passed \in Usize :
              /\ Lag(passed) = StrideOf(p)
              /\ pass' = [pass EXCEPT ![t] = passed]
              /\ heap' = heap \cup {[id |-> t, pass |-> passed]}
  <1> DEFINE passed == WrapAdd(vt, StrideOf(p))
  <1>1. vt \in Usize /\ StrideOf(p) \in 1 .. Half - 1
    BY StrideBound DEF StrideInv, StrideTypeOK
  <1>2. passed \in Usize /\ Lag(passed) = StrideOf(p)
    BY <1>1, WrapAddFacts DEF Lag
  <1> QED  BY <1>2 DEF Add

\* The effect of adding t, shared by suspend and fork.
LEMMA AddKeeps ==
    ASSUME StrideInv, NEW t \in Task, t \notin Queued, NEW p \in Prios,
           Add(t, vt, p),
           prio' = [prio EXCEPT ![t] = p], vt' = vt,
           current' \in {current, NoTask}, current' # t
    PROVE  StrideInv'
  <1>1. PICK passed \in Usize : /\ Lag(passed) = StrideOf(p)
                                /\ pass' = [pass EXCEPT ![t] = passed]
                                /\ heap' = heap \cup {[id |-> t, pass |-> passed]}
    BY AddFacts
  <1>2. \A e \in heap : e.id # t /\ e.id \in Task
    BY DEF Queued, StrideInv, StrideTypeOK
  <1>3. StrideTypeOK'
    BY <1>1 DEF StrideInv, StrideTypeOK
  <1>4. HeapMatchesTcbs'
    <2>1. \A e \in heap' : e.pass = pass'[e.id] /\ e.id # current'
      <3> SUFFICES ASSUME NEW e \in heap' PROVE e.pass = pass'[e.id] /\ e.id # current'
        OBVIOUS
      <3>1. CASE e \in heap
        BY <1>1, <1>2, <3>1, StrideAssumption DEF StrideInv, HeapMatchesTcbs, StrideTypeOK
      <3>2. CASE e = [id |-> t, pass |-> passed]
        BY <1>1, <3>2 DEF StrideInv, StrideTypeOK
      <3> QED  BY <1>1, <3>1, <3>2
    <2>2. \A e, o \in heap' : e.id = o.id => e = o
      BY <1>1, <1>2 DEF StrideInv, HeapMatchesTcbs
    <2>3. current' # NoTask => pass'[current'] = vt'
      BY <1>1 DEF StrideInv, HeapMatchesTcbs, StrideTypeOK
    <2> QED  BY <2>1, <2>2, <2>3 DEF HeapMatchesTcbs
  <1>5. LagWithinStride'
    <2> SUFFICES ASSUME NEW e \in heap' PROVE Lag(e.pass) <= StrideOf(prio'[e.id])
      BY DEF LagWithinStride, Lag
    <2>1. CASE e \in heap
      BY <1>2, <2>1 DEF StrideInv, LagWithinStride, StrideTypeOK
    <2>2. CASE e = [id |-> t, pass |-> passed]
      <3>1. prio'[e.id] = p /\ Lag(e.pass) = StrideOf(p) /\ StrideOf(p) \in Nat
        BY <1>1, <2>2, StrideBound, HalfBig DEF StrideInv, StrideTypeOK
      <3> QED  BY <3>1
    <2> QED  BY <1>1, <2>1, <2>2
  <1> QED  BY <1>3, <1>4, <1>5 DEF StrideInv

\* The effect of a dispatch: the virtual time moves to the popped pass, and every
\* other lag shrinks by the lag of the popped entry.
LEMMA DispatchFacts ==
    ASSUME StrideInv, Dispatch
    PROVE  \E e \in heap :
              /\ heap' = heap \ {e} /\ current' = e.id /\ vt' = e.pass
              /\ current = NoTask /\ prio' = prio /\ pass' = pass
              /\ \A o \in heap : /\ Lag(e.pass) <= Lag(o.pass)
                                 /\ (IF o.pass >= e.pass THEN o.pass - e.pass
                                     ELSE o.pass + Word - e.pass)
                                    = Lag(o.pass) - Lag(e.pass)
                                 /\ Lag(o.pass) \in Nat
  <1>1. PICK e \in Popped : heap' = heap \ {e} /\ current' = e.id /\ vt' = e.pass
    BY DEF Dispatch
  <1>2. e \in heap /\ \A o \in heap : Lag(e.pass) <= Lag(o.pass)
    BY PoppedIsLeast
  <1>3. vt \in Usize /\ \A o \in heap : o.pass \in Usize
    BY DEF StrideInv, StrideTypeOK
  <1>4. \A o \in heap : Lag(o.pass) \in Nat
    BY <1>3, HalfBig DEF Lag, Usize, Word, Big
  <1>5. ASSUME NEW o \in heap
        PROVE  (IF o.pass >= e.pass THEN o.pass - e.pass ELSE o.pass + Word - e.pass)
                  = Lag(o.pass) - Lag(e.pass)
    BY <1>2, <1>3, LagShift DEF Lag
  <1> QED  BY <1>1, <1>2, <1>4, <1>5 DEF Dispatch

\* Every step preserves the invariant.
LEMMA NextStride == StrideInv /\ [StrideNext]_svars => StrideInv'
  <1> SUFFICES ASSUME StrideInv, [StrideNext]_svars PROVE StrideInv'
    OBVIOUS
  <1> USE StrideAssumption
  <1>1. CASE Dispatch
    <2>1. PICK e \in heap :
              /\ heap' = heap \ {e} /\ current' = e.id /\ vt' = e.pass
              /\ current = NoTask /\ prio' = prio /\ pass' = pass
              /\ \A o \in heap : /\ Lag(e.pass) <= Lag(o.pass)
                                 /\ (IF o.pass >= e.pass THEN o.pass - e.pass
                                     ELSE o.pass + Word - e.pass)
                                    = Lag(o.pass) - Lag(e.pass)
                                 /\ Lag(o.pass) \in Nat
      BY <1>1, DispatchFacts
    <2>2. StrideTypeOK'
      BY <2>1 DEF StrideInv, StrideTypeOK
    <2>3. HeapMatchesTcbs'
      BY <2>1 DEF StrideInv, HeapMatchesTcbs
    <2>4. LagWithinStride'
      <3> SUFFICES ASSUME NEW o \in heap, o # e
                   PROVE  (IF o.pass >= e.pass THEN o.pass - e.pass
                           ELSE o.pass + Word - e.pass) <= StrideOf(prio[o.id])
        BY <2>1 DEF LagWithinStride, Lag
      <3>1. Lag(o.pass) <= StrideOf(prio[o.id]) /\ StrideOf(prio[o.id]) \in Int
        BY StrideBound, HalfBig DEF StrideInv, StrideTypeOK, LagWithinStride
      <3>2. Lag(e.pass) \in Nat /\ Lag(o.pass) \in Nat
        BY <2>1
      <3>3. Lag(o.pass) - Lag(e.pass) <= StrideOf(prio[o.id])
        BY <3>1, <3>2
      <3> QED  BY <2>1, <3>3
    <2> QED  BY <2>2, <2>3, <2>4 DEF StrideInv
  <1>2. ASSUME NEW t \in Task, Suspend(t) PROVE StrideInv'
    <2>1. /\ current = t /\ current' = NoTask /\ pass[t] = vt /\ t \notin Queued
          /\ vt' = vt /\ prio' = prio /\ prio[t] \in Prios
      BY <1>2 DEF Suspend, StrideInv, HeapMatchesTcbs, StrideTypeOK, Queued
    <2>2. Add(t, vt, prio[t]) /\ prio' = [prio EXCEPT ![t] = prio[t]]
      BY <1>2, <2>1 DEF Suspend, StrideInv, StrideTypeOK
    <2> QED  BY <2>1, <2>2, AddKeeps
  <1>3. ASSUME NEW t \in Task, ExitCurrent(t) PROVE StrideInv'
    <2>1. current' = NoTask /\ prio' = prio /\ pass' = pass /\ heap' = heap /\ vt' = vt
      BY <1>3 DEF ExitCurrent
    <2>2. \A e \in heap : e.id # NoTask
      BY DEF StrideInv, StrideTypeOK
    <2> QED  BY <2>1, <2>2 DEF StrideInv, StrideTypeOK, HeapMatchesTcbs, LagWithinStride, Lag
  <1>4. ASSUME NEW t \in Task, NEW p \in Prios, SetPriority(t, p) PROVE StrideInv'
    <2>1. /\ current = t /\ prio' = [prio EXCEPT ![t] = p]
          /\ pass' = pass /\ heap' = heap /\ vt' = vt /\ current' = current
      BY <1>4 DEF SetPriority
    <2>2. \A e \in heap : prio'[e.id] = prio[e.id]
      BY <2>1 DEF StrideInv, StrideTypeOK, HeapMatchesTcbs
    <2>3. StrideTypeOK'
      BY <2>1 DEF StrideInv, StrideTypeOK
    <2>4. HeapMatchesTcbs' /\ LagWithinStride'
      BY <2>1, <2>2 DEF StrideInv, HeapMatchesTcbs, LagWithinStride, Lag
    <2> QED  BY <2>3, <2>4 DEF StrideInv
  <1>5. ASSUME NEW t \in Task, NEW c \in Task, Fork(t, c) PROVE StrideInv'
    <2>1. /\ current = t /\ current' = t /\ pass[t] = vt /\ c \notin Queued /\ c # t
          /\ vt' = vt /\ prio' = [prio EXCEPT ![c] = prio[t]] /\ prio[t] \in Prios
      BY <1>5 DEF Fork, StrideInv, HeapMatchesTcbs, StrideTypeOK
    <2>2. Add(c, vt, prio[t])
      BY <1>5, <2>1 DEF Fork
    <2> QED  BY <2>1, <2>2, AddKeeps
  <1>6. CASE UNCHANGED svars
    BY <1>6 DEF svars, StrideInv, StrideTypeOK, HeapMatchesTcbs, LagWithinStride, Lag
  <1> QED  BY <1>1, <1>2, <1>3, <1>4, <1>5, <1>6 DEF StrideNext

\* The invariant holds in every reachable state.
THEOREM StrideInvariance == StrideSpec => []StrideInv
  BY InitStride, NextStride, PTL DEF StrideSpec

\* Passes, priorities and heap entries stay in their ranges.
THEOREM StrideTypes == StrideSpec => []StrideTypeOK
  <1>1. StrideInv => StrideTypeOK
    BY DEF StrideInv
  <1> QED  BY <1>1, StrideInvariance, PTL

\* Heap entries repeat the pass of their TCB, one entry per queued task.
THEOREM HeapSafety == StrideSpec => []HeapMatchesTcbs
  <1>1. StrideInv => HeapMatchesTcbs
    BY DEF StrideInv
  <1> QED  BY <1>1, StrideInvariance, PTL

\* No queued task is ever more than one stride ahead of the virtual time.
THEOREM ShareSafety == StrideSpec => []LagWithinStride
  <1>1. StrideInv => LagWithinStride
    BY DEF StrideInv
  <1> QED  BY <1>1, StrideInvariance, PTL

\* The wrapped comparison is exact on the heap, for every word size.
THEOREM ComparisonSafety == StrideSpec => []ComparisonExact
  BY HeapOrder, StrideInvariance, PTL

\* Adding t extends the abstract lags by one stride for t.
LEMMA AddLags ==
    ASSUME StrideInv, NEW t \in Task, t \notin Queued, NEW p \in Prios,
           Add(t, vt, p), vt' = vt
    PROVE  Lags' = Ideal!Enqueue(t, StrideOf(p))
  <1>1. PICK passed \in Usize : /\ Lag(passed) = StrideOf(p)
                                /\ pass' = [pass EXCEPT ![t] = passed]
                                /\ heap' = heap \cup {[id |-> t, pass |-> passed]}
    BY AddFacts
  <1>2. Queued' = Queued \cup {t} /\ Queued \subseteq Task
    <2>1. Queued' = {e.id : e \in heap'}
      BY DEF Queued
    <2>2. ASSUME NEW q PROVE q \in Queued' <=> q \in Queued \/ q = t
      <3> DEFINE n == [id |-> t, pass |-> passed]
      <3>1. n.id = t /\ heap' = heap \cup {n}
        BY <1>1
      <3> HIDE DEF n
      <3>2. q \in Queued' <=> \E e \in heap' : e.id = q
        BY <2>1
      <3>3. q \in Queued <=> \E e \in heap : e.id = q
        BY DEF Queued
      <3>4. (\E e \in heap' : e.id = q) <=> (\E e \in heap : e.id = q) \/ n.id = q
        BY <3>1
      <3> QED  BY <3>1, <3>2, <3>3, <3>4
    <2>3. Queued \subseteq Task
      BY DEF Queued, StrideInv, StrideTypeOK
    <2> QED  BY <2>2, <2>3
  <1>3. pass'[t] = passed /\ \A q \in Queued : pass'[q] = pass[q] /\ q # t
    BY <1>1, <1>2 DEF StrideInv, StrideTypeOK
  <1>4. DOMAIN Lags = Queued /\ \A q \in Queued : Lags[q] = Lag(pass[q])
    BY DEF Lags
  <1>5. Lags' = [q \in Queued' |-> Lag(pass'[q])]
    BY DEF Lags, Lag
  <1>6. \A q \in Queued \cup {t} : Lag(pass'[q]) = IF q = t THEN StrideOf(p) ELSE Lags[q]
    BY <1>1, <1>3, <1>4
  <1>7. Lags' = [q \in Queued \cup {t} |-> IF q = t THEN StrideOf(p) ELSE Lags[q]]
    BY <1>2, <1>5, <1>6
  <1> QED  BY <1>4, <1>7 DEF Ideal!Enqueue

\* The scheduler of the kernel, with passes that overflow, implements stride
\* scheduling with unbounded passes: each dispatch runs a task of least lag.
THEOREM StrideRefinement == StrideSpec => IdealSpec
  <1> USE StrideAssumption
  <1>1. StrideInit => Ideal!IInit
    <2> SUFFICES ASSUME StrideInit PROVE Ideal!IInit
      OBVIOUS
    <2> DEFINE s == StrideOf(DefaultPrio)
    <2>1. s \in 1 .. Half - 1 /\ s \in {StrideOf(p) : p \in Prios}
      BY StrideBound
    <2>2. Queued = {InitProc}
      BY DEF StrideInit, Queued
    <2>3. Lag(pass[InitProc]) = s
      <3>1. pass[InitProc] = s /\ vt = 0
        BY DEF StrideInit
      <3> HIDE DEF s
      <3> QED  BY <2>1, <3>1, HalfBig DEF Lag
    <2>4. Lags = [q \in {InitProc} |-> s]
      BY <2>2, <2>3 DEF Lags
    <2> QED  BY <2>1, <2>4 DEF StrideInit, Ideal!IInit
  <1>2. StrideInv /\ [StrideNext]_svars => [Ideal!INext]_(Ideal!ivars)
    <2> SUFFICES ASSUME StrideInv, [StrideNext]_svars PROVE Ideal!INext \/ UNCHANGED Ideal!ivars
      OBVIOUS
    <2>1. CASE Dispatch
      <3>1. PICK e \in heap :
              /\ heap' = heap \ {e} /\ current' = e.id /\ vt' = e.pass
              /\ current = NoTask /\ prio' = prio /\ pass' = pass
              /\ \A o \in heap : /\ Lag(e.pass) <= Lag(o.pass)
                                 /\ (IF o.pass >= e.pass THEN o.pass - e.pass
                                     ELSE o.pass + Word - e.pass)
                                    = Lag(o.pass) - Lag(e.pass)
                                 /\ Lag(o.pass) \in Nat
        BY <2>1, DispatchFacts
      <3>2. \A o, x \in heap : o.id = x.id => o = x
        BY DEF StrideInv, HeapMatchesTcbs
      <3>3. \A o \in heap : o.pass = pass[o.id]
        BY DEF StrideInv, HeapMatchesTcbs
      <3>4. Queued' = Queued \ {e.id} /\ e.id \in Queued
        BY <3>1, <3>2 DEF Queued
      <3>5. ASSUME NEW q \in Queued
            PROVE  /\ Lag(pass[e.id]) <= Lag(pass[q])
                   /\ (IF pass[q] >= e.pass THEN pass[q] - e.pass
                       ELSE pass[q] + Word - e.pass) = Lag(pass[q]) - Lag(pass[e.id])
        <4>1. PICK o \in heap : o.id = q
          BY DEF Queued
        <4> QED  BY <3>1, <3>3, <4>1
      <3>6. DOMAIN Lags = Queued /\ \A q \in Queued : Lags[q] = Lag(pass[q])
        BY DEF Lags
      <3>7. Lags' = [q \in Queued \ {e.id} |->
                       IF pass[q] >= e.pass THEN pass[q] - e.pass
                       ELSE pass[q] + Word - e.pass]
        BY <3>1, <3>4 DEF Lags, Lag
      <3>8. Lags' = [q \in DOMAIN Lags \ {e.id} |-> Lags[q] - Lags[e.id]]
        BY <3>4, <3>5, <3>6, <3>7
      <3>9. \A q \in DOMAIN Lags : Lags[e.id] <= Lags[q]
        BY <3>4, <3>5, <3>6
      <3>10. Ideal!Run(e.id)
        BY <3>1, <3>8, <3>9 DEF Ideal!Run
      <3> QED  BY <3>4, <3>6, <3>10 DEF Ideal!INext
    <2>2. ASSUME NEW t \in Task, Suspend(t) PROVE Ideal!INext
      <3>1. /\ current = t /\ current' = NoTask /\ pass[t] = vt /\ t \notin Queued
            /\ vt' = vt /\ prio[t] \in Prios
        BY <2>2 DEF Suspend, StrideInv, HeapMatchesTcbs, StrideTypeOK, Queued
      <3>2. Add(t, vt, prio[t])
        BY <2>2, <3>1 DEF Suspend
      <3>3. Lags' = Ideal!Enqueue(t, StrideOf(prio[t]))
        BY <3>1, <3>2, AddLags
      <3>4. Ideal!Requeue(t)
        BY <3>1, <3>3 DEF Ideal!Requeue
      <3> QED  BY <3>4 DEF Ideal!INext
    <2>3. ASSUME NEW t \in Task, ExitCurrent(t) PROVE Ideal!INext
      <3>1. Lags' = Lags
        BY <2>3 DEF ExitCurrent, Lags, Lag, Queued
      <3>2. Ideal!Leave(t)
        BY <2>3, <3>1 DEF ExitCurrent, Ideal!Leave
      <3> QED  BY <3>2 DEF Ideal!INext
    <2>4. ASSUME NEW t \in Task, NEW p \in Prios, SetPriority(t, p)
          PROVE  UNCHANGED Ideal!ivars
      BY <2>4 DEF SetPriority, Lags, Lag, Queued, Ideal!ivars
    <2>5. ASSUME NEW t \in Task, NEW c \in Task, Fork(t, c) PROVE Ideal!INext
      <3>1. /\ current = t /\ current' = t /\ pass[t] = vt /\ c \notin Queued /\ c # t
            /\ vt' = vt /\ prio[t] \in Prios
        BY <2>5 DEF Fork, StrideInv, HeapMatchesTcbs, StrideTypeOK
      <3>2. Add(c, vt, prio[t])
        BY <2>5, <3>1 DEF Fork
      <3>3. Lags' = Ideal!Enqueue(c, StrideOf(prio[t]))
        BY <3>1, <3>2, AddLags
      <3>4. DOMAIN Lags = Queued
        BY DEF Lags
      <3>5. Ideal!Create(t, c)
        BY <3>1, <3>3, <3>4 DEF Ideal!Create
      <3> QED  BY <3>5 DEF Ideal!INext
    <2>6. CASE UNCHANGED svars
      BY <2>6 DEF svars, Lags, Lag, Queued, Ideal!ivars
    <2> QED  BY <2>1, <2>2, <2>3, <2>4, <2>5, <2>6 DEF StrideNext
  <1> QED  BY <1>1, <1>2, StrideInvariance, PTL DEF StrideSpec, IdealSpec, Ideal!ISpec

----------------------------------------------------------------------------
\* A process that has never run is neither stopped nor killed, and has not trapped.
FreshClean == phase = "fresh" => new /\ ~frozen /\ ~killed

\* The flag killed is set only by SIGDEF or SIGKILL, which the kernel handler
\* leaves pending; this is what FrozenStaysOff rests on at TrapEnd.
KilledMet == killed => SIGDEF \in pending \/ SIGKILL \in pending

\* A backup taken outside of handlers is one of the main program.  sys_sigretrun
\* keeps the backup, so this has to hold for as long as it is there.
BackupMain == ~lost /\ backup # NoCtx => backup.pc = Main

IInv == /\ TypeOK /\ FreshClean /\ KilledMet /\ BackupMain
        /\ FatalStopsUser /\ FrozenStaysOff /\ MainRecoverable

----------------------------------------------------------------------------
\* The constants, without the sets of contexts that they are members of.
LEMMA SigFacts ==
    /\ Sig \subseteq Nat /\ -1 \notin Sig /\ UserSig \subseteq Sig
    /\ \A s \in UserSig : s \notin {SIGDEF, SIGKILL, SIGCONT, SIGSTOP}
    /\ Masks \subseteq SUBSET Sig /\ NoCtx \notin Ctx
BY SignalAssumption DEF UserSig, KernelSig, SIGDEF, SIGKILL, SIGCONT, SIGSTOP

\* The loop of check_pending_signals stops at a pending user signal that the mask
\* of the process lets through.
LEMMA FirstUserSignal ==
    ASSUME TypeOK, ForUser # {}
    PROVE  Min(ForUser) \in UserSig /\ Min(ForUser) \in pending \ mask
<1>1. ForUser \in SUBSET Nat /\ ForUser \subseteq UserSig /\ ForUser \subseteq pending \ mask
  BY SigFacts DEF ForUser, Eligible, TypeOK
<1>2. \E x \in ForUser : \A y \in ForUser : x <= y
  BY <1>1, LeastNatural
<1>3. Min(ForUser) \in ForUser
  BY <1>2 DEF Min
<1>. QED BY <1>1, <1>3

\* check_pending_signals consumes the kernel signals done, and calls no handler or
\* the one of signal sig.
NoCall(done) ==
    /\ pending' = pending \ done
    /\ UNCHANGED <<mask, handling, backup, cx, lost>>
Called(done, sig) ==
    /\ pending' = pending \ (done \cup {sig})
    /\ mask' = actions[sig].mask
    /\ handling' = sig
    /\ backup' = cx
    /\ cx' = [pc |-> sig, a0 |-> "signum"]
    /\ lost' = (lost \/ cx.pc # Main)

\* What one pass of check_pending_signals does to the state: either no handler is
\* called, or the one of an unmasked pending user signal is, with the interrupted
\* context as backup; besides it only unmasked SIGSTOP and SIGCONT are consumed.
LEMMA CheckSummary ==
    ASSUME TypeOK, CheckPending
    PROVE  /\ killed' \in BOOLEAN /\ frozen' \in BOOLEAN
           /\ actions' = actions /\ new' = new
           /\ killed' => killed \/ SIGDEF \in pending \/ SIGKILL \in pending
           /\ \E done \in SUBSET ({SIGSTOP, SIGCONT} \cap (pending \ mask)) :
                \/ NoCall(done)
                \/ \E sig \in UserSig \cap (pending \ mask) : Called(done, sig)
<1>. DEFINE done == Reached \cap {SIGSTOP, SIGCONT}
<1>1. Reached \subseteq pending \ mask
  BY DEF Reached, Eligible
<1>2. done \in SUBSET ({SIGSTOP, SIGCONT} \cap (pending \ mask))
  BY <1>1
<1>3. /\ killed' \in BOOLEAN /\ frozen' \in BOOLEAN
      /\ actions' = actions /\ new' = new
      /\ CallUserHandler(done)
  BY DEF CheckPending, TypeOK
<1>4. killed' => killed \/ SIGDEF \in pending \/ SIGKILL \in pending
  BY <1>1 DEF CheckPending
<1>5. CASE ForUser # {} /\ actions[Min(ForUser)].handler
  <2>. DEFINE sig == Min(ForUser)
  <2>1. sig \in UserSig \cap (pending \ mask)
    BY <1>5, FirstUserSignal
  <2>2. Called(done, sig)
    BY <1>3, <1>5 DEF CallUserHandler, Called
  <2>. HIDE DEF sig, done
  <2>. QED BY <1>2, <1>3, <1>4, <2>1, <2>2
<1>6. CASE ~(ForUser # {} /\ actions[Min(ForUser)].handler)
  <2>1. NoCall(done)
    BY <1>3, <1>6 DEF CallUserHandler, NoCall
  <2>. HIDE DEF done
  <2>. QED BY <1>2, <1>3, <1>4, <2>1
<1>. QED BY <1>5, <1>6

\* A pass of check_pending_signals that leaves the process in the kernel keeps
\* the invariant.
LEMMA CheckKeeps ==
    ASSUME IInv, CheckPending, phase' \in {"loop", "frozen"}
    PROVE  IInv'
<1>1. PICK done \in SUBSET ({SIGSTOP, SIGCONT} \cap (pending \ mask)) :
                \/ NoCall(done)
                \/ \E sig \in UserSig \cap (pending \ mask) : Called(done, sig)
  BY CheckSummary DEF IInv
<1>2. /\ killed' \in BOOLEAN /\ frozen' \in BOOLEAN
      /\ actions' = actions /\ new' = new
      /\ killed' => killed \/ SIGDEF \in pending \/ SIGKILL \in pending
  BY CheckSummary DEF IInv
<1>3. FreshClean' /\ FatalStopsUser' /\ FrozenStaysOff'
  BY DEF FreshClean, FatalStopsUser, FrozenStaysOff
<1>4. CASE NoCall(done)
  <2>1. TypeOK'
    BY <1>2, <1>4 DEF NoCall, IInv, TypeOK
  <2>2. KilledMet'
    BY <1>2, <1>4 DEF NoCall, IInv, KilledMet, SIGDEF, SIGKILL, SIGSTOP, SIGCONT
  <2>3. BackupMain' /\ MainRecoverable'
    BY <1>4 DEF NoCall, IInv, BackupMain, MainRecoverable
  <2>. QED BY <1>3, <2>1, <2>2, <2>3 DEF IInv
<1>5. CASE \E sig \in UserSig \cap (pending \ mask) : Called(done, sig)
  <2>1. PICK sig \in UserSig \cap (pending \ mask) : Called(done, sig)
    BY <1>5
  <2>2. sig \in Sig /\ sig \in UserSig /\ cx \in Ctx /\ cx # NoCtx
    BY SigFacts DEF IInv, TypeOK
  <2>3. TypeOK'
    BY <1>2, <2>1, <2>2 DEF Called, IInv, TypeOK, Ctx
  <2>4. KilledMet'
    BY <1>2, <2>1, SigFacts DEF Called, IInv, KilledMet, SIGDEF, SIGKILL, SIGSTOP, SIGCONT
  <2>5. BackupMain' /\ MainRecoverable'
    BY <2>1, <2>2 DEF Called, IInv, BackupMain, MainRecoverable
  <2>. QED BY <1>3, <2>3, <2>4, <2>5 DEF IInv
<1>. QED BY <1>1, <1>4, <1>5

\* The end of a system call, whose context is one the process already had or the
\* main program's.
LEMMA SyscallEndKeeps ==
    ASSUME IInv, NEW c \in Ctx, SyscallEnd(c),
           c.pc = cx.pc \/ c.pc = Main \/ c = backup,
           pending \subseteq pending', pending' \subseteq Sig, mask' \in SUBSET Sig,
           actions' \in [UserSig -> [handler : BOOLEAN, mask : SUBSET Sig]],
           handling' \in {handling, NoSig},
           UNCHANGED <<killed, frozen, backup, lost>>
    PROVE  IInv'
<1>1. phase' = "check" /\ new' = FALSE /\ cx' \in Ctx /\ cx'.pc = c.pc
  BY DEF SyscallEnd, Ctx
<1>2. TypeOK'
  BY <1>1 DEF IInv, TypeOK
<1>3. FreshClean' /\ FatalStopsUser' /\ FrozenStaysOff'
  BY <1>1 DEF FreshClean, FatalStopsUser, FrozenStaysOff
<1>4. KilledMet'
  BY DEF IInv, KilledMet
<1>5. BackupMain' /\ MainRecoverable'
  BY <1>1, SigFacts DEF IInv, BackupMain, MainRecoverable
<1>. QED BY <1>2, <1>3, <1>4, <1>5 DEF IInv

----------------------------------------------------------------------------
\* Whatever the program does in user mode, system calls and faults, keeps the invariant.
LEMMA UserKeeps ==
    ASSUME IInv, User
    PROVE  IInv'
<1>0. TypeOK /\ cx \in Ctx
  BY DEF IInv, TypeOK
<1>1. CASE Block \/ Exit
  <2>1. /\ phase' \in {"blocked", "exit"} /\ new' = FALSE
        /\ UNCHANGED <<flags, actions, backup, cx, lost>>
    BY <1>1 DEF Block, Exit
  <2>. QED BY <2>1 DEF flags, IInv, TypeOK, FreshClean, KilledMet, BackupMain,
     FatalStopsUser, FrozenStaysOff, MainRecoverable
<1>9. CASE Timer
  <2>1. cx' \in Ctx /\ cx'.pc = cx.pc
    BY <1>0, <1>9 DEF Timer, Ctx
  <2>. QED BY <1>9, <2>1 DEF Timer, flags, IInv, TypeOK, FreshClean, KilledMet, BackupMain,
              FatalStopsUser, FrozenStaysOff, MainRecoverable
<1>2. CASE Sigreturn
  <2>1. CASE backup = NoCtx
    BY <1>2, <2>1 DEF Sigreturn, flags, IInv, TypeOK, FreshClean, KilledMet, BackupMain,
       FatalStopsUser, FrozenStaysOff, MainRecoverable
  <2>2. CASE backup # NoCtx
    <3>1. backup \in Ctx
      BY <2>2, <1>0 DEF TypeOK
    <3>. QED BY <1>0, <1>2, <2>2, <3>1, SyscallEndKeeps DEF Sigreturn, TypeOK
  <2>. QED BY <2>1, <2>2
<1>3. CASE Exec
  <2>1. [cx EXCEPT !.pc = Main] \in Ctx /\ [cx EXCEPT !.pc = Main].pc = Main
    BY <1>0 DEF Ctx, Main
  <2>. QED BY <1>0, <1>3, <2>1, SyscallEndKeeps DEF Exec, flags, TypeOK
<1>4. CASE ForkChild
  BY <1>4, <1>0 DEF ForkChild, IInv, TypeOK, FreshClean, KilledMet, BackupMain,
     FatalStopsUser, FrozenStaysOff, MainRecoverable, Ctx, NoSig
<1>5. ASSUME NEW s \in {SIGILL, SIGSEGV} \cap Sig, Fault(s) PROVE IInv'
  BY <1>5, <1>0 DEF Fault, IInv, TypeOK, FreshClean, KilledMet, BackupMain,
     FatalStopsUser, FrozenStaysOff, MainRecoverable, Ctx
<1>6. ASSUME NEW s \in Sig, KillSelf(s) PROVE IInv'
  BY <1>0, <1>6, SyscallEndKeeps DEF KillSelf, TypeOK
<1>7. ASSUME NEW m \in Masks, Sigprocmask(m) PROVE IInv'
  BY <1>0, <1>7, SyscallEndKeeps, SigFacts DEF Sigprocmask, TypeOK
<1>8. ASSUME NEW s \in UserSig, NEW h \in BOOLEAN, NEW m \in Masks, Sigaction(s, h, m)
      PROVE  IInv'
  <2>1. actions' \in [UserSig -> [handler : BOOLEAN, mask : SUBSET Sig]]
    BY <1>0, <1>8, SigFacts DEF Sigaction, TypeOK
  <2>. QED BY <1>0, <1>8, <2>1, SyscallEndKeeps DEF Sigaction, flags, TypeOK
<1>. QED BY <1>1, <1>2, <1>3, <1>4, <1>5, <1>6, <1>7, <1>8, <1>9 DEF User

\* Every step of the process, of the kernel and of senders keeps the invariant.
LEMMA StepKeeps == IInv /\ [Next]_vars => IInv'
<1>. SUFFICES ASSUME IInv, [Next]_vars PROVE IInv'
  OBVIOUS
<1>0. TypeOK /\ cx \in Ctx
  BY DEF IInv, TypeOK
<1>. USE DEF IInv, TypeOK, FreshClean, KilledMet, BackupMain, FatalStopsUser, FrozenStaysOff,
             MainRecoverable, flags
<1>1. ASSUME NEW s \in Sig, Kill(s) PROVE IInv'
  BY <1>1 DEF Kill
<1>2. CASE Start \/ Resume
  BY <1>2 DEF Start, Resume
<1>3. CASE Unblock
  BY <1>0, <1>3 DEF Unblock, Ctx
<1>4. CASE CtrlC
  BY <1>0, <1>4 DEF CtrlC, Ctx
<1>5. CASE User
  BY <1>5, UserKeeps
<1>6. CASE FirstCheck \/ StayFrozen
  BY <1>6, CheckKeeps DEF FirstCheck, StayFrozen
<1>7. CASE Thaw
  BY <1>7 DEF Thaw
<1>8. CASE TrapEnd
  BY <1>8, SigFacts DEF TrapEnd, FatalSig
<1>9. CASE UNCHANGED vars
  BY <1>9 DEF vars
<1>. QED BY <1>1, <1>2, <1>3, <1>4, <1>5, <1>6, <1>7, <1>8, <1>9 DEF Next

\* The invariant holds of a new process and is kept by every step of the kernel, of
\* the program and of the processes that send it signals.
THEOREM Invariance == Spec => []IInv
<1>1. Init => IInv
  <2>. SUFFICES ASSUME Init PROVE IInv
    OBVIOUS
  <2>1. TypeOK
    BY DEF Init, TypeOK, Ctx, NoSig, Main
  <2>. QED BY <2>1 DEF Init, IInv, FreshClean, KilledMet, BackupMain, FatalStopsUser,
                       FrozenStaysOff, MainRecoverable, NoSig, Main
<1>. QED BY <1>1, StepKeeps, PTL DEF Spec

\* Every field of the task control block that signals use keeps its type.
THEOREM TypeCorrect == Spec => []TypeOK
BY Invariance, PTL DEF IInv

\* A process that has trapped never gets back to user mode with a signal pending
\* that SignalFlags::check_error knows, masked or not (trap_handler).
THEOREM FatalSafety == Spec => []FatalStopsUser
BY Invariance, PTL DEF IInv

\* The freeze loop of handle_signals holds a stopped process for good; only the flag
\* killed, set by a SIGDEF that does not kill, lets it through.
THEOREM FreezeSafety == Spec => []FrozenStaysOff
BY Invariance, PTL DEF IInv

\* Whatever a program does with sigaction, sigprocmask, sigreturn and exec, the
\* context of its main program is in the trap context or in the backup, as long as no
\* handler interrupts a handler and none forks; and a process in a handler has a
\* backup (call_user_signal_handler, sys_sigretrun).
THEOREM ContextSafety == Spec => []MainRecoverable
BY Invariance, PTL DEF IInv

\* A pending signal goes away only by being acted on, and never while it is masked
\* (check_pending_signals, sys_kill, fork).
THEOREM SignalsKept == Spec => NoSignalLost
<1>. DEFINE Kept == \A s \in pending \ pending' :
                       \/ phase' = "fresh"
                       \/ /\ s \notin mask
                          /\ \/ handling' = s /\ cx'.pc = s /\ backup' = cx
                             \/ s \in {SIGSTOP, SIGCONT}
<1>1. ASSUME IInv, [Next]_vars PROVE [Kept]_vars
  <2>. SUFFICES ASSUME Next PROVE Kept
    BY <1>1
  <2>1. CASE FirstCheck \/ StayFrozen
    <3>1. TypeOK /\ CheckPending
      BY <1>1, <2>1 DEF IInv, FirstCheck, StayFrozen
    <3>2. PICK done \in SUBSET ({SIGSTOP, SIGCONT} \cap (pending \ mask)) :
                \/ NoCall(done)
                \/ \E sig \in UserSig \cap (pending \ mask) : Called(done, sig)
      BY <3>1, CheckSummary
    <3>. QED BY <3>2 DEF NoCall, Called
  <2>2. CASE ForkChild
    BY <2>2 DEF ForkChild
  <2>3. CASE ~(FirstCheck \/ StayFrozen \/ ForkChild)
    <3>1. pending \subseteq pending'
      BY <2>3 DEF Next, User, Kill, Start, Resume, Unblock, CtrlC, Thaw, TrapEnd, Timer, Block,
                  Exit, Sigreturn, Exec, Fault, KillSelf, Sigprocmask, Sigaction, flags
    <3>. QED BY <3>1
  <2>. QED BY <2>1, <2>2, <2>3
<1>. QED BY <1>1, Invariance, PTL DEF Spec, NoSignalLost
=============================================================================
