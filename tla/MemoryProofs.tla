---------------------------- MODULE MemoryProofs ----------------------------
(***************************************************************************)
(* Proofs about module Memory for any number of spaces, frames, pages and  *)
(* system calls, and for any program image: who owns a frame, what a page  *)
(* table maps, and which assertions of the kernel can fail.                *)
(***************************************************************************)
EXTENDS Memory, FiniteSetTheorems, TLAPS

\* Frames that the allocator has handed out and not got back.
Used == (0 .. frames.current - 1) \ frames.recycled

\* What a space owns.
Owned(s) == TableFrames(s) \cup AreaFrames(s) \cup kstack[s]
OwnedBy == [s \in Space |-> Owned(s)]

\* The frames U are N and those of O, and none of them is in two of these sets.
Split(U, N, O) ==
    /\ U = N \cup UNION {O[s] : s \in Space}
    /\ \A s \in Space : N \cap O[s] = {}
    /\ \A s, t \in Space : s # t => O[s] \cap O[t] = {}

\* No two entries of a sequence of tables, of areas, of a map of pages share a frame.
TablesDiffer(q) == \A i, j \in DOMAIN q : q[i].frame = q[j].frame => i = j
AreasDiffer(q) ==
    \A i, j \in DOMAIN q, v, w \in Vpn :
       q[i].held[v] # NoFrame /\ q[i].held[v] = q[j].held[w] => i = j /\ v = w
PagesDiffer(h) == \A v, w \in Vpn : h[v] # NoFrame /\ h[v] = h[w] => v = w

\* Every frame handed out has one owner.
OneOwner ==
    /\ frames.recycled \subseteq 0 .. frames.current - 1
    /\ Split(Used, FramesOf(job.held), OwnedBy)
    /\ PagesDiffer(job.held)
    /\ \A s \in Space : /\ TablesDiffer(tables[s]) /\ AreasDiffer(areas[s])
                        /\ TableFrames(s) \cap AreaFrames(s) = {}
                        /\ TableFrames(s) \cap kstack[s] = {}
                        /\ AreaFrames(s) \cap kstack[s] = {}

\* The call in progress and the states of the spaces it works on.
JobOK ==
    /\ job.op = "idle" => job = Idle
    /\ job.sp = "none" => job.todo = <<>>
    /\ job.op \in {"fork", "exec", "mmap", "munmap"} => job.sp # "none" /\ job.src # "none"
    /\ job.sp # "none" /\ job.op \in {"boot", "fork", "exec"} => state[job.sp] = "building"
    /\ job.op \in {"mmap", "munmap"} => job.src = job.sp
    /\ job.op \in {"fork", "exec", "mmap", "munmap"} => state[job.src] = "live"
    /\ job.op = "munmap" => job.todo # <<>> /\ job.held = NoFrames
    /\ job.todo = <<>> => job.held = NoFrames
    /\ job.todo # <<>> => job.vpn >= job.todo[1][1]
    /\ job.op = "exec" => kstack[job.sp] = {}
    /\ \A s \in Space : state[s] = "building" => job.sp = s /\ job.op \in {"boot", "fork", "exec"}

\* A space that is not in use has nothing, one that is has the trampoline.
FreeIsEmpty ==
    \A s \in Space :
       IF state[s] = "free"
       THEN tables[s] = <<>> /\ areas[s] = <<>> /\ kstack[s] = {} /\ pte[s] = NoFrames
       ELSE pte[s][Tramp] = Code

\* The pages that the call has still to map are not mapped, and are listed once.
Clear(p, todo, vpn) ==
    \A i \in DOMAIN todo, v \in Vpn : In(v, todo[i]) =>
       /\ (i = 1 => v >= vpn) => p[v] = NoFrame
       /\ \A j \in DOMAIN todo : In(v, todo[j]) => i = j
Ahead ==
    \/ job.op \in {"boot", "exec", "mmap"} /\ job.sp # "none"
    \/ job.op = "fork" /\ Whole(job.src)
    => Clear(pte[job.sp], job.todo, job.vpn)

\* fork maps the areas of the parent.
OfParent ==
    job.op = "fork" =>
       \A j \in DOMAIN job.todo : \E i \in DOMAIN areas[job.src] : areas[job.src][i].range = job.todo[j]

IInv == /\ TypeOK /\ OneOwner /\ JobOK /\ FreeIsEmpty /\ OwnPagesOnly
        /\ Ahead /\ OfParent /\ PanicsExplained

----------------------------------------------------------------------------
\* The frame allocator.

Allocator == [current : 0 .. End, recycled : SUBSET Frame]

\* The allocator keeps its books: a frame on the recycled list was handed out before.
Books(a) == a \in Allocator /\ a.recycled \subseteq 0 .. a.current - 1
UsedIn(a) == (0 .. a.current - 1) \ a.recycled

\* The constants, one by one.
LEMMA Sizes ==
    /\ End \in Nat /\ Pages \in Nat \ {0, 1} /\ Fan \in Nat \ {0} /\ Frame = 0 .. End - 1
    /\ NoFrame = End /\ Code = End + 1 /\ NoFrame \notin Frame /\ Code \notin Frame /\ Code # NoFrame
    /\ Tramp \in Vpn /\ TrapCx \in Vpn /\ "none" \notin Space
BY MemoryAssumption DEF Frame, NoFrame, Code, Tramp, TrapCx, Vpn

\* One alloc: the frame was not in use, and is now.
LEMMA PopOne ==
    ASSUME NEW a, Books(a), a.recycled # {} \/ a.current < End
    PROVE  /\ Pop(a) \in Frame /\ Pop(a) \notin UsedIn(a)
           /\ Books(Popped(a)) /\ UsedIn(Popped(a)) = UsedIn(a) \cup {Pop(a)}
<1>1. a \in Allocator /\ a.current \in 0 .. End /\ a.recycled \subseteq Frame
      /\ a.recycled \subseteq 0 .. a.current - 1
  BY DEF Books, Allocator
<1>2. CASE a.recycled # {}
  <2>1. PICK x : x \in a.recycled /\ Pop(a) = x
    BY <1>2 DEF Pop
  <2>2. Popped(a) = [a EXCEPT !.recycled = a.recycled \ {x}]
    BY <1>2, <2>1 DEF Popped
  <2>3. Popped(a) \in Allocator /\ Popped(a).current = a.current
        /\ Popped(a).recycled = a.recycled \ {x}
    BY <1>1, <2>2 DEF Allocator
  <2>. QED BY <1>1, <2>1, <2>3 DEF Books, UsedIn
<1>3. CASE a.recycled = {}
  <2>1. a.current < End /\ Pop(a) = a.current /\ Popped(a) = [a EXCEPT !.current = a.current + 1]
    BY <1>3 DEF Pop, Popped
  <2>2. Popped(a) \in Allocator /\ Popped(a).current = a.current + 1 /\ Popped(a).recycled = {}
    BY <1>1, <1>3, <2>1, Sizes DEF Allocator
  <2>3. 0 .. (a.current + 1) - 1 = (0 .. a.current - 1) \cup {a.current}
    BY <1>1, Sizes
  <2>. QED BY <1>1, <1>3, <2>1, <2>2, <2>3, Sizes DEF Books, UsedIn
<1>. QED BY <1>2, <1>3

\* With n frames available, alloc succeeds n times.
LEMMA AvailOne ==
    ASSUME Books(frames), Avail # 0
    PROVE  frames.recycled # {} \/ frames.current < End
<1>1. frames.current \in 0 .. End
  BY DEF Books, Allocator
<1>2. CASE frames.recycled = {}
  <2>1. Cardinality(frames.recycled) = 0
    BY <1>2, FS_EmptySet
  <2>. QED BY <1>1, <2>1, Sizes DEF Avail
<1>. QED BY <1>2

\* The same for two.
LEMMA AvailTwo ==
    ASSUME Books(frames), ~(Avail < 2)
    PROVE  /\ frames.recycled # {} \/ frames.current < End
           /\ Popped(frames).recycled # {} \/ Popped(frames).current < End
<1>1. /\ frames.current \in 0 .. End /\ frames.recycled \subseteq 0 .. End - 1
      /\ frames \in Allocator
  BY Sizes DEF Books, Allocator
<1>2. IsFiniteSet(frames.recycled) /\ Cardinality(frames.recycled) \in Nat
  <2>1. IsFiniteSet(0 .. End - 1)
    BY FS_Interval, Sizes
  <2>. QED BY <1>1, <2>1, FS_Subset, FS_CardinalityType
<1>3. Cardinality(frames.recycled) + (End - frames.current) >= 2
  BY <1>1, <1>2, Sizes DEF Avail
<1>4. CASE frames.recycled = {}
  <2>1. Cardinality(frames.recycled) = 0
    BY <1>4, FS_EmptySet
  <2>2. frames.current + 1 < End
    BY <1>1, <1>3, <2>1, Sizes
  <2>3. Popped(frames).current = frames.current + 1
    BY <1>1, <1>4 DEF Popped, Allocator
  <2>. QED BY <1>1, <2>2, <2>3, Sizes
<1>5. CASE frames.recycled # {}
  <2>. DEFINE x == Pop(frames)
  <2>1. x \in frames.recycled
    BY <1>5 DEF Pop
  <2>2. Popped(frames).recycled = frames.recycled \ {x} /\ Popped(frames).current = frames.current
    BY <1>1, <1>5 DEF Popped, Allocator
  <2>. HIDE DEF x
  <2>3. CASE frames.recycled = {x}
    <3>1. Cardinality(frames.recycled) = 1
      BY <2>3, FS_Singleton
    <3>. QED BY <1>1, <1>3, <1>5, <2>2, <3>1, Sizes
  <2>4. CASE frames.recycled # {x}
    BY <1>5, <2>1, <2>2, <2>4
  <2>. QED BY <2>3, <2>4
<1>. QED BY <1>4, <1>5

\* Frames that are in use can be given back: the check of dealloc succeeds.
LEMMA GiveBack ==
    ASSUME NEW fs, Books(frames), fs \subseteq Used, Give(fs)
    PROVE  Allocated(fs) /\ Books(frames') /\ Used' = Used \ fs
<1>1. /\ frames \in Allocator /\ frames.current \in 0 .. End
      /\ frames.recycled \subseteq 0 .. frames.current - 1
  BY DEF Books, Allocator
<1>2. fs \subseteq 0 .. frames.current - 1 /\ fs \subseteq Frame
  BY <1>1, Sizes DEF Used
<1>3. /\ frames' \in Allocator /\ frames'.current = frames.current
      /\ frames'.recycled = frames.recycled \cup fs
  BY <1>1, <1>2 DEF Give, Allocator
<1>4. Allocated(fs)
  BY <1>1 DEF Allocated, Used
<1>. QED BY <1>1, <1>2, <1>3, <1>4 DEF Books, Used

\* The frames that one or two calls of alloc return.
LEMMA TakeOne ==
    ASSUME Books(frames), Avail # 0, Take(1)
    PROVE  One \in Frame /\ One \notin Used /\ Books(frames') /\ Used' = Used \cup {One}
<1>1. frames' = Popped(frames)
  BY DEF Take
<1>2. /\ Pop(frames) \in Frame /\ Pop(frames) \notin UsedIn(frames) /\ Books(Popped(frames))
      /\ UsedIn(Popped(frames)) = UsedIn(frames) \cup {Pop(frames)}
  BY AvailOne, PopOne
<1>. QED BY <1>1, <1>2 DEF Used, UsedIn, One

\* The second frame differs from the first.
LEMMA TakeTwo ==
    ASSUME Books(frames), ~(Avail < 2), Take(2)
    PROVE  /\ One \in Frame /\ Two \in Frame /\ One # Two /\ One \notin Used /\ Two \notin Used
           /\ Books(frames') /\ Used' = Used \cup {One, Two}
<1>. DEFINE a == Popped(frames)
<1>1. frames' = Popped(a) /\ Two = Pop(a) /\ One = Pop(frames)
  BY DEF Take, Two, One
<1>2. /\ Pop(frames) \in Frame /\ Pop(frames) \notin UsedIn(frames) /\ Books(a)
      /\ UsedIn(a) = UsedIn(frames) \cup {Pop(frames)}
  BY AvailTwo, PopOne
<1>3. a.recycled # {} \/ a.current < End
  BY AvailTwo
<1>. HIDE DEF a
<1>4. Pop(a) \in Frame /\ Pop(a) \notin UsedIn(a) /\ Books(Popped(a))
      /\ UsedIn(Popped(a)) = UsedIn(a) \cup {Pop(a)}
  BY <1>2, <1>3, PopOne
<1>. QED BY <1>1, <1>2, <1>4 DEF Used, UsedIn

----------------------------------------------------------------------------
\* Ownership.

\* What changes in the area being built and in one space s: if they give up and get
\* frames that nobody else has, all frames still have one owner.
LEMMA SplitStep ==
    ASSUME NEW U, NEW N, NEW O, Split(U, N, O), NEW s \in Space,
           NEW U2, NEW N2, NEW O2, \A t \in Space : t # s => O2[t] = O[t],
           N2 \cap O2[s] = {}, \A f \in N2 \cup O2[s] : f \in N \cup O[s] \/ f \notin U,
           U2 = (U \ (N \cup O[s])) \cup N2 \cup O2[s]
    PROVE  Split(U2, N2, O2)
<1>1. /\ \A f : f \in U <=> f \in N \/ \E t \in Space : f \in O[t]
      /\ \A t \in Space : \A f : ~(f \in N /\ f \in O[t])
      /\ \A t, u \in Space : t # u => \A f : ~(f \in O[t] /\ f \in O[u])
  BY DEF Split
<1>2. ASSUME NEW f PROVE f \in U2 <=> f \in N2 \/ \E t \in Space : f \in O2[t]
  BY <1>1
<1>3. ASSUME NEW t \in Space, NEW f \in N2, f \in O2[t] PROVE FALSE
  <2>1. CASE t = s
    BY <1>3, <2>1
  <2>2. CASE t # s
    <3>1. f \in O[t] /\ f \in U
      BY <1>1, <1>3, <2>2
    <3>2. f \in N \/ f \in O[s]
      BY <3>1
    <3>. QED BY <1>1, <2>2, <3>1, <3>2
  <2>. QED BY <2>1, <2>2
<1>4. ASSUME NEW t \in Space, t # s, NEW f \in O2[t], f \in O2[s] PROVE FALSE
  <2>1. f \in O[t] /\ f \in U
    BY <1>1, <1>4
  <2>2. f \in N \/ f \in O[s]
    BY <1>4, <2>1
  <2>. QED BY <1>1, <1>4, <2>1, <2>2
<1>5. ASSUME NEW t \in Space, NEW u \in Space, t # u, NEW f \in O2[t], f \in O2[u] PROVE FALSE
  BY <1>1, <1>4, <1>5
<1>. QED BY <1>2, <1>3, <1>5 DEF Split

\* The kernel stack passes from the space old to the space s, the rest of old is freed.
LEMMA SplitMove ==
    ASSUME NEW U, NEW N, NEW O, Split(U, N, O), NEW s \in Space, NEW old \in Space, s # old,
           NEW K, K \subseteq O[old], NEW O2,
           \A t \in Space : t \notin {s, old} => O2[t] = O[t],
           O2[s] = O[s] \cup K, O2[old] = {}
    PROVE  Split(U \ (O[old] \ K), N, O2)
<1>1. /\ \A f : f \in U <=> f \in N \/ \E t \in Space : f \in O[t]
      /\ \A t \in Space : \A f : ~(f \in N /\ f \in O[t])
      /\ \A t, u \in Space : t # u => \A f : ~(f \in O[t] /\ f \in O[u])
  BY DEF Split
<1>2. ASSUME NEW t \in Space, NEW f \in O2[t]
      PROVE  f \in O[t] \/ (t = s /\ f \in O[old] /\ f \in K)
  BY <1>2
<1>3. ASSUME NEW f PROVE f \in U \ (O[old] \ K) <=> f \in N \/ \E t \in Space : f \in O2[t]
  BY <1>1
<1>4. ASSUME NEW t \in Space, NEW f \in N, f \in O2[t] PROVE FALSE
  BY <1>1, <1>2, <1>4
<1>5. ASSUME NEW t \in Space, NEW u \in Space, t # u, NEW f \in O2[t], f \in O2[u] PROVE FALSE
  <2>1. t # old /\ u # old
    BY <1>5
  <2>2. (f \in O[t] \/ (t = s /\ f \in O[old])) /\ (f \in O[u] \/ (u = s /\ f \in O[old]))
    BY <1>2, <1>5
  <2>. QED BY <1>1, <1>5, <2>1, <2>2
<1>. QED BY <1>3, <1>4, <1>5 DEF Split

\* Frames of a sequence of tables, and of a sequence of areas.
FramesOfTables(q) == {q[i].frame : i \in DOMAIN q}
FramesOfAreas(q) == UNION {FramesOf(q[i].held) : i \in DOMAIN q}

Table == [of : Nat, frame : Frame]
Area  == [range : VpnRange, held : Held]

\* Frames of a map of pages.
LEMMA PageFrames ==
    ASSUME NEW h, NEW f
    PROVE  f \in FramesOf(h) <=> f # NoFrame /\ \E v \in Vpn : h[v] = f
BY DEF FramesOf

\* One more table, and one more area.
LEMMA MoreTables ==
    ASSUME NEW q \in Seq(Table), NEW e \in Table
    PROVE  /\ Append(q, e) \in Seq(Table)
           /\ FramesOfTables(Append(q, e)) = FramesOfTables(q) \cup {e.frame}
           /\ TablesDiffer(q) /\ e.frame \notin FramesOfTables(q) => TablesDiffer(Append(q, e))
<1>. DEFINE p == Append(q, e)
<1>1. /\ p \in Seq(Table) /\ Len(q) \in Nat /\ DOMAIN q = 1 .. Len(q) /\ DOMAIN p = 1 .. Len(q) + 1
      /\ p[Len(q) + 1] = e /\ \A i \in 1 .. Len(q) : p[i] = q[i]
  OBVIOUS
<1>. HIDE DEF p
<1>2. \A i \in DOMAIN p : i = Len(q) + 1 \/ i \in DOMAIN q
  BY <1>1
<1>3. FramesOfTables(p) = FramesOfTables(q) \cup {e.frame}
  <2>1. ASSUME NEW f \in FramesOfTables(p) PROVE f \in FramesOfTables(q) \cup {e.frame}
    BY <1>1, <1>2 DEF FramesOfTables
  <2>2. ASSUME NEW f \in FramesOfTables(q) \cup {e.frame} PROVE f \in FramesOfTables(p)
    <3>1. CASE f = e.frame
      <4>1. Len(q) + 1 \in DOMAIN p
        BY <1>1
      <4>. QED BY <1>1, <3>1, <4>1 DEF FramesOfTables
    <3>2. CASE f \in FramesOfTables(q)
      <4>1. PICK i \in DOMAIN q : q[i].frame = f
        BY <3>2 DEF FramesOfTables
      <4>2. i \in DOMAIN p /\ p[i] = q[i]
        BY <1>1, <4>1
      <4>. QED BY <4>1, <4>2 DEF FramesOfTables
    <3>. QED BY <3>1, <3>2
  <2>. QED BY <2>1, <2>2
<1>4. ASSUME TablesDiffer(q), e.frame \notin FramesOfTables(q) PROVE TablesDiffer(p)
  BY <1>1, <1>2, <1>4 DEF TablesDiffer, FramesOfTables
<1>. QED BY <1>1, <1>3, <1>4 DEF p

\* The pages that areas hold.
HeldBy(q, v, f) == \E i \in DOMAIN q : q[i].held[v] = f

LEMMA AreaFrame ==
    ASSUME NEW q, NEW f
    PROVE  f \in FramesOfAreas(q) <=> f # NoFrame /\ \E v \in Vpn : HeldBy(q, v, f)
<1>1. f \in FramesOfAreas(q) <=> \E i \in DOMAIN q : f \in FramesOf(q[i].held)
  BY DEF FramesOfAreas
<1>2. \A i \in DOMAIN q : f \in FramesOf(q[i].held) <=> f # NoFrame /\ \E v \in Vpn : q[i].held[v] = f
  BY PageFrames
<1>. QED BY <1>1, <1>2 DEF HeldBy

\* The new area's pages are added to those of the others.
LEMMA MoreAreas ==
    ASSUME NEW q \in Seq(Area), NEW a \in Area
    PROVE  /\ Append(q, a) \in Seq(Area)
           /\ \A v, f : HeldBy(Append(q, a), v, f) <=> HeldBy(q, v, f) \/ a.held[v] = f
           /\ FramesOfAreas(Append(q, a)) = FramesOfAreas(q) \cup FramesOf(a.held)
           /\ AreasDiffer(q) /\ PagesDiffer(a.held) /\ FramesOf(a.held) \cap FramesOfAreas(q) = {}
                => AreasDiffer(Append(q, a))
<1>. DEFINE p == Append(q, a)
<1>1. /\ p \in Seq(Area) /\ Len(q) \in Nat /\ DOMAIN q = 1 .. Len(q) /\ DOMAIN p = 1 .. Len(q) + 1
      /\ p[Len(q) + 1] = a /\ \A i \in 1 .. Len(q) : p[i] = q[i]
  OBVIOUS
<1>. HIDE DEF p
<1>2. /\ \A i \in DOMAIN p : (i = Len(q) + 1 /\ p[i] = a) \/ (i \in DOMAIN q /\ p[i] = q[i])
      /\ Len(q) + 1 \in DOMAIN p /\ \A i \in DOMAIN q : i \in DOMAIN p /\ p[i] = q[i]
  <2>1. ASSUME NEW i \in DOMAIN p
        PROVE  (i = Len(q) + 1 /\ p[i] = a) \/ (i \in DOMAIN q /\ p[i] = q[i])
    <3>1. i = Len(q) + 1 \/ i \in 1 .. Len(q)
      BY <1>1
    <3>. QED BY <1>1, <3>1
  <2>2. ASSUME NEW i \in DOMAIN q PROVE i \in DOMAIN p /\ p[i] = q[i]
    BY <1>1
  <2>. QED BY <1>1, <2>1, <2>2
<1>3. \A v, f : HeldBy(p, v, f) <=> HeldBy(q, v, f) \/ a.held[v] = f
  BY <1>1, <1>2 DEF HeldBy
<1>4. FramesOfAreas(p) = FramesOfAreas(q) \cup FramesOf(a.held)
  <2>1. ASSUME NEW f PROVE f \in FramesOfAreas(p) <=> f \in FramesOfAreas(q) \cup FramesOf(a.held)
    BY <1>3, AreaFrame, PageFrames
  <2>. QED BY <2>1
<1>5. ASSUME AreasDiffer(q), PagesDiffer(a.held), FramesOf(a.held) \cap FramesOfAreas(q) = {}
      PROVE  AreasDiffer(p)
  <2>. SUFFICES ASSUME NEW i \in DOMAIN p, NEW j \in DOMAIN p, NEW v \in Vpn, NEW w \in Vpn,
                       p[i].held[v] # NoFrame, p[i].held[v] = p[j].held[w]
                PROVE  i = j /\ v = w
    BY DEF AreasDiffer
  <2>1. CASE p[i] = a /\ i = Len(q) + 1 /\ p[j] = a /\ j = Len(q) + 1
    BY <1>5, <2>1 DEF PagesDiffer
  <2>2. CASE i \in DOMAIN q /\ p[i] = q[i] /\ j \in DOMAIN q /\ p[j] = q[j]
    <3>1. q[i].held[v] # NoFrame /\ q[i].held[v] = q[j].held[w]
      BY <2>2
    <3>. QED BY <1>5, <2>2, <3>1 DEF AreasDiffer
  <2>3. CASE p[i] = a /\ j \in DOMAIN q /\ p[j] = q[j]
    <3>1. p[i].held[v] \in FramesOf(a.held)
      BY <2>3, PageFrames
    <3>2. p[i].held[v] \in FramesOfAreas(q)
      BY <2>3, AreaFrame DEF HeldBy
    <3>. QED BY <1>5, <3>1, <3>2
  <2>4. CASE p[j] = a /\ i \in DOMAIN q /\ p[i] = q[i]
    <3>1. p[i].held[v] \in FramesOf(a.held)
      BY <2>4, PageFrames
    <3>2. p[i].held[v] \in FramesOfAreas(q)
      BY <2>4, AreaFrame DEF HeldBy
    <3>. QED BY <1>5, <3>1, <3>2
  <2>. QED BY <1>2, <2>1, <2>2, <2>3, <2>4
<1>. QED BY <1>1, <1>3, <1>4, <1>5 DEF p

\* The areas q after page v has left area i, as in remove_mapped_frames.
Unmapping(q, i, v) ==
    LET left == [q[i] EXCEPT !.held[v] = NoFrame]
    IN  IF left.held = NoFrames THEN Without(q, i) ELSE [q EXCEPT ![i] = left]

\* What is left of the areas is q without frame f.
Lessened(q, p, f) ==
    /\ p \in Seq(Area) /\ AreasDiffer(p)
    /\ \A w \in Vpn : \A g : g # NoFrame => (HeldBy(p, w, g) <=> HeldBy(q, w, g) /\ g # f)

\* The elements of two sequences one after the other.
LEMMA Concat ==
    ASSUME NEW x \in Seq(Area), NEW y \in Seq(Area)
    PROVE  /\ x \o y \in Seq(Area) /\ Len(x \o y) = Len(x) + Len(y)
           /\ DOMAIN (x \o y) = 1 .. Len(x \o y)
           /\ \A j \in 1 .. Len(x) : (x \o y)[j] = x[j]
           /\ \A j \in 1 .. Len(y) : (x \o y)[Len(x) + j] = y[j]
<1>1. x \o y \in Seq(Area) /\ Len(x \o y) = Len(x) + Len(y) /\ DOMAIN (x \o y) = 1 .. Len(x \o y)
  OBVIOUS
<1>2. \A j \in 1 .. Len(x) : (x \o y)[j] = x[j]
  OBVIOUS
<1>3. \A j \in 1 .. Len(y) : (x \o y)[Len(x) + j] = y[j]
  OBVIOUS
<1>. QED BY <1>1, <1>2, <1>3

\* Vec::remove of an area that holds one page.
LEMMA AreaGone ==
    ASSUME NEW q \in Seq(Area), AreasDiffer(q), NEW i \in DOMAIN q, NEW f \in Frame,
           \A w \in Vpn : q[i].held[w] \in {f, NoFrame}, NEW v \in Vpn, q[i].held[v] = f
    PROVE  Lessened(q, Without(q, i), f)
<1>. DEFINE p == Without(q, i)
            x == SubSeq(q, 1, i - 1)
            y == SubSeq(q, i + 1, Len(q))
            at(j) == IF j < i THEN j ELSE j + 1
<1>1. Len(q) \in Nat /\ DOMAIN q = 1 .. Len(q) /\ i \in 1 .. Len(q)
  OBVIOUS
<1>2. /\ x \in Seq(Area) /\ Len(x) = i - 1 /\ \A j \in 1 .. i - 1 : x[j] = q[j]
      /\ y \in Seq(Area) /\ Len(y) = Len(q) - i /\ \A j \in 1 .. Len(q) - i : y[j] = q[i + j]
  <2>1. x \in Seq(Area) /\ Len(x) = i - 1 /\ \A j \in 1 .. i - 1 : x[j] = q[j]
    BY <1>1
  <2>2. y \in Seq(Area) /\ Len(y) = Len(q) - i /\ \A j \in 1 .. Len(q) - i : y[j] = q[i + j]
    BY <1>1
  <2>. QED BY <2>1, <2>2
<1>. HIDE DEF x, y
<1>3. /\ p \in Seq(Area) /\ Len(p) = Len(q) - 1 /\ DOMAIN p = 1 .. Len(q) - 1
      /\ \A j \in 1 .. i - 1 : p[j] = x[j]
      /\ \A j \in 1 .. Len(q) - i : p[(i - 1) + j] = y[j]
  <2>1. p = x \o y
    BY DEF Without, x, y
  <2>. HIDE DEF p
  <2>2. /\ p \in Seq(Area) /\ Len(p) = Len(x) + Len(y) /\ DOMAIN p = 1 .. Len(p)
        /\ \A j \in 1 .. Len(x) : p[j] = x[j]
        /\ \A j \in 1 .. Len(y) : p[Len(x) + j] = y[j]
    <3>1. x \in Seq(Area) /\ y \in Seq(Area)
      BY <1>2
    <3>2. /\ x \o y \in Seq(Area) /\ Len(x \o y) = Len(x) + Len(y)
          /\ DOMAIN (x \o y) = 1 .. Len(x \o y)
          /\ \A j \in 1 .. Len(x) : (x \o y)[j] = x[j]
          /\ \A j \in 1 .. Len(y) : (x \o y)[Len(x) + j] = y[j]
      BY <3>1, Concat, Zenon
    <3>. QED BY <2>1, <3>2, Zenon
  <2>3. Len(p) = Len(q) - 1
    BY <1>1, <1>2, <2>2
  <2>. QED BY <1>2, <2>2, <2>3
<1>. HIDE DEF p
<1>4. ASSUME NEW j \in DOMAIN p PROVE at(j) \in DOMAIN q /\ at(j) # i /\ p[j] = q[at(j)]
  <2>1. CASE j < i
    <3>1. j \in 1 .. i - 1 /\ j \in DOMAIN q
      BY <1>1, <1>3, <2>1
    <3>2. p[j] = q[j]
      BY <1>2, <1>3, <3>1
    <3>. QED BY <1>1, <2>1, <3>1, <3>2
  <2>2. CASE j >= i
    <3>. DEFINE k == j - (i - 1)
    <3>1. k \in 1 .. Len(q) - i /\ i + k = j + 1 /\ (i - 1) + k = j /\ j \in i .. Len(q) - 1
      BY <1>1, <1>3, <2>2
    <3>. HIDE DEF k
    <3>2. p[(i - 1) + k] = y[k] /\ y[k] = q[i + k]
      BY <1>2, <1>3, <3>1
    <3>. QED BY <1>1, <2>2, <3>1, <3>2
  <2>. QED BY <1>1, <1>3, <2>1, <2>2
<1>5. ASSUME NEW j \in DOMAIN q, j # i PROVE \E k \in DOMAIN p : at(k) = j
  <2>1. CASE j < i
    BY <1>1, <1>3, <2>1
  <2>2. CASE j > i
    <3>1. j - 1 \in DOMAIN p /\ at(j - 1) = j
      BY <1>1, <1>3, <2>2
    <3>. QED BY <3>1
  <2>. QED BY <1>1, <1>5, <2>1, <2>2
<1>6. \A j, k \in DOMAIN p : at(j) = at(k) => j = k
  BY <1>1, <1>3
<1>. HIDE DEF at
<1>7. AreasDiffer(p)
  BY <1>4, <1>6 DEF AreasDiffer
<1>8. ASSUME NEW w \in Vpn, NEW g, g # NoFrame PROVE HeldBy(p, w, g) <=> HeldBy(q, w, g) /\ g # f
  <2>1. ASSUME NEW j \in DOMAIN p, p[j].held[w] = g PROVE HeldBy(q, w, g) /\ g # f
    <3>1. at(j) \in DOMAIN q /\ at(j) # i /\ q[at(j)].held[w] = g
      BY <1>4, <2>1
    <3>. QED BY <1>8, <3>1 DEF AreasDiffer, HeldBy
  <2>2. ASSUME NEW j \in DOMAIN q, q[j].held[w] = g, g # f PROVE HeldBy(p, w, g)
    <3>1. j # i
      BY <1>8, <2>2
    <3>. QED BY <1>4, <1>5, <2>2, <3>1 DEF HeldBy
  <2>. QED BY <2>1, <2>2 DEF HeldBy
<1>. QED BY <1>3, <1>7, <1>8 DEF Lessened, p

\* The page leaves its area, and the area stays if it has others.
LEMMA AreaLess ==
    ASSUME NEW q \in Seq(Area), AreasDiffer(q), NEW i \in DOMAIN q, NEW v \in Vpn,
           NEW f \in Frame, q[i].held[v] = f
    PROVE  Lessened(q, Unmapping(q, i, v), f)
<1>. DEFINE left == [q[i] EXCEPT !.held[v] = NoFrame]
<1>1. q[i] \in Area /\ DOMAIN q = 1 .. Len(q) /\ Len(q) \in Nat
  OBVIOUS
<1>2. q[i].held \in [Vpn -> Frame \cup {NoFrame}] /\ f # NoFrame
  BY <1>1, Sizes DEF Area, Held
<1>3. left \in Area /\ \A w \in Vpn : left.held[w] = IF w = v THEN NoFrame ELSE q[i].held[w]
  BY <1>1, <1>2 DEF Area, Held
<1>. HIDE DEF left
<1>4. CASE left.held = NoFrames
  <2>1. \A w \in Vpn : q[i].held[w] \in {f, NoFrame}
    <3>1. \A w \in Vpn : left.held[w] = NoFrame
      BY <1>4 DEF NoFrames
    <3>. QED BY <1>3, <3>1
  <2>2. Unmapping(q, i, v) = Without(q, i)
    BY <1>4 DEF Unmapping, left
  <2>. QED BY <2>1, <2>2, AreaGone
<1>5. CASE left.held # NoFrames
  <2>. DEFINE p == [q EXCEPT ![i] = left]
  <2>1. Unmapping(q, i, v) = p
    BY <1>5 DEF Unmapping, left
  <2>2. p \in Seq(Area) /\ DOMAIN p = DOMAIN q /\ p[i] = left /\ \A j \in DOMAIN q : j # i => p[j] = q[j]
    <3>1. p \in [1 .. Len(q) -> Area]
      BY <1>1, <1>3
    <3>. QED BY <1>1, <3>1
  <2>. HIDE DEF p
  <2>3. ASSUME NEW j \in DOMAIN q, NEW w \in Vpn
        PROVE  p[j].held[w] = IF j = i /\ w = v THEN NoFrame ELSE q[j].held[w]
    BY <1>3, <2>2
  <2>4. AreasDiffer(p)
    BY <2>2, <2>3 DEF AreasDiffer
  <2>5. ASSUME NEW w \in Vpn, NEW g, g # NoFrame PROVE HeldBy(p, w, g) <=> HeldBy(q, w, g) /\ g # f
    <3>1. ASSUME NEW j \in DOMAIN p, p[j].held[w] = g PROVE HeldBy(q, w, g) /\ g # f
      <4>1. j \in DOMAIN q /\ q[j].held[w] = g /\ ~(j = i /\ w = v)
        BY <2>2, <2>3, <2>5, <3>1
      <4>. QED BY <1>2, <2>5, <4>1 DEF AreasDiffer, HeldBy
    <3>2. ASSUME NEW j \in DOMAIN q, q[j].held[w] = g, g # f PROVE HeldBy(p, w, g)
      BY <2>2, <2>3, <2>5, <3>2 DEF HeldBy
    <3>. QED BY <3>1, <3>2 DEF HeldBy
  <2>. QED BY <2>1, <2>2, <2>4, <2>5 DEF Lessened
<1>. QED BY <1>4, <1>5

----------------------------------------------------------------------------
\* Steps that change one space.

New == FramesOf(job.held)

\* What an owner holds is in use and belongs to no other.
LEMMA OwnerFacts ==
    ASSUME OneOwner, NEW s \in Space
    PROVE  /\ New \subseteq Used /\ TableFrames(s) \subseteq Used /\ AreaFrames(s) \subseteq Used
           /\ kstack[s] \subseteq Used
           /\ New \cap TableFrames(s) = {} /\ New \cap AreaFrames(s) = {} /\ New \cap kstack[s] = {}
           /\ TableFrames(s) \cap AreaFrames(s) = {} /\ TableFrames(s) \cap kstack[s] = {}
           /\ AreaFrames(s) \cap kstack[s] = {}
<1>1. Used = New \cup UNION {OwnedBy[t] : t \in Space} /\ New \cap OwnedBy[s] = {}
  BY DEF OneOwner, Split, New
<1>2. OwnedBy[s] = TableFrames(s) \cup AreaFrames(s) \cup kstack[s] /\ OwnedBy[s] \subseteq Used
  BY <1>1 DEF OwnedBy, Owned
<1>. QED BY <1>1, <1>2 DEF OneOwner

\* The step takes frames that nobody has, or gives up its own.
LEMMA OwnerStep ==
    ASSUME OneOwner, NEW s \in Space, Books(frames'),
           \A t \in Space : t # s => /\ tables'[t] = tables[t] /\ areas'[t] = areas[t]
                                     /\ kstack'[t] = kstack[t],
           TablesDiffer(tables'[s]), AreasDiffer(areas'[s]), PagesDiffer(job'.held),
           NEW N2, N2 = FramesOf(job'.held), NEW T2, T2 = FramesOfTables(tables'[s]),
           NEW A2, A2 = FramesOfAreas(areas'[s]), NEW K2, K2 = kstack'[s],
           N2 \cap T2 = {}, N2 \cap A2 = {}, N2 \cap K2 = {},
           T2 \cap A2 = {}, T2 \cap K2 = {}, A2 \cap K2 = {},
           \A f \in N2 \cup T2 \cup A2 \cup K2 : f \in New \cup Owned(s) \/ f \notin Used,
           Used' = (Used \ (New \cup Owned(s))) \cup (N2 \cup T2 \cup A2 \cup K2)
    PROVE  OneOwner'
<1>1. /\ TableFrames(s)' = T2 /\ AreaFrames(s)' = A2
      /\ \A t \in Space : t # s => TableFrames(t)' = TableFrames(t) /\ AreaFrames(t)' = AreaFrames(t)
  BY DEF TableFrames, AreaFrames, FramesOfTables, FramesOfAreas
<1>2. OwnedBy'[s] = T2 \cup A2 \cup K2 /\ \A t \in Space : t # s => OwnedBy'[t] = OwnedBy[t]
  BY <1>1 DEF OwnedBy, Owned
<1>3. Split(Used, New, OwnedBy) /\ OwnedBy[s] = Owned(s)
  BY DEF OneOwner, New, OwnedBy
<1>4. Split(Used', N2, OwnedBy')
  <2>1. N2 \cap OwnedBy'[s] = {}
    BY <1>2
  <2>2. \A f \in N2 \cup OwnedBy'[s] : f \in New \cup OwnedBy[s] \/ f \notin Used
    BY <1>2, <1>3
  <2>3. Used' = (Used \ (New \cup OwnedBy[s])) \cup N2 \cup OwnedBy'[s]
    BY <1>2, <1>3
  <2>. QED BY <1>2, <1>3, <2>1, <2>2, <2>3, SplitStep
<1>5. frames'.recycled \subseteq 0 .. frames'.current - 1
  BY DEF Books
<1>6. ASSUME NEW t \in Space
      PROVE  /\ TablesDiffer(tables'[t]) /\ AreasDiffer(areas'[t])
             /\ TableFrames(t)' \cap AreaFrames(t)' = {} /\ TableFrames(t)' \cap kstack'[t] = {}
             /\ AreaFrames(t)' \cap kstack'[t] = {}
  BY <1>1 DEF OneOwner
<1>. QED BY <1>4, <1>5, <1>6 DEF OneOwner

\* The parts of the type, with the frames as operators on sequences.
LEMMA Types ==
    ASSUME TypeOK
    PROVE  /\ frames \in Allocator
           /\ \A s \in Space :
                /\ tables[s] \in Seq(Table) /\ areas[s] \in Seq(Area) /\ kstack[s] \subseteq Frame
                /\ pte[s] \in [Vpn -> Frame \cup {NoFrame, Code}]
                /\ TableFrames(s) = FramesOfTables(tables[s])
                /\ AreaFrames(s) = FramesOfAreas(areas[s])
           /\ job.held \in Held /\ job.todo \in Seq(VpnRange) /\ job.vpn \in 0 .. Pages
           /\ job.sp \in Space \cup {"none"} /\ job.src \in Space \cup {"none"} /\ job.op \in Op
BY DEF TypeOK, Allocator, Table, Area, TableFrames, AreaFrames, FramesOfTables, FramesOfAreas

\* No frames.
LEMMA Nothing ==
    /\ FramesOf(NoFrames) = {} /\ PagesDiffer(NoFrames) /\ NoFrames \in Held
    /\ FramesOfTables(<<>>) = {} /\ TablesDiffer(<<>>)
    /\ FramesOfAreas(<<>>) = {} /\ AreasDiffer(<<>>)
    /\ \A v \in Vpn : NoFrames[v] = NoFrame
BY DEF FramesOf, NoFrames, PagesDiffer, Held, FramesOfTables, TablesDiffer, FramesOfAreas, AreasDiffer

\* The allocator's books are part of the invariant.
LEMMA BooksKept ==
    ASSUME TypeOK, OneOwner
    PROVE  Books(frames)
BY Types DEF Books, OneOwner

\* A page more in a map of pages.
LEMMA MorePages ==
    ASSUME NEW h \in Held, NEW v \in Vpn, NEW f \in Frame, h[v] = NoFrame,
           NEW g \in Held, g[v] = f, \A w \in Vpn : w # v => g[w] = h[w]
    PROVE  /\ FramesOf(g) = FramesOf(h) \cup {f}
           /\ PagesDiffer(h) /\ f \notin FramesOf(h) => PagesDiffer(g)
<1>1. f # NoFrame
  BY Sizes
<1>2. FramesOf(g) = FramesOf(h) \cup {f}
  <2>1. ASSUME NEW x PROVE x \in FramesOf(g) <=> x \in FramesOf(h) \/ x = f
    BY <1>1, PageFrames
  <2>. QED BY <2>1
<1>3. ASSUME PagesDiffer(h), f \notin FramesOf(h) PROVE PagesDiffer(g)
  BY <1>1, <1>3, PageFrames DEF PagesDiffer
<1>. QED BY <1>2, <1>3

----------------------------------------------------------------------------
\* The steps.

JobSet == [op : Op, sp : Space \cup {"none"}, src : Space \cup {"none"},
           todo : Seq(VpnRange), held : Held, vpn : 0 .. Pages]

\* The bounds of a range.
LEMMA RangeBounds ==
    ASSUME NEW r \in VpnRange
    PROVE  r[1] \in 0 .. Pages /\ r[2] \in 0 .. Pages /\ r[1] <= r[2]
BY Sizes DEF VpnRange, Vpn

\* A call begins with the first page of its first range.
LEMMA JobType ==
    ASSUME NEW op \in Op, NEW s \in Space \cup {"none"}, NEW src \in Space \cup {"none"},
           NEW todo \in Seq(VpnRange), NEW j, j = Job(op, s, src, todo)
    PROVE  /\ j \in JobSet /\ j.op = op /\ j.sp = s /\ j.src = src /\ j.todo = todo
           /\ j.held = NoFrames /\ (todo # <<>> => j.vpn = todo[1][1] /\ todo[1] \in VpnRange)
<1>1. todo # <<>> => todo[1] \in VpnRange
  OBVIOUS
<1>2. (IF todo = <<>> THEN 0 ELSE todo[1][1]) \in 0 .. Pages
  BY <1>1, RangeBounds, Sizes
<1>. QED BY <1>1, <1>2, Nothing DEF Job, JobSet

\* The kernel is idle between calls.
LEMMA IdleType ==
    /\ Idle \in JobSet /\ Idle.op = "idle" /\ Idle.sp = "none" /\ Idle.src = "none"
    /\ Idle.held = NoFrames /\ Idle.todo = <<>>
BY Nothing, Sizes DEF Idle, JobSet, Op

\* A panic leaves everything as it is.
LEMMA PanicStep ==
    ASSUME IInv, UNCHANGED <<frames, state, tables, pte, areas, kstack, job, torn>>, PanicsExplained'
    PROVE  IInv'
<1>1. TypeOK' /\ OneOwner'
  <2>1. TypeOK'
    BY DEF IInv, TypeOK
  <2>2. Used' = Used /\ OwnedBy' = OwnedBy
    BY DEF Used, OwnedBy, Owned, TableFrames, AreaFrames
  <2>3. OneOwner'
    BY <2>2 DEF IInv, OneOwner, TableFrames, AreaFrames
  <2>. QED BY <2>1, <2>3
<1>2. JobOK' /\ FreeIsEmpty'
  BY DEF IInv, JobOK, FreeIsEmpty
<1>3. OwnPagesOnly'
  BY DEF IInv, OwnPagesOnly, Backs
<1>4. Ahead' /\ OfParent'
  BY DEF IInv, Ahead, OfParent, Whole, Holds
<1>. QED BY <1>1, <1>2, <1>3, <1>4 DEF IInv

\* What an area or the call holds is what areas hold, plus the call's own pages.
LEMMA BacksIs ==
    ASSUME NEW s, NEW v, NEW f
    PROVE  Backs(s, v, f) <=> HeldBy(areas[s], v, f) \/ (job.sp = s /\ job.held[v] = f)
BY DEF Backs, HeldBy

\* Steps that only begin or end a call.
LEMMA JobStep ==
    ASSUME IInv, UNCHANGED <<frames, state, tables, pte, areas, kstack, torn>>,
           job.held = NoFrames, job' \in JobSet, job'.held = NoFrames,
           JobOK', Ahead', OfParent', PanicsExplained'
    PROVE  IInv'
<1>1. TypeOK'
  BY DEF IInv, TypeOK, JobSet
<1>2. OneOwner'
  <2>1. Used' = Used /\ OwnedBy' = OwnedBy
    BY DEF Used, OwnedBy, Owned, TableFrames, AreaFrames
  <2>. QED BY <2>1 DEF IInv, OneOwner, TableFrames, AreaFrames
<1>3. FreeIsEmpty'
  BY DEF IInv, FreeIsEmpty
<1>4. OwnPagesOnly'
  <2>1. \A v \in Vpn, f \in Frame \cup {Code} : NoFrames[v] # f
    BY Nothing, Sizes
  <2>2. ASSUME NEW s \in Space, NEW v \in Vpn, NEW f \in Frame \cup {Code}
        PROVE  Backs(s, v, f)' <=> Backs(s, v, f)
    BY <2>1 DEF Backs
  <2>3. \A s \in Space, v \in Vpn : pte[s][v] # NoFrame => pte[s][v] \in Frame \cup {Code}
    BY Types DEF IInv
  <2>4. ASSUME NEW s \in Space, NEW v \in Vpn, NEW f \in Frame, Backs(s, v, f)' PROVE pte'[s][v] = f
    BY <2>2, <2>4 DEF IInv, OwnPagesOnly
  <2>5. ASSUME NEW s \in Space \ torn', state'[s] \in {"building", "live"}, NEW v \in Vpn \ {Tramp},
               pte'[s][v] # NoFrame
        PROVE  Backs(s, v, pte[s][v])'
    <3>1. Backs(s, v, pte[s][v])
      BY <2>5 DEF IInv, OwnPagesOnly
    <3>2. pte[s][v] \in Frame \cup {Code}
      BY <2>3, <2>5
    <3>. QED BY <2>1, <3>1, <3>2 DEF Backs
  <2>. QED BY <2>4, <2>5 DEF OwnPagesOnly
<1>. QED BY <1>1, <1>2, <1>3, <1>4 DEF IInv

\* Between calls nothing is being built.
LEMMA BetweenCalls ==
    ASSUME IInv, job = Idle
    PROVE  /\ job.held = NoFrames /\ job.sp = "none" /\ job.op = "idle"
           /\ \A s \in Space : state[s] # "building"
BY IdleType, Sizes DEF IInv, JobOK

\* sys_mmap begins: the range is not mapped.
LEMMA MmapStep ==
    ASSUME IInv, NEW s \in Space, NEW r \in VpnRange, Mmap(s, r)
    PROVE  IInv'
<1>. DEFINE todo == <<r>>
<1>1. /\ panic = "no" /\ job = Idle /\ state[s] = "live" /\ Unmapped(s, r)
      /\ job' = Job("mmap", s, s, todo) /\ panic' = panic
      /\ UNCHANGED <<frames, state, tables, pte, areas, kstack, torn>>
  BY DEF Mmap, Calls
<1>2. todo \in Seq(VpnRange) /\ todo # <<>> /\ todo[1] = r /\ DOMAIN todo = {1}
  OBVIOUS
<1>. HIDE DEF todo
<1>3. /\ job' \in JobSet /\ job'.op = "mmap" /\ job'.sp = s /\ job'.src = s /\ job'.todo = todo
      /\ job'.held = NoFrames /\ job'.vpn = r[1]
  <2>1. "mmap" \in Op
    BY DEF Op
  <2>. QED BY <1>1, <1>2, <2>1, JobType
<1>4. JobOK'
  BY <1>1, <1>2, <1>3, RangeBounds, BetweenCalls, Sizes DEF JobOK
<1>5. Ahead' /\ OfParent'
  <2>1. ASSUME NEW v \in Vpn, In(v, r) PROVE pte[s][v] = NoFrame
    BY <1>1, <2>1 DEF Unmapped
  <2>2. Clear(pte[s], todo, r[1])
    BY <1>2, <2>1 DEF Clear
  <2>. QED BY <1>1, <1>3, <2>2 DEF Ahead, OfParent
<1>6. PanicsExplained'
  BY <1>1 DEF PanicsExplained
<1>. QED BY <1>1, <1>3, <1>4, <1>5, <1>6, JobStep, BetweenCalls

\* sys_munmap begins
LEMMA MunmapStep ==
    ASSUME IInv, NEW s \in Space, NEW r \in VpnRange, Munmap(s, r)
    PROVE  IInv'
<1>. DEFINE todo == <<r>>
<1>1. /\ panic = "no" /\ job = Idle /\ state[s] = "live"
      /\ job' = Job("munmap", s, s, todo) /\ panic' = panic
      /\ UNCHANGED <<frames, state, tables, pte, areas, kstack, torn>>
  BY DEF Munmap, Calls
<1>2. todo \in Seq(VpnRange) /\ todo # <<>> /\ todo[1] = r
  OBVIOUS
<1>. HIDE DEF todo
<1>3. /\ job' \in JobSet /\ job'.op = "munmap" /\ job'.sp = s /\ job'.src = s /\ job'.todo = todo
      /\ job'.held = NoFrames /\ job'.vpn = r[1]
  <2>1. "munmap" \in Op
    BY DEF Op
  <2>. QED BY <1>1, <1>2, <2>1, JobType
<1>4. JobOK'
  BY <1>1, <1>2, <1>3, RangeBounds, BetweenCalls, Sizes DEF JobOK
<1>5. Ahead' /\ OfParent'
  BY <1>3 DEF Ahead, OfParent
<1>6. PanicsExplained'
  BY <1>1 DEF PanicsExplained
<1>. QED BY <1>1, <1>3, <1>4, <1>5, <1>6, JobStep, BetweenCalls

\* mmap or munmap of a range that wraps around.
LEMMA WrappedStep ==
    ASSUME IInv, NEW s \in Space, NEW r, r \notin VpnRange, Mmap(s, r) \/ Munmap(s, r)
    PROVE  IInv'
<1>1. panic' = "range" /\ UNCHANGED <<frames, state, tables, pte, areas, kstack, job, torn>>
  BY DEF Mmap, Munmap, Panic
<1>2. PanicsExplained'
  BY <1>1 DEF PanicsExplained
<1>. QED BY <1>1, <1>2, PanicStep

\* The call returns.
LEMMA CallEnds ==
    ASSUME IInv, job.op \in {"mmap", "munmap"}, job.held = NoFrames, job' = Idle,
           panic' \in {"no", "trap"},
           UNCHANGED <<frames, state, tables, pte, areas, kstack, torn>>
    PROVE  IInv'
<1>1. \A s \in Space : state[s] # "building"
  BY DEF IInv, JobOK
<1>2. JobOK' /\ Ahead' /\ OfParent'
  BY <1>1, IdleType DEF JobOK, Ahead, OfParent
<1>3. PanicsExplained'
  BY DEF PanicsExplained
<1>. QED BY <1>2, <1>3, IdleType, JobStep

\* The end of mmap and of munmap
LEMMA DoneStep ==
    ASSUME IInv, MmapDone \/ MunmapDone
    PROVE  IInv'
<1>1. CASE MmapDone
  BY <1>1, CallEnds DEF MmapDone, Builds, IInv, JobOK
<1>2. CASE MunmapDone
  BY <1>2, CallEnds DEF MunmapDone, IInv, JobOK
<1>. QED BY <1>1, <1>2

\* A step that changes pages and areas of one space s only.
LEMMA PagesStep ==
    ASSUME IInv, NEW s \in Space,
           \A t \in Space : t # s =>
              /\ pte'[t] = pte[t] /\ areas'[t] = areas[t]
              /\ state'[t] \in {"building", "live"} => state[t] \in {"building", "live"},
           \A t \in torn : t # s => t \in torn',
           job.held = NoFrames \/ job.sp = s, job'.held = NoFrames \/ job'.sp = s,
           \A v \in Vpn, f \in Frame :
              HeldBy(areas'[s], v, f) \/ (job'.sp = s /\ job'.held[v] = f) => pte'[s][v] = f,
           s \notin torn' /\ state'[s] \in {"building", "live"} =>
              \A v \in Vpn \ {Tramp} : pte'[s][v] # NoFrame =>
                 HeldBy(areas'[s], v, pte'[s][v]) \/ (job'.sp = s /\ job'.held[v] = pte'[s][v])
    PROVE  OwnPagesOnly'
<1>1. \A v \in Vpn, f \in Frame \cup {Code} : NoFrames[v] # f
  BY Nothing, Sizes
<1>2. ASSUME NEW t \in Space, t # s, NEW v \in Vpn, NEW f \in Frame \cup {Code}
      PROVE  /\ Backs(t, v, f)' <=> HeldBy(areas[t], v, f)
             /\ Backs(t, v, f) <=> HeldBy(areas[t], v, f)
  BY <1>1, <1>2 DEF Backs, HeldBy
<1>3. ASSUME NEW t \in Space, NEW v \in Vpn, NEW f \in Frame, Backs(t, v, f)' PROVE pte'[t][v] = f
  <2>1. CASE t = s
    BY <1>3, <2>1 DEF Backs, HeldBy
  <2>2. CASE t # s
    <3>1. Backs(t, v, f)
      BY <1>2, <1>3, <2>2
    <3>. QED BY <2>2, <3>1 DEF IInv, OwnPagesOnly
  <2>. QED BY <2>1, <2>2
<1>4. ASSUME NEW t \in Space \ torn', state'[t] \in {"building", "live"}, NEW v \in Vpn \ {Tramp},
             pte'[t][v] # NoFrame
      PROVE  Backs(t, v, pte[t][v])'
  <2>1. CASE t = s
    BY <1>4, <2>1 DEF Backs, HeldBy
  <2>2. CASE t # s
    <3>1. Backs(t, v, pte[t][v])
      BY <1>4, <2>2 DEF IInv, OwnPagesOnly
    <3>2. pte[t][v] \in Frame \cup {Code} /\ pte'[t][v] = pte[t][v]
      BY <1>4, <2>2, Types DEF IInv
    <3>3. HeldBy(areas[t], v, pte[t][v])
      BY <1>2, <2>2, <3>1, <3>2
    <3>. QED BY <2>2, <3>2, <3>3 DEF Backs, HeldBy
  <2>. QED BY <2>1, <2>2
<1>. QED BY <1>3, <1>4 DEF OwnPagesOnly

\* The number of a leaf table.
LEMMA TableNumber ==
    ASSUME NEW v \in Vpn
    PROVE  TableOf(v) \in Nat
<1>. DEFINE q == v \div Fan
            r == v % Fan
<1>1. q \in Int /\ r \in 0 .. Fan - 1 /\ v = q * Fan + r /\ v \in Nat /\ Fan \in Nat \ {0}
  BY Sizes, Z3 DEF Vpn
<1>. HIDE DEF q, r
<1>2. ASSUME q <= -1 PROVE FALSE
  <2>1. q * Fan <= -Fan
    BY <1>1, <1>2, Z3
  <2>. QED BY <1>1, <2>1
<1>. QED BY <1>1, <1>2 DEF TableOf, q

\* The ranges that a new space will map are disjoint and leave out the trampoline: those
\* of the program's image, and those of a parent whose areas are whole.
LEMMA ImageClear ==
    ASSUME NEW p, \A v \in Vpn \ {Tramp} : p[v] = NoFrame, NEW x
    PROVE  Clear(p, Image, x)
<1>1. \A i, j \in DOMAIN Image : \A v \in Vpn :
         /\ In(v, Image[i]) => v # Tramp
         /\ In(v, Image[i]) /\ In(v, Image[j]) => i = j
  BY MemoryAssumption
<1>. QED BY <1>1 DEF Clear

\* Areas that hold all their pages do not overlap.
LEMMA WholeDisjoint ==
    ASSUME IInv, NEW s \in Space, state[s] = "live", Whole(s),
           NEW i \in DOMAIN areas[s], NEW v \in Vpn, In(v, areas[s][i].range)
    PROVE  /\ v # Tramp /\ pte[s][v] # NoFrame
           /\ \A j \in DOMAIN areas[s] : In(v, areas[s][j].range) => i = j
<1>1. ASSUME NEW j \in DOMAIN areas[s], In(v, areas[s][j].range)
      PROVE  areas[s][j].held[v] = pte[s][v] /\ areas[s][j].held[v] \in Frame
  <2>1. areas[s][j] \in Area /\ areas[s][j].held[v] # NoFrame
    BY <1>1, Types DEF IInv, Whole, Holds
  <2>2. areas[s][j].held[v] \in Frame
    BY <2>1 DEF Area, Held
  <2>. QED BY <2>2 DEF IInv, OwnPagesOnly, Backs
<1>2. pte[s][Tramp] = Code
  BY DEF IInv, FreeIsEmpty
<1>3. AreasDiffer(areas[s])
  BY DEF IInv, OneOwner
<1>. QED BY <1>1, <1>2, <1>3, Sizes DEF AreasDiffer

\* new_bare and map_trampoline: the space gets two frames for its page table.
LEMMA NewSpaceStep ==
    ASSUME IInv, panic = "no", job.held = NoFrames, job.sp = "none",
           \A s \in Space : state[s] # "building",
           NEW op \in {"boot", "fork", "exec"}, NEW src \in Space \cup {"none"},
           op # "boot" => src \in Space /\ state[src] = "live",
           NEW todo, op # "fork" => todo = Image, op = "fork" => todo = Ranges(areas[src]),
           NewSpace(op, src, todo)
    PROVE  IInv'
<1>1. CASE Avail < 2
  <2>1. PanicsExplained'
    BY <1>1 DEF NewSpace, Panic, PanicsExplained
  <2>. QED BY <1>1, <2>1, PanicStep DEF NewSpace, Panic
<1>2. CASE ~(Avail < 2)
  <2>. DEFINE e1 == [of |-> Root, frame |-> One]
              e2 == [of |-> TableOf(Tramp), frame |-> Two]
              p == [NoFrames EXCEPT ![Tramp] = Code]
  <2>1. PICK n \in Space :
          /\ state[n] = "free" /\ Take(2) /\ state' = [state EXCEPT ![n] = "building"]
          /\ tables' = [tables EXCEPT ![n] = <<e1, e2>>] /\ pte' = [pte EXCEPT ![n] = p]
          /\ job' = Job(op, n, src, todo) /\ UNCHANGED <<areas, kstack, torn, panic>>
    BY <1>2 DEF NewSpace
  <2>2. /\ One \in Frame /\ Two \in Frame /\ One # Two /\ One \notin Used /\ Two \notin Used
        /\ Books(frames') /\ Used' = Used \cup {One, Two}
    BY <1>2, <2>1, BooksKept, TakeTwo DEF IInv
  <2>3. tables[n] = <<>> /\ areas[n] = <<>> /\ kstack[n] = {}
    BY <2>1 DEF IInv, FreeIsEmpty
  <2>4. e1 \in Table /\ e2 \in Table /\ e1.frame = One /\ e2.frame = Two
    BY <2>2, TableNumber, Sizes DEF Table, Root
  <2>. HIDE DEF e1, e2
  <2>5. /\ <<e1, e2>> \in Seq(Table) /\ TablesDiffer(<<e1, e2>>)
        /\ FramesOfTables(<<e1, e2>>) = {One, Two}
    <3>1. DOMAIN <<e1, e2>> = {1, 2} /\ <<e1, e2>>[1] = e1 /\ <<e1, e2>>[2] = e2
      OBVIOUS
    <3>2. <<e1, e2>> \in Seq(Table)
      BY <2>4
    <3>. QED BY <2>2, <2>4, <3>1, <3>2 DEF TablesDiffer, FramesOfTables
  <2>6. /\ p \in [Vpn -> Frame \cup {NoFrame, Code}] /\ p[Tramp] = Code
        /\ \A v \in Vpn \ {Tramp} : p[v] = NoFrame
    BY Sizes DEF NoFrames
  <2>. HIDE DEF p
  <2>7. todo \in Seq(VpnRange)
    <3>1. CASE op # "fork"
      BY <3>1, MemoryAssumption
    <3>2. CASE op = "fork"
      <4>1. areas[src] \in Seq(Area) /\ todo = [i \in DOMAIN areas[src] |-> areas[src][i].range]
        BY <3>2, Types DEF IInv, Ranges
      <4>2. ASSUME NEW i \in DOMAIN areas[src] PROVE areas[src][i].range \in VpnRange
        <5>1. areas[src][i] \in Area
          BY <4>1
        <5>. QED BY <5>1 DEF Area
      <4>3. todo \in [1 .. Len(areas[src]) -> VpnRange] /\ Len(areas[src]) \in Nat
        BY <4>1, <4>2
      <4>. QED BY <4>3
    <3>. QED BY <3>1, <3>2
  <2>8. /\ job' \in JobSet /\ job'.op = op /\ job'.sp = n /\ job'.src = src /\ job'.todo = todo
        /\ job'.held = NoFrames /\ (todo # <<>> => job'.vpn = todo[1][1] /\ todo[1] \in VpnRange)
    <3>1. op \in Op /\ n \in Space \cup {"none"}
      BY DEF Op
    <3>. QED BY <2>1, <2>7, <3>1, JobType
  <2>9. /\ state' \in [Space -> {"free", "building", "live", "stackless", "zombie"}]
        /\ tables' \in [Space -> Seq(Table)] /\ pte' \in [Space -> [Vpn -> Frame \cup {NoFrame, Code}]]
        /\ tables'[n] = <<e1, e2>> /\ pte'[n] = p /\ state'[n] = "building"
        /\ \A t \in Space : t # n => tables'[t] = tables[t] /\ pte'[t] = pte[t] /\ state'[t] = state[t]
    <3>1. /\ tables \in [Space -> Seq(Table)] /\ pte \in [Space -> [Vpn -> Frame \cup {NoFrame, Code}]]
          /\ state \in [Space -> {"free", "building", "live", "stackless", "zombie"}]
      BY DEF IInv, TypeOK, Table
    <3>. QED BY <2>1, <2>5, <2>6, <3>1
  <2>10. TypeOK'
    BY <2>1, <2>2, <2>8, <2>9 DEF IInv, TypeOK, Table, JobSet, Books, Allocator
  <2>11. OneOwner'
    <3>1. New = {} /\ Owned(n) = {}
      BY <2>3, Nothing, Types DEF IInv, New, Owned
    <3>2. FramesOf(job'.held) = {} /\ PagesDiffer(job'.held)
      BY <2>8, Nothing
    <3>3. FramesOfAreas(areas'[n]) = {} /\ AreasDiffer(areas'[n]) /\ kstack'[n] = {}
      BY <2>1, <2>3, Nothing
    <3>4. FramesOfTables(tables'[n]) = {One, Two} /\ TablesDiffer(tables'[n])
      BY <2>5, <2>9
    <3>. DEFINE N2 == {}
                T2 == {One, Two}
    <3>5. /\ \A f \in N2 \cup T2 \cup N2 \cup N2 : f \in New \cup Owned(n) \/ f \notin Used
          /\ Used' = (Used \ (New \cup Owned(n))) \cup (N2 \cup T2 \cup N2 \cup N2)
          /\ N2 \cap T2 = {} /\ N2 \cap N2 = {} /\ T2 \cap N2 = {}
      BY <2>2, <3>1
    <3>6. \A t \in Space : t # n => /\ tables'[t] = tables[t] /\ areas'[t] = areas[t]
                                    /\ kstack'[t] = kstack[t]
      BY <2>1, <2>9
    <3>7. N2 = FramesOf(job'.held) /\ T2 = FramesOfTables(tables'[n])
          /\ N2 = FramesOfAreas(areas'[n]) /\ N2 = kstack'[n]
      BY <3>2, <3>3, <3>4
    <3>. HIDE DEF N2, T2
    <3>. QED BY <2>2, <3>2, <3>3, <3>4, <3>5, <3>6, <3>7, OwnerStep DEF IInv
  <2>12. JobOK'
    BY <2>1, <2>8, <2>9, <2>3, RangeBounds, Sizes DEF JobOK
  <2>13. FreeIsEmpty'
    BY <2>1, <2>6, <2>9 DEF IInv, FreeIsEmpty
  <2>14. OwnPagesOnly'
    <3>1. \A v, f : ~HeldBy(areas'[n], v, f)
      BY <2>1, <2>3 DEF HeldBy
    <3>2. \A v \in Vpn, f \in Frame : job'.held[v] # f
      BY <2>8, Nothing, Sizes
    <3>. QED BY <2>1, <2>6, <2>8, <2>9, <3>1, <3>2, PagesStep
  <2>15. Ahead'
    <3>1. CASE op # "fork"
      <4>1. Clear(p, todo, job'.vpn)
        BY <2>6, <3>1, ImageClear
      <4>. QED BY <2>8, <2>9, <4>1 DEF Ahead
    <3>2. ASSUME op = "fork", Whole(src) PROVE Clear(p, todo, job'.vpn)
      <4>1. /\ DOMAIN todo = DOMAIN areas[src] /\ src \in Space /\ state[src] = "live"
            /\ \A i \in DOMAIN todo : todo[i] = areas[src][i].range
        BY <3>2 DEF Ranges
      <4>2. ASSUME NEW i \in DOMAIN todo, NEW v \in Vpn, In(v, todo[i])
            PROVE  p[v] = NoFrame /\ \A j \in DOMAIN todo : In(v, todo[j]) => i = j
        <5>1. v # Tramp /\ \A j \in DOMAIN areas[src] : In(v, areas[src][j].range) => i = j
          BY <3>2, <4>1, <4>2, WholeDisjoint
        <5>. QED BY <2>6, <4>1, <5>1
      <4>. QED BY <4>2 DEF Clear
    <3>3. Whole(src)' <=> Whole(src)
      BY <2>1 DEF Whole, Holds
    <3>. QED BY <2>8, <2>9, <3>1, <3>2, <3>3 DEF Ahead
  <2>16. OfParent'
    BY <2>1, <2>8 DEF OfParent, Ranges
  <2>17. PanicsExplained'
    BY <2>1 DEF PanicsExplained
  <2>. QED BY <2>10, <2>11, <2>12, <2>13, <2>14, <2>15, <2>16, <2>17 DEF IInv
<1>. QED BY <1>1, <1>2

\* The first process, fork and exec
LEMMA SpaceStep ==
    ASSUME IInv, Boot \/ \E s \in Space : Fork(s) \/ Exec(s)
    PROVE  IInv'
<1>1. CASE Boot
  <2>1. /\ panic = "no" /\ job.op = "boot" /\ job.sp = "none" /\ NewSpace("boot", "none", Image)
    BY <1>1 DEF Boot
  <2>2. job.held = NoFrames /\ \A s \in Space : state[s] # "building"
    BY <2>1, Sizes DEF IInv, JobOK
  <2>. QED BY <2>1, <2>2, NewSpaceStep
<1>2. ASSUME NEW s \in Space, Fork(s) PROVE IInv'
  <2>1. panic = "no" /\ job = Idle /\ state[s] = "live" /\ NewSpace("fork", s, Ranges(areas[s]))
    BY <1>2 DEF Fork, Calls
  <2>. QED BY <2>1, BetweenCalls, NewSpaceStep
<1>3. ASSUME NEW s \in Space, Exec(s) PROVE IInv'
  <2>1. panic = "no" /\ job = Idle /\ state[s] = "live" /\ NewSpace("exec", s, Image)
    BY <1>3 DEF Exec, Calls
  <2>. QED BY <2>1, BetweenCalls, NewSpaceStep
<1>. QED BY <1>1, <1>2, <1>3

\* Where the call in progress stands.
LEMMA Building ==
    ASSUME IInv, Builds
    PROVE  /\ job.sp \in Space /\ panic = "no" /\ state[job.sp] \in {"building", "live"}
           /\ job.op \in {"boot", "fork", "exec", "mmap"} /\ job \in JobSet
           /\ pte[job.sp][Tramp] = Code
           /\ job.todo # <<>> => /\ job.todo[1] \in VpnRange /\ job.todo[1][1] <= job.vpn
                                 /\ job.vpn < job.todo[1][2] => job.vpn \in Vpn
<1>1. job.sp \in Space /\ panic = "no" /\ job.op \in {"boot", "fork", "exec", "mmap"} /\ job \in JobSet
  BY Types DEF IInv, Builds, TypeOK, JobSet
<1>2. state[job.sp] \in {"building", "live"}
  BY <1>1, Sizes DEF IInv, JobOK
<1>3. pte[job.sp][Tramp] = Code
  BY <1>1, <1>2 DEF IInv, FreeIsEmpty
<1>4. ASSUME job.todo # <<>>
      PROVE  /\ job.todo[1] \in VpnRange /\ job.todo[1][1] <= job.vpn
             /\ job.vpn < job.todo[1][2] => job.vpn \in Vpn
  <2>1. job.todo[1] \in VpnRange /\ job.vpn \in 0 .. Pages
    BY <1>4, Types DEF IInv
  <2>2. job.todo[1][1] <= job.vpn
    BY <1>4, <2>1, RangeBounds DEF IInv, JobOK
  <2>. QED BY <2>1, <2>2, RangeBounds, Sizes DEF Vpn
<1>. QED BY <1>1, <1>2, <1>3, <1>4

\* mmap fails halfway: its frames go back, the area is dropped.
LEMMA OutOfFramesStep ==
    ASSUME IInv, Builds, OutOfFrames
    PROVE  IInv'
<1>1. CASE job.op # "mmap"
  <2>1. PanicsExplained'
    BY <1>1 DEF OutOfFrames, Panic, PanicsExplained
  <2>. QED BY <1>1, <2>1, PanicStep DEF OutOfFrames, Panic
<1>2. CASE job.op = "mmap"
  <2>. DEFINE s == job.sp
  <2>1. /\ Give(New) /\ torn' = (IF New = {} THEN torn ELSE torn \cup {s}) /\ job' = Idle
        /\ panic' = (IF Allocated(New) THEN panic ELSE "dealloc")
        /\ UNCHANGED <<state, tables, pte, areas, kstack>>
    BY <1>2 DEF OutOfFrames, New
  <2>2. s \in Space /\ panic = "no" /\ \A t \in Space : state[t] # "building"
    BY <1>2, Building DEF IInv, JobOK
  <2>. HIDE DEF s
  <2>3. /\ New \subseteq Used /\ New \cap TableFrames(s) = {} /\ New \cap AreaFrames(s) = {}
        /\ New \cap kstack[s] = {} /\ TableFrames(s) \cap AreaFrames(s) = {}
        /\ TableFrames(s) \cap kstack[s] = {} /\ AreaFrames(s) \cap kstack[s] = {}
        /\ TableFrames(s) \subseteq Used /\ AreaFrames(s) \subseteq Used /\ kstack[s] \subseteq Used
    BY <2>2, OwnerFacts DEF IInv
  <2>4. Allocated(New) /\ Books(frames') /\ Used' = Used \ New
    BY <2>1, <2>3, BooksKept, GiveBack DEF IInv
  <2>5. panic' = "no"
    BY <2>1, <2>2, <2>4
  <2>6. TypeOK'
    BY <2>1, <2>2, <2>4, IdleType DEF IInv, TypeOK, JobSet, Books, Allocator
  <2>7. OneOwner'
    <3>. DEFINE T == TableFrames(s)
                A == AreaFrames(s)
                K == kstack[s]
                N2 == {}
    <3>1. /\ N2 = FramesOf(job'.held) /\ T = FramesOfTables(tables'[s])
          /\ A = FramesOfAreas(areas'[s]) /\ K = kstack'[s] /\ PagesDiffer(job'.held)
          /\ TablesDiffer(tables'[s]) /\ AreasDiffer(areas'[s])
      BY <2>1, <2>2, IdleType, Nothing, Types DEF IInv, OneOwner
    <3>2. /\ N2 \cap T = {} /\ N2 \cap A = {} /\ N2 \cap K = {}
          /\ T \cap A = {} /\ T \cap K = {} /\ A \cap K = {}
      BY <2>3
    <3>3. /\ \A f \in N2 \cup T \cup A \cup K : f \in New \cup Owned(s) \/ f \notin Used
          /\ Used' = (Used \ (New \cup Owned(s))) \cup (N2 \cup T \cup A \cup K)
      BY <2>3, <2>4 DEF Owned
    <3>4. \A t \in Space : t # s => /\ tables'[t] = tables[t] /\ areas'[t] = areas[t]
                                    /\ kstack'[t] = kstack[t]
      BY <2>1
    <3>. HIDE DEF N2, T, A, K
    <3>. QED BY <2>2, <2>4, <3>1, <3>2, <3>3, <3>4, OwnerStep DEF IInv
  <2>8. JobOK' /\ Ahead' /\ OfParent' /\ FreeIsEmpty'
    BY <2>1, <2>2, IdleType DEF IInv, JobOK, Ahead, OfParent, FreeIsEmpty
  <2>9. OwnPagesOnly'
    <3>1. \A v \in Vpn, f \in Frame \cup {Code} : job'.held[v] # f
      BY <2>1, IdleType, Nothing, Sizes
    <3>2. \A v \in Vpn, f \in Frame : HeldBy(areas[s], v, f) => pte[s][v] = f
      BY <2>2 DEF IInv, OwnPagesOnly, Backs, HeldBy
    <3>3. ASSUME s \notin torn', state'[s] \in {"building", "live"}, NEW v \in Vpn \ {Tramp},
                 pte[s][v] # NoFrame
          PROVE  HeldBy(areas[s], v, pte[s][v])
      <4>1. New = {} /\ s \notin torn
        BY <2>1, <3>3
      <4>2. Backs(s, v, pte[s][v])
        BY <2>1, <2>2, <3>3, <4>1 DEF IInv, OwnPagesOnly
      <4>3. job.held[v] # pte[s][v]
        BY <3>3, <4>1, PageFrames DEF New
      <4>. QED BY <4>2, <4>3 DEF Backs, HeldBy
    <3>. QED BY <2>1, <2>2, <3>1, <3>2, <3>3, IdleType, PagesStep DEF s
  <2>10. PanicsExplained'
    BY <2>5 DEF PanicsExplained
  <2>. QED BY <2>6, <2>7, <2>8, <2>9, <2>10 DEF IInv
<1>. QED BY <1>1, <1>2

\* map_one with frames for the page and, if it is missing, for the leaf table
LEMMA MapsPage ==
    ASSUME IInv, Builds, job.todo # <<>>, job.vpn < job.todo[1][2], pte[job.sp][job.vpn] = NoFrame,
           Books(frames'), One \in Frame, One \notin Used,
           NEW more, more = {} \/ (more = {Two} /\ Two \in Frame /\ Two # One /\ Two \notin Used),
           Used' = Used \cup {One} \cup more,
           tables' = (IF more = {} THEN tables
                      ELSE [tables EXCEPT ![job.sp] = Append(@, [of |-> TableOf(job.vpn),
                                                                 frame |-> Two])]),
           pte' = [pte EXCEPT ![job.sp][job.vpn] = One],
           job' = [job EXCEPT !.held[job.vpn] = One, !.vpn = job.vpn + 1],
           UNCHANGED <<state, areas, kstack, torn, panic>>
    PROVE  IInv'
<1>. DEFINE s == job.sp
            v == job.vpn
            r == job.todo[1]
<1>1. /\ s \in Space /\ panic = "no" /\ state[s] \in {"building", "live"} /\ v \in Vpn
      /\ r \in VpnRange /\ r[1] <= v /\ job \in JobSet /\ pte[s][Tramp] = Code
      /\ job.op \in {"boot", "fork", "exec", "mmap"}
  BY Building
<1>2. /\ job.held \in Held /\ tables[s] \in Seq(Table) /\ pte[s] \in [Vpn -> Frame \cup {NoFrame, Code}]
      /\ pte \in [Space -> [Vpn -> Frame \cup {NoFrame, Code}]] /\ tables \in [Space -> Seq(Table)]
  BY <1>1 DEF IInv, TypeOK, Table, JobSet
<1>3. v # Tramp /\ v + 1 \in 0 .. Pages /\ v \in Nat
  <2>1. v # Tramp
    BY <1>1, Sizes
  <2>2. PICK w \in 0 .. Pages - 1 : w = v
    BY <1>1 DEF Vpn
  <2>3. w + 1 \in 0 .. Pages /\ w \in Nat
    BY Sizes
  <2>. QED BY <2>1, <2>2, <2>3
<1>4. job.held[v] = NoFrame
  <2>1. job.held[v] \in Frame \cup {NoFrame}
    BY <1>1, <1>2 DEF Held
  <2>2. job.held[v] \in Frame => pte[s][v] = job.held[v]
    BY <1>1 DEF IInv, OwnPagesOnly, Backs
  <2>. QED BY <2>1, <2>2, Sizes
<1>5. /\ job' \in JobSet /\ job'.op = job.op /\ job'.sp = s /\ job'.src = job.src
      /\ job'.todo = job.todo /\ job'.vpn = v + 1 /\ job'.held = [job.held EXCEPT ![v] = One]
  <2>1. [job.held EXCEPT ![v] = One] \in Held
    BY <1>1, <1>2 DEF Held
  <2>. QED BY <1>1, <1>3, <2>1 DEF JobSet
<1>6. /\ New \subseteq Used /\ New \cap TableFrames(s) = {} /\ New \cap AreaFrames(s) = {}
      /\ New \cap kstack[s] = {} /\ TableFrames(s) \cap AreaFrames(s) = {}
      /\ TableFrames(s) \cap kstack[s] = {} /\ AreaFrames(s) \cap kstack[s] = {}
      /\ TableFrames(s) \subseteq Used /\ AreaFrames(s) \subseteq Used /\ kstack[s] \subseteq Used
  BY <1>1, OwnerFacts DEF IInv
<1>7. FramesOf(job'.held) = New \cup {One} /\ PagesDiffer(job'.held)
  <2>1. One \notin FramesOf(job.held) /\ PagesDiffer(job.held)
    BY <1>6 DEF New, IInv, OneOwner
  <2>2. /\ job'.held \in Held /\ job'.held[v] = One
        /\ \A w \in Vpn : w # v => job'.held[w] = job.held[w]
    BY <1>1, <1>2, <1>5 DEF Held, JobSet
  <2>. HIDE DEF v
  <2>3. /\ FramesOf(job'.held) = FramesOf(job.held) \cup {One}
        /\ PagesDiffer(job.held) /\ One \notin FramesOf(job.held) => PagesDiffer(job'.held)
    BY <1>1, <1>2, <1>4, <2>2, MorePages, Zenon
  <2>. QED BY <2>1, <2>3 DEF New
<1>8. /\ tables' \in [Space -> Seq(Table)] /\ TablesDiffer(tables'[s])
      /\ FramesOfTables(tables'[s]) = TableFrames(s) \cup more
      /\ \A t \in Space : t # s => tables'[t] = tables[t]
  <2>1. TablesDiffer(tables[s]) /\ FramesOfTables(tables[s]) = TableFrames(s)
    BY <1>1, Types DEF IInv, OneOwner
  <2>2. CASE more = {}
    BY <1>2, <2>1, <2>2
  <2>3. CASE more # {}
    <3>. DEFINE e == [of |-> TableOf(v), frame |-> Two]
    <3>1. more = {Two} /\ Two \in Frame /\ Two \notin Used /\ e \in Table /\ e.frame = Two
      BY <1>1, <2>3, TableNumber DEF Table
    <3>2. tables' = [tables EXCEPT ![s] = Append(tables[s], e)]
      BY <2>3
    <3>. HIDE DEF e
    <3>3. e.frame \notin FramesOfTables(tables[s])
      BY <1>6, <2>1, <3>1
    <3>4. /\ Append(tables[s], e) \in Seq(Table) /\ TablesDiffer(Append(tables[s], e))
          /\ FramesOfTables(Append(tables[s], e)) = FramesOfTables(tables[s]) \cup {Two}
      BY <1>2, <2>1, <3>1, <3>3, MoreTables
    <3>. QED BY <1>1, <1>2, <2>1, <3>1, <3>2, <3>4
  <2>. QED BY <2>2, <2>3
<1>9. /\ pte' \in [Space -> [Vpn -> Frame \cup {NoFrame, Code}]]
      /\ pte'[s][v] = One /\ \A w \in Vpn : w # v => pte'[s][w] = pte[s][w]
      /\ \A t \in Space : t # s => pte'[t] = pte[t]
  BY <1>1, <1>2
<1>10. job'.held[v] = One /\ \A w \in Vpn : w # v => job'.held[w] = job.held[w]
  BY <1>1, <1>2, <1>5 DEF Held
<1>. HIDE DEF s, v, r
<1>11. TypeOK'
  BY <1>5, <1>8, <1>9 DEF IInv, TypeOK, Table, JobSet, Books, Allocator
<1>12. OneOwner'
  <2>. DEFINE N2 == New \cup {One}
              T2 == TableFrames(s) \cup more
              A == AreaFrames(s)
              K == kstack[s]
  <2>1. N2 = FramesOf(job'.held) /\ T2 = FramesOfTables(tables'[s])
        /\ A = FramesOfAreas(areas'[s]) /\ K = kstack'[s] /\ AreasDiffer(areas'[s])
    BY <1>1, <1>7, <1>8, Types DEF IInv, OneOwner
  <2>2. /\ N2 \cap T2 = {} /\ N2 \cap A = {} /\ N2 \cap K = {}
        /\ T2 \cap A = {} /\ T2 \cap K = {} /\ A \cap K = {}
    BY <1>6
  <2>3. /\ \A f \in N2 \cup T2 \cup A \cup K : f \in New \cup Owned(s) \/ f \notin Used
        /\ Used' = (Used \ (New \cup Owned(s))) \cup (N2 \cup T2 \cup A \cup K)
    BY <1>6 DEF Owned
  <2>4. \A t \in Space : t # s => /\ tables'[t] = tables[t] /\ areas'[t] = areas[t]
                                  /\ kstack'[t] = kstack[t]
    BY <1>8
  <2>5. PagesDiffer(job'.held) /\ TablesDiffer(tables'[s]) /\ s \in Space /\ OneOwner
    BY <1>1, <1>7, <1>8 DEF IInv
  <2>. HIDE DEF N2, T2, A, K
  <2>. QED BY <2>1, <2>2, <2>3, <2>4, <2>5, OwnerStep
<1>13. JobOK'
  <2>1. job.todo # <<>> => job'.vpn >= job'.todo[1][1]
    BY <1>1, <1>3, <1>5, RangeBounds DEF r
  <2>. QED BY <1>1, <1>5, <2>1, Sizes DEF IInv, JobOK, s
<1>14. FreeIsEmpty'
  <2>1. ASSUME NEW t \in Space, t # s
        PROVE  pte'[t] = pte[t] /\ tables'[t] = tables[t]
    BY <1>8, <1>9, <2>1
  <2>2. pte'[s][Tramp] = Code /\ state[s] # "free"
    BY <1>1, <1>3, <1>9, Sizes
  <2>. QED BY <1>1, <2>1, <2>2 DEF IInv, FreeIsEmpty
<1>15. OwnPagesOnly'
  <2>1. ASSUME NEW w \in Vpn, NEW f \in Frame, HeldBy(areas[s], w, f) \/ job'.held[w] = f
        PROVE  pte'[s][w] = f
    <3>1. CASE w = v
      <4>1. HeldBy(areas[s], w, f) => pte[s][w] = f
        BY <1>1 DEF IInv, OwnPagesOnly, Backs, HeldBy
      <4>. QED BY <1>9, <1>10, <2>1, <3>1, <4>1, Sizes DEF s, v
    <3>2. CASE w # v
      <4>1. Backs(s, w, f)
        BY <1>10, <2>1, <3>2 DEF Backs, HeldBy, s
      <4>2. pte[s][w] = f
        BY <1>1, <4>1 DEF IInv, OwnPagesOnly
      <4>. QED BY <1>9, <3>2, <4>2
    <3>. QED BY <3>1, <3>2
  <2>2. ASSUME s \notin torn, NEW w \in Vpn \ {Tramp}, pte'[s][w] # NoFrame
        PROVE  HeldBy(areas[s], w, pte'[s][w]) \/ job'.held[w] = pte'[s][w]
    <3>1. CASE w = v
      BY <1>9, <1>10, <3>1
    <3>2. CASE w # v
      <4>1. pte'[s][w] = pte[s][w] /\ job'.held[w] = job.held[w]
        BY <1>9, <1>10, <3>2
      <4>2. Backs(s, w, pte[s][w])
        BY <1>1, <2>2, <4>1 DEF IInv, OwnPagesOnly
      <4>. QED BY <4>1, <4>2 DEF Backs, HeldBy
    <3>. QED BY <3>1, <3>2
  <2>. QED BY <1>1, <1>5, <1>9, <2>1, <2>2, PagesStep DEF s
<1>16. Ahead'
  <2>1. ASSUME Clear(pte[s], job.todo, v) PROVE Clear(pte'[s], job.todo, v + 1)
    <3>. SUFFICES ASSUME NEW i \in DOMAIN job.todo, NEW w \in Vpn, In(w, job.todo[i]),
                         i = 1 => w >= v + 1
                  PROVE  pte'[s][w] = NoFrame
      BY <2>1 DEF Clear
    <3>1. 1 \in DOMAIN job.todo /\ In(v, job.todo[1])
      <4>1. job.todo \in Seq(VpnRange)
        BY Types DEF IInv
      <4>. QED BY <1>1, <4>1 DEF In, r, v
    <3>2. w # v
      <4>1. CASE i = 1
        BY <1>1, <1>3, <4>1 DEF Vpn
      <4>2. CASE i # 1
        BY <1>1, <2>1, <3>1, <4>2 DEF Clear
      <4>. QED BY <4>1, <4>2
    <3>3. i = 1 => w >= v
      BY <1>1, <1>3 DEF Vpn
    <3>4. pte[s][w] = NoFrame
      BY <2>1, <3>3 DEF Clear
    <3>. QED BY <1>9, <3>2, <3>4
  <2>2. Whole(job.src)' <=> Whole(job.src)
    BY <1>5 DEF Whole, Holds
  <2>. QED BY <1>1, <1>5, <2>1, <2>2 DEF IInv, Ahead, s, v
<1>17. OfParent' /\ PanicsExplained'
  BY <1>1, <1>5 DEF IInv, OfParent, PanicsExplained
<1>. QED BY <1>11, <1>12, <1>13, <1>14, <1>15, <1>16, <1>17 DEF IInv

\* map_one: out of frames, or the page is mapped already, or it is mapped now
LEMMA MapOneStep ==
    ASSUME IInv, MapOne
    PROVE  IInv'
<1>. DEFINE n == IF Missing(job.sp, job.vpn) THEN 2 ELSE 1
<1>1. Builds /\ job.todo # <<>> /\ job.vpn < job.todo[1][2]
  BY DEF MapOne
<1>2. CASE Avail = 0
  BY <1>1, <1>2, OutOfFramesStep DEF MapOne
<1>3. CASE Avail # 0 /\ Avail < n
  <2>1. Panic("oom")
    BY <1>3 DEF MapOne
  <2>. QED BY <2>1, PanicStep DEF Panic, PanicsExplained
<1>4. CASE Avail # 0 /\ ~(Avail < n) /\ pte[job.sp][job.vpn] # NoFrame
  <2>1. Panic("mapped")
    BY <1>4 DEF MapOne
  <2>2. job.op = "fork" /\ ~Whole(job.src)
    <3>1. job.todo \in Seq(VpnRange) /\ job.vpn \in Vpn /\ job.todo[1][1] <= job.vpn
      BY <1>1, Building, Types DEF IInv
    <3>2. 1 \in DOMAIN job.todo /\ In(job.vpn, job.todo[1]) /\ job.vpn >= job.vpn
      BY <1>1, <3>1 DEF In, Vpn
    <3>3. ~Clear(pte[job.sp], job.todo, job.vpn)
      BY <1>4, <3>1, <3>2 DEF Clear
    <3>. QED BY <1>1, <3>3, Building, Sizes DEF IInv, Ahead
  <2>3. PanicsExplained'
    BY <2>1, <2>2 DEF Panic, PanicsExplained, Whole, Holds
  <2>. QED BY <2>1, <2>3, PanicStep DEF Panic
<1>5. CASE Avail # 0 /\ ~(Avail < n) /\ pte[job.sp][job.vpn] = NoFrame
  <2>1. /\ Take(n) /\ pte' = [pte EXCEPT ![job.sp][job.vpn] = One]
        /\ tables' = IF n = 1 THEN tables
                     ELSE [tables EXCEPT ![job.sp] = Append(@, [of |-> TableOf(job.vpn),
                                                                frame |-> Two])]
        /\ job' = [job EXCEPT !.held[job.vpn] = One, !.vpn = job.vpn + 1]
        /\ UNCHANGED <<state, areas, kstack, torn, panic>>
    BY <1>5 DEF MapOne
  <2>2. CASE n = 1
    <3>. DEFINE more == {}
    <3>1. One \in Frame /\ One \notin Used /\ Books(frames') /\ Used' = Used \cup {One} \cup more
      BY <1>5, <2>1, <2>2, BooksKept, TakeOne DEF IInv
    <3>2. tables' = IF more = {} THEN tables
                    ELSE [tables EXCEPT ![job.sp] = Append(@, [of |-> TableOf(job.vpn),
                                                               frame |-> Two])]
      BY <2>1, <2>2
    <3>3. more = {} \/ (more = {Two} /\ Two \in Frame /\ Two # One /\ Two \notin Used)
      OBVIOUS
    <3>. HIDE DEF more
    <3>. QED BY <1>1, <1>5, <2>1, <3>1, <3>2, <3>3, MapsPage
  <2>3. CASE n = 2
    <3>. DEFINE more == {Two}
    <3>1. /\ One \in Frame /\ One \notin Used /\ Books(frames') /\ Used' = Used \cup {One} \cup more
          /\ Two \in Frame /\ Two # One /\ Two \notin Used /\ more # {}
      BY <1>5, <2>1, <2>3, BooksKept, TakeTwo DEF IInv
    <3>2. tables' = IF more = {} THEN tables
                    ELSE [tables EXCEPT ![job.sp] = Append(@, [of |-> TableOf(job.vpn),
                                                               frame |-> Two])]
      BY <2>1, <2>3, <3>1
    <3>3. more = {} \/ (more = {Two} /\ Two \in Frame /\ Two # One /\ Two \notin Used)
      BY <3>1
    <3>. HIDE DEF more
    <3>. QED BY <1>1, <1>5, <2>1, <3>1, <3>2, <3>3, MapsPage
  <2>. QED BY <2>2, <2>3
<1>. QED BY <1>2, <1>3, <1>4, <1>5

\* What is clear ahead of the call stays so when it goes on with the next range.
LEMMA NextRange ==
    ASSUME NEW p, NEW todo \in Seq(VpnRange), todo # <<>>, NEW x, Clear(p, todo, x), NEW y
    PROVE  Clear(p, Tail(todo), y)
<1>1. /\ Tail(todo) \in Seq(VpnRange) /\ DOMAIN Tail(todo) \subseteq Nat
      /\ \A i \in DOMAIN Tail(todo) : i + 1 \in DOMAIN todo /\ Tail(todo)[i] = todo[i + 1]
  OBVIOUS
<1>2. ASSUME NEW i \in DOMAIN Tail(todo), NEW v \in Vpn, In(v, Tail(todo)[i]) PROVE p[v] = NoFrame
  <2>1. i \in Nat /\ i # 0
    BY <1>1
  <2>2. i + 1 \in DOMAIN todo /\ In(v, todo[i + 1]) /\ i + 1 # 1
    BY <1>1, <1>2, <2>1
  <2>. QED BY <2>2 DEF Clear
<1>3. ASSUME NEW i \in DOMAIN Tail(todo), NEW j \in DOMAIN Tail(todo), NEW v \in Vpn,
             In(v, Tail(todo)[i]), In(v, Tail(todo)[j])
      PROVE  i = j
  <2>1. /\ i + 1 \in DOMAIN todo /\ In(v, todo[i + 1]) /\ j + 1 \in DOMAIN todo /\ In(v, todo[j + 1])
        /\ i \in Nat /\ j \in Nat
    BY <1>1, <1>3
  <2>2. i + 1 = j + 1
    BY <2>1 DEF Clear
  <2>. QED BY <2>1, <2>2
<1>. QED BY <1>2, <1>3 DEF Clear

\* push has mapped the whole area
LEMMA PushAreaStep ==
    ASSUME IInv, PushArea
    PROVE  IInv'
<1>. DEFINE s == job.sp
            r == job.todo[1]
            a == [range |-> r, held |-> job.held]
<1>1. Builds /\ job.todo # <<>>
  BY DEF PushArea
<1>2. /\ s \in Space /\ panic = "no" /\ state[s] \in {"building", "live"}
      /\ r \in VpnRange /\ job.op \in {"boot", "fork", "exec", "mmap"} /\ job \in JobSet
  BY <1>1, Building
<1>3. /\ job.held \in Held /\ job.todo \in Seq(VpnRange) /\ areas[s] \in Seq(Area)
      /\ areas \in [Space -> Seq(Area)] /\ job.src \in Space \cup {"none"} /\ 1 \in DOMAIN job.todo
  <2>1. /\ job.held \in Held /\ job.todo \in Seq(VpnRange) /\ areas[s] \in Seq(Area)
        /\ areas \in [Space -> Seq(Area)] /\ job.src \in Space \cup {"none"}
    BY <1>2 DEF IInv, TypeOK, Area, JobSet
  <2>2. 1 \in DOMAIN job.todo
    BY <1>1, <2>1
  <2>. QED BY <2>1, <2>2
<1>4. job.op = "fork" => job.src \in Space /\ state[job.src] = "live" /\ job.src # s
  BY <1>2, <1>3 DEF IInv, JobOK
<1>5. CASE CopyFails(r)
  <2>1. Panic("hole")
    BY <1>5 DEF PushArea
  <2>2. PICK v \in Vpn : In(v, r) /\ pte[job.src][v] = NoFrame
    BY <1>5 DEF CopyFails
  <2>3. PICK i \in DOMAIN areas[job.src] : areas[job.src][i].range = r
    BY <1>3, <1>5 DEF IInv, OfParent, CopyFails
  <2>4. job.op = "fork" /\ ~Whole(job.src)
    BY <1>4, <1>5, <2>2, <2>3, WholeDisjoint DEF CopyFails
  <2>5. PanicsExplained'
    BY <2>1, <2>4 DEF Panic, PanicsExplained, Whole, Holds
  <2>. QED BY <2>1, <2>5, PanicStep DEF Panic
<1>6. CASE ~CopyFails(r)
  <2>1. /\ areas' = [areas EXCEPT ![s] = Append(areas[s], a)]
        /\ job' = Job(job.op, s, job.src, Tail(job.todo))
        /\ UNCHANGED <<frames, state, tables, pte, kstack, torn, panic>>
    BY <1>6 DEF PushArea
  <2>2. a \in Area /\ a.held = job.held
    BY <1>2, <1>3 DEF Area
  <2>3. Tail(job.todo) \in Seq(VpnRange)
    BY <1>1, <1>3
  <2>4. /\ job' \in JobSet /\ job'.op = job.op /\ job'.sp = s /\ job'.src = job.src
        /\ job'.todo = Tail(job.todo) /\ job'.held = NoFrames
        /\ (Tail(job.todo) # <<>> => job'.vpn = Tail(job.todo)[1][1] /\ Tail(job.todo)[1] \in VpnRange)
    <3>1. job.op \in Op /\ s \in Space \cup {"none"}
      BY <1>2 DEF Op
    <3>2. PICK op \in Op, n \in Space \cup {"none"}, src \in Space \cup {"none"}, rest \in Seq(VpnRange) :
            op = job.op /\ n = s /\ src = job.src /\ rest = Tail(job.todo)
      BY <1>3, <2>3, <3>1
    <3>3. job' = Job(op, n, src, rest)
      BY <2>1, <3>2
    <3>4. /\ job' \in JobSet /\ job'.op = op /\ job'.sp = n /\ job'.src = src
          /\ job'.todo = rest /\ job'.held = NoFrames
          /\ (rest # <<>> => job'.vpn = rest[1][1] /\ rest[1] \in VpnRange)
      BY <3>3, JobType
    <3>. QED BY <3>2, <3>4
  <2>. HIDE DEF a, r
  <2>5. /\ areas' \in [Space -> Seq(Area)] /\ areas'[s] = Append(areas[s], a)
        /\ \A t \in Space : t # s => areas'[t] = areas[t]
        /\ \A v, f : HeldBy(areas'[s], v, f) <=> HeldBy(areas[s], v, f) \/ job.held[v] = f
        /\ FramesOfAreas(areas'[s]) = AreaFrames(s) \cup New /\ AreasDiffer(areas'[s])
    <3>1. FramesOfAreas(areas[s]) = AreaFrames(s) /\ AreasDiffer(areas[s]) /\ PagesDiffer(job.held)
          /\ FramesOf(a.held) = New /\ New \cap AreaFrames(s) = {}
      BY <1>2, <2>2, Types, OwnerFacts DEF IInv, OneOwner, New
    <3>2. FramesOf(a.held) \cap FramesOfAreas(areas[s]) = {} /\ PagesDiffer(a.held)
      BY <2>2, <3>1
    <3>. HIDE DEF s
    <3>3. /\ Append(areas[s], a) \in Seq(Area) /\ AreasDiffer(Append(areas[s], a))
          /\ \A v, f : HeldBy(Append(areas[s], a), v, f) <=> HeldBy(areas[s], v, f) \/ a.held[v] = f
          /\ FramesOfAreas(Append(areas[s], a)) = FramesOfAreas(areas[s]) \cup FramesOf(a.held)
      BY <1>3, <2>2, <3>1, <3>2, MoreAreas
    <3>4. /\ areas' \in [Space -> Seq(Area)] /\ areas'[s] = Append(areas[s], a)
          /\ \A t \in Space : t # s => areas'[t] = areas[t]
      BY <1>2, <1>3, <2>1, <3>3
    <3>. QED BY <2>2, <3>1, <3>3, <3>4
  <2>. HIDE DEF s
  <2>6. TypeOK'
    BY <2>1, <2>4, <2>5 DEF IInv, TypeOK, Area, JobSet
  <2>7. OneOwner'
    <3>. DEFINE N2 == {}
                T == TableFrames(s)
                A2 == AreaFrames(s) \cup New
                K == kstack[s]
    <3>1. /\ New \subseteq Used /\ New \cap T = {} /\ New \cap K = {} /\ T \cap AreaFrames(s) = {}
          /\ T \cap K = {} /\ AreaFrames(s) \cap K = {} /\ T \subseteq Used
          /\ AreaFrames(s) \subseteq Used /\ K \subseteq Used
      BY <1>2, OwnerFacts DEF IInv
    <3>2. /\ N2 = FramesOf(job'.held) /\ T = FramesOfTables(tables'[s])
          /\ A2 = FramesOfAreas(areas'[s]) /\ K = kstack'[s] /\ PagesDiffer(job'.held)
          /\ TablesDiffer(tables'[s]) /\ AreasDiffer(areas'[s]) /\ s \in Space /\ OneOwner
      BY <1>2, <2>1, <2>4, <2>5, Nothing, Types DEF IInv, OneOwner
    <3>3. /\ N2 \cap T = {} /\ N2 \cap A2 = {} /\ N2 \cap K = {}
          /\ T \cap A2 = {} /\ T \cap K = {} /\ A2 \cap K = {}
      BY <3>1
    <3>4. Used' = Used /\ Books(frames')
      BY <2>1, BooksKept DEF IInv, Used
    <3>5. /\ \A f \in N2 \cup T \cup A2 \cup K : f \in New \cup Owned(s) \/ f \notin Used
          /\ Used' = (Used \ (New \cup Owned(s))) \cup (N2 \cup T \cup A2 \cup K)
      BY <3>1, <3>4 DEF Owned
    <3>6. \A t \in Space : t # s => /\ tables'[t] = tables[t] /\ areas'[t] = areas[t]
                                    /\ kstack'[t] = kstack[t]
      BY <2>1, <2>5
    <3>. HIDE DEF N2, T, A2, K
    <3>. QED BY <3>2, <3>3, <3>4, <3>5, <3>6, OwnerStep
  <2>8. JobOK'
    <3>1. job'.todo # <<>> => job'.vpn >= job'.todo[1][1]
      BY <2>4, RangeBounds
    <3>2. job.sp = s
      BY DEF s
    <3>. QED BY <1>2, <2>1, <2>4, <3>1, <3>2, Sizes DEF IInv, JobOK
  <2>9. FreeIsEmpty'
    BY <1>2, <2>1, <2>5 DEF IInv, FreeIsEmpty
  <2>10. OwnPagesOnly'
    <3>1. \A v \in Vpn, f \in Frame \cup {Code} : job'.held[v] # f
      BY <2>4, Nothing, Sizes
    <3>2. ASSUME NEW v \in Vpn, NEW f
          PROVE  HeldBy(areas'[s], v, f) <=> Backs(s, v, f)
      BY <2>5 DEF Backs, HeldBy, s
    <3>3. \A v \in Vpn, f \in Frame : HeldBy(areas'[s], v, f) => pte[s][v] = f
      BY <1>2, <3>2 DEF IInv, OwnPagesOnly
    <3>4. ASSUME s \notin torn, NEW v \in Vpn \ {Tramp}, pte[s][v] # NoFrame
          PROVE  HeldBy(areas'[s], v, pte[s][v])
      BY <1>2, <3>2, <3>4 DEF IInv, OwnPagesOnly
    <3>. QED BY <1>2, <2>1, <2>4, <2>5, <3>1, <3>3, <3>4, PagesStep DEF s
  <2>11. Ahead'
    <3>1. Clear(pte[s], job.todo, job.vpn) => Clear(pte[s], job'.todo, job'.vpn)
      BY <1>1, <1>3, <2>4, NextRange
    <3>2. job.op = "fork" => (Whole(job.src)' <=> Whole(job.src))
      BY <1>4, <2>4, <2>5 DEF Whole, Holds
    <3>. QED BY <1>2, <2>1, <2>4, <3>1, <3>2 DEF IInv, Ahead, s
  <2>12. OfParent'
    <3>1. ASSUME NEW j \in DOMAIN Tail(job.todo)
          PROVE  j + 1 \in DOMAIN job.todo /\ Tail(job.todo)[j] = job.todo[j + 1]
      BY <1>1, <1>3
    <3>2. ASSUME job.op = "fork", NEW j \in DOMAIN Tail(job.todo)
          PROVE  \E i \in DOMAIN areas[job.src] : areas[job.src][i].range = Tail(job.todo)[j]
      BY <3>1, <3>2 DEF IInv, OfParent
    <3>3. job.op = "fork" => areas'[job.src] = areas[job.src]
      BY <1>4, <2>5
    <3>. QED BY <2>4, <3>2, <3>3 DEF OfParent
  <2>13. PanicsExplained'
    BY <1>2, <2>1 DEF PanicsExplained
  <2>. QED BY <2>6, <2>7, <2>8, <2>9, <2>10, <2>11, <2>12, <2>13 DEF IInv
<1>. QED BY <1>5, <1>6

\* A page of the kernel stack, and the end of the call with the last page or without a stack
LEMMA StackStep ==
    ASSUME IInv, Builds, job.op \in {"boot", "fork"}, job.todo = <<>>, Books(frames'),
           NEW K2, K2 \subseteq Frame, kstack' = [kstack EXCEPT ![job.sp] = K2],
           \A f \in K2 : f \in kstack[job.sp] \/ f \notin Used,
           Used' = (Used \ kstack[job.sp]) \cup K2, panic' = "no",
           UNCHANGED <<tables, pte, areas, torn>>,
           \/ UNCHANGED <<job, state>>
           \/ job' = Idle /\ \E x \in {"live", "stackless"} : state' = [state EXCEPT ![job.sp] = x]
    PROVE  IInv'
<1>. DEFINE s == job.sp
<1>1. s \in Space /\ state[s] = "building" /\ job \in JobSet /\ \A t \in Space : t # s => state[t] # "building"
  BY Building, Sizes DEF IInv, JobOK
<1>2. job.held = NoFrames /\ job'.held = NoFrames /\ job' \in JobSet
  BY <1>1, IdleType DEF IInv, JobOK
<1>3. /\ kstack' \in [Space -> SUBSET Frame] /\ kstack'[s] = K2
      /\ \A t \in Space : t # s => kstack'[t] = kstack[t]
  BY <1>1 DEF IInv, TypeOK
<1>4. /\ state' \in [Space -> {"free", "building", "live", "stackless", "zombie"}]
      /\ state'[s] \in {"building", "live", "stackless"}
      /\ \A t \in Space : t # s => state'[t] = state[t]
      /\ job' = Idle => state'[s] # "building"
      /\ job' # Idle => job' = job /\ state' = state
  <2>1. job # Idle
    BY IdleType
  <2>2. state \in [Space -> {"free", "building", "live", "stackless", "zombie"}]
    BY DEF IInv, TypeOK
  <2>. QED BY <1>1, <2>1, <2>2
<1>. HIDE DEF s
<1>5. TypeOK'
  BY <1>2, <1>3, <1>4 DEF IInv, TypeOK, JobSet, Books, Allocator
<1>6. OneOwner'
  <2>. DEFINE N2 == {}
              T == TableFrames(s)
              A == AreaFrames(s)
              K == kstack[s]
  <2>1. /\ T \cap A = {} /\ T \cap K = {} /\ A \cap K = {}
        /\ T \subseteq Used /\ A \subseteq Used /\ K \subseteq Used
    BY <1>1, OwnerFacts DEF IInv
  <2>2. /\ N2 = FramesOf(job'.held) /\ T = FramesOfTables(tables'[s])
        /\ A = FramesOfAreas(areas'[s]) /\ K2 = kstack'[s] /\ PagesDiffer(job'.held)
        /\ TablesDiffer(tables'[s]) /\ AreasDiffer(areas'[s]) /\ s \in Space /\ OneOwner /\ New = {}
    BY <1>1, <1>2, <1>3, Nothing, Types DEF IInv, OneOwner, New
  <2>3. (\A f \in K2 : f \in K \/ f \notin Used) /\ Used' = (Used \ K) \cup K2
    BY DEF s
  <2>. HIDE DEF T, A, K
  <2>4. /\ N2 \cap T = {} /\ N2 \cap A = {} /\ N2 \cap K2 = {}
        /\ T \cap A = {} /\ T \cap K2 = {} /\ A \cap K2 = {}
    BY <2>1, <2>3
  <2>5. Owned(s) = T \cup A \cup K
    BY DEF Owned, T, A, K
  <2>6. /\ \A f \in N2 \cup T \cup A \cup K2 : f \in New \cup Owned(s) \/ f \notin Used
        /\ Used' = (Used \ (New \cup Owned(s))) \cup (N2 \cup T \cup A \cup K2)
    BY <2>1, <2>2, <2>3, <2>5
  <2>7. \A t \in Space : t # s => /\ tables'[t] = tables[t] /\ areas'[t] = areas[t]
                                  /\ kstack'[t] = kstack[t]
    BY <1>3
  <2>. HIDE DEF N2
  <2>. QED BY <2>2, <2>4, <2>6, <2>7, OwnerStep
<1>7. JobOK' /\ Ahead' /\ OfParent'
  <2>1. CASE job' = Idle
    BY <1>1, <1>4, <2>1, IdleType DEF JobOK, Ahead, OfParent
  <2>2. CASE job' # Idle
    <3>1. JobOK'
      BY <1>4, <2>2 DEF IInv, JobOK
    <3>2. Ahead' /\ OfParent'
      BY <1>4, <2>2 DEF IInv, Ahead, OfParent, Whole, Holds
    <3>. QED BY <3>1, <3>2
  <2>. QED BY <2>1, <2>2
<1>8. FreeIsEmpty'
  BY <1>1, <1>3, <1>4 DEF IInv, FreeIsEmpty
<1>9. OwnPagesOnly'
  <2>1. \A v \in Vpn, f \in Frame \cup {Code} : job'.held[v] # f /\ job.held[v] # f
    BY <1>2, Nothing, Sizes
  <2>2. \A v \in Vpn, f \in Frame : HeldBy(areas[s], v, f) => pte[s][v] = f
    BY <1>1 DEF IInv, OwnPagesOnly, Backs, HeldBy
  <2>3. ASSUME s \notin torn, NEW v \in Vpn \ {Tramp}, pte[s][v] # NoFrame
        PROVE  HeldBy(areas[s], v, pte[s][v])
    <3>1. Backs(s, v, pte[s][v]) /\ pte[s][v] \in Frame \cup {Code}
      BY <1>1, <2>3, Types DEF IInv, OwnPagesOnly
    <3>. QED BY <2>1, <3>1 DEF Backs, HeldBy
  <2>. QED BY <1>1, <1>2, <1>4, <2>1, <2>2, <2>3, PagesStep
<1>10. PanicsExplained'
  BY DEF PanicsExplained
<1>. QED BY <1>5, <1>6, <1>7, <1>8, <1>9, <1>10 DEF IInv

\* KernelStack::new, a page at a time
LEMMA StackOneStep ==
    ASSUME IInv, StackOne
    PROVE  IInv'
<1>. DEFINE s == job.sp
<1>1. /\ Builds /\ job.op \in {"boot", "fork"} /\ job.todo = <<>> /\ UNCHANGED <<tables, pte, areas, torn>>
      /\ \/ UNCHANGED <<job, state>>
         \/ job' = Idle /\ \E x \in {"live", "stackless"} : state' = [state EXCEPT ![s] = x]
  BY DEF StackOne
<1>2. s \in Space /\ panic = "no" /\ kstack[s] \subseteq Frame /\ kstack[s] \subseteq Used
  BY <1>1, Building, Types, OwnerFacts DEF IInv
<1>3. CASE Avail = 0
  <2>1. /\ Give(kstack[s]) /\ panic' = (IF Allocated(kstack[s]) THEN panic ELSE "dealloc")
        /\ kstack' = [kstack EXCEPT ![s] = {}]
    BY <1>3 DEF StackOne
  <2>2. Allocated(kstack[s]) /\ Books(frames') /\ Used' = Used \ kstack[s]
    BY <1>2, <2>1, BooksKept, GiveBack DEF IInv
  <2>. DEFINE K2 == {}
  <2>3. /\ K2 \subseteq Frame /\ Used' = (Used \ kstack[s]) \cup K2 /\ panic' = "no"
        /\ kstack' = [kstack EXCEPT ![s] = K2] /\ \A f \in K2 : f \in kstack[s] \/ f \notin Used
    BY <1>2, <2>1, <2>2
  <2>. HIDE DEF K2
  <2>. QED BY <1>1, <2>2, <2>3, StackStep
<1>4. CASE Avail # 0
  <2>. DEFINE K2 == kstack[s] \cup {One}
  <2>1. Take(1) /\ kstack' = [kstack EXCEPT ![s] = K2] /\ panic' = "no"
    BY <1>2, <1>4 DEF StackOne
  <2>2. One \in Frame /\ One \notin Used /\ Books(frames') /\ Used' = Used \cup {One}
    BY <1>4, <2>1, BooksKept, TakeOne DEF IInv
  <2>3. /\ K2 \subseteq Frame /\ Used' = (Used \ kstack[s]) \cup K2
        /\ \A f \in K2 : f \in kstack[s] \/ f \notin Used
    BY <1>2, <2>2
  <2>. HIDE DEF K2
  <2>. QED BY <1>1, <2>1, <2>2, <2>3, StackStep
<1>. QED BY <1>3, <1>4

\* munmap takes a page from its area, back to the allocator and out of the page table
LEMMA UnmapOneStep ==
    ASSUME IInv, UnmapOne
    PROVE  IInv'
<1>. DEFINE s == job.sp
            v == job.vpn
<1>1. panic = "no" /\ job.op = "munmap" /\ v < job.todo[1][2] /\ job' = [job EXCEPT !.vpn = v + 1]
      /\ UNCHANGED <<state, tables, kstack, torn>>
  BY DEF UnmapOne
<1>2. /\ s \in Space /\ state[s] = "live" /\ job.todo # <<>> /\ job.held = NoFrames /\ job \in JobSet
      /\ \A t \in Space : state[t] # "building"
  BY <1>1, Types DEF IInv, JobOK, TypeOK, JobSet
<1>3. v \in Vpn /\ v \in Nat /\ v + 1 \in 0 .. Pages /\ job.todo[1][1] <= v /\ job.todo[1] \in VpnRange
  <2>1. job.todo[1] \in VpnRange /\ v \in 0 .. Pages /\ job.todo[1][1] <= v
    BY <1>2, Types, RangeBounds DEF IInv, JobOK
  <2>2. PICK w \in 0 .. Pages, z \in 0 .. Pages : w = v /\ z = job.todo[1][2]
    BY <2>1, RangeBounds
  <2>3. w < z
    BY <1>1, <2>2
  <2>4. w \in 0 .. Pages - 1 /\ w \in Nat /\ w + 1 \in 0 .. Pages
    BY <2>3, Sizes
  <2>. QED BY <2>1, <2>2, <2>4 DEF Vpn
<1>4. /\ areas \in [Space -> Seq(Area)] /\ pte \in [Space -> [Vpn -> Frame \cup {NoFrame, Code}]]
      /\ areas[s] \in Seq(Area)
  BY <1>2 DEF IInv, TypeOK, Area
<1>5. /\ job' \in JobSet /\ job'.op = "munmap" /\ job'.sp = s /\ job'.src = job.src
      /\ job'.todo = job.todo /\ job'.held = NoFrames /\ job'.vpn = v + 1
  BY <1>1, <1>2, <1>3 DEF JobSet
<1>6. PICK i \in DOMAIN areas[s] :
        /\ Holds(s, i, v) /\ Give({areas[s][i].held[v]})
        /\ panic' = (IF ~Allocated({areas[s][i].held[v]}) THEN "dealloc"
                     ELSE IF pte[s][v] = NoFrame THEN "unmapped" ELSE panic)
        /\ pte' = [pte EXCEPT ![s][v] = NoFrame]
        /\ areas' = [areas EXCEPT ![s] = Unmapping(areas[s], i, v)]
  BY DEF UnmapOne, Unmapping, Cleared
<1>. DEFINE f == areas[s][i].held[v]
<1>7. f \in Frame
  <2>1. areas[s][i] \in Area
    BY <1>4
  <2>. QED BY <1>3, <1>6, <2>1 DEF Area, Held, Holds
<1>8. pte[s][v] = f /\ pte[s][Tramp] = Code
  BY <1>2, <1>3, <1>7 DEF IInv, OwnPagesOnly, Backs, FreeIsEmpty
<1>9. v # Tramp
  BY <1>7, <1>8, Sizes
<1>10. AreasDiffer(areas[s]) /\ HeldBy(areas[s], v, f)
  BY <1>2 DEF IInv, OneOwner, HeldBy
<1>11. f \in AreaFrames(s) /\ AreaFrames(s) = FramesOfAreas(areas[s])
  <2>1. AreaFrames(s) = FramesOfAreas(areas[s]) /\ f # NoFrame /\ \E w \in Vpn : HeldBy(areas[s], w, f)
    BY <1>2, <1>3, <1>7, <1>10, Types, Sizes DEF IInv
  <2>. HIDE DEF f, v, s
  <2>. QED BY <2>1, AreaFrame
<1>12. Lessened(areas[s], Unmapping(areas[s], i, v), f)
  BY <1>3, <1>4, <1>7, <1>10, AreaLess
<1>13. /\ areas'[s] = Unmapping(areas[s], i, v)
       /\ \A t \in Space : t # s => areas'[t] = areas[t]
  BY <1>2, <1>4, <1>6
<1>14. Lessened(areas[s], areas'[s], f)
  BY <1>12, <1>13
<1>15. areas' \in [Space -> Seq(Area)]
  <2>1. Unmapping(areas[s], i, v) \in Seq(Area)
    BY <1>12 DEF Lessened
  <2>. QED BY <1>4, <1>6, <2>1
<1>16. /\ pte' \in [Space -> [Vpn -> Frame \cup {NoFrame, Code}]]
       /\ pte'[s][v] = NoFrame /\ \A w \in Vpn : w # v => pte'[s][w] = pte[s][w]
       /\ \A t \in Space : t # s => pte'[t] = pte[t]
  BY <1>2, <1>3, <1>4, <1>6
<1>. HIDE DEF f
<1>17. /\ \A w \in Vpn : \A g : g # NoFrame => (HeldBy(areas'[s], w, g) <=> HeldBy(areas[s], w, g) /\ g # f)
       /\ AreasDiffer(areas'[s])
  BY <1>14 DEF Lessened
<1>18. FramesOfAreas(areas'[s]) = AreaFrames(s) \ {f}
  <2>1. ASSUME NEW g PROVE g \in FramesOfAreas(areas'[s]) <=> g \in FramesOfAreas(areas[s]) /\ g # f
    BY <1>17, AreaFrame
  <2>. QED BY <1>11, <2>1
<1>19. {f} \subseteq Used
  BY <1>2, <1>11, OwnerFacts DEF IInv
<1>20. Allocated({f}) /\ Books(frames') /\ Used' = Used \ {f} /\ panic' = "no"
  <2>1. Give({f})
    BY <1>6 DEF f
  <2>2. Allocated({f}) /\ Books(frames') /\ Used' = Used \ {f}
    BY <1>19, <2>1, BooksKept, GiveBack DEF IInv
  <2>3. panic' = "no"
    BY <1>1, <1>6, <1>7, <1>8, <2>2, Sizes DEF f
  <2>. QED BY <2>2, <2>3
<1>21. job.sp = s
  OBVIOUS
<1>. HIDE DEF s, v
<1>22. TypeOK'
  BY <1>1, <1>5, <1>15, <1>16, <1>20 DEF IInv, TypeOK, Area, JobSet, Books, Allocator
<1>23. OneOwner'
  <2>. DEFINE N2 == {}
              T == TableFrames(s)
              A2 == AreaFrames(s) \ {f}
              K == kstack[s]
  <2>1. /\ T \cap AreaFrames(s) = {} /\ T \cap K = {} /\ AreaFrames(s) \cap K = {}
        /\ T \subseteq Used /\ AreaFrames(s) \subseteq Used /\ K \subseteq Used
    BY <1>2, OwnerFacts DEF IInv
  <2>2. /\ N2 = FramesOf(job'.held) /\ T = FramesOfTables(tables'[s])
        /\ A2 = FramesOfAreas(areas'[s]) /\ K = kstack'[s] /\ PagesDiffer(job'.held)
        /\ TablesDiffer(tables'[s]) /\ AreasDiffer(areas'[s]) /\ s \in Space /\ OneOwner /\ New = {}
    BY <1>1, <1>2, <1>5, <1>17, <1>18, Nothing, Types DEF IInv, OneOwner, New
  <2>3. /\ N2 \cap T = {} /\ N2 \cap A2 = {} /\ N2 \cap K = {}
        /\ T \cap A2 = {} /\ T \cap K = {} /\ A2 \cap K = {}
    BY <2>1
  <2>4. /\ \A g \in N2 \cup T \cup A2 \cup K : g \in New \cup Owned(s) \/ g \notin Used
        /\ Used' = (Used \ (New \cup Owned(s))) \cup (N2 \cup T \cup A2 \cup K)
    BY <1>11, <1>20, <2>1, <2>2 DEF Owned
  <2>5. \A t \in Space : t # s => /\ tables'[t] = tables[t] /\ areas'[t] = areas[t]
                                  /\ kstack'[t] = kstack[t]
    BY <1>1, <1>13
  <2>. HIDE DEF N2, T, A2, K
  <2>. QED BY <1>20, <2>2, <2>3, <2>4, <2>5, OwnerStep
<1>24. JobOK' /\ Ahead' /\ OfParent'
  <2>1. job'.vpn >= job'.todo[1][1]
    BY <1>3, <1>5, RangeBounds
  <2>2. JobOK'
    BY <1>1, <1>2, <1>5, <1>21, <2>1, Sizes DEF IInv, JobOK
  <2>. QED BY <1>5, <2>2 DEF Ahead, OfParent
<1>25. FreeIsEmpty'
  BY <1>1, <1>2, <1>8, <1>9, <1>13, <1>16, Sizes DEF IInv, FreeIsEmpty
<1>26. OwnPagesOnly'
  <2>1. \A w \in Vpn, g \in Frame \cup {Code} : job'.held[w] # g /\ job.held[w] # g
    BY <1>2, <1>5, Nothing, Sizes
  <2>2. ASSUME NEW w \in Vpn, NEW g \in Frame, HeldBy(areas'[s], w, g) PROVE pte'[s][w] = g
    <3>1. HeldBy(areas[s], w, g) /\ g # f
      BY <1>17, <2>2, Sizes
    <3>2. pte[s][w] = g
      BY <1>2, <3>1 DEF IInv, OwnPagesOnly, Backs, HeldBy
    <3>. QED BY <1>8, <1>16, <3>1, <3>2
  <2>3. ASSUME s \notin torn, NEW w \in Vpn \ {Tramp}, pte'[s][w] # NoFrame
        PROVE  HeldBy(areas'[s], w, pte'[s][w])
    <3>1. w # v /\ pte'[s][w] = pte[s][w]
      BY <1>16, <2>3
    <3>2. Backs(s, w, pte[s][w]) /\ pte[s][w] \in Frame \cup {Code}
      BY <1>2, <2>3, <3>1, Types DEF IInv, OwnPagesOnly
    <3>3. HeldBy(areas[s], w, pte[s][w])
      BY <2>1, <3>2 DEF Backs, HeldBy
    <3>4. pte[s][w] # f
      BY <1>3, <1>7, <1>10, <3>1, <3>3, Sizes DEF HeldBy, AreasDiffer
    <3>. QED BY <1>17, <2>3, <3>1, <3>3, <3>4
  <2>. QED BY <1>1, <1>2, <1>5, <1>13, <1>16, <2>1, <2>2, <2>3, PagesStep
<1>27. PanicsExplained'
  BY <1>20 DEF PanicsExplained
<1>. QED BY <1>22, <1>23, <1>24, <1>25, <1>26, <1>27 DEF IInv

\* A step between calls that empties part of a space which then is neither building nor live.
LEMMA LeavesStep ==
    ASSUME IInv, panic = "no", job = Idle, job' = Idle, NEW s \in Space, NEW st \in {"free", "zombie"},
           state' = [state EXCEPT ![s] = st], areas' = [areas EXCEPT ![s] = <<>>],
           NEW T2, T2 = FramesOfTables(tables'[s]), NEW K2, K2 = kstack'[s],
           \/ st = "zombie" /\ UNCHANGED <<tables, pte, kstack, torn>> /\ state[s] # "free"
           \/ /\ st = "free" /\ tables' = [tables EXCEPT ![s] = <<>>] /\ torn' = torn \ {s}
              /\ pte' = [pte EXCEPT ![s] = NoFrames] /\ kstack' = [kstack EXCEPT ![s] = {}],
           Books(frames'), Used' = (Used \ Owned(s)) \cup T2 \cup K2, panic' = "no"
    PROVE  IInv'
<1>1. job.held = NoFrames /\ job.sp = "none" /\ \A t \in Space : state[t] # "building"
  BY BetweenCalls
<1>2. /\ state \in [Space -> {"free", "building", "live", "stackless", "zombie"}]
      /\ tables \in [Space -> Seq(Table)] /\ pte \in [Space -> [Vpn -> Frame \cup {NoFrame, Code}]]
      /\ areas \in [Space -> Seq(Area)] /\ kstack \in [Space -> SUBSET Frame] /\ torn \subseteq Space
  BY DEF IInv, TypeOK, Table, Area
<1>3. /\ state' \in [Space -> {"free", "building", "live", "stackless", "zombie"}] /\ state'[s] = st
      /\ areas' \in [Space -> Seq(Area)] /\ areas'[s] = <<>>
      /\ \A t \in Space : t # s => state'[t] = state[t] /\ areas'[t] = areas[t]
  BY <1>2
<1>4. NoFrames \in [Vpn -> Frame \cup {NoFrame, Code}]
  BY DEF NoFrames
<1>5. /\ tables' \in [Space -> Seq(Table)] /\ pte' \in [Space -> [Vpn -> Frame \cup {NoFrame, Code}]]
      /\ kstack' \in [Space -> SUBSET Frame] /\ torn' \subseteq Space
      /\ \A t \in Space : t # s => tables'[t] = tables[t] /\ pte'[t] = pte[t] /\ kstack'[t] = kstack[t]
      /\ st = "free" => tables'[s] = <<>> /\ pte'[s] = NoFrames /\ kstack'[s] = {}
      /\ st = "zombie" => pte'[s] = pte[s] /\ tables'[s] = tables[s] /\ kstack'[s] = kstack[s]
  <2>1. CASE st = "zombie"
    BY <1>2, <2>1
  <2>2. CASE st = "free"
    <3>1. <<>> \in Seq(Table) /\ {} \in SUBSET Frame
      OBVIOUS
    <3>2. tables' \in [Space -> Seq(Table)] /\ tables'[s] = <<>> /\ \A t \in Space : t # s => tables'[t] = tables[t]
      BY <1>2, <2>2, <3>1
    <3>3. /\ pte' \in [Space -> [Vpn -> Frame \cup {NoFrame, Code}]] /\ pte'[s] = NoFrames
          /\ \A t \in Space : t # s => pte'[t] = pte[t]
      <4>1. pte' = [pte EXCEPT ![s] = NoFrames]
        BY <2>2
      <4>. HIDE DEF NoFrames
      <4>. QED BY <1>2, <1>4, <4>1
    <3>4. kstack' \in [Space -> SUBSET Frame] /\ kstack'[s] = {} /\ \A t \in Space : t # s => kstack'[t] = kstack[t]
      BY <1>2, <2>2, <3>1
    <3>5. torn' \subseteq Space
      BY <1>2, <2>2
    <3>. QED BY <2>2, <3>2, <3>3, <3>4, <3>5
  <2>. QED BY <2>1, <2>2
<1>6. TypeOK'
  BY <1>3, <1>5, IdleType DEF TypeOK, Table, Area, JobSet, Books, Allocator
<1>7. OneOwner'
  <2>. DEFINE N2 == {}
              T == TableFrames(s)
              A == AreaFrames(s)
              K == kstack[s]
  <2>1. /\ T \cap A = {} /\ T \cap K = {} /\ A \cap K = {}
        /\ T \subseteq Used /\ A \subseteq Used /\ K \subseteq Used
    BY OwnerFacts DEF IInv
  <2>2. /\ N2 = FramesOf(job'.held) /\ N2 = FramesOfAreas(areas'[s]) /\ PagesDiffer(job'.held)
        /\ AreasDiffer(areas'[s]) /\ OneOwner /\ New = {}
    BY <1>1, <1>3, IdleType, Nothing DEF IInv, New
  <2>3. TablesDiffer(tables'[s]) /\ ((T2 = {} /\ K2 = {}) \/ (T2 = T /\ K2 = K))
    <3>1. CASE st = "free"
      BY <1>5, <3>1, Nothing
    <3>2. CASE st = "zombie"
      <4>1. TablesDiffer(tables[s]) /\ T = FramesOfTables(tables[s])
        BY Types DEF IInv, OneOwner
      <4>. QED BY <1>5, <3>2, <4>1
    <3>. QED BY <3>1, <3>2
  <2>4. Owned(s) = T \cup A \cup K
    BY DEF Owned
  <2>5. \A t \in Space : t # s => /\ tables'[t] = tables[t] /\ areas'[t] = areas[t]
                                  /\ kstack'[t] = kstack[t]
    BY <1>3, <1>5
  <2>. HIDE DEF T, A, K
  <2>6. /\ N2 \cap T2 = {} /\ N2 \cap N2 = {} /\ N2 \cap K2 = {} /\ T2 \cap N2 = {} /\ T2 \cap K2 = {}
    BY <2>1, <2>3
  <2>7. /\ \A f \in N2 \cup T2 \cup N2 \cup K2 : f \in New \cup Owned(s) \/ f \notin Used
        /\ Used' = (Used \ (New \cup Owned(s))) \cup (N2 \cup T2 \cup N2 \cup K2)
    BY <2>2, <2>3, <2>4
  <2>. HIDE DEF N2
  <2>. QED BY <2>2, <2>3, <2>5, <2>6, <2>7, OwnerStep
<1>8. JobOK' /\ Ahead' /\ OfParent'
  BY <1>1, <1>3, IdleType, Sizes DEF JobOK, Ahead, OfParent
<1>9. FreeIsEmpty'
  BY <1>3, <1>5 DEF IInv, FreeIsEmpty
<1>10. OwnPagesOnly'
  <2>1. \A v, f : ~HeldBy(areas'[s], v, f)
    BY <1>3 DEF HeldBy
  <2>2. job'.sp # s /\ job'.held = NoFrames
    BY IdleType, Sizes
  <2>3. \A t \in torn : t # s => t \in torn'
    OBVIOUS
  <2>. QED BY <1>1, <1>3, <1>5, <2>1, <2>2, <2>3, PagesStep
<1>11. PanicsExplained'
  BY DEF PanicsExplained
<1>. QED BY <1>6, <1>7, <1>8, <1>9, <1>10, <1>11 DEF IInv

\* exit gives the areas back
LEMMA ExitStep ==
    ASSUME IInv, NEW s \in Space, Exit(s)
    PROVE  IInv'
<1>. DEFINE fs == AreaFrames(s)
<1>1. /\ panic = "no" /\ job = Idle /\ job' = job /\ state[s] = "live" /\ Give(fs)
      /\ panic' = (IF Allocated(fs) THEN panic ELSE "dealloc")
      /\ areas' = [areas EXCEPT ![s] = <<>>] /\ state' = [state EXCEPT ![s] = "zombie"]
      /\ UNCHANGED <<tables, pte, kstack, torn>>
  BY DEF Exit, Calls
<1>2. /\ fs \subseteq Used /\ TableFrames(s) \subseteq Used /\ kstack[s] \subseteq Used
      /\ TableFrames(s) \cap fs = {} /\ fs \cap kstack[s] = {}
  BY OwnerFacts DEF IInv
<1>. HIDE DEF fs
<1>3. Allocated(fs) /\ Books(frames') /\ Used' = Used \ fs
  BY <1>1, <1>2, BooksKept, GiveBack DEF IInv
<1>4. TableFrames(s) = FramesOfTables(tables'[s]) /\ kstack[s] = kstack'[s]
  BY <1>1, Types DEF IInv
<1>5. Used' = (Used \ Owned(s)) \cup TableFrames(s) \cup kstack[s] /\ panic' = "no"
  BY <1>1, <1>2, <1>3 DEF Owned, fs
<1>. QED BY <1>1, <1>3, <1>4, <1>5, LeavesStep

\* waitpid drops the process
LEMMA ReapStep ==
    ASSUME IInv, NEW s \in Space, Reap(s)
    PROVE  IInv'
<1>. DEFINE fs == kstack[s] \cup TableFrames(s) \cup AreaFrames(s)
<1>1. /\ panic = "no" /\ job = Idle /\ job' = job /\ Give(fs)
      /\ panic' = (IF Allocated(fs) THEN panic ELSE "dealloc")
      /\ areas' = [areas EXCEPT ![s] = <<>>] /\ state' = [state EXCEPT ![s] = "free"]
      /\ tables' = [tables EXCEPT ![s] = <<>>] /\ torn' = torn \ {s}
      /\ pte' = [pte EXCEPT ![s] = NoFrames] /\ kstack' = [kstack EXCEPT ![s] = {}]
  BY DEF Reap, Drop
<1>2. fs \subseteq Used /\ fs = Owned(s)
  BY OwnerFacts DEF IInv, Owned
<1>. HIDE DEF fs
<1>3. Allocated(fs) /\ Books(frames') /\ Used' = Used \ fs
  BY <1>1, <1>2, BooksKept, GiveBack DEF IInv
<1>. DEFINE E == {}
<1>4. E = FramesOfTables(tables'[s]) /\ E = kstack'[s]
  <2>1. tables'[s] = <<>> /\ kstack'[s] = {}
    BY <1>1 DEF IInv, TypeOK
  <2>. QED BY <2>1, Nothing
<1>5. Used' = (Used \ Owned(s)) \cup E \cup E /\ panic' = "no"
  BY <1>1, <1>2, <1>3
<1>. HIDE DEF E
<1>. QED BY <1>1, <1>3, <1>4, <1>5, LeavesStep

\* Without a kernel stack the kernel dies.
LEMMA DispatchStep ==
    ASSUME IInv, NEW s \in Space, Dispatch(s)
    PROVE  IInv'
<1>1. Panic("stack")
  BY DEF Dispatch
<1>. QED BY <1>1, PanicStep DEF Panic, PanicsExplained

\* exec drops the old space, whose kernel stack the new one takes over
LEMMA ExecDoneStep ==
    ASSUME IInv, ExecDone
    PROVE  IInv'
<1>0. PICK s \in Space, old \in Space : s = job.sp /\ old = job.src
  BY Building, Types DEF ExecDone, IInv, JobOK
<1>. DEFINE K == kstack[old]
            fs == TableFrames(old) \cup AreaFrames(old)
<1>1. /\ Builds /\ job.op = "exec" /\ job.todo = <<>> /\ job' = Idle /\ Give(fs)
      /\ panic' = (IF Allocated(fs) THEN panic ELSE "dealloc")
      /\ tables' = [tables EXCEPT ![old] = <<>>] /\ pte' = [pte EXCEPT ![old] = NoFrames]
      /\ areas' = [areas EXCEPT ![old] = <<>>] /\ torn' = torn \ {old}
      /\ kstack' = [kstack EXCEPT ![s] = K, ![old] = {}]
      /\ state' = [state EXCEPT ![s] = "live", ![old] = "free"]
  <2>1. {} \cup TableFrames(old) \cup AreaFrames(old) = fs
    OBVIOUS
  <2>. QED BY <1>0, <2>1 DEF ExecDone, Drop
<1>2. /\ s \in Space /\ panic = "no" /\ state[s] = "building" /\ old \in Space /\ state[old] = "live"
      /\ kstack[s] = {} /\ job.held = NoFrames /\ \A t \in Space : t # s => state[t] # "building"
  BY <1>0, <1>1, Sizes DEF IInv, JobOK, Builds
<1>3. s # old
  BY <1>2
<1>4. /\ state \in [Space -> {"free", "building", "live", "stackless", "zombie"}]
      /\ tables \in [Space -> Seq(Table)] /\ pte \in [Space -> [Vpn -> Frame \cup {NoFrame, Code}]]
      /\ areas \in [Space -> Seq(Area)] /\ kstack \in [Space -> SUBSET Frame] /\ torn \subseteq Space
  BY DEF IInv, TypeOK, Table, Area
<1>. HIDE DEF K, fs
<1>5. /\ tables' \in [Space -> Seq(Table)] /\ tables'[old] = <<>>
      /\ \A t \in Space : t # old => tables'[t] = tables[t]
  <2>1. <<>> \in Seq(Table)
    OBVIOUS
  <2>. QED BY <1>1, <1>2, <1>4, <2>1
<1>6. /\ areas' \in [Space -> Seq(Area)] /\ areas'[old] = <<>>
      /\ \A t \in Space : t # old => areas'[t] = areas[t]
  <2>1. <<>> \in Seq(Area)
    OBVIOUS
  <2>. QED BY <1>1, <1>2, <1>4, <2>1
<1>7. /\ pte' \in [Space -> [Vpn -> Frame \cup {NoFrame, Code}]] /\ pte'[old] = NoFrames
      /\ \A t \in Space : t # old => pte'[t] = pte[t]
  <2>1. NoFrames \in [Vpn -> Frame \cup {NoFrame, Code}]
    BY DEF NoFrames
  <2>. QED BY <1>1, <1>2, <1>4, <2>1
<1>8. /\ kstack' \in [Space -> SUBSET Frame] /\ kstack'[old] = {} /\ kstack'[s] = K
      /\ \A t \in Space : t \notin {s, old} => kstack'[t] = kstack[t]
  <2>1. K \in SUBSET Frame
    BY <1>2, <1>4 DEF K
  <2>. QED BY <1>1, <1>2, <1>3, <1>4, <2>1
<1>9. /\ state' \in [Space -> {"free", "building", "live", "stackless", "zombie"}]
      /\ state'[old] = "free" /\ state'[s] = "live"
      /\ \A t \in Space : t \notin {s, old} => state'[t] = state[t]
  BY <1>1, <1>2, <1>3, <1>4
<1>10. /\ fs \subseteq Used /\ fs \cap K = {} /\ OwnedBy[old] = fs \cup K
       /\ TableFrames(s) \cap AreaFrames(s) = {} /\ OwnedBy[s] = TableFrames(s) \cup AreaFrames(s)
  BY <1>2, OwnerFacts DEF IInv, OwnedBy, Owned, fs, K
<1>11. Allocated(fs) /\ Books(frames') /\ Used' = Used \ fs /\ panic' = "no"
  <2>1. Allocated(fs) /\ Books(frames') /\ Used' = Used \ fs
    BY <1>1, <1>10, BooksKept, GiveBack DEF IInv
  <2>. QED BY <1>1, <1>2, <2>1
<1>12. TypeOK'
  BY <1>1, <1>4, <1>5, <1>6, <1>7, <1>8, <1>9, <1>11, IdleType
     DEF TypeOK, Table, Area, JobSet, Books, Allocator
<1>13. /\ TableFrames(old)' = {} /\ AreaFrames(old)' = {}
       /\ \A t \in Space : t # old => TableFrames(t)' = TableFrames(t) /\ AreaFrames(t)' = AreaFrames(t)
  BY <1>5, <1>6 DEF TableFrames, AreaFrames
<1>14. OneOwner'
  <2>1. /\ \A t \in Space : t \notin {s, old} => OwnedBy'[t] = OwnedBy[t]
        /\ OwnedBy'[s] = OwnedBy[s] \cup K /\ OwnedBy'[old] = {}
    BY <1>2, <1>3, <1>8, <1>10, <1>13 DEF OwnedBy, Owned
  <2>2. Split(Used, FramesOf(job.held), OwnedBy)
    BY DEF IInv, OneOwner
  <2>3. Split(Used \ (OwnedBy[old] \ K), FramesOf(job.held), OwnedBy')
    BY <1>2, <1>3, <1>10, <2>1, <2>2, SplitMove
  <2>4. Used \ (OwnedBy[old] \ K) = Used' /\ FramesOf(job.held) = FramesOf(job'.held) /\ PagesDiffer(job'.held)
    BY <1>1, <1>2, <1>10, <1>11, IdleType, Nothing
  <2>5. OwnedBy[s] \cap OwnedBy[old] = {}
    BY <1>2, <1>3, <2>2 DEF Split
  <2>6. ASSUME NEW t \in Space
        PROVE  /\ TablesDiffer(tables'[t]) /\ AreasDiffer(areas'[t])
               /\ TableFrames(t)' \cap AreaFrames(t)' = {} /\ TableFrames(t)' \cap kstack'[t] = {}
               /\ AreaFrames(t)' \cap kstack'[t] = {}
    <3>1. CASE t = old
      BY <1>5, <1>6, <1>13, <3>1, Nothing
    <3>2. CASE t # old
      <4>1. TablesDiffer(tables'[t]) /\ AreasDiffer(areas'[t]) /\ TableFrames(t) \cap AreaFrames(t) = {}
            /\ TableFrames(t) \cap kstack[t] = {} /\ AreaFrames(t) \cap kstack[t] = {}
        BY <1>5, <1>6, <3>2 DEF IInv, OneOwner
      <4>2. CASE t # s
        BY <1>8, <1>13, <3>2, <4>1, <4>2
      <4>3. CASE t = s
        BY <1>8, <1>10, <1>13, <2>5, <3>2, <4>1, <4>3
      <4>. QED BY <4>2, <4>3
    <3>. QED BY <3>1, <3>2
  <2>. QED BY <1>11, <2>3, <2>4, <2>6 DEF OneOwner, Books
<1>15. JobOK' /\ Ahead' /\ OfParent'
  BY <1>1, <1>2, <1>9, IdleType, Sizes DEF JobOK, Ahead, OfParent
<1>16. FreeIsEmpty'
  <2>1. ASSUME NEW t \in Space, t \notin {s, old}
        PROVE  /\ tables'[t] = tables[t] /\ areas'[t] = areas[t] /\ kstack'[t] = kstack[t]
               /\ pte'[t] = pte[t] /\ state'[t] = state[t]
    BY <1>5, <1>6, <1>7, <1>8, <1>9, <2>1
  <2>2. pte'[s][Tramp] = Code
    BY <1>2, <1>3, <1>7 DEF IInv, FreeIsEmpty
  <2>3. /\ tables'[old] = <<>> /\ areas'[old] = <<>> /\ kstack'[old] = {} /\ pte'[old] = NoFrames
        /\ state'[old] = "free" /\ state'[s] = "live"
    BY <1>5, <1>6, <1>7, <1>8, <1>9
  <2>. QED BY <2>1, <2>2, <2>3 DEF IInv, FreeIsEmpty
<1>17. OwnPagesOnly'
  <2>1. \A v, f : ~HeldBy(areas'[old], v, f)
    BY <1>6 DEF HeldBy
  <2>2. job'.sp # old /\ job'.held = NoFrames
    BY <1>1, <1>2, IdleType, Sizes
  <2>3. \A t \in torn : t # old => t \in torn'
    BY <1>1
  <2>4. \A t \in Space : t # old =>
              /\ pte'[t] = pte[t] /\ areas'[t] = areas[t]
              /\ state'[t] \in {"building", "live"} => state[t] \in {"building", "live"}
    BY <1>2, <1>6, <1>7, <1>9
  <2>. QED BY <1>2, <1>9, <2>1, <2>2, <2>3, <2>4, PagesStep
<1>18. PanicsExplained'
  BY <1>11 DEF PanicsExplained
<1>. QED BY <1>12, <1>14, <1>15, <1>16, <1>17, <1>18 DEF IInv

----------------------------------------------------------------------------
\* The theorems.

\* The kernel starts with all frames free.
LEMMA Start ==
    ASSUME Init
    PROVE  IInv
<1>1. /\ job \in JobSet /\ job.op = "boot" /\ job.sp = "none" /\ job.todo = <<>> /\ job.held = NoFrames
  BY IdleType DEF Init, JobSet, Idle, Op
<1>2. TypeOK
  <2>1. /\ <<>> \in Seq([of : Nat, frame : Frame]) /\ <<>> \in Seq([range : VpnRange, held : Held])
        /\ {} \in SUBSET Frame /\ NoFrames \in [Vpn -> Frame \cup {NoFrame, Code}] /\ 0 \in 0 .. End
    BY Sizes DEF NoFrames
  <2>. QED BY <1>1, <2>1 DEF Init, TypeOK, JobSet
<1>3. OneOwner
  <2>1. \A s \in Space : TableFrames(s) = {} /\ AreaFrames(s) = {} /\ kstack[s] = {}
    BY DEF Init, TableFrames, AreaFrames
  <2>2. Used = {} /\ \A s \in Space : OwnedBy[s] = {}
    BY <2>1 DEF Init, Used, OwnedBy, Owned
  <2>3. Split(Used, FramesOf(job.held), OwnedBy)
    BY <1>1, <2>2, Nothing DEF Split
  <2>4. \A s \in Space : TablesDiffer(tables[s]) /\ AreasDiffer(areas[s])
    BY Nothing DEF Init
  <2>. QED BY <1>1, <2>1, <2>3, <2>4, Nothing DEF Init, OneOwner
<1>4. JobOK /\ FreeIsEmpty /\ Ahead /\ OfParent /\ PanicsExplained
  BY <1>1 DEF Init, JobOK, FreeIsEmpty, Ahead, OfParent, PanicsExplained
<1>5. OwnPagesOnly
  <2>1. \A s \in Space, v \in Vpn, f \in Frame : ~Backs(s, v, f)
    BY <1>1, Sizes DEF Init, Backs
  <2>. QED BY <2>1 DEF Init, OwnPagesOnly
<1>. QED BY <1>2, <1>3, <1>4, <1>5 DEF IInv

\* Every step of every call keeps the invariant.
LEMMA Step ==
    ASSUME IInv, [Next]_vars
    PROVE  IInv'
<1>1. CASE UNCHANGED vars
  <2>1. PanicsExplained'
    BY <1>1 DEF IInv, vars, PanicsExplained, Whole, Holds
  <2>. QED BY <1>1, <2>1, PanicStep DEF vars
<1>2. ASSUME NEW s \in Space, Exit(s) \/ Reap(s) \/ Dispatch(s) PROVE IInv'
  BY <1>2, ExitStep, ReapStep, DispatchStep
<1>3. ASSUME NEW s \in Space, NEW r \in Vpn \X Vpn, Mmap(s, r) \/ Munmap(s, r) PROVE IInv'
  BY <1>3, MmapStep, MunmapStep, WrappedStep
<1>. QED BY <1>1, <1>2, <1>3, SpaceStep, MapOneStep, PushAreaStep, DoneStep, StackOneStep,
           ExecDoneStep, UnmapOneStep DEF Next

\* The inductive invariant of the memory management.
THEOREM Invariance == Spec => []IInv
BY Start, Step, PTL DEF Spec

\* Type correctness for all parameters.
THEOREM TypeCorrect == Spec => []TypeOK
<1>1. IInv => TypeOK
  BY DEF IInv
<1>. QED BY <1>1, Invariance, PTL

\* An area's frame is what the page table has at its address, and a process whose mmaps
\* have not failed halfway maps no frame of another (munmap, mmap, fork, exec in any order).
THEOREM PagesSafety == Spec => []OwnPagesOnly
<1>1. IInv => OwnPagesOnly
  BY DEF IInv
<1>. QED BY <1>1, Invariance, PTL

\* The assertions of dealloc and unmap never fail; those of map and of fork's translate
\* fail only for a parent that has unmapped a part of an area.
THEOREM PanicSafety == Spec => []PanicsExplained
<1>1. IInv => PanicsExplained
  BY DEF IInv
<1>. QED BY <1>1, Invariance, PTL

\* The places one kind at a time.
IsFree(p)          == \E f \in frames.recycled : p = <<f, "free">>
IsTable(p, s, i)   == p = <<tables[s][i].frame, "table", s, i>>
IsArea(p, s, i, v) == Holds(s, i, v) /\ p = <<areas[s][i].held[v], "area", s, i, v>>
IsStack(p, s)      == \E f \in kstack[s] : p = <<f, "stack", s>>
IsNew(p, v)        == job.held[v] # NoFrame /\ p = <<job.held[v], "new", v>>

\* A place is of one of these kinds.
LEMMA PlaceKinds ==
    ASSUME NEW p
    PROVE  p \in Places <=>
             \/ IsFree(p)
             \/ \E s \in Space : \E i \in DOMAIN tables[s] : IsTable(p, s, i)
             \/ \E s \in Space : \E i \in DOMAIN areas[s] : \E v \in Vpn : IsArea(p, s, i, v)
             \/ \E s \in Space : IsStack(p, s)
             \/ \E v \in Vpn : IsNew(p, v)
<1>1. p \in FreePlaces <=> IsFree(p)
  BY DEF FreePlaces, IsFree
<1>2. p \in NewPlaces <=> \E v \in Vpn : IsNew(p, v)
  BY DEF NewPlaces, IsNew
<1>3. ASSUME NEW s PROVE p \in TablePlaces(s) <=> \E i \in DOMAIN tables[s] : IsTable(p, s, i)
  BY DEF TablePlaces, IsTable
<1>4. ASSUME NEW s, NEW i PROVE p \in PagesOfArea(s, i) <=> \E v \in Vpn : IsArea(p, s, i, v)
  BY DEF PagesOfArea, IsArea
<1>5. ASSUME NEW s PROVE p \in AreaPlaces(s) <=> \E i \in DOMAIN areas[s] : p \in PagesOfArea(s, i)
  BY DEF AreaPlaces
<1>6. ASSUME NEW s PROVE p \in StackPlaces(s) <=> IsStack(p, s)
  BY DEF StackPlaces, IsStack
<1>7. p \in Places <=> \/ p \in FreePlaces \/ p \in NewPlaces
                       \/ \E s \in Space : p \in TablePlaces(s) \/ p \in AreaPlaces(s) \/ p \in StackPlaces(s)
  BY DEF Places
<1>. QED BY <1>1, <1>2, <1>3, <1>4, <1>5, <1>6, <1>7

\* The owner that the kind of a place stands for has its frame.
LEMMA PlaceOwner ==
    ASSUME NEW p
    PROVE  /\ IsFree(p) => p[1] \in frames.recycled /\ p = <<p[1], "free">>
           /\ \A s \in Space : \A i \in DOMAIN tables[s] :
                 IsTable(p, s, i) => p[1] \in TableFrames(s) /\ p[1] = tables[s][i].frame
           /\ \A s \in Space : \A i \in DOMAIN areas[s] : \A v \in Vpn :
                 IsArea(p, s, i, v) => /\ p[1] \in AreaFrames(s) /\ p[1] = areas[s][i].held[v]
                                       /\ p[1] # NoFrame
           /\ \A s \in Space : IsStack(p, s) => p[1] \in kstack[s] /\ p = <<p[1], "stack", s>>
           /\ \A v \in Vpn : IsNew(p, v) => p[1] \in New /\ p[1] = job.held[v] /\ p[1] # NoFrame
<1>1. IsFree(p) => p[1] \in frames.recycled /\ p = <<p[1], "free">>
  BY DEF IsFree
<1>2. ASSUME NEW s \in Space, NEW i \in DOMAIN tables[s], IsTable(p, s, i)
      PROVE  p[1] \in TableFrames(s) /\ p[1] = tables[s][i].frame
  BY <1>2 DEF IsTable, TableFrames
<1>3. ASSUME NEW s \in Space, NEW i \in DOMAIN areas[s], NEW v \in Vpn, IsArea(p, s, i, v)
      PROVE  p[1] \in AreaFrames(s) /\ p[1] = areas[s][i].held[v] /\ p[1] # NoFrame
  <2>1. p[1] = areas[s][i].held[v] /\ p[1] # NoFrame
    BY <1>3 DEF IsArea, Holds
  <2>2. p[1] \in FramesOf(areas[s][i].held)
    BY <2>1 DEF FramesOf
  <2>. QED BY <2>1, <2>2 DEF AreaFrames
<1>4. ASSUME NEW s \in Space, IsStack(p, s) PROVE p[1] \in kstack[s] /\ p = <<p[1], "stack", s>>
  BY <1>4 DEF IsStack
<1>5. ASSUME NEW v \in Vpn, IsNew(p, v) PROVE p[1] \in New /\ p[1] = job.held[v] /\ p[1] # NoFrame
  BY <1>5 DEF IsNew, New, FramesOf
<1>. QED BY <1>1, <1>2, <1>3, <1>4, <1>5

\* Two spaces own different frames.
LEMMA Apart ==
    ASSUME OneOwner, NEW s \in Space, NEW t \in Space, s # t
    PROVE  /\ TableFrames(s) \cap TableFrames(t) = {} /\ TableFrames(s) \cap AreaFrames(t) = {}
           /\ TableFrames(s) \cap kstack[t] = {} /\ AreaFrames(s) \cap AreaFrames(t) = {}
           /\ AreaFrames(s) \cap kstack[t] = {} /\ kstack[s] \cap kstack[t] = {}
<1>1. OwnedBy[s] \cap OwnedBy[t] = {}
  BY DEF OneOwner, Split
<1>. QED BY <1>1 DEF OwnedBy, Owned

\* What one owner has, no other has.
LEMMA Sole ==
    ASSUME OneOwner, NEW f
    PROVE  /\ f \in frames.recycled =>
                f \notin New /\ \A s \in Space : f \notin TableFrames(s) /\ f \notin AreaFrames(s) /\ f \notin kstack[s]
           /\ f \in New => \A s \in Space : f \notin TableFrames(s) /\ f \notin AreaFrames(s) /\ f \notin kstack[s]
           /\ \A s, t \in Space :
                /\ f \in TableFrames(s) => f \notin AreaFrames(t) /\ f \notin kstack[t]
                /\ f \in AreaFrames(s) => f \notin kstack[t]
                /\ f \in TableFrames(s) /\ f \in TableFrames(t) => s = t
                /\ f \in AreaFrames(s) /\ f \in AreaFrames(t) => s = t
                /\ f \in kstack[s] /\ f \in kstack[t] => s = t
<1>1. f \in frames.recycled => f \notin Used
  BY DEF Used
<1>2. New \subseteq Used
  BY DEF OneOwner, Split, New
<1>3. ASSUME NEW s \in Space
      PROVE  /\ f \in TableFrames(s) \cup AreaFrames(s) \cup kstack[s] => f \in Used /\ f \notin New
             /\ f \in TableFrames(s) => f \notin AreaFrames(s) /\ f \notin kstack[s]
             /\ f \in AreaFrames(s) => f \notin kstack[s]
  BY OwnerFacts
<1>4. ASSUME NEW s \in Space, NEW t \in Space
      PROVE  /\ f \in TableFrames(s) => f \notin AreaFrames(t) /\ f \notin kstack[t]
             /\ f \in AreaFrames(s) => f \notin kstack[t]
             /\ f \in TableFrames(s) /\ f \in TableFrames(t) => s = t
             /\ f \in AreaFrames(s) /\ f \in AreaFrames(t) => s = t
             /\ f \in kstack[s] /\ f \in kstack[t] => s = t
  <2>1. CASE s = t
    BY <1>3, <2>1
  <2>2. CASE s # t
    BY <2>2, Apart
  <2>. QED BY <2>1, <2>2
<1>. QED BY <1>1, <1>2, <1>3, <1>4

\* No frame is in two places.
LEMMA OnePlace ==
    ASSUME OneOwner, NEW p \in Places, NEW q \in Places, p[1] = q[1]
    PROVE  p = q
<1>0. PICK f : f = p[1] /\ f = q[1]
  OBVIOUS
<1>1. CASE IsFree(p)
  <2>1. p[1] \in frames.recycled /\ p = <<p[1], "free">>
    BY <1>1, PlaceOwner
  <2>2. IsFree(q)
    BY <2>1, Sole, PlaceKinds, PlaceOwner
  <2>3. q = <<q[1], "free">>
    BY <2>2, PlaceOwner
  <2>. QED BY <2>1, <2>3
<1>2. ASSUME NEW s \in Space, NEW i \in DOMAIN tables[s], IsTable(p, s, i) PROVE p = q
  <2>1. p[1] \in TableFrames(s) /\ p[1] = tables[s][i].frame
    BY <1>2, PlaceOwner
  <2>2. PICK j \in DOMAIN tables[s] : IsTable(q, s, j)
    <3>1. f \in TableFrames(s)
      BY <1>0, <2>1
    <3>2. /\ f \notin frames.recycled /\ f \notin New
          /\ \A t \in Space : f \notin AreaFrames(t) /\ f \notin kstack[t] /\ (f \in TableFrames(t) => t = s)
      BY <3>1, Sole
    <3>3. ~IsFree(q) /\ (\A v \in Vpn : ~IsNew(q, v)) /\ \A t \in Space : ~IsStack(q, t)
      BY <1>0, <3>2, PlaceOwner
    <3>4. \A t \in Space : \A j \in DOMAIN areas[t] : \A v \in Vpn : ~IsArea(q, t, j, v)
      BY <1>0, <3>2, PlaceOwner
    <3>5. PICK t \in Space : \E j \in DOMAIN tables[t] : IsTable(q, t, j)
      BY <3>3, <3>4, PlaceKinds
    <3>6. t = s
      BY <1>0, <3>2, <3>5, PlaceOwner
    <3>. QED BY <3>5, <3>6
  <2>3. tables[s][i].frame = tables[s][j].frame
    BY <2>1, <2>2, PlaceOwner
  <2>4. i = j
    BY <2>3 DEF OneOwner, TablesDiffer
  <2>. QED BY <1>2, <2>2, <2>4 DEF IsTable
<1>3. ASSUME NEW s \in Space, NEW i \in DOMAIN areas[s], NEW v \in Vpn, IsArea(p, s, i, v) PROVE p = q
  <2>1. p[1] \in AreaFrames(s) /\ p[1] = areas[s][i].held[v] /\ p[1] # NoFrame
    BY <1>3, PlaceOwner
  <2>2. PICK j \in DOMAIN areas[s], w \in Vpn : IsArea(q, s, j, w)
    <3>1. f \in AreaFrames(s)
      BY <1>0, <2>1
    <3>2. /\ f \notin frames.recycled /\ f \notin New
          /\ \A t \in Space : f \notin TableFrames(t) /\ f \notin kstack[t] /\ (f \in AreaFrames(t) => t = s)
      BY <3>1, Sole
    <3>3. ~IsFree(q) /\ (\A w \in Vpn : ~IsNew(q, w)) /\ \A t \in Space : ~IsStack(q, t)
      BY <1>0, <3>2, PlaceOwner
    <3>4. \A t \in Space : \A j \in DOMAIN tables[t] : ~IsTable(q, t, j)
      BY <1>0, <3>2, PlaceOwner
    <3>5. PICK t \in Space : \E j \in DOMAIN areas[t] : \E w \in Vpn : IsArea(q, t, j, w)
      BY <3>3, <3>4, PlaceKinds
    <3>6. t = s
      BY <1>0, <3>2, <3>5, PlaceOwner
    <3>. QED BY <3>5, <3>6
  <2>3. areas[s][i].held[v] = areas[s][j].held[w]
    BY <2>1, <2>2, PlaceOwner
  <2>4. i = j /\ v = w
    BY <2>1, <2>3 DEF OneOwner, AreasDiffer
  <2>. QED BY <1>3, <2>2, <2>4 DEF IsArea
<1>4. ASSUME NEW s \in Space, IsStack(p, s) PROVE p = q
  <2>1. p[1] \in kstack[s] /\ p = <<p[1], "stack", s>>
    BY <1>4, PlaceOwner
  <2>2. IsStack(q, s)
    <3>1. f \in kstack[s]
      BY <1>0, <2>1
    <3>2. /\ f \notin frames.recycled /\ f \notin New
          /\ \A t \in Space : f \notin TableFrames(t) /\ f \notin AreaFrames(t) /\ (f \in kstack[t] => t = s)
      BY <3>1, Sole
    <3>3. ~IsFree(q) /\ \A w \in Vpn : ~IsNew(q, w)
      BY <1>0, <3>2, PlaceOwner
    <3>4. /\ \A t \in Space : \A j \in DOMAIN tables[t] : ~IsTable(q, t, j)
          /\ \A t \in Space : \A j \in DOMAIN areas[t] : \A w \in Vpn : ~IsArea(q, t, j, w)
      BY <1>0, <3>2, PlaceOwner
    <3>5. PICK t \in Space : IsStack(q, t)
      BY <3>3, <3>4, PlaceKinds
    <3>6. t = s
      BY <1>0, <3>2, <3>5, PlaceOwner
    <3>. QED BY <3>5, <3>6
  <2>3. q = <<q[1], "stack", s>>
    BY <2>2, PlaceOwner
  <2>. QED BY <2>1, <2>3
<1>5. ASSUME NEW v \in Vpn, IsNew(p, v) PROVE p = q
  <2>1. p[1] \in New /\ p[1] = job.held[v] /\ p[1] # NoFrame
    BY <1>5, PlaceOwner
  <2>2. PICK w \in Vpn : IsNew(q, w)
    BY <2>1, Sole, PlaceKinds, PlaceOwner
  <2>3. job.held[v] = job.held[w]
    BY <2>1, <2>2, PlaceOwner
  <2>4. v = w
    BY <2>1, <2>3 DEF OneOwner, PagesDiffer
  <2>. QED BY <1>5, <2>2, <2>4 DEF IsNew
<1>. QED BY <1>1, <1>2, <1>3, <1>4, <1>5, PlaceKinds

\* A frame is in some place if it was ever handed out.
LEMMA SomePlace ==
    ASSUME TypeOK, OneOwner, NEW f
    PROVE  f \in 0 .. frames.current - 1 <=> \E p \in Places : p[1] = f
<1>1. frames.recycled \subseteq 0 .. frames.current - 1 /\ (f \in 0 .. frames.current - 1 <=> f \in frames.recycled \/ f \in Used)
  BY DEF OneOwner, Used
<1>2. f \in Used <=> f \in New \/ \E s \in Space : f \in TableFrames(s) \/ f \in AreaFrames(s) \/ f \in kstack[s]
  <2>1. Used = New \cup UNION {OwnedBy[s] : s \in Space}
    BY DEF OneOwner, Split, New
  <2>2. \A s \in Space : OwnedBy[s] = TableFrames(s) \cup AreaFrames(s) \cup kstack[s]
    BY DEF OwnedBy, Owned
  <2>. QED BY <2>1, <2>2
<1>3. ASSUME NEW p \in Places, p[1] = f PROVE f \in 0 .. frames.current - 1
  BY <1>1, <1>2, <1>3, PlaceKinds, PlaceOwner
<1>4. ASSUME f \in 0 .. frames.current - 1 PROVE \E p \in Places : p[1] = f
  <2>1. CASE f \in frames.recycled
    <3>1. IsFree(<<f, "free">>)
      BY <2>1 DEF IsFree
    <3>. QED BY <3>1, PlaceKinds
  <2>2. ASSUME NEW s \in Space, f \in TableFrames(s) PROVE \E p \in Places : p[1] = f
    <3>1. PICK i \in DOMAIN tables[s] : f = tables[s][i].frame
      BY <2>2 DEF TableFrames
    <3>2. IsTable(<<f, "table", s, i>>, s, i)
      BY <3>1 DEF IsTable
    <3>. QED BY <3>2, PlaceKinds
  <2>3. ASSUME NEW s \in Space, f \in AreaFrames(s) PROVE \E p \in Places : p[1] = f
    <3>1. PICK i \in DOMAIN areas[s], v \in Vpn : f = areas[s][i].held[v] /\ f # NoFrame
      BY <2>3 DEF AreaFrames, FramesOf
    <3>2. IsArea(<<f, "area", s, i, v>>, s, i, v)
      BY <3>1 DEF IsArea, Holds
    <3>. QED BY <3>2, PlaceKinds
  <2>4. ASSUME NEW s \in Space, f \in kstack[s] PROVE \E p \in Places : p[1] = f
    <3>1. IsStack(<<f, "stack", s>>, s)
      BY <2>4 DEF IsStack
    <3>. QED BY <3>1, PlaceKinds
  <2>5. CASE f \in New
    <3>1. PICK v \in Vpn : f = job.held[v] /\ f # NoFrame
      BY <2>5 DEF New, FramesOf
    <3>2. IsNew(<<f, "new", v>>, v)
      BY <3>1 DEF IsNew
    <3>. QED BY <3>2, PlaceKinds
  <2>. QED BY <1>1, <1>2, <1>4, <2>1, <2>2, <2>3, <2>4, <2>5
<1>. QED BY <1>3, <1>4

\* The invariant counts the frames as the property does.
LEMMA Partition ==
    ASSUME TypeOK, OneOwner
    PROVE  FramesPartition
<1>. DEFINE n == frames.current
            F == [p \in Places |-> p[1]]
<1>1. n \in Nat
  BY Sizes DEF TypeOK
<1>2. \A p \in Places : F[p] = p[1] /\ p[1] \in 0 .. n - 1
  BY SomePlace
<1>3. F \in [Places -> 0 .. n - 1]
  BY <1>2
<1>4. F \in Injection(Places, 0 .. n - 1)
  BY <1>2, <1>3, OnePlace DEF Injection, IsInjective
<1>5. F \in Surjection(Places, 0 .. n - 1)
  <2>1. \A f \in 0 .. n - 1 : \E p \in Places : F[p] = f
    BY <1>2, SomePlace
  <2>. QED BY <1>3, <2>1 DEF Surjection
<1>6. IsFiniteSet(0 .. n - 1) /\ Cardinality(0 .. n - 1) = n
  <2>1. 0 \in Int /\ n - 1 \in Int
    BY <1>1
  <2>2. IsFiniteSet(0 .. n - 1) /\ Cardinality(0 .. n - 1) = IF 0 > n - 1 THEN 0 ELSE (n - 1) - 0 + 1
    BY <2>1, FS_Interval
  <2>. QED BY <1>1, <2>2
<1>. HIDE DEF n, F
<1>7. Cardinality(Places) = Cardinality(0 .. n - 1)
  BY <1>4, <1>5, <1>6, FS_Injection
<1>8. {p[1] : p \in Places} = 0 .. n - 1
  BY SomePlace DEF n
<1>. QED BY <1>6, <1>7, <1>8 DEF FramesPartition, n

\* Every frame that was ever handed out is in exactly one place: the recycled list, a page
\* table, an area, a kernel stack or the area a call is building.  alloc, dealloc and the
\* drops of fork, exec, mmap, munmap, exit and waitpid lose no frame and share none.
THEOREM PartitionSafety == Spec => []FramesPartition
<1>1. IInv => FramesPartition
  BY Partition DEF IInv
<1>. QED BY <1>1, Invariance, PTL
=============================================================================
