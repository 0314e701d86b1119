------------------------------- MODULE Memory -------------------------------
(***************************************************************************)
(* Physical frames and user address spaces: frame_allocator.rs,            *)
(* memory_set.rs and page_table.rs under the system calls that use them    *)
(* (boot, fork, exec, mmap, munmap, exit, waitpid).                        *)
(*                                                                         *)
(* A space is one MemorySet with the kernel stack of its process.  The     *)
(* kernel is not preempted, so one call runs at a time: job is the call in *)
(* progress, and one page is one step.  A page table has two levels here   *)
(* (three in Sv39), pages hold no data, and the allocator hands out        *)
(* recycled frames in no particular order: the properties are about who    *)
(* owns which frame.                                                       *)
(***************************************************************************)
EXTENDS Naturals, Sequences, FiniteSets

CONSTANTS Space,     \* allocations of a MemorySet
          End,       \* frames 0 .. End - 1 of the allocator
          Pages,     \* virtual pages 0 .. Pages - 1
          Fan,       \* pages under one leaf table
          Image,     \* ranges that from_elf maps, the trap context last
          StackPages,\* pages of a kernel stack
          MaxCalls   \* bound: system calls made

Frame == 0 .. End - 1
Vpn == 0 .. Pages - 1
NoFrame == End        \* an invalid entry
Code == End + 1       \* the trampoline's page, which belongs to the kernel image
Tramp == Pages - 1    \* TRAMPOLINE
TrapCx == Pages - 2   \* TRAP_CONTEXT

\* Ranges of pages [r[1], r[2]) that SimpleRange::new accepts.  VirtAddr::from masks
\* addresses, so an end at the top of the address space is page 0.
VpnRange == {r \in Vpn \X Vpn : r[1] <= r[2]}
In(v, r) == r[1] <= v /\ v < r[2]

ASSUME MemoryAssumption ==
    /\ End \in Nat /\ Pages \in Nat \ {0, 1} /\ Fan \in Nat \ {0}
    /\ StackPages \in Nat \ {0} /\ MaxCalls \in Nat /\ "none" \notin Space
    /\ Image \in Seq(VpnRange) /\ Image # <<>>
    /\ Image[Len(Image)] = <<TrapCx, Tramp>>
    /\ \A i, j \in DOMAIN Image : \A v \in Vpn :
          /\ In(v, Image[i]) => v # Tramp
          /\ In(v, Image[i]) /\ In(v, Image[j]) => i = j

VARIABLES
    frames,   \* StackFrameAllocator: first frame never used, and frames given back
    state,    \* "free", "building", "live", "stackless" or "zombie"
    tables,   \* PageTable.frames, with the table that each frame holds
    pte,      \* leaf entries of the page table
    areas,    \* MemorySet.areas
    kstack,   \* frames of the kernel stack
    job,      \* the system call in progress
    calls,    \* number of system calls
    torn,     \* history: spaces in which an mmap has failed halfway, which have
              \* entries for frames that are no longer theirs
    panic     \* what the kernel has died of, or "no"

vars == <<frames, state, tables, pte, areas, kstack, job, calls, torn, panic>>

NoFrames == [v \in Vpn |-> NoFrame]
Idle == [op |-> "idle", sp |-> "none", src |-> "none", todo |-> <<>>,
         held |-> NoFrames, vpn |-> 0]

\* Works through the ranges of todo, from the first page of the first one.
Job(op, s, src, todo) ==
    [op |-> op, sp |-> s, src |-> src, todo |-> todo, held |-> NoFrames,
     vpn |-> IF todo = <<>> THEN 0 ELSE todo[1][1]]

Init ==
    /\ frames = [current |-> 0, recycled |-> {}]
    /\ state = [s \in Space |-> "free"]
    /\ tables = [s \in Space |-> <<>>]
    /\ pte = [s \in Space |-> NoFrames]
    /\ areas = [s \in Space |-> <<>>]
    /\ kstack = [s \in Space |-> {}]
    /\ job = [Idle EXCEPT !.op = "boot"]
    /\ calls = 0 /\ torn = {}
    /\ panic = "no"

----------------------------------------------------------------------------
\* The frame allocator.

Avail == Cardinality(frames.recycled) + (End - frames.current)

\* The frame that alloc returns from allocator a, and the allocator it leaves.
Pop(a) == IF a.recycled # {} THEN CHOOSE f \in a.recycled : TRUE ELSE a.current
Popped(a) == IF a.recycled # {} THEN [a EXCEPT !.recycled = @ \ {Pop(a)}]
             ELSE [a EXCEPT !.current = @ + 1]

One == Pop(frames)
Two == Pop(Popped(frames))

\* n calls of alloc, one or two.
Take(n) == frames' = IF n = 1 THEN Popped(frames) ELSE Popped(Popped(frames))

\* dealloc of the frames fs, and its check.
Give(fs) == frames' = [frames EXCEPT !.recycled = @ \cup fs]
Allocated(fs) == \A f \in fs : f < frames.current /\ f \notin frames.recycled

\* The frames of a BTreeMap of pages, of all areas of s, of its page table.
FramesOf(held) == {held[v] : v \in Vpn} \ {NoFrame}
AreaFrames(s) == UNION {FramesOf(areas[s][i].held) : i \in DOMAIN areas[s]}
TableFrames(s) == {tables[s][i].frame : i \in DOMAIN tables[s]}

Panic(why) ==
    /\ panic' = why
    /\ UNCHANGED <<frames, state, tables, pte, areas, kstack, job, torn>>

----------------------------------------------------------------------------
\* Building a MemorySet.

TableOf(v) == v \div Fan
Root == Pages   \* the number of no leaf table

\* new_bare and map_trampoline, then the ranges todo.
NewSpace(op, src, todo) ==
    IF Avail < 2 THEN Panic("oom")
    ELSE \E n \in Space :
       /\ state[n] = "free"
       /\ Take(2)
       /\ state' = [state EXCEPT ![n] = "building"]
       /\ tables' = [tables EXCEPT ![n] = <<[of |-> Root, frame |-> One],
                                            [of |-> TableOf(Tramp), frame |-> Two]>>]
       /\ pte' = [pte EXCEPT ![n] = [NoFrames EXCEPT ![Tramp] = Code]]
       /\ job' = Job(op, n, src, todo)
       /\ UNCHANGED <<areas, kstack, torn, panic>>

\* A process in user mode makes a call.
Calls(s) ==
    /\ panic = "no" /\ job = Idle /\ state[s] = "live"
    /\ calls < MaxCalls /\ calls' = calls + 1

\* TaskControlBlock::new of the first process.
Boot ==
    /\ panic = "no" /\ job.op = "boot" /\ job.sp = "none"
    /\ NewSpace("boot", "none", Image)
    /\ UNCHANGED calls

Ranges(as) == [i \in DOMAIN as |-> as[i].range]

\* from_existed_userspace
Fork(s) == Calls(s) /\ NewSpace("fork", s, Ranges(areas[s]))

\* from_elf, before the old MemorySet goes
Exec(s) == Calls(s) /\ NewSpace("exec", s, Image)

\* Faulty variant: only the first page is looked at.
Unmapped_First(s, r) == r[1] < r[2] => pte[s][r[1]] = NoFrame

Unmapped(s, r) == \A v \in Vpn : In(v, r) => pte[s][v] = NoFrame

\* sys_mmap, past its checks; an empty range gives an empty area.  A range whose end
\* is masked to an address below its start fails the assertion of SimpleRange::new.
Mmap(s, r) ==
    /\ Calls(s)
    /\ IF r \notin VpnRange THEN Panic("range")
       ELSE /\ Unmapped(s, r)
            /\ job' = Job("mmap", s, s, <<r>>)
            /\ UNCHANGED <<frames, state, tables, pte, areas, kstack, torn, panic>>

Builds == panic = "no" /\ job.op \in {"boot", "fork", "exec", "mmap"} /\ job.sp # "none"

Missing(s, v) == \A i \in DOMAIN tables[s] : tables[s][i].of # TableOf(v)

\* map_one has no frame: push fails, the unfinished area is dropped and its entries
\* stay in the page table; only mmap survives that.
OutOfFrames ==
    LET fs == FramesOf(job.held) IN
    IF job.op # "mmap" THEN Panic("oom")
    ELSE /\ Give(fs)
         /\ torn' = IF fs = {} THEN torn ELSE torn \cup {job.sp}
         /\ job' = Idle
         /\ panic' = IF Allocated(fs) THEN panic ELSE "dealloc"
         /\ UNCHANGED <<state, tables, pte, areas, kstack>>

\* map_one: a frame for the data, one for the leaf table if there is none yet
\* (find_pte_create), and the entry, which must be invalid.
MapOne ==
    LET s == job.sp
        v == job.vpn
        n == IF Missing(s, v) THEN 2 ELSE 1
    IN
    /\ Builds /\ job.todo # <<>> /\ v < job.todo[1][2]
    /\ IF Avail = 0 THEN OutOfFrames
       ELSE IF Avail < n THEN Panic("oom")
       ELSE IF pte[s][v] # NoFrame THEN Panic("mapped")
       ELSE /\ Take(n)
            /\ tables' = IF n = 1 THEN tables
                         ELSE [tables EXCEPT ![s] = Append(@, [of |-> TableOf(v),
                                                              frame |-> Two])]
            /\ pte' = [pte EXCEPT ![s][v] = One]
            /\ job' = [job EXCEPT !.held[v] = One, !.vpn = v + 1]
            /\ UNCHANGED <<state, areas, kstack, torn, panic>>
    /\ UNCHANGED calls

\* Fork copies the pages of an area from the same addresses of the parent, where
\* translate must find them.
CopyFails(r) ==
    job.op = "fork" /\ \E v \in Vpn : In(v, r) /\ pte[job.src][v] = NoFrame

\* push has mapped the whole area.
PushArea ==
    LET s == job.sp
        r == job.todo[1]
    IN
    /\ Builds /\ job.todo # <<>> /\ job.vpn >= r[2]
    /\ IF CopyFails(r)
       THEN Panic("hole")
       ELSE /\ areas' = [areas EXCEPT ![s] = Append(@, [range |-> r, held |-> job.held])]
            /\ job' = Job(job.op, s, job.src, Tail(job.todo))
            /\ UNCHANGED <<frames, state, tables, pte, kstack, torn, panic>>
    /\ UNCHANGED calls

MmapDone ==
    /\ Builds /\ job.op = "mmap" /\ job.todo = <<>>
    /\ job' = Idle
    /\ UNCHANGED <<frames, state, tables, pte, areas, kstack, calls, torn, panic>>

\* A page of KernelStack::new.  If frames run out, the stack is given back and the
\* process is left without one.
StackOne ==
    LET s == job.sp
        done == [state EXCEPT ![s] = IF Avail = 0 THEN "stackless" ELSE "live"]
    IN
    /\ Builds /\ job.op \in {"boot", "fork"} /\ job.todo = <<>>
    /\ IF Avail = 0
       THEN /\ Give(kstack[s])
            /\ panic' = IF Allocated(kstack[s]) THEN panic ELSE "dealloc"
            /\ kstack' = [kstack EXCEPT ![s] = {}]
       ELSE /\ Take(1)
            /\ kstack' = [kstack EXCEPT ![s] = @ \cup {One}]
            /\ UNCHANGED panic
    /\ IF Avail = 0 \/ Cardinality(kstack[s]) + 1 = StackPages
       THEN state' = done /\ job' = Idle
       ELSE UNCHANGED <<state, job>>
    /\ UNCHANGED <<tables, pte, areas, calls, torn>>

\* The drop of a MemorySet, and of the frames of a kernel stack with it.
Drop(s, stack) ==
    LET fs == stack \cup TableFrames(s) \cup AreaFrames(s) IN
    /\ Give(fs)
    /\ panic' = IF Allocated(fs) THEN panic ELSE "dealloc"
    /\ tables' = [tables EXCEPT ![s] = <<>>]
    /\ pte' = [pte EXCEPT ![s] = NoFrames]
    /\ areas' = [areas EXCEPT ![s] = <<>>]
    /\ torn' = torn \ {s}

\* exec substitutes the MemorySet and thereby drops the old one.
ExecDone ==
    LET s == job.sp
        old == job.src
    IN
    /\ Builds /\ job.op = "exec" /\ job.todo = <<>>
    /\ Drop(old, {})
    /\ kstack' = [kstack EXCEPT ![s] = kstack[old], ![old] = {}]
    /\ state' = [state EXCEPT ![s] = "live", ![old] = "free"]
    /\ job' = Idle
    /\ UNCHANGED calls

----------------------------------------------------------------------------
\* munmap, exit, waitpid.

Holds(s, i, v) == areas[s][i].held[v] # NoFrame

\* sys_munmap and remove_mapped_frames, past their checks.
Munmap(s, r) ==
    /\ Calls(s)
    /\ IF r \notin VpnRange THEN Panic("range")
       ELSE /\ r[1] < r[2]
            /\ \A v \in Vpn : In(v, r) => /\ pte[s][v] # NoFrame
                                          /\ \E i \in DOMAIN areas[s] : Holds(s, i, v)
            /\ job' = Job("munmap", s, s, <<r>>)
            /\ UNCHANGED <<frames, state, tables, pte, areas, kstack, torn, panic>>

\* Vec::remove
Without(as, i) == SubSeq(as, 1, i - 1) \o SubSeq(as, i + 1, Len(as))

\* Faulty variant: the page keeps its entry.
Cleared_Not(s, v) == pte

\* PageTable::unmap
Cleared(s, v) == [pte EXCEPT ![s][v] = NoFrame]

\* One page leaves its area, and the area goes with its last page.
UnmapOne ==
    LET s == job.sp
        v == job.vpn
    IN
    /\ panic = "no" /\ job.op = "munmap" /\ v < job.todo[1][2]
    /\ \E i \in DOMAIN areas[s] :
         LET f == areas[s][i].held[v]
             left == [areas[s][i] EXCEPT !.held[v] = NoFrame]
         IN
         /\ Holds(s, i, v) /\ \A j \in 1 .. i - 1 : ~Holds(s, j, v)
         /\ Give({f})
         /\ panic' = IF ~Allocated({f}) THEN "dealloc"
                     ELSE IF pte[s][v] = NoFrame THEN "unmapped" ELSE panic
         /\ pte' = Cleared(s, v)
         /\ areas' = [areas EXCEPT ![s] = IF left.held = NoFrames THEN Without(@, i)
                                          ELSE [@ EXCEPT ![i] = left]]
    /\ job' = [job EXCEPT !.vpn = v + 1]
    /\ UNCHANGED <<state, tables, kstack, calls, torn>>

\* A process that has unmapped its trap context cannot go back to user mode.
MunmapDone ==
    /\ panic = "no" /\ job.op = "munmap" /\ job.vpn >= job.todo[1][2]
    /\ panic' = IF In(TrapCx, job.todo[1]) THEN "trap" ELSE panic
    /\ job' = Idle
    /\ UNCHANGED <<frames, state, tables, pte, areas, kstack, calls, torn>>

\* Faulty variant: areas are dropped but stay listed.
Exit_KeepsAreas(s) ==
    LET fs == AreaFrames(s) IN
    /\ Calls(s) /\ \E t \in Space \ {s} : state[t] = "live"
    /\ Give(fs)
    /\ panic' = IF Allocated(fs) THEN panic ELSE "dealloc"
    /\ state' = [state EXCEPT ![s] = "zombie"]
    /\ UNCHANGED <<tables, pte, areas, kstack, job, torn>>

\* recycle_data_pages in exit_current_and_run_next; the first process stays.
Exit(s) ==
    LET fs == AreaFrames(s) IN
    /\ Calls(s) /\ \E t \in Space \ {s} : state[t] = "live"
    /\ Give(fs)
    /\ panic' = IF Allocated(fs) THEN panic ELSE "dealloc"
    /\ areas' = [areas EXCEPT ![s] = <<>>]
    /\ state' = [state EXCEPT ![s] = "zombie"]
    /\ UNCHANGED <<tables, pte, kstack, job, torn>>

\* sys_waitpid drops the TCB: the kernel stack, then the MemorySet.
Reap(s) ==
    /\ panic = "no" /\ job = Idle /\ state[s] = "zombie"
    /\ Drop(s, kstack[s])
    /\ kstack' = [kstack EXCEPT ![s] = {}]
    /\ state' = [state EXCEPT ![s] = "free"]
    /\ UNCHANGED <<job, calls>>

\* A process without a kernel stack is dispatched.
Dispatch(s) ==
    /\ panic = "no" /\ job = Idle /\ state[s] = "stackless"
    /\ Panic("stack") /\ UNCHANGED calls

Next ==
    \/ Boot \/ MapOne \/ PushArea \/ MmapDone \/ StackOne \/ ExecDone
    \/ UnmapOne \/ MunmapDone
    \/ \E s \in Space :
         \/ Fork(s) \/ Exec(s) \/ Exit(s) \/ Reap(s) \/ Dispatch(s)
         \/ \E r \in Vpn \X Vpn : Mmap(s, r) \/ Munmap(s, r)

Spec == Init /\ [][Next]_vars

----------------------------------------------------------------------------
Held == [Vpn -> Frame \cup {NoFrame}]

Op == {"idle", "boot", "fork", "exec", "mmap", "munmap"}

TypeOK ==
    /\ frames \in [current : 0 .. End, recycled : SUBSET Frame]
    /\ state \in [Space -> {"free", "building", "live", "stackless", "zombie"}]
    /\ tables \in [Space -> Seq([of : Nat, frame : Frame])]
    /\ pte \in [Space -> [Vpn -> Frame \cup {NoFrame, Code}]]
    /\ areas \in [Space -> Seq([range : VpnRange, held : Held])]
    /\ kstack \in [Space -> SUBSET Frame]
    /\ job \in [op : Op, sp : Space \cup {"none"}, src : Space \cup {"none"},
                todo : Seq(VpnRange), held : Held, vpn : 0 .. Pages]
    /\ torn \subseteq Space

\* All places with the frame they hold: the recycled list, page tables, areas, kernel
\* stacks and the area that a call is building.
FreePlaces == {<<f, "free">> : f \in frames.recycled}
TablePlaces(s) == {<<tables[s][i].frame, "table", s, i>> : i \in DOMAIN tables[s]}
PagesOfArea(s, i) ==
    {<<areas[s][i].held[v], "area", s, i, v>> : v \in {w \in Vpn : Holds(s, i, w)}}
AreaPlaces(s) == UNION {PagesOfArea(s, i) : i \in DOMAIN areas[s]}
StackPlaces(s) == {<<f, "stack", s>> : f \in kstack[s]}
NewPlaces == {<<job.held[v], "new", v>> : v \in {w \in Vpn : job.held[w] # NoFrame}}
Places ==
    FreePlaces \cup NewPlaces
    \cup UNION {TablePlaces(s) \cup AreaPlaces(s) \cup StackPlaces(s) : s \in Space}

\* Every frame that was ever handed out is in exactly one place: none is lost, and none
\* has two owners, in the middle of a call, after a failed one, and after a panic.
FramesPartition ==
    /\ {p[1] : p \in Places} = 0 .. frames.current - 1
    /\ Cardinality(Places) = frames.current

\* The pages that an area, or the area being built, holds in space s.
Backs(s, v, f) ==
    \/ \E i \in DOMAIN areas[s] : areas[s][i].held[v] = f
    \/ job.sp = s /\ job.held[v] = f

\* Areas and page tables agree.  An area's frame is what the page table has at its
\* address: no area shadows another, also after munmap has left holes and mmap has
\* filled them.  A space that runs maps only frames that its own areas hold, so
\* nobody else uses them, as long as no mmap of it has failed halfway.
OwnPagesOnly ==
    /\ \A s \in Space, v \in Vpn, f \in Frame : Backs(s, v, f) => pte[s][v] = f
    /\ \A s \in Space \ torn : state[s] \in {"building", "live"} =>
          \A v \in Vpn \ {Tramp} : pte[s][v] # NoFrame => Backs(s, v, pte[s][v])

\* All pages of the areas of s are there.
Whole(s) ==
    \A i \in DOMAIN areas[s], v \in Vpn : In(v, areas[s][i].range) => Holds(s, i, v)

\* The assertions of unmap and dealloc never fail, and map and fork's translate fail
\* only for a parent that has unmapped a part of an area.  What else a call may die of
\* is named and allowed: no frame left ("oom", "stack"), the caller's own trap context
\* unmapped ("trap"), a range that wraps around ("range").
PanicsExplained ==
    /\ panic \notin {"dealloc", "unmapped"}
    /\ panic \in {"mapped", "hole"} => job.op = "fork" /\ ~Whole(job.src)
=============================================================================
