# rCore-dev: models and proofs

This directory holds TLA+ models of rCore-dev, a small Unix-like kernel for one
RISC-V hart (`os/`), with its file system (`easy-fs/`) and its shell (`user/`), checked with TLC and, where the argument
is worth having for all sizes, proved with TLAPS.

## The system

| Component | State | Operations | Interacts with |
|---|---|---|---|
| process life cycle (`os/src/task/task.rs`, `mod.rs`, `syscall/process.rs`) | TCBs in `Arc`s: status, parent (`Weak`), children, exit code | fork, exec, exit, waitpid, yield | pid allocator, task manager, address spaces, fd tables |
| pids and kernel stacks (`task/pid.rs`) | counter, recycled list, mapped stacks | alloc, dealloc on drop, map and unmap of a stack | kernel address space |
| task manager, processor (`task/manager.rs`, `processor.rs`) | map pid -> TCB, heap, current | add, fetch, run_tasks, schedule, pid2task | scheduler, every suspending call |
| stride scheduler (`task/scheduler.rs`) | heap of (pid, pass) | insert, pop | passes and priorities in TCBs |
| pipes (`fs/pipe.rs`, `syscall/fs.rs`) | ring buffer, `Weak` of the write end | read, write, sys_pipe, dup, close | fd tables across fork, exit, waitpid; suspends inside loops |
| signals (`task/mod.rs`, `signal.rs`, `action.rs`, `trap/mod.rs`) | pending, mask, actions, handling_sig, killed, frozen, context backup | kill, sigaction, sigprocmask, sigreturn, the checks at the end of each trap | any process can send at any time |
| memory (`os/src/mm`) | frame allocator, page tables, areas | mmap, munmap, copy for fork, recycle | processes |
| user memory (`mm/page_table.rs`, `syscall/*`, `task.rs` exec) | slices of a buffer, position of the iterator, the new user stack | translate buffers, structures and strings, push the arguments of exec | every system call with a pointer; `_start` in `user/src/lib.rs` |
| descriptor tables (`task.rs` alloc_fd, `syscall/fs.rs`) | a vector of optional files per process | open, close, dup, pipe, copy at fork | pipes, open files, the shell |
| shell (`user/src/bin/user_shell.rs`, `user/src/lib.rs`) | the line, the pipes it has made, its children | pipe, fork, close, redirect, exec, waitpid | everything above, through system calls |
| easy-fs (`easy-fs/src`), open files (`os/src/fs/inode.rs`) | block cache, bitmaps, inode trees, directory, offsets | open, create, link, unlink, read, write, clear | block device, descriptors |

The kernel is not interrupted in kernel mode: a system call is atomic unless it
calls `suspend_current_and_run_next`, which pipes, the console and frozen processes do in
loops. All the hard interleavings come from those calls, from the timer in user mode, and from
state that outlives its owner: heap entries, recycled pids, `Arc` clones on kernel
stacks, descriptors of zombies, signal bits.  The build is a release build
(`os/Makefile`, `MODE := release`), so integer arithmetic wraps silently.

## Modules

`Lifecycle`, `IdealStride`, `Channel`, `DurableDisk` and `PlainFiles` are abstract specifications;
`Tasks`, `Stride`, `Pipe`, `BlockCache` and `Inodes` implement them; `Signals`, `Memory`, `UserMemory`,
and `Layout` stand alone.  `Recovery` composes `Directory` with `DurableDisk`, and `Shell` composes the
shell and its children with descriptor tables (`Descriptors`) and the pipes between them.  The file system modules are stacked as the code is: `Inodes` and
`Directory` see blocks through the cache (`View` of `BlockCache`), `Layout` says where the parts of the
device are.  `*Proofs`
modules extend the models they are about (`ControlProofs` has `Stride` and `Signals`, `StorageProofs` has
`BlockCache`, `Directory` and `Recovery`); `MC*` modules give the constants values (`Layout` needs none).
Definitions called `X_Something` are faulty variants of `X`, kept to show that the properties notice
such a fault; no specification uses them.

### Tasks (process life cycle, pids, ready queue) and Lifecycle

A task is one allocation of a TCB (`Free` after its last `Arc` is dropped). Every `Arc`
that the code clones, moves or drops is counted in `strong`: the static `INITPROC`, the
processor's `current`, the ready queue, a children `Vec`, and the clone
that a blocked `sys_read` or `sys_write` keeps on its kernel stack (`held`).
`Dispatch` is one turn of `run_tasks` with `TaskManager::fetch`; `heap`
counts the scheduler's entries for each pid and leaves the order open (module
`Stride` has it). `Fork`, `Exit` and `Reap` are whole system calls,
with the pid allocator and the kernel stacks; an assertion of the code that fails sets
`panic`, after which nothing happens, as after the panic handler's shutdown.
`Reap(t, arg, i)` is the successful `sys_waitpid(arg)`; the results -1 and -2 change nothing.
`frozen` are the tasks in the loop of `handle_signals`: `Stop` is a trap that ends with SIGSTOP, `StayStopped` one
turn of the loop, `Continue` the way out of it.  Any process may send SIGSTOP to any pid; the run has it sent to
initproc (`Stoppable`), on which other processes depend.  `Signals` has the rest of the signal state.

`Lifecycle` is what user programs rely on: processes are absent, live or zombies,
orphans go to the first process, only the parent removes a zombie.  `Tasks`
implements it (`LifecycleSpec`).

### Stride and IdealStride

Passes are machine words (`Word == 2 * Half`, 2^64 in the build); priorities
are those that `sys_set_priority` accepts.  `PartialCmp` is the comparison the binary heap uses
and `Popped` what `BinaryHeap::pop` may return: any greatest entry, or any entry at all
where the comparison has no greatest one. The
history variable `vt` is the pass of the task dispatched last; distances from it on the
circle of words are the lags of `IdealStride`, which has unbounded numbers.

### Pipe and Channel

One pipe with its descriptors.  `op`, `left` and `loop` are the local state of a `File::read` or
`File::write` in progress: bytes the user buffer still yields, and
iterations left of the inner `for`.  One byte is one step; `current` stays
until the call suspends.  `rfd` and `wfd` count the entries of a process's
fd table that hold an end, also for a zombie, since
`exit_current_and_run_next` does not clear the table. Processes follow `Lifecycle`.
`Channel` is a bounded FIFO queue that is shut once and reports the end of file only when it is
shut and drained.

A read whose buffer is filled exactly when the ring becomes empty goes round the loop again and
waits (and a write that fills the ring exactly, likewise): the model has this
behaviour, and `EofDelivered` and `NoMutualWait` are stated so that they are true of it.

### Signals

The signal state of one process; every other process is the action `Kill`, possible whenever
this one is off the processor. `phase` is the place in the trap path: `user`,
`ready` (after the timer), `blocked` (in a call), `check` (before `handle_signals`),
`loop` and `frozen` (its loop), `exit`, `panic`.  A trap context keeps
two facts: which code it resumes and where its a0 comes from.
`check_pending_signals` goes by signal numbers and returns at the first user signal:
`Reached` are the kernel signals it meets before.
`ForkChild` follows the child from there on.

### BlockCache and DurableDisk

`BlockCacheManager` over the block device. `queue` is its `Vec` of `Arc<Mutex<BlockCache>>`;
`stack` are the blocks that callers hold, innermost last, since `read` and `modify` take closures
that fetch further blocks; `objs` are the fields of each `BlockCache` allocation. `Evict`
removes the first entry of strong count 1, whose drop writes it back before the
new block is read.  `SyncAll` and `SyncOne` make `block_cache_sync_all` a loop of single
writes, so that `Crash` (power loss, or the shutdown after a panic) may fall between any two of them.
The history variables are `latest`, the last value stored in each block, and `since`,
the values it has had from the last completed `sync_all` on.  Blocks hold one value. The
assumption `MaxNest <= Max` is met with room to spare: the closures of easy-fs
hold at most 3 blocks and the cache has 16 entries.

`DurableDisk` is an array of blocks whose contents after a power loss are, for each block on its own,
the value at the last flush or a later one.

### Memory

Frame allocator, page tables and areas of user address spaces. `job` is the call in progress, and
maps, copies or unmaps one page per step, each of which may run out of frames. Calls do not
interleave (memory calls never suspend); the steps are there because each `?`, `unwrap` and assertion
between them leaves a different partial state, and a panic in one of them shows it.
`panic` names the failed check: no frame (`oom`), a page mapped twice (`mapped`), a page of the parent
without a translation (`hole`), a process dispatched without a kernel stack (`stack`), a trap context
that munmap has removed (`trap`), a double free (`dealloc`), a page unmapped twice (`unmapped`), a range that wraps
around (`range`): `VirtAddr::from` masks addresses, so the end of an mmap or munmap up to the top of the address space is
page 0, and the assertion of `SimpleRange::new` fails.
Abstractions: two levels of page tables instead of the three of Sv39, with `Fan` entries in each; which
recycled frame comes next is left open; pages hold no data; areas of identity-mapped code
(the trampoline) are the page `Tramp`; page-table frames of the kernel's own
space are not represented; the first process stays.  `torn` are the spaces in which an mmap has failed
after mapping some of its pages (see Findings).

### UserMemory

How system calls reach the memory of a process.  A page table maps pages to frames in any way; buffers,
structures and strings lie anywhere.  `Slice` is one iteration of `translated_byte_buffers`, `MoveByte` one
`UserBufferIterator::next`, `StringByte` one byte of `translated_str`; `touched` records the physical bytes
that a call reads or writes, in order, and the properties compare them with the bytes the program means.
A structure behind a pointer is either written through its first slice (`sys_get_time`, `sys_fstat`) or through
`translated_refmut`, in both cases at consecutive physical addresses; pointers are aligned to a word, as the
compiler aligns them.  `Exec`, `PushArg` and `Enter` fill the new user stack as `TaskControlBlock::exec` does:
the vector, one string after the other, the alignment; a string that does not fit meets the guard page.
`Start` is `_start`, which follows the vector and looks for the zeros.  A `usize` is stored as
`Word` cells that remember their value and position, so that a partial overwrite is seen.
Left out: the 39-bit mask of addresses, and `translated_str` widening bytes above 127 (strings are what it
returns).

### Descriptors and Shell

`Descriptors` has the fd_table as a function from `0 .. len - 1`, and the operations on it as operators
from tables to tables.  `Shell` runs one line after the other: `MakePipe`, `Fork`, `CloseInShell`
and `Wait` are the shell's loops, one system call per step, with `i` the loop index.  A child is the sequence of
calls it still has to make (`todo`): `Setup` is what `user_shell.rs` does between fork and exec, with the
closes that flush the console buffer (a write, and on a pipe one that can block); a failed open, a failed
exec and a failed assertion replace the rest by a message and an exit (`GiveUp`).  After exec the program makes
up to `MaxCalls` reads of descriptor 0 and writes of descriptor 1.  Pipes are counted in bytes, and a
read or write proceeds in the slices between two suspensions of module `Pipe`.  A zombie keeps its table until
the shell reaps it.  Left out: the line editor, the signals that a key may send, programs that
change their own descriptors, and the redirection without a file name, over which the shell itself panics.

### Inodes and PlainFiles

The data bitmap (`used`), the blocks (`disk`), the block trees of `DiskInode`s and the kernel's open
files (`OSInode`: inode, offset, flags).  The unit is a cell, the size of an index entry, and
`Width` cells make a block, of data or of indexes.  Every call holds the lock of the file system and
never suspends, so it is one step; a user buffer with several slices is several steps of
the same handle.  A slot is a place in the tree that holds a block number.  `NewSlots` are the slots that
`increase_size` fills and `Order` the order in which it takes blocks from its list, `Slots` the ones that
`clear_size` walks, with the blocks in them (`ClearList`), `GetBlockId` the lookup, and `TotalBlocks` counts
them by a formula: separate traversals of one structure in the code, and separate definitions here,
which `BlocksAccounted`, `OnlyLimitsPanic` and `PlainSpec` relate.
`Obstacle` is what stops `increase_size`: no free block, a tree that is full, an `unwrap` of an empty list.
Descriptors shared through dup and fork share the handle.

`PlainFiles` has files as sequences and handles as positions; a write beyond the end fills the gap with
zeros.

### Directory

The entries of the root directory in order, and link counts. A name has a length, since
`DirEntry::name` panics on a name that fills its field; `FindPanics` is a search that meets
one.  The data blocks that other files use up are a choice in `AddEntry`.  Link counts wrap at
`Word`.  `removed` and `again` are history variables: names for which `unlinkat` has returned 0, and those for
which it has done so more than once.

### Recovery

The calls of `Directory` on the blocks they store into: inode bitmap, blocks of inodes, data bitmap, index
blocks, `indirect2` and the data blocks of the directory.  A call computes its stores
(`CreateStores`, `LinkatStores`), makes them one at a time (`StoreNext`) and, only if it is a create, ends with
`Sync`; `Sync` also happens by itself, since writes to other files flush the same cache.  The blocks
are those of `DurableDisk`, which `StorageProofs` shows the cache to implement: `PowerLoss` keeps of each
block one of the values it has had since the last flush, in any combination (`Remains`).  `TotalBlocks` counts the data
and index blocks of a directory as `total_blocks` does.  Bitmaps and index blocks are counts,
because the directory only grows; the root inode is one store, at the end of its closure, since
its block is held until then and cannot be evicted.  `kept` is the number of entries at the last completed flush.
`EntryAt` is what a lookup reads after the loss.  A block number that was lost is 0, and `get_block_id` returns the super
block: `LostBlock` reads it as entries, with a first name of one byte from the magic number and blank ones behind it
(`SuperEntry`); `LookupFails` takes it for an index block and the magic number for a block, which panics in the driver,
so that nothing behind that entry is `Readable`.

### Layout

The arithmetic of `EasyFileSystem::create`, `open` and `get_disk_inode_pos`.

## Runs

| Run | Instance | Distinct states | Shows |
|---|---|---|---|
| `tasks` | 4 tasks, pids 0..3, initproc may be stopped | 77 thousand | five invariants, `BlockedStaysLive`, that `Tasks` implements `Lifecycle`, and that zombies of initproc are reaped unless it stays stopped |
| `stride` | 3 tasks, words 0..9, priorities 2..4 | 178 thousand | comparison exact across overflows, shares, refinement of `IdealStride`, no starvation |
| `pipe` | 2 processes, ring of 2, buffers up to 3, 2 descriptors per end, 2 byte values | 246 thousand | refinement of `Channel`, budgets of the byte loops, no mutual waiting, end of file delivered |
| `signals` | signals 0, 2, 9, 10, 18, 19; masks {} and {2, 9} | 3.6 million | the invariants of signals, `NoSignalLost` and `KillEnds` |
| `signals_return` | as `signals` | | expected violation: sigreturn does not restore a0 |
| `cache` | 3 blocks, cache of 2, callers nested 2 deep, 2 values | 1.1 million | reads see the last value, no panic, refinement of `DurableDisk` (durability across power losses) |
| `memory` | 3 spaces, 15 frames, 5 pages, 4 system calls | 73 thousand | every frame in one place, areas and page tables agree, which panics are possible |
| `inodes` | 2 files, 2 handles, 1 direct block, 2 cells per block, 13 data blocks, 7 calls | 177 thousand | blocks accounted for, only limits panic, refinement of `PlainFiles` |
| `directory` | 7 names, 2 entries per block, 1 direct block, 1 entry per index block, 4 inodes, 3 per block, counts below 4, 6 calls | 707 thousand | names unique and stable, link counts, flushed names survive a power loss |
| `shell` | 8 lines of up to 3 commands, rings of 2 bytes, programs of up to 2 calls of up to 1 byte | 347 thousand | descriptors of each program, nothing left behind by a line, every line ends |
| `usermem` | 3 pages of 4 bytes in 4 frames, words of 2, structures of 2 and 4, buffers up to 6, up to 3 or 8 arguments on a stack of 16 | 64 thousand | the bytes that buffers, structures and strings touch, arguments of exec |
| `layout_inodes` | blocks of 512 bytes, inodes of 136, 16384 blocks | | expected violation: inodes outside of the inode area |

Bounds.  Four tasks are initproc, a parent, a child and a second child or grandchild: with four
pids all of them can be live, and each exit order, adoption of zombies and pid reuse
happens. Words of ten values make passes overflow every few dispatches and include the odd
`BIG_STRIDE / priority` quotients; all priorities of such a word are used. A
ring of 2 fills, drains and wraps within a call of 2 or 3 bytes, and buffers are smaller than,
equal to and larger than the ring; two processes are enough to wait for each other and to leave a zombie
with a write end, and for more of them `PipeProofs` has the safety properties. The signals chosen have one member for each
path: no effect but `killed` (0), fatal (9), user-handled (10), both (2), and the two
job-control signals in their numeric order.  Three blocks over two cache entries make every third
fetch an eviction, with zero, one or two entries held. Fifteen frames are two processes of
seven and one more, so that a fork succeeds and an mmap after it fails halfway; four memory calls
(`MaxCalls`) are enough for mmap, partial munmap, mmap into the hole, and fork or exec.
Spaces are interchangeable, hence the symmetry set.

In `inodes` a tree with one direct block and two cells per index block has 7 data blocks on all three
levels; slices of 1, 4 and 9 cells end inside and at the end of blocks and jump over
levels, and 13 blocks are enough to fill one tree but not two.  In `directory` six calls
(`MaxCalls`) store up to six of the seven names, so that the directory grows through its direct block, its
index block and one under `indirect2`; inodes 0 to 2 share a block with the root inode and inode 3 does not;
`MaxUnflushed` = 2 calls of linkat and unlinkat between two flushes give blocks three values to choose from.

In `shell` the lines have each kind of stage where it matters: both redirections,
a missing input, a refused line, a missing command before and behind a pipe, an empty one before it, and three stages.
Ring and messages keep their proportions: the shell's own messages fit a ring (`Message` = 1), the panic
handler's do not (`Report` = 3).  Two calls of a program are enough to fill a ring and meet it full.
In `usermem` a buffer of 6 bytes touches up to three pages of 4, begins and ends at each offset, and frames
are in and out of order; a stack of 16 bytes holds most argument lists of up to three, is too small for the longest strings, and has no
room for the vector of eight arguments.

Type invariants and some invariants that serve the proofs (`LookupExact`, `HeapMatchesTcbs`, `HeldIsCached`,
`StatusTellsApart`, `CallHoldsEnd`,
`EofFinal`, `OneCachePerBlock`, `CleanMatchesDevice`, `Durable`) are proved (see Proofs) and not
repeated in the runs.

`tasks`, `inodes`, `shell`, `usermem`, and the signal, memory and directory runs do not check for deadlock: a
panic or a power loss stops the machine, an exited process takes no more steps, bounded calls run out, and a writer
without a reader waits for ever (see `Stuck`). The others do.

### Fairness

* A queued task is dispatched eventually: `NoStarvation`, checked in `stride` from nothing
  but the idle loop (WF of `Dispatch`) and the timer (WF of `Suspend \/ Exit`), justifies strong
  fairness of `Dispatch` in `Tasks` and `Pipe`, and WF of `Resume`, `Start` and `Thaw` in `Signals`.
* The timer interrupts user code, also one that makes many system calls (the interrupt is taken on
  return to user mode): `Yield` in `Tasks` and `Pipe`, `Timer` in `Signals`.
* The kernel does not stop in the middle of a call: `Kernel` in `Pipe`, the check steps in `Signals`.
* initproc calls `wait` whenever it is in user mode (`user/src/bin/initproc.rs`): `ReapAny`.  A stopped initproc is not:
  it takes its turns in the loop of `handle_signals`, and nobody has to send it SIGCONT.  `ZombiesOfInitReaped` is
  stated for behaviours in which it does not stay stopped for ever, and fails without that.
* In `Shell` the shell and each stage make their next step eventually, for the same reasons; a program ends
  after at most `MaxCalls` calls, and a console read finds its key.  Nothing makes the user type a line.
* No fairness for user programs otherwise, nor for the completion of blocked calls.

### Findings

`signals_return`: `sys_sigretrun` says "restore the trap context" and does, but
`trap_handler` then stores the result of the call in a0 of the restored context, so the interrupted
program resumes with a0 = 0.

`layout_inodes`: the inode area is meant to "store all the disk inodes" but is computed from bytes, and a
block holds only 3 inodes of 136 bytes; inode 3264 is in the data bitmap.

Without a run of their own, as exceptions that the properties name:

* mmap (`torn` in `OwnPagesOnly`): `MemorySet` says of its areas that they hold "all physical frames where
  current data stored".  `push` returns at the first page that cannot be mapped and drops the
  area, whose frames go back to the allocator, but the page-table entries of the pages already mapped
  stay and the process can still use them.  `OwnPagesOnly` shows that this is the only way.
* unlinkat (`removed` in `NamesExact`, `BindingStable` and `LinkCountExact`, `again` in the last one): it says "write a
  empty block to cover the old one" (`vfs.rs:269`, and `reports/lab6.md:160`) but writes the empty entry behind the last
  one, where nothing is written.  It returns 0 and the name stays, is found, and can be unlinked again, until the link
  count wraps.  The properties are about the names that were not unlinked; a link count is right up to the first name
  that is unlinked twice.  Where the directory exactly fills its direct blocks (448 entries) the same write looks up a
  block number in the super block, and the kernel stops (`LooksUpMagic`).
* names (`FindPanics`): `DirEntry::new` says "let it crash when buffer overflow"; a name of 28 bytes does not
  crash it and is stored without a terminating zero, and every later search that reaches it panics.
* structures (`Torn` in `StructExact`): a `TimeVal`, `Stat` or `SignalAction` that crosses a page is written into
  the physically next frame, whichever page that belongs to.
* pipes (`Stuck` in `LineEnds`): a stage whose reader has ended waits for ever once the ring is full, and with it
  the shell; even the flush of no bytes in `exit` waits.
* power loss (`FlushedNamesSurvive`): behind the names that a flush has covered there can be blank entries and
  entries read from the super block, names made by linkat since then may or may not be there, and where the number of an
  index block was lost a search that gets there panics; link counts may be off by the unflushed calls.
* initproc (`ZombiesOfInitReaped`): SIGSTOP to pid 0 stops it, and no zombie of it is reaped until a SIGCONT.
* ranges (`"range"` in `PanicsExplained`): see Memory.

## Proofs

All for every value of the constants under the named assumptions of the modules.

* `TasksProofs`: `IInv` joins the invariants of the run with `HeldIsLive` and `NoParent`
  (a free TCB has no parent).  They are proved together because each rests on the others: a fork finds
  the kernel stack free because owned pids are the mapped ones, `waitpid` finds one holder because the
  count is exact and a zombie is neither queued, current nor blocked, a dispatch finds its
  pid because the heap and the queue agree.  One lemma per action. `Refinement` maps the status to
  the abstract state and shows each step to be a step or a stutter of `Lifecycle`.
* `ControlProofs`, first part, the scheduler: `StrideInv` is the type, `HeapMatchesTcbs` and `LagWithinStride`.  With
  priorities of at least 2 a stride is less than half of the circle, hence any two
  queued passes are, hence the wrapped comparison is the order of lags (`ComparisonLemma`): this is the
  argument the code's `abs_diff` test relies on, for every word size.
* `ControlProofs`, second part, signals: `IInv` adds three facts to the invariants of the run.  `KilledMet`: a process with `killed`
  set still has SIGDEF or SIGKILL pending, so the one that leaves the freeze loop while it is stopped is
  the one of `FrozenStaysOff` (SIGKILL is fatal).  `BackupMain`: a backup taken outside of handlers is the main
  program's, for as long as `sys_sigretrun` leaves it there.  `FreshClean`: a process that has never run is
  neither stopped nor killed.  `SignalsKept` is the action property `NoSignalLost`.  Assumed: signal numbers below
  32, which is the width of `SignalFlags`, and masks of such signals.
* `PipeProofs`: `IInv` is the type, the ring facts, budgets, `CallHoldsEnd` and the end-of-file
  facts.  `TakeContents` and `PutContents` relate the ring to the queue of
  `Channel`; `Refinement` follows.
* `StorageProofs`, first part, the block cache: `CacheInv` is the type, `Good` (one entry per block, clean entries equal the device,
  held entries are in the queue once, for the present queue and device), coherence of each block
  with `latest`, durability, and what `sync_all` has passed so far. `Good` takes the queue and the
  device as parameters, because an eviction is two changes: `DropGood` is about the removal
  with write-back, `LoadInv` about the load that follows.  `SomeEvictable` is the pigeonhole argument
  behind `NoPanic`: fewer held blocks than entries leave one with count 1.  `CacheRefines`
  maps `View` (cache, else device) to the abstract array.
* `StorageProofs`, second part, the directory and its blocks: `DirInv` is `LinkCountExact` with the types and
  `EntriesExact`, which says of all entries, unlinked ones too, that names are unique and inodes allocated and that every
  inode has an entry.  `NamesExact` follows and is not inductive, since a lookup also meets unlinked entries; the number of
  inodes without a name is bounded by mapping each to a name that was unlinked.  That a link
  count is the number of names, modulo its width, is a fact about cardinalities of the sets of entries.
  `RecoveryRefines` carries the results to the directory on blocks, in the middle of a call as well as between
  calls.  For the power loss the invariant has to speak of all values that a block may be left with.
  `SinceCovers` says that each value in `since` covers the flushed entries: a bitmap counts at least their inodes or
  blocks, an index block their pointers, a data block has them as a prefix, the root inode their number.
  `TodoCovers` says the same of the stores that the call has still to make, and `WillCover` that, once they are made,
  the blocks cover all entries, which is what the next flush needs.  `FlushedSafety` follows for any directory
  size; `BlocksAreDurable` says that these blocks are the `DurableDisk` that the first part shows the cache to
  be.
* `InodesProofs`: for every number of direct blocks, every block size and every device.  `FilesInv` is the type,
  `SizesFit` (no file is larger than its tree can be, which is also the assertion inside `clear_size`), `TailsBlank`,
  `BlocksAccounted` and `OnlyLimitsPanic`.  `TailsBlank`, the cells between the end of a file and the end of its last
  block are zero, is what the refinement needs and the run's invariants do not say: a write behind the end makes
  them part of the file.  The tree is treated by slots.  `Lead`, the first data block that needs a slot, turns both
  traversals into comparisons: a file of n blocks has the slots with `Lead` below n, and growth from m to n fills those
  from m on.  Counting them gives `TotalBlocks`, hence the new blocks are as many as the slots and the assertion of
  `clear` holds at every boundary.  `Allocated` shows that `alloc_data` hands out different free blocks, `Handed` that
  each slot gets one of its own, `Grown` that after `increase_size` the new slots hold them and the
  old slots and all data are as before, although index blocks are filled while they are looked up: this rests
  on no two slots sharing a block.  `Writing` does the same for `write_at` and `Cleared` for `clear`.
  `FilesRefinement` adds that the cells of a tree are the plain file (`Contents`).  Assumed: at least one
  direct block and one entry per block, and `"none"` is not a file.
* `MemoryProofs`: `FramesPartition` counts places and is not inductive; `OneOwner` is: the frames in use are the
  disjoint union of what each space owns and of the area being built, and within a space tables, areas and
  stacks share nothing.  `JobOK` ties the call in progress to the states of the spaces, `FreeIsEmpty` says that a
  dropped space has given everything back, `Ahead` that the pages a call has still to map are unmapped and listed
  once, which is why `map`'s assertion holds, and `OfParent` that fork copies areas of its parent.  One lemma per
  action and conjunct; `PartitionSafety` goes from `OneOwner` to the cardinality of `Places`.  Assumed of the
  constants: the areas of a program image are disjoint and below the trampoline, as the linker script of the user programs lays them
  out and `from_elf` adds stack and trap context to them, and
  `"none"`, the mark of no space, is not a space.
* `UserMemoryProofs`: `Tiled` says that slice `i` is page `i` of the buffer, from the pointer or the start of the
  page up to the end of the page or of the buffer, and `Walked` that the iterator stands where the pointer plus
  the number of yielded bytes is.  With the uniqueness of page number and offset (`OneWay`) a byte of a slice
  translates to the byte that the program means, and `BufferExact` follows, also that the slice index of
  `UserBufferIterator::next` is never out of range.  `StructSafety` rests on `WordFits`: an aligned address leaves room
  for a word in its page, because the page size is a multiple of the word.  The arguments of exec have an invariant
  of their own, `Filled`: for each string pushed so far there is an address between the stack pointer and the vector
  where it lies with its zero, and which its slot of the vector holds; below the stack pointer nothing is written.
  A further push writes below the stack pointer and into the next slot, hence beside all of them (`StaysPlaced`), and
  `_start` finds the strings because the first zero behind an address is the string's own (`Found`).
* `ShellProofs`: for lines of any length and any mix of redirections.  `ShellInv` follows the shell and its
  children statement by statement.  `Place` says that the calls a child has still to make and its table go
  together: before and after each `open`, `close` and `dup` of its set-up it is known what is at 0, 1 and 2, how
  many of the inherited pipe ends are still open, and whether a file just opened lies behind them.  `PipesAbove`
  puts pipe k at descriptors 2k + 1 and 2k + 2, none below 3: this is why the lowest free descriptor after
  `close(0)` is 0, and why the child's `assert_eq!` on `dup` cannot fail.  `Table` is the form all of these
  tables have, and `FillFirst`, `FillSecond`, `FillNew` and `CloseEnd` are what `alloc_fd` and `close` do to
  it.  A child that gave up, or runs its program, has only calls that leave the table alone (`Harmless`).  The
  shell's own table shrinks end by end while it closes the pipes (`ShellTable`), and with the stages that are
  present in each of its loops (`Present`) `PromptSafety` follows.  Nothing is assumed beyond `ShellAssumption`.

Only model-checked, and why:

* Liveness (`ZombiesOfInitReaped`, `NoStarvation`, `NoMutualWait`, `EofDelivered`, `KillEnds`, `LineEnds`): they
  need fairness, about which the prover has no rules here.

## Not modelled, and the plan

1. Proofs: that the parts of `Layout` tile the device.
2. Contents of ordinary files across a power loss (`Inodes` over `DurableDisk`): nothing in the code promises
   more than `DurableDisk` does, so this would list what can go wrong and not what holds.

Not modelled: assembly, SBI and virtio drivers, the kernel heap, console formatting and the line editor,
the image builder (a host program that calls `create` and `write_at` once per file), and the
test programs (the models let user programs do any sequence of system calls).
