------------------------------- MODULE Inodes -------------------------------
(***************************************************************************)
(* The contents of files in easy-fs: the data bitmap, the block tree of an *)
(* inode (direct blocks, one index block, one index block of index         *)
(* blocks), and the open files of the kernel on top of them (bitmap.rs,    *)
(* layout.rs, vfs.rs, efs.rs; os/src/fs/inode.rs).                         *)
(*                                                                         *)
(* A block has Width cells.  A cell is the size of an index entry, so that *)
(* one index block has Width entries; sizes and offsets are counted in     *)
(* cells.  Block 0 is the super block.  Every operation runs under the     *)
(* lock of the file system and never suspends: it is one step.  All blocks *)
(* are seen through the block cache (module BlockCache: View).             *)
(***************************************************************************)
EXTENDS Integers, Sequences, FiniteSets, Functions

CONSTANTS File,     \* inodes of existing files
          Handle,   \* OSInode objects
          Direct,   \* INODE_DIRECT_COUNT
          Width,    \* INODE_INDIRECT1_COUNT
          Area,     \* data_area_blocks
          Val,      \* values of a cell that programs write
          Lens,     \* cells in one slice of a user buffer
          Flags,    \* sets of OpenFlags that programs use
          MaxCalls  \* bound: system calls

ASSUME InodesAssumption ==
    /\ Direct \in Nat \ {0} /\ Width \in Nat \ {0} /\ Area \in Nat /\ MaxCalls \in Nat
    /\ Lens \subseteq Nat \ {0} /\ 0 \notin Val /\ "none" \notin File
    /\ Flags \subseteq SUBSET {"WRONLY", "RDWR", "CREATE", "TRUNC"}

VARIABLES inode,   \* size, direct, indirect1 and indirect2 of each DiskInode
          disk,    \* the cells of each block
          used,    \* the data bitmap: blocks whose bit is set
          handle,  \* open files: inode, offset, readable, writable
          calls,   \* number of system calls
          panic    \* the check that has failed, or "no"

vars == <<inode, disk, used, handle, calls, panic>>

Block == 0 .. Area
Cell == 0 .. Width - 1
Indirect1Bound == Direct + Width
Indirect2Bound == Indirect1Bound + Width * Width
ZeroBlock == [i \in Cell |-> 0]
Closed == [file |-> "none", offset |-> 0, readable |-> FALSE, writable |-> FALSE]

Least(a, b) == IF a < b THEN a ELSE b
Most(a, b)  == IF a > b THEN a ELSE b

\* DiskInode::initialize
NewInode == [size |-> 0, direct |-> [i \in 0 .. Direct - 1 |-> 0], indirect1 |-> 0, indirect2 |-> 0]

\* All blocks are cleared when the file system is created.
Init ==
    /\ inode = [f \in File |-> NewInode]
    /\ disk = [b \in Block |-> ZeroBlock]
    /\ used = {}
    /\ handle = [h \in Handle |-> Closed]
    /\ calls = 0 /\ panic = "no"

----------------------------------------------------------------------------
\* The block tree.

DataBlocks(size) == (size + Width - 1) \div Width

\* Faulty variant: the index blocks under indirect2 are rounded down.
TotalBlocks_RoundsDown(size) ==
    LET n == DataBlocks(size) IN
    n + (IF n > Direct THEN 1 ELSE 0)
      + (IF n > Indirect1Bound THEN 1 + (n - Indirect1Bound) \div Width ELSE 0)

\* Blocks that a file of this size has, index blocks included.
TotalBlocks(size) ==
    LET n == DataBlocks(size) IN
    n + (IF n > Direct THEN 1 ELSE 0)
      + (IF n > Indirect1Bound
         THEN 1 + (n - Indirect1Bound + Width - 1) \div Width ELSE 0)

\* The data block number n of a file.
GetBlockId(d, ino, n) ==
    LET last == n - Indirect1Bound IN
    IF n < Direct THEN ino.direct[n]
    ELSE IF n < Indirect1Bound THEN d[ino.indirect1][n - Direct]
    ELSE d[d[ino.indirect2][last \div Width]][last % Width]

\* A slot is a place in a block tree that holds a block number: the kind, and the index
\* within its kind.  "middle" are the entries of indirect2, "second" those of the index
\* blocks under it, counted through.
At(d, ino, slot) ==
    LET i == slot[2] IN
    CASE slot[1] = "direct"    -> ino.direct[i]
      [] slot[1] = "indirect1" -> ino.indirect1
      [] slot[1] = "first"     -> d[ino.indirect1][i]
      [] slot[1] = "indirect2" -> ino.indirect2
      [] slot[1] = "middle"    -> d[ino.indirect2][i]
      [] slot[1] = "second"    -> d[d[ino.indirect2][i \div Width]][i % Width]

\* The slots that DiskInode::clear_size visits in a file of n data blocks: a1 full index
\* blocks under indirect2 and b1 entries of the last one.
Slots(n) ==
    LET a1 == (n - Indirect1Bound) \div Width
        b1 == (n - Indirect1Bound) % Width
    IN  ({"direct"} \X (0 .. Least(n, Direct) - 1))
        \cup (IF n > Direct
              THEN {<<"indirect1", 0>>} \cup ({"first"} \X (0 .. Least(n - Direct, Width) - 1))
              ELSE {})
        \cup (IF n > Indirect1Bound
              THEN {<<"indirect2", 0>>}
                   \cup ({"middle"} \X ((0 .. a1 - 1) \cup (IF b1 > 0 THEN {a1} ELSE {})))
                   \cup ({"second"} \X (0 .. a1 * Width + b1 - 1))
              ELSE {})

\* The slots that DiskInode::increase_size fills when a file grows from cur to tot data
\* blocks: c1 and c2 are where current_blocks stands behind the direct blocks and behind
\* the ones under indirect1.  An index block is new if its first entry is.
NewSlots(cur, tot) ==
    LET c1 == Most(cur, Least(tot, Direct))
        c2 == Most(c1, Least(tot, Indirect1Bound))
        under == (c2 - Indirect1Bound) .. (tot - Indirect1Bound - 1)
    IN  ({"direct"} \X (cur .. Least(tot, Direct) - 1))
        \cup (IF tot > Direct
              THEN (IF c1 = Direct THEN {<<"indirect1", 0>>} ELSE {})
                   \cup ({"first"} \X (c1 - Direct .. Least(tot - Direct, Width) - 1))
              ELSE {})
        \cup (IF tot > Indirect1Bound
              THEN (IF c2 = Indirect1Bound THEN {<<"indirect2", 0>>} ELSE {})
                   \cup ({"middle"} \X {j \div Width : j \in {k \in under : k % Width = 0}})
                   \cup ({"second"} \X under)
              ELSE {})

\* The order in which increase_size fills slots: that of the data blocks, each index block
\* just before the first data block under it, indirect2 before its first entry.
Order(slot) ==
    LET i == slot[2] IN
    CASE slot[1] = "direct"    -> 3 * i + 2
      [] slot[1] = "indirect1" -> 3 * Direct
      [] slot[1] = "first"     -> 3 * (Direct + i) + 2
      [] slot[1] = "indirect2" -> 3 * Indirect1Bound
      [] slot[1] = "middle"    -> 3 * (Indirect1Bound + i * Width) + 1
      [] slot[1] = "second"    -> 3 * (Indirect1Bound + i) + 2

\* new_blocks.next() for each slot, in that order.
NextBlocks(slots, new) ==
    [slot \in slots |-> new[Cardinality({r \in slots : Order(r) <= Order(slot)})]]

\* DiskInode::increase_size
IncreaseSize(d, ino, size, new) ==
    LET slots == NewSlots(DataBlocks(ino.size), DataBlocks(size))
        next == NextBlocks(slots, new)
        fill(slot, old) == IF slot \in slots THEN next[slot] ELSE old
        i1 == fill(<<"indirect1", 0>>, ino.indirect1)
        i2 == fill(<<"indirect2", 0>>, ino.indirect2)
        mid == [a \in Cell |-> fill(<<"middle", a>>, d[i2][a])]
        under(b, i) == {a \in Cell : <<"second", a * Width + i>> \in slots /\ mid[a] = b}
    IN  [ino  |-> [size |-> size,
                   direct |-> [i \in 0 .. Direct - 1 |-> fill(<<"direct", i>>, ino.direct[i])],
                   indirect1 |-> i1, indirect2 |-> i2],
         disk |-> [b \in Block |-> [i \in Cell |->
                     IF b = i1 /\ <<"first", i>> \in slots THEN next[<<"first", i>>]
                     ELSE IF b = i2 /\ <<"middle", i>> \in slots THEN mid[i]
                     ELSE IF under(b, i) # {}
                          THEN next[<<"second", (CHOOSE a \in under(b, i) : TRUE) * Width + i>>]
                     ELSE d[b][i]]]]

\* The blocks that DiskInode::clear_size returns, by the slot they come from.
ClearList(d, ino) == [slot \in Slots(DataBlocks(ino.size)) |-> At(d, ino, slot)]

\* The inode after clear_size.
ClearSize(ino) ==
    LET n == DataBlocks(ino.size) IN
    [size |-> 0,
     direct |-> [i \in 0 .. Direct - 1 |-> IF i < n THEN 0 ELSE ino.direct[i]],
     indirect1 |-> IF n > Direct THEN 0 ELSE ino.indirect1,
     indirect2 |-> IF n > Indirect1Bound THEN 0 ELSE ino.indirect2]

\* DiskInode::read_at
ReadAt(d, ino, offset, n) ==
    LET end == Least(offset + n, ino.size) IN
    [k \in 1 .. Most(end - offset, 0) |->
        d[GetBlockId(d, ino, (offset + k - 1) \div Width)][(offset + k - 1) % Width]]

\* DiskInode::write_at, with the same value in all cells.
WriteAt(d, ino, offset, n, v) ==
    LET end == Least(offset + n, ino.size)
        touched == {<<GetBlockId(d, ino, p \div Width), p % Width>> : p \in offset .. end - 1}
    IN  [b \in Block |-> [i \in Cell |-> IF <<b, i>> \in touched THEN v ELSE d[b][i]]]

----------------------------------------------------------------------------
Panic(why) ==
    /\ panic' = why
    /\ UNCHANGED <<inode, disk, used, handle>>

Calls ==
    /\ panic = "no" /\ calls < MaxCalls
    /\ calls' = calls + 1

Free == (1 .. Area) \ used

\* Faulty variant: the bit after the lowest clear one is taken for free.
AllocData_Used(n) ==
    [k \in 1 .. n |-> (CHOOSE b \in Free : Free \cap 1 .. b = {b}) + k - 1]

\* n times EasyFileSystem::alloc_data: the lowest clear bits of the bitmap.  Its bits
\* beyond the data area stand for blocks the device does not have: the last block of
\* an increase is written at once, and the device fails.
AllocData(n) == [k \in 1 .. n |-> CHOOSE b \in Free : Cardinality(Free \cap 1 .. b) = k]

\* Faulty variant: blocks keep their contents.
Zeroed_Not(bs) == disk

Zeroed(bs) == [b \in Block |-> IF b \in bs THEN ZeroBlock ELSE disk[b]]

\* The assertion of Bitmap::dealloc: a bit that is not set, or is cleared twice.
DeallocFails(v) == ~IsInjective(v) \/ ~(Range(v) \subseteq used)

\* Inode::clear with dealloc_data of each block, then the handle is made.
ClearAndOpen(h, f, new) ==
    LET v == ClearList(disk, inode[f]) IN
    IF Cardinality(DOMAIN v) # TotalBlocks(inode[f].size) THEN Panic("clear")
    ELSE IF DeallocFails(v) THEN Panic("dealloc")
    ELSE /\ inode' = [inode EXCEPT ![f] = ClearSize(@)]
         /\ disk' = Zeroed(Range(v))
         /\ used' = used \ Range(v)
         /\ handle' = [handle EXCEPT ![h] = new]
         /\ UNCHANGED panic

\* OpenFlags::read_write
Readable(flags) == "WRONLY" \notin flags
Writable(flags) == flags # {}

\* open_file of a file that exists; CREATE clears it, as TRUNC does.
OpenFile(h, f, flags) ==
    LET new == [file |-> f, offset |-> 0,
                readable |-> Readable(flags), writable |-> Writable(flags)]
    IN
    /\ Calls /\ handle[h] = Closed
    /\ IF flags \cap {"CREATE", "TRUNC"} # {}
       THEN ClearAndOpen(h, f, new)
       ELSE /\ handle' = [handle EXCEPT ![h] = new]
            /\ UNCHANGED <<inode, disk, used, panic>>

\* The last descriptor of an open file is closed.
Close(h) ==
    /\ Calls /\ handle[h] # Closed
    /\ handle' = [handle EXCEPT ![h] = Closed]
    /\ UNCHANGED <<inode, disk, used, panic>>

\* OSInode::read of one slice.
Read(h, n) ==
    /\ Calls /\ handle[h] # Closed /\ handle[h].readable
    /\ handle' = [handle EXCEPT ![h].offset =
                    @ + Len(ReadAt(disk, inode[handle[h].file], @, n))]
    /\ UNCHANGED <<inode, disk, used, panic>>

BlocksNumNeeded(ino, size) == TotalBlocks(size) - TotalBlocks(ino.size)

\* Inode::increase_size: the new blocks, and the inode and the disk with them.
NewBlocks(ino, size) ==
    IF size < ino.size THEN <<>> ELSE AllocData(BlocksNumNeeded(ino, size))
Resized(ino, size) ==
    IF size < ino.size THEN [ino |-> ino, disk |-> disk]
    ELSE IncreaseSize(disk, ino, size, NewBlocks(ino, size))

\* What goes wrong in it: alloc_data finds no block, an index beyond the last block of
\* the tree, or too few blocks for the slots.
Obstacle(ino, size) ==
    LET needed == BlocksNumNeeded(ino, size) IN
    IF size < ino.size THEN "no"
    ELSE IF needed > Cardinality(Free) THEN "full"
    ELSE IF DataBlocks(size) > Indirect2Bound THEN "big"
    ELSE IF Cardinality(NewSlots(DataBlocks(ino.size), DataBlocks(size))) > needed THEN "unwrap"
    ELSE "no"

\* OSInode::write of one slice, with Inode::write_at.
Write(h, n, v) ==
    LET f == handle[h].file
        offset == handle[h].offset
        size == offset + n
        t == Resized(inode[f], size)
    IN
    /\ Calls /\ handle[h] # Closed /\ handle[h].writable
    /\ IF Obstacle(inode[f], size) # "no" THEN Panic(Obstacle(inode[f], size))
       ELSE /\ inode' = [inode EXCEPT ![f] = t.ino]
            /\ disk' = WriteAt(t.disk, t.ino, offset, n, v)
            /\ used' = used \cup Range(NewBlocks(inode[f], size))
            /\ handle' = [handle EXCEPT ![h].offset = size]
            /\ UNCHANGED panic

Next ==
    \E h \in Handle :
       \/ \E f \in File, flags \in Flags : OpenFile(h, f, flags)
       \/ Close(h)
       \/ \E n \in Lens : Read(h, n) \/ \E v \in Val : Write(h, n, v)

Spec == Init /\ [][Next]_vars

----------------------------------------------------------------------------
Tree(f) == ClearList(disk, inode[f])

\* Every data block whose bit is set is in the tree of exactly one file, exactly once,
\* as data or as index, and every other block is zero: nothing leaks when a file grows
\* through the levels of its tree or is cleared, and no two files share a block.
BlocksAccounted ==
    /\ \A f \in File : IsInjective(Tree(f))
    /\ \A f, g \in File : f # g => Range(Tree(f)) \cap Range(Tree(g)) = {}
    /\ used = UNION {Range(Tree(f)) : f \in File}
    /\ \A b \in Block \ used : disk[b] = ZeroBlock

\* The assertion of Inode::clear, the one of Bitmap::dealloc and the unwraps in
\* increase_size never fail: a panic means that the device is full or the file too big.
OnlyLimitsPanic == panic \in {"no", "full", "big"}

\* The block trees implement plain files, also for a handle whose file was cleared through
\* another one: what it leaves out reads as zero.
Plain == INSTANCE PlainFiles WITH
            Name <- File, Hnd <- Handle, Data <- Val, Chunk <- Lens, Blank <- 0, Shut <- Closed,
            content <- [f \in File |-> ReadAt(disk, inode[f], 0, inode[f].size)],
            pos <- [h \in Handle |-> IF handle[h] = Closed THEN Closed
                                     ELSE [file |-> handle[h].file, offset |-> handle[h].offset]]

PlainSpec == Plain!PSpec
=============================================================================
