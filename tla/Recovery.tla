------------------------------ MODULE Recovery ------------------------------
(***************************************************************************)
(* What a power loss leaves of the root directory.  The calls of module    *)
(* Directory run on the blocks of the file system: create, linkat and      *)
(* unlinkat store into the inode bitmap, blocks of inodes, the data        *)
(* bitmap, index blocks and data blocks of the directory one after the     *)
(* other, and only create ends with block_cache_sync_all (vfs.rs).  The    *)
(* blocks are those of module DurableDisk, which the block cache           *)
(* implements: a power loss keeps of each block, by itself, one of the     *)
(* values it had since the last flush.                                     *)
(*                                                                         *)
(* The root inode changes inside one closure of modify_disk_inode, during  *)
(* which its block cannot be evicted: its new size and pointers are one    *)
(* store.  Data blocks given to the directory are zero (dealloc_data       *)
(* clears them and Inode::clear flushes).  The behaviour ends with the     *)
(* power loss.                                                             *)
(***************************************************************************)
EXTENDS Directory

CONSTANTS InodesPerBlock, \* BLOCK_SZ / size_of::<DiskInode>()
          MaxUnflushed    \* bound: calls of linkat and unlinkat between two flushes

ASSUME RecoveryAssumption == InodesPerBlock \in Nat \ {0} /\ MaxUnflushed \in Nat

VARIABLES
    view, since,  \* the blocks, as in module DurableDisk
    todo,         \* stores that the call in progress has still to make
    flush,        \* the call ends with block_cache_sync_all
    kept,         \* history: entries there were at the last flush that was completed
    unflushed,    \* calls of linkat and unlinkat since then
    off           \* the power has failed

rvars == <<view, since, todo, flush, kept, unflushed, off>>

----------------------------------------------------------------------------
\* The blocks.

Bound == Direct + Width

\* Data blocks of a directory of c entries.
DirBlocks(c) == (c + PerBlock - 1) \div PerBlock

MaxBlocks == DirBlocks(MaxCalls)

\* Index block 0 is indirect1, the others are those under indirect2.
IndexOf(b) == IF b < Bound THEN 0 ELSE 1 + (b - Bound) \div Width
SlotOf(b)  == IF b < Bound THEN b - Direct ELSE (b - Bound) % Width

Bitmap     == <<"inode_bitmap", 0>>
DataBitmap == <<"data_bitmap", 0>>
Indirect2  == <<"indirect2", 0>>
Index(x)   == <<"index", x>>
InodeBlock(j) == <<"inodes", j>>
DataBlock(b)  == <<"data", b>>

\* get_disk_inode_pos
PosOf(inode) == inode \div InodesPerBlock

Block == {Bitmap, DataBitmap, Indirect2}
         \cup {Index(x) : x \in 0 .. IndexOf(MaxBlocks)}
         \cup {InodeBlock(j) : j \in 0 .. PosOf(MaxInodes - 1)}
         \cup {DataBlock(b) : b \in 0 .. MaxBlocks - 1}

\* Inodes of block j with the link counts links; the root inode's size is size.
Inodes(j, links, size) ==
    [links |-> [m \in 0 .. InodesPerBlock - 1 |->
                  LET k == j * InodesPerBlock + m + 1
                  IN  IF k \in DOMAIN links THEN links[k] ELSE 0],
     size  |-> IF j = 0 THEN size ELSE 0]

\* The entries of es in data block b.
EntriesIn(b, es) ==
    SubSeq(es, b * PerBlock + 1,
           IF Len(es) < (b + 1) * PerBlock THEN Len(es) ELSE (b + 1) * PerBlock)

\* A fresh file system: bitmaps, index blocks and indirect2 count their bits and
\* entries, a data block is the sequence of its entries before the zeros.
Fresh(k) ==
    CASE k = Bitmap          -> 1
      [] k[1] = "inodes"     -> Inodes(k[2], <<1>>, 0)
      [] k[1] = "data"       -> <<>>
      [] OTHER               -> 0

Content == Nat \cup Seq([name : Name, inode : Nat])
               \cup [links : [0 .. InodesPerBlock - 1 -> Nat], size : Nat]

Disk == INSTANCE DurableDisk WITH Key <- Block, Datum <- Content

RInit ==
    /\ Init
    /\ view = [k \in Block |-> Fresh(k)]
    /\ since = [k \in Block |-> {Fresh(k)}]
    /\ todo = <<>> /\ flush = FALSE
    /\ kept = 0 /\ unflushed = 0 /\ off = FALSE

----------------------------------------------------------------------------
\* The stores of a call.

Store(k, d) == <<[block |-> k, data |-> d]>>
When(cond, stores) == IF cond THEN stores ELSE <<>>

\* Blocks of a directory of c entries, with its index blocks.
TotalBlocks(c) ==
    LET n == DirBlocks(c)
    IN  n + (IF n > Direct THEN 1 ELSE 0)
          + (IF n > Bound THEN 1 + (n - Bound + Width - 1) \div Width ELSE 0)

\* increase_size and write_at of the root inode for the last entry of es, with
\* the link counts links: the data bitmap, the pointers to a new block, the entry,
\* and the root inode when its closure ends.
Appended(es, links) ==
    LET c == Len(es) - 1
        b == c \div PerBlock
        new == c % PerBlock = 0
    IN  When(new, Store(DataBitmap, view[DataBitmap] + (TotalBlocks(c + 1) - TotalBlocks(c))))
        \o When(new /\ b >= Direct, Store(Index(IndexOf(b)), SlotOf(b) + 1))
        \o When(new /\ b >= Bound /\ SlotOf(b) = 0, Store(Indirect2, IndexOf(b)))
        \o Store(DataBlock(b), EntriesIn(b, es))
        \o Store(InodeBlock(0), Inodes(0, links, Len(es)))

\* The inode block of inode, with the size that the root has before the call.
Relinked(inode, links) ==
    Store(InodeBlock(PosOf(inode)), Inodes(PosOf(inode), links, Count))

\* alloc_inode, initialize, then the entry; a panic on the way ends the stores.
CreateStores ==
    When(NewInode < MaxInodes,
         Store(Bitmap, NewInode + 1) \o Relinked(NewInode, Append(nlink, 1)))
    \o When(panic' = "no", Appended(entries', nlink'))

\* inc_nlink, then the entry
LinkatStores(inode) ==
    Relinked(inode, Linked(inode)) \o When(panic' = "no", Appended(entries', nlink'))

Starts == todo = <<>> /\ ~flush /\ ~off

\* A call that does not flush.
Unflushed == unflushed < MaxUnflushed /\ unflushed' = unflushed + 1

RCreate(n) ==
    /\ Starts /\ Create(n)
    /\ todo' = When(panic' # "find", CreateStores)
    /\ flush' = (panic' = "no")
    /\ UNCHANGED <<view, since, kept, unflushed, off>>

RLinkat(old, new) ==
    /\ Starts /\ Unflushed /\ Linkat(old, new)
    /\ todo' = When(panic' # "find", LinkatStores(FindInode(old)))
    /\ UNCHANGED <<view, since, flush, kept, off>>

\* dec_nlink; the store behind the end of the directory changes nothing.
RUnlinkat(n) ==
    /\ Starts /\ Unflushed /\ Unlinkat(n)
    /\ todo' = When(panic' = "no", Relinked(FindInode(n), nlink'))
    /\ UNCHANGED <<view, since, flush, kept, off>>

\* BlockCache::modify of the next block
StoreNext ==
    /\ todo # <<>> /\ ~off
    /\ Disk!Write(todo[1].block, todo[1].data)
    /\ todo' = Tail(todo)
    /\ UNCHANGED <<vars, flush, kept, unflushed, off>>

\* Faulty variant: nothing is written back.
SyncAll_Nothing == UNCHANGED <<view, since>>

\* block_cache_sync_all
SyncAll == Disk!Flush

\* The flush at the end of create, of a write to some file or of its clearing.
Sync ==
    /\ todo = <<>> /\ panic = "no" /\ ~off
    /\ SyncAll
    /\ flush' = FALSE /\ kept' = Count /\ unflushed' = 0
    /\ UNCHANGED <<vars, todo, off>>

\* What may remain of the blocks of K: each has one of the values of since.
Remains(K) ==
    {f \in [K -> UNION {since[k] : k \in K}] : \A k \in K : f[k] \in since[k]}

\* Blocks that the last flush does not cover, by what they hold.
Unsaved  == {k \in Block : since[k] # {view[k]}}
OfInodes == {k \in Unsaved : k[1] = "inodes"}
OfData   == {k \in Unsaved : k[1] = "data"}
Counters == Unsaved \ (OfInodes \cup OfData)

\* Also after a panic, which does not write blocks back.
PowerLoss ==
    /\ ~off /\ off' = TRUE
    /\ \E c \in Remains(Counters), i \in Remains(OfInodes), d \in Remains(OfData) :
         view' = [k \in Block |-> IF k \in Counters THEN c[k]
                                  ELSE IF k \in OfInodes THEN i[k]
                                  ELSE IF k \in OfData THEN d[k] ELSE view[k]]
    /\ since' = [k \in Block |-> {view'[k]}]
    /\ UNCHANGED <<vars, todo, flush, kept, unflushed>>

RNext ==
    \/ \E n \in Name : RCreate(n) \/ RUnlinkat(n)
    \/ \E n, m \in Name : RLinkat(n, m)
    \/ StoreNext \/ Sync \/ PowerLoss

RSpec == RInit /\ [][RNext]_<<vars, rvars>>

----------------------------------------------------------------------------
\* What find reads when the file system is opened again.

Blank == [name |-> "", inode |-> 0]

\* The super block read as directory entries: the low byte of efs_magic, "\x01", is the
\* first name, and what follows the fields of the super block is zero.
SuperEntry == [name |-> "x01", inode |-> 0]

\* get_block_id of data block b fails: its index block has no number in indirect2, the
\* super block is taken for it, and the magic number for a block of the device.
LookupFails(b) == b >= Bound /\ view[Indirect2] < IndexOf(b)

\* get_block_id returns 0, the super block: the index block does not have the number of b.
LostBlock(b) == b >= Direct /\ view[Index(IndexOf(b))] <= SlotOf(b)

BlockOfEntry(i) == (i - 1) \div PerBlock

\* What read_at finds as entry i, where the lookup of its block does not fail.
EntryAt(i) ==
    LET b == BlockOfEntry(i)
        m == ((i - 1) % PerBlock) + 1
    IN  IF LostBlock(b) THEN IF m = 1 THEN SuperEntry ELSE Blank
        ELSE IF m <= Len(view[DataBlock(b)]) THEN view[DataBlock(b)][m]
        ELSE Blank

\* find reads the entries in order: it does not get beyond a lookup that fails.
Readable(i) == \A j \in 1 .. i : ~LookupFails(BlockOfEntry(j))

Size == view[InodeBlock(0)].size

\* Whenever the power fails, also in the middle of a call, all names that a flush
\* has covered are there with their inodes, and find reaches them; the bitmaps still mark
\* these inodes and the blocks that hold the names, so that none of them is handed out
\* again.  What find reads behind them are entries of the calls since then, blank ones, or
\* the super block in the place of a block whose number was lost: no name that a program
\* gave comes back bound to another inode.
FlushedNamesSurvive ==
    off =>
       /\ Size >= kept
       /\ \A i \in 1 .. kept : /\ Readable(i) /\ EntryAt(i) = entries[i]
                               /\ entries[i].inode < view[Bitmap]
       /\ TotalBlocks(kept) <= view[DataBitmap]
       /\ \A i \in kept + 1 .. Size :
            Readable(i) => EntryAt(i) \in {Blank, SuperEntry, entries[i]}
============================================================================
