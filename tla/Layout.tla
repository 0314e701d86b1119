------------------------------- MODULE Layout -------------------------------
(***************************************************************************)
(* How EasyFileSystem::create divides the device, how open finds the parts *)
(* again from the super block, and where inodes go (efs.rs, bitmap.rs):    *)
(*                                                                         *)
(*   super block | inode bitmap | inodes | data bitmap | data blocks       *)
(***************************************************************************)
EXTENDS Naturals

CONSTANTS BlockSz,      \* BLOCK_SZ
          InodeSz,      \* size_of::<DiskInode>()
          Totals,       \* sizes of devices, in blocks
          BitmapBlocks  \* numbers of inode bitmap blocks

VARIABLES sb,     \* the super block, or None
          efs,    \* EasyFileSystem: starts of the parts, or None
          inodes  \* inodes allocated; none is ever given back

vars == <<sb, efs, inodes>>

None == [total |-> 0]

BlockBits == BlockSz * 8

\* The quotient rounded up.
CeilDiv(a, b) == (a + b - 1) \div b

\* Bitmap::max_bits of the inode bitmap.
InodeNum(s) == s.inode_bitmap * BlockBits

Init == sb = None /\ efs = None /\ inodes = 0

----------------------------------------------------------------------------
\* A bitmap block and the blocks it describes are BlockBits + 1 blocks.
DataBitmapBlocks(n) == (n + BlockBits) \div (BlockBits + 1)

\* The super block that create writes.
Divide(total, bitmap) ==
    LET area == CeilDiv(bitmap * BlockBits * InodeSz, BlockSz)
        rest == total - 1 - (bitmap + area)
    IN  [total |-> total, inode_bitmap |-> bitmap, inode_area |-> area,
         data_bitmap |-> DataBitmapBlocks(rest),
         data_area |-> rest - DataBitmapBlocks(rest)]

\* The starts that create computes; it allocates inode 0 for the root.  The caller gives
\* it a device with room for more than the inodes (the subtraction would wrap).
Create(total, bitmap) ==
    LET s == Divide(total, bitmap) IN
    /\ sb = None
    /\ total > 1 + s.inode_bitmap + s.inode_area
    /\ sb' = s
    /\ efs' = [inode_bitmap |-> 1, inode_area |-> 1 + s.inode_bitmap,
               data_bitmap |-> 1 + s.inode_bitmap + s.inode_area,
               data_area |-> 1 + s.inode_bitmap + s.inode_area + s.data_bitmap]
    /\ inodes' = 1

\* The machine is off; the device keeps the super block.
Shutdown ==
    /\ efs # None
    /\ efs' = None
    /\ UNCHANGED <<sb, inodes>>

\* open reads the numbers of the super block.
Open ==
    LET t == sb.inode_bitmap + sb.inode_area IN
    /\ sb # None /\ efs = None
    /\ efs' = [inode_bitmap |-> 1, inode_area |-> 1 + sb.inode_bitmap,
               data_bitmap |-> 1 + t, data_area |-> 1 + t + sb.data_bitmap]
    /\ UNCHANGED <<sb, inodes>>

\* alloc_inode; the unwrap fails when all bits are set.
AllocInode ==
    /\ efs # None /\ inodes < InodeNum(sb)
    /\ inodes' = inodes + 1
    /\ UNCHANGED <<sb, efs>>

Next ==
    \/ \E total \in Totals, bitmap \in BitmapBlocks : Create(total, bitmap)
    \/ Shutdown \/ Open \/ AllocInode

Spec == Init /\ [][Next]_vars

----------------------------------------------------------------------------
\* The block of an inode: get_disk_inode_pos.
InodeBlock(i) == efs.inode_area + i \div (BlockSz \div InodeSz)

\* create reserves the "blocks needed to store all the disk inodes": every inode that
\* the bitmap hands out lies in the inode area.
InodesInArea ==
    efs # None => \A i \in 0 .. inodes - 1 : InodeBlock(i) < efs.data_bitmap
=============================================================================
