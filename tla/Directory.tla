----------------------------- MODULE Directory -----------------------------
(***************************************************************************)
(* The root directory of easy-fs, the only one: names, inode numbers and   *)
(* link counts under open with CREATE, linkat and unlinkat (vfs.rs,        *)
(* layout.rs).  Each call runs without suspending: it is one step.         *)
(*                                                                         *)
(* A name is a model value with a length.  A directory entry has room for  *)
(* NAME_LENGTH_LIMIT + 1 bytes, the last of which should stay 0:           *)
(* DirEntry::name looks for the first 0 and panics if there is none.       *)
(***************************************************************************)
EXTENDS Naturals, Sequences, FiniteSets

CONSTANTS Name,      \* paths that programs use
          Length,    \* their lengths
          Limit,     \* NAME_LENGTH_LIMIT
          PerBlock,  \* BLOCK_SZ / DIRENT_SZ
          Direct,    \* INODE_DIRECT_COUNT
          Width,     \* INODE_INDIRECT1_COUNT
          MaxInodes, \* bits of the inode bitmap
          Word,      \* link counts are below Word (2^32)
          MaxCalls   \* bound: system calls

ASSUME DirectoryAssumption ==
    /\ Length \in [Name -> Nat] /\ Limit \in Nat /\ MaxCalls \in Nat
    /\ PerBlock \in Nat \ {0} /\ Direct \in Nat \ {0} /\ Width \in Nat \ {0}
    /\ MaxInodes \in Nat \ {0} /\ Word \in Nat \ {0, 1}

VARIABLES entries,  \* the directory entries in the order of the file
          nlink,    \* link count of each inode allocated, inode 0 is the root
          removed,  \* history: names that unlinkat has reported as removed
          again,    \* history: names that it has reported as removed more than once
          calls,    \* number of system calls
          panic     \* what the kernel has died of, or "no"

vars == <<entries, nlink, removed, again, calls, panic>>

Init ==
    /\ entries = <<>>
    /\ nlink = <<1>>
    /\ removed = {} /\ again = {}
    /\ calls = 0 /\ panic = "no"

\* The inode with the next free bit.  nlink is a sequence: inode i is at i + 1.
NewInode == Len(nlink)

----------------------------------------------------------------------------
Count == Len(entries)

Unterminated(i) == Length[entries[i].name] > Limit

\* DirEntry::name of an entry before the first match, or of the match, panics.
FindPanics(n) ==
    \E i \in DOMAIN entries :
       Unterminated(i) /\ \A j \in 1 .. i - 1 : entries[j].name # n

\* Faulty variant: the last entry is not looked at.
Found_SkipsLast(n) == \E i \in 1 .. Count - 1 : entries[i].name = n

\* find_inode_id
Found(n) == \E i \in DOMAIN entries : entries[i].name = n
FindInode(n) ==
    LET i == CHOOSE i \in DOMAIN entries :
                entries[i].name = n /\ \A j \in 1 .. i - 1 : entries[j].name # n
    IN  entries[i].inode

Panic(why) ==
    /\ panic' = why
    /\ UNCHANGED <<entries, nlink, removed, again>>

Calls ==
    /\ panic = "no" /\ calls < MaxCalls
    /\ calls' = calls + 1

\* The directory needs a new data block for one more entry.
NeedsBlock == Count % PerBlock = 0

\* The new entry: data blocks may run out (all other files use them too), and
\* DirEntry::new panics if the name does not fit into the field.
AddEntry(n, inode, links) ==
    \/ NeedsBlock /\ Panic("full")
    \/ IF Length[n] > Limit + 1 THEN Panic("name")
       ELSE /\ entries' = Append(entries, [name |-> n, inode |-> inode])
            /\ nlink' = links
            /\ removed' = removed \ {n}
            /\ UNCHANGED <<again, panic>>

\* open_file with CREATE of a name that is not there: find, then Inode::create.  An open
\* without CREATE, or of a name that is there, has no effect here but the panic of find.
Create(n) ==
    /\ Calls
    /\ IF FindPanics(n) THEN Panic("find")
       ELSE /\ ~Found(n)
            /\ IF NewInode = MaxInodes THEN Panic("inodes")
               ELSE AddEntry(n, NewInode, Append(nlink, 1))

\* inc_nlink
Linked(inode) == [nlink EXCEPT ![inode + 1] = (@ + 1) % Word]

\* Inode::linkat: -1 if the new name is there or the old one is not.
Linkat(old, new) ==
    /\ Calls
    /\ IF FindPanics(new) \/ (~Found(new) /\ FindPanics(old)) THEN Panic("find")
       ELSE /\ ~Found(new) /\ Found(old)
            /\ AddEntry(new, FindInode(old), Linked(FindInode(old)))

\* write_at of the empty entry behind the last one: no byte of it is below the size, but
\* the block that would hold it is looked up.  Behind a block the next number is 0 (the
\* super block, which is left as it is), or is read from the super block as if that
\* were an index block: its first word, the magic number, is no block of the device.
LooksUpMagic ==
    LET b == Count \div PerBlock
        bound == Direct + Width
    IN  /\ Count % PerBlock = 0
        /\ b = Direct \/ (b >= bound /\ (b - bound) % Width = 0)

\* Faulty variant: the link count is not lowered.
Unlinked_Not(inode) == nlink

\* dec_nlink; in a release build the count wraps
Unlinked(inode) == [nlink EXCEPT ![inode + 1] = (@ + Word - 1) % Word]

\* Faulty variant: the empty entry covers the last one.
EntriesAfterUnlink_LastGone(n) == SubSeq(entries, 1, Count - 1)

\* The entries after the write_at of unlinkat, which begins at the end of the file.
EntriesAfterUnlink(n) == entries

\* Inode::unlinkat of a name that is there, with dec_nlink.
Unlinkat(n) ==
    /\ Calls
    /\ IF FindPanics(n) THEN Panic("find")
       ELSE /\ Found(n)
            /\ IF LooksUpMagic THEN Panic("device")
               ELSE /\ nlink' = Unlinked(FindInode(n))
                    /\ entries' = EntriesAfterUnlink(n)
                    /\ removed' = removed \cup {n}
                    /\ again' = again \cup ({n} \cap removed)
                    /\ UNCHANGED panic

Next ==
    \E n \in Name :
       \/ Create(n) \/ Unlinkat(n)
       \/ \E m \in Name : Linkat(n, m)

Spec == Init /\ [][Next]_vars

----------------------------------------------------------------------------
NamesOf(inode) == {i \in DOMAIN entries : entries[i].inode = inode}

\* Those that no unlinkat has reported as removed.
LiveNames(inode) == {i \in NamesOf(inode) : entries[i].name \notin removed}

\* A name that was not unlinked is in the directory at most once, whatever other entries
\* find_inode_id passes on its way, and refers to an allocated inode other than the root.
\* No inode loses its names by itself: of those that create has allocated at most as many
\* are without a name as unlinkat has removed names.
NamesExact ==
    /\ \A i, j \in DOMAIN entries :
         entries[i].name = entries[j].name /\ entries[i].name \notin removed => i = j
    /\ \A i \in DOMAIN entries :
         entries[i].name \notin removed => entries[i].inode \in 1 .. NewInode - 1
    /\ Cardinality({k \in 1 .. NewInode - 1 : LiveNames(k) = {}}) <= Cardinality(removed)

\* The link count, kept in the inode and changed by inc_nlink and dec_nlink, is the number
\* of names that were given and not taken back, as long as no name of the inode was taken
\* back twice: unlinkat finds an unlinked name again and counts down again.
LinkCountExact ==
    \A k \in 1 .. NewInode - 1 :
       (\A i \in NamesOf(k) : entries[i].name \notin again) =>
          nlink[k + 1] = Cardinality(LiveNames(k)) % Word

\* A name keeps its inode for as long as it is not unlinked itself, whatever other names
\* are made, linked and unlinked.
BindingStable ==
    [][\A n \in Name \ removed' : Found(n) => Found(n)' /\ FindInode(n)' = FindInode(n)]_vars
============================================================================
