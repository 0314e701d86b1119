----------------------------- MODULE BlockCache -----------------------------
(***************************************************************************)
(* The block cache of easy-fs/src/block_cache.rs: a queue of at most       *)
(* BLOCK_CACHE_MAX_NUM cached blocks shared by reference, evicted when no  *)
(* caller holds them, written back when dropped or synced.                 *)
(*                                                                         *)
(* Callers nest: the closure that works on one cached block asks for the   *)
(* next one (an inode, its second-level index block, an index block under  *)
(* that).  They hold each reference to the end of the statement and never  *)
(* ask for a block they have locked, which would spin for ever.            *)
(***************************************************************************)
EXTENDS Naturals, Sequences

CONSTANTS BlockNo, \* block ids
          Val,     \* contents of a block
          Obj,     \* allocations of a BlockCache
          Max,     \* BLOCK_CACHE_MAX_NUM
          MaxNest  \* how many blocks callers hold at a time (3 in easy-fs)

ASSUME CacheAssumption ==
    /\ Max \in Nat \ {0} /\ MaxNest \in Nat
    /\ MaxNest <= Max

VARIABLES
    queue,    \* BlockCacheManager.queue
    stack,    \* the references callers hold, innermost last
    id, data, modified,  \* fields of each BlockCache
    device,   \* the block device
    syncing,  \* the entry block_cache_sync_all writes next, 0 if it is not running
    latest,   \* history: the last value stored in each block
    sinceSync,  \* history: values each block has had since the last sync_all
    exhausted  \* "Run out of BlockCache!"

objs == <<id, data, modified>>
hist == <<latest, sinceSync>>
cvars == <<queue, stack, id, data, modified, device, syncing, latest, sinceSync, exhausted>>

Elems(s) == {s[i] : i \in DOMAIN s}

\* A freshly opened file system.
CacheInit ==
    /\ queue = <<>> /\ stack = <<>>
    /\ \E b \in BlockNo, v \in Val : id = [o \in Obj |-> b] /\ data = [o \in Obj |-> v]
    /\ modified = [o \in Obj |-> FALSE]
    /\ device \in [BlockNo -> Val]
    /\ syncing = 0
    /\ latest = device
    /\ sinceSync = [b \in BlockNo |-> {device[b]}]
    /\ exhausted = FALSE

----------------------------------------------------------------------------
\* The entries of the queue for block b.
Find(b) == {i \in DOMAIN queue : id[queue[i]] = b}

First(i, s) == i \in s /\ \A j \in s : i <= j

\* Faulty variant: only an entry that is clean.
Evictable_Clean == {i \in DOMAIN queue : queue[i] \notin Elems(stack) /\ ~modified[queue[i]]}

\* Entries whose strong count is 1: only the queue holds them.
Evictable == {i \in DOMAIN queue : queue[i] \notin Elems(stack)}

\* Vec::swap_remove
SwapRemove(s, i) == [j \in 1 .. Len(s) - 1 |-> IF j = i THEN s[Len(s)] ELSE s[j]]

\* Faulty variant: a dropped block is not written.
Written_Not(o) == device

\* The device after BlockCache::sync of o, which drop calls.
Written(o) ==
    IF modified[o] THEN [device EXCEPT ![id[o]] = data[o]] ELSE device

\* The view of the file system: the cached contents, else those of the device.
View == [b \in BlockNo |->
           IF \E i \in DOMAIN queue : id[queue[i]] = b
           THEN data[queue[CHOOSE i \in DOMAIN queue : id[queue[i]] = b]]
           ELSE device[b]]

----------------------------------------------------------------------------
\* Kernel code outside of sync_all runs.
Runs == ~exhausted /\ syncing = 0

\* A caller may ask for block b.
MayGet(b) ==
    /\ Runs /\ Len(stack) < MaxNest
    /\ \A o \in Elems(stack) : id[o] # b

\* get_block_cache finds the block.
Hit(b) ==
    /\ MayGet(b)
    /\ \E i \in DOMAIN queue : First(i, Find(b)) /\ stack' = Append(stack, queue[i])
    /\ UNCHANGED <<queue, objs, device, syncing, hist, exhausted>>

\* BlockCache::new reads block b from the device dev and joins the queue q.
Load(b, q, dev) ==
    \E o \in Obj \ (Elems(q) \cup Elems(stack)) :
       /\ queue' = Append(q, o)
       /\ stack' = Append(stack, o)
       /\ id' = [id EXCEPT ![o] = b]
       /\ data' = [data EXCEPT ![o] = dev[b]]
       /\ modified' = [modified EXCEPT ![o] = FALSE]
       /\ device' = dev
       /\ UNCHANGED <<syncing, hist, exhausted>>

Full == Len(queue) = Max

Miss(b) == MayGet(b) /\ Find(b) = {} /\ ~Full /\ Load(b, queue, device)

\* The first entry nobody holds is removed and thereby dropped and written back,
\* before the new block is read; if callers hold all of them, the code panics.
Evict(b) ==
    /\ MayGet(b) /\ Find(b) = {} /\ Full
    /\ IF Evictable = {}
       THEN exhausted' = TRUE /\ UNCHANGED <<queue, stack, objs, device, syncing, hist>>
       ELSE \E i \in DOMAIN queue :
               /\ First(i, Evictable)
               /\ Load(b, SwapRemove(queue, i), Written(queue[i]))

Top == stack[Len(stack)]

\* Value v is stored in the innermost block.
StoreTop(v) ==
    /\ data' = [data EXCEPT ![Top] = v]
    /\ latest' = [latest EXCEPT ![id[Top]] = v]
    /\ sinceSync' = [sinceSync EXCEPT ![id[Top]] = @ \cup {v}]

\* BlockCache::modify by the holder of the innermost block.
Modify(v) ==
    /\ Runs /\ stack # <<>>
    /\ StoreTop(v)
    /\ modified' = [modified EXCEPT ![Top] = TRUE]
    /\ UNCHANGED <<queue, stack, id, device, syncing, exhausted>>

\* The innermost reference is dropped, and with it a block the queue has lost.
Release ==
    /\ Runs /\ stack # <<>>
    /\ stack' = SubSeq(stack, 1, Len(stack) - 1)
    /\ device' = IF Top \in Elems(queue) THEN device ELSE Written(Top)
    /\ UNCHANGED <<queue, objs, syncing, hist, exhausted>>

\* block_cache_sync_all, which the file system calls outside of all closures.
BlockCacheSyncAll ==
    /\ Runs /\ stack = <<>> /\ queue # <<>>
    /\ syncing' = 1
    /\ UNCHANGED <<queue, stack, objs, device, hist, exhausted>>

\* Faulty variant: the loop stops before the last entry.
Last_TooEarly == syncing >= Len(queue) - 1

\* The entry being written is the last one.
Last == syncing = Len(queue)

\* One iteration: BlockCache::sync of the next entry.
SyncOne ==
    /\ syncing # 0
    /\ device' = Written(queue[syncing])
    /\ modified' = [modified EXCEPT ![queue[syncing]] = FALSE]
    /\ syncing' = IF Last THEN 0 ELSE syncing + 1
    /\ sinceSync' = IF Last THEN [b \in BlockNo |-> {latest[b]}] ELSE sinceSync
    /\ UNCHANGED <<queue, stack, id, data, latest, exhausted>>

\* Power loss, or the panic handler's shutdown, and the next boot.
Crash ==
    /\ queue' = <<>> /\ stack' = <<>>
    /\ modified' = [o \in Obj |-> FALSE]
    /\ syncing' = 0
    /\ latest' = device
    /\ sinceSync' = [b \in BlockNo |-> {device[b]}]
    /\ exhausted' = FALSE
    /\ UNCHANGED <<id, data, device>>

CacheNext ==
    \/ \E b \in BlockNo : Hit(b) \/ Miss(b) \/ Evict(b)
    \/ \E v \in Val : Modify(v)
    \/ Release \/ BlockCacheSyncAll \/ SyncOne \/ Crash

CacheSpec == CacheInit /\ [][CacheNext]_cvars

----------------------------------------------------------------------------
CacheTypeOK ==
    /\ queue \in Seq(Obj) /\ Len(queue) <= Max
    /\ stack \in Seq(Obj) /\ Len(stack) <= MaxNest
    /\ id \in [Obj -> BlockNo] /\ data \in [Obj -> Val]
    /\ modified \in [Obj -> BOOLEAN]
    /\ device \in [BlockNo -> Val]
    /\ syncing \in 0 .. Len(queue)
    /\ latest \in [BlockNo -> Val]
    /\ sinceSync \in [BlockNo -> SUBSET Val]
    /\ exhausted \in BOOLEAN

\* The queue never has two entries for one block, so no update can go to one copy
\* while another is read or written back.
OneCachePerBlock ==
    \A i, j \in DOMAIN queue : id[queue[i]] = id[queue[j]] => i = j

\* A block that a caller works on is not evicted under its hands, although other
\* blocks are fetched and evicted inside its closure; and it is held once.
HeldIsCached ==
    /\ Elems(stack) \subseteq Elems(queue)
    /\ \A i, j \in DOMAIN stack : stack[i] = stack[j] => i = j

\* A cached block that is not marked as modified equals the block on the device:
\* dropping it without a write loses nothing.
CleanMatchesDevice ==
    \A o \in Elems(queue) : ~modified[o] => data[o] = device[id[o]]

\* The file system always sees the last value stored in a block, in the cache or,
\* after the block was evicted, on the device: write-back comes before the drop and
\* before the next read of the same block.
ReadsLatest == View = latest

\* The device never falls behind the last sync_all: each of its blocks has the
\* value of that moment or a later one, whatever has been evicted since.
Durable == \A b \in BlockNo : device[b] \in sinceSync[b]

\* Callers that nest at most BLOCK_CACHE_MAX_NUM deep never see the panic
\* "Run out of BlockCache!".
NeverRunsOut == ~exhausted

\* The cache over the device implements a durable array of blocks.
CacheDisk == INSTANCE DurableDisk WITH Key <- BlockNo, Datum <- Val, view <- View, since <- sinceSync

DiskSpec == CacheDisk!DSpec
=============================================================================
