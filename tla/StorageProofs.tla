---------------------------- MODULE StorageProofs ----------------------------
(***************************************************************************)
(* Proofs about the storage of easy-fs.  First the block cache: the        *)
(* inductive invariant speaks of a queue q over a device dev (Good), so    *)
(* that one lemma about BlockCache::new serves the plain miss and the miss *)
(* that evicts.  Then modules Directory and Recovery, on the durable disk  *)
(* that the cache is shown to be, for any names, block sizes, number of    *)
(* inodes and width of link counts: the names and link counts of the root  *)
(* directory, and what a power loss leaves of them.                        *)
(***************************************************************************)
EXTENDS BlockCache, Recovery, FiniteSetTheorems, TLAPS

\* The entries of q are of different blocks, hold the last value stored in their
\* block, and equal it on the device when clean; the device has the last value of
\* every other block.
Good(q, dev) ==
    /\ \A i, j \in DOMAIN q : id[q[i]] = id[q[j]] => i = j
    /\ \A o \in Elems(q) : data[o] = latest[id[o]]
    /\ \A o \in Elems(q) : ~modified[o] => data[o] = dev[id[o]]
    /\ \A b \in BlockNo : (\A o \in Elems(q) : id[o] # b) => dev[b] = latest[b]
    /\ Elems(stack) \subseteq Elems(q)

\* The entries that a running sync_all has passed are clean, and nobody holds one.
Passed ==
    /\ syncing # 0 => stack = <<>>
    /\ \A i \in DOMAIN queue : i < syncing => ~modified[queue[i]]

\* The inductive invariant.
CacheInv ==
    /\ CacheTypeOK /\ ~exhausted
    /\ Good(queue, device)
    /\ \A i, j \in DOMAIN stack : stack[i] = stack[j] => i = j
    /\ Passed
    /\ \A b \in BlockNo : device[b] \in sinceSync[b] /\ latest[b] \in sinceSync[b]

----------------------------------------------------------------------------
\* Appending to a sequence adds one element (Vec::push).
LEMMA ElemsAppend ==
    ASSUME NEW S, NEW q \in Seq(S), NEW o \in S
    PROVE  Elems(Append(q, o)) = Elems(q) \cup {o}
<1>1. /\ DOMAIN Append(q, o) = 1 .. Len(q) + 1
      /\ \A i \in 1 .. Len(q) : Append(q, o)[i] = q[i]
      /\ Append(q, o)[Len(q) + 1] = o
      /\ DOMAIN q = 1 .. Len(q) /\ Len(q) \in Nat
  OBVIOUS
<1>2. 1 .. Len(q) + 1 = (1 .. Len(q)) \cup {Len(q) + 1}
  BY <1>1
<1>. QED BY <1>1, <1>2 DEF Elems

\* Vec::swap_remove of one entry of a queue without repetitions removes just that
\* entry and keeps the queue free of repetitions.
LEMMA SwapRemoveElems ==
    ASSUME NEW S, NEW q \in Seq(S), NEW i \in DOMAIN q,
           \A j, k \in DOMAIN q : q[j] = q[k] => j = k
    PROVE  /\ SwapRemove(q, i) \in Seq(S)
           /\ Len(SwapRemove(q, i)) = Len(q) - 1
           /\ Elems(SwapRemove(q, i)) = Elems(q) \ {q[i]}
           /\ \A j, k \in DOMAIN SwapRemove(q, i) :
                 SwapRemove(q, i)[j] = SwapRemove(q, i)[k] => j = k
<1>. DEFINE r == SwapRemove(q, i)
<1>1. DOMAIN q = 1 .. Len(q) /\ Len(q) \in Nat /\ Len(q) >= 1 /\ Len(q) - 1 \in Nat
  OBVIOUS
<1>2. r = [j \in 1 .. Len(q) - 1 |-> IF j = i THEN q[Len(q)] ELSE q[j]]
  BY DEF SwapRemove
<1>3. \A j \in 1 .. Len(q) - 1 : r[j] \in S
  BY <1>1, <1>2
<1>4. r \in Seq(S) /\ Len(r) = Len(q) - 1 /\ DOMAIN r = 1 .. Len(q) - 1
  <2>. DEFINE n == Len(q) - 1
  <2>1. r \in [1 .. n -> S] /\ n \in Nat
    BY <1>1, <1>2, <1>3
  <2>. HIDE DEF n
  <2>2. r \in Seq(S) /\ Len(r) = n /\ DOMAIN r = 1 .. n
    <3>. HIDE DEF r
    <3>. QED BY <2>1
  <2>. QED BY <2>2 DEF n
<1>5. \A j \in DOMAIN r : r[j] = IF j = i THEN q[Len(q)] ELSE q[j]
  BY <1>2, <1>4
<1>. HIDE DEF r
<1>6. Elems(r) \subseteq Elems(q) \ {q[i]}
  BY <1>1, <1>4, <1>5 DEF Elems
<1>7. Elems(q) \ {q[i]} \subseteq Elems(r)
  <2>. SUFFICES ASSUME NEW j \in DOMAIN q, j # i PROVE \E k \in DOMAIN r : r[k] = q[j]
    BY DEF Elems
  <2>1. CASE j = Len(q)
    BY <1>1, <1>4, <1>5, <2>1
  <2>2. CASE j # Len(q)
    BY <1>1, <1>4, <1>5, <2>2
  <2>. QED BY <2>1, <2>2
<1>8. \A j, k \in DOMAIN r : r[j] = r[k] => j = k
  BY <1>1, <1>4, <1>5
<1>. QED BY <1>4, <1>6, <1>7, <1>8 DEF r

\* BlockCache::new of a block that is not cached keeps the invariant, whatever
\* queue and device it starts from.
LEMMA LoadInv ==
    ASSUME CacheInv, Runs, NEW b \in BlockNo, Len(stack) < MaxNest,
           NEW q \in Seq(Obj), Len(q) < Max, NEW dev \in [BlockNo -> Val],
           Good(q, dev), \A o \in Elems(q) : id[o] # b,
           \A k \in BlockNo : dev[k] \in sinceSync[k],
           Load(b, q, dev)
    PROVE  CacheInv'
<1>1. PICK o \in Obj \ (Elems(q) \cup Elems(stack)) :
         /\ queue' = Append(q, o)
         /\ stack' = Append(stack, o)
         /\ id' = [id EXCEPT ![o] = b]
         /\ data' = [data EXCEPT ![o] = dev[b]]
         /\ modified' = [modified EXCEPT ![o] = FALSE]
         /\ device' = dev
         /\ UNCHANGED <<syncing, hist, exhausted>>
  BY DEF Load
<1>2. /\ stack \in Seq(Obj) /\ id \in [Obj -> BlockNo] /\ data \in [Obj -> Val]
      /\ modified \in [Obj -> BOOLEAN] /\ Max \in Nat /\ MaxNest \in Nat
      /\ syncing = 0 /\ syncing' = 0 /\ latest' = latest /\ sinceSync' = sinceSync
      /\ ~exhausted' /\ latest \in [BlockNo -> Val] /\ sinceSync \in [BlockNo -> SUBSET Val]
  BY <1>1, CacheAssumption DEF CacheInv, CacheTypeOK, Runs, hist
<1>3. /\ Elems(queue') = Elems(q) \cup {o} /\ Elems(stack') = Elems(stack) \cup {o}
      /\ o \notin Elems(q) /\ o \notin Elems(stack)
  BY <1>1, <1>2, ElemsAppend
<1>4. CacheTypeOK'
  <2>1. queue' \in Seq(Obj) /\ Len(queue') <= Max /\ Len(queue') \in Nat
    BY <1>1, <1>2
  <2>2. stack' \in Seq(Obj) /\ Len(stack') <= MaxNest
    BY <1>1, <1>2
  <2>3. dev[b] \in Val
    OBVIOUS
  <2>4. /\ id' \in [Obj -> BlockNo] /\ data' \in [Obj -> Val]
        /\ modified' \in [Obj -> BOOLEAN] /\ device' \in [BlockNo -> Val]
    BY <1>1, <1>2, <2>3
  <2>5. syncing' \in 0 .. Len(queue')
    BY <1>2, <2>1
  <2>6. exhausted' \in BOOLEAN
    BY <1>1, Zenon DEF CacheInv, CacheTypeOK
  <2>. QED BY <1>2, <2>1, <2>2, <2>4, <2>5, <2>6 DEF CacheTypeOK
<1>5. \A p \in Elems(q) : /\ p \in Obj /\ p # o /\ id'[p] = id[p] /\ data'[p] = data[p]
                          /\ modified'[p] = modified[p]
  <2>1. \A p \in Elems(q) : p \in Obj /\ p # o
    BY <1>3 DEF Elems
  <2>. QED BY <1>1, <1>2, <2>1
<1>6. id'[o] = b /\ data'[o] = dev[b] /\ modified'[o] = FALSE /\ dev[b] = latest[b]
  BY <1>1, <1>2 DEF Good
<1>7. \A i, j \in DOMAIN queue' : id'[queue'[i]] = id'[queue'[j]] => i = j
  <2>1. /\ DOMAIN queue' = 1 .. Len(q) + 1 /\ queue'[Len(q) + 1] = o
        /\ \A i \in 1 .. Len(q) : queue'[i] = q[i] /\ q[i] \in Elems(q)
        /\ DOMAIN q = 1 .. Len(q) /\ Len(q) \in Nat
    BY <1>1 DEF Elems
  <2>2. \A i \in 1 .. Len(q) : id'[queue'[i]] = id[q[i]] /\ id[q[i]] # b
    BY <1>5, <2>1
  <2>3. \A i \in DOMAIN queue' : i \in DOMAIN q \/ i = Len(q) + 1
    BY <2>1
  <2>. QED BY <1>6, <2>1, <2>2, <2>3 DEF Good
<1>8. Good(queue, device)'
  <2>1. \A p \in Elems(queue') : data'[p] = latest'[id'[p]]
    BY <1>2, <1>3, <1>5, <1>6 DEF Good
  <2>2. \A p \in Elems(queue') : ~modified'[p] => data'[p] = device'[id'[p]]
    BY <1>1, <1>3, <1>5, <1>6 DEF Good
  <2>3. \A k \in BlockNo : (\A p \in Elems(queue') : id'[p] # k) => device'[k] = latest'[k]
    BY <1>1, <1>2, <1>3, <1>5, <1>6 DEF Good
  <2>4. Elems(stack') \subseteq Elems(queue')
    BY <1>3 DEF Good
  <2>. QED BY <1>7, <2>1, <2>2, <2>3, <2>4 DEF Good, Elems
<1>9. \A i, j \in DOMAIN stack' : stack'[i] = stack'[j] => i = j
  <2>1. /\ DOMAIN stack' = 1 .. Len(stack) + 1 /\ stack'[Len(stack) + 1] = o
        /\ \A i \in 1 .. Len(stack) : stack'[i] = stack[i] /\ stack[i] \in Elems(stack)
        /\ DOMAIN stack = 1 .. Len(stack) /\ Len(stack) \in Nat
    BY <1>1, <1>2 DEF Elems
  <2>2. \A i \in DOMAIN stack' : i \in DOMAIN stack \/ i = Len(stack) + 1
    BY <2>1
  <2>. QED BY <1>3, <2>1, <2>2 DEF CacheInv
<1>10. Passed'
  <2>1. \A i \in DOMAIN queue' : i \in Nat /\ ~(i < 0)
    BY <1>4 DEF CacheTypeOK
  <2>. QED BY <1>2, <2>1 DEF Passed
<1>11. \A k \in BlockNo : device'[k] \in sinceSync'[k] /\ latest'[k] \in sinceSync'[k]
  BY <1>1, <1>2 DEF CacheInv
<1>. QED BY <1>2, <1>4, <1>8, <1>9, <1>10, <1>11 DEF CacheInv

\* BlockCache::sync brings the device up to date for the block of the entry.
LEMMA WrittenLatest ==
    ASSUME CacheInv, NEW x \in Elems(queue)
    PROVE  /\ Written(x) \in [BlockNo -> Val] /\ id[x] \in BlockNo
           /\ \A k \in BlockNo : k # id[x] => Written(x)[k] = device[k]
           /\ Written(x)[id[x]] = latest[id[x]]
<1>1. /\ x \in Obj /\ id \in [Obj -> BlockNo] /\ data \in [Obj -> Val]
      /\ device \in [BlockNo -> Val]
      /\ data[x] = latest[id[x]] /\ (~modified[x] => data[x] = device[id[x]])
  <2>1. queue \in Seq(Obj) /\ id \in [Obj -> BlockNo] /\ data \in [Obj -> Val] /\ device \in [BlockNo -> Val]
    BY DEF CacheInv, CacheTypeOK
  <2>2. x \in Obj
    BY <2>1 DEF Elems
  <2>3. data[x] = latest[id[x]] /\ (~modified[x] => data[x] = device[id[x]])
    BY DEF CacheInv, Good
  <2>. QED BY <2>1, <2>2, <2>3
<1>. QED BY <1>1 DEF Written

\* Dropping an entry that nobody holds writes it back and loses nothing.
LEMMA DropGood ==
    ASSUME CacheInv, NEW i \in Evictable
    PROVE  /\ SwapRemove(queue, i) \in Seq(Obj)
           /\ Len(SwapRemove(queue, i)) = Len(queue) - 1
           /\ Elems(SwapRemove(queue, i)) = Elems(queue) \ {queue[i]}
           /\ Written(queue[i]) \in [BlockNo -> Val]
           /\ Good(SwapRemove(queue, i), Written(queue[i]))
           /\ \A k \in BlockNo : Written(queue[i])[k] \in sinceSync[k]
<1>. DEFINE r == SwapRemove(queue, i)
            x == queue[i]
            dev == Written(queue[i])
<1>1. /\ i \in DOMAIN queue /\ x \notin Elems(stack) /\ queue \in Seq(Obj) /\ x \in Obj
      /\ x \in Elems(queue) /\ \A p \in Elems(queue) : p \in Obj
      /\ id \in [Obj -> BlockNo] /\ data \in [Obj -> Val]
      /\ modified \in [Obj -> BOOLEAN] /\ device \in [BlockNo -> Val]
      /\ latest \in [BlockNo -> Val] /\ sinceSync \in [BlockNo -> SUBSET Val]
  BY DEF Evictable, CacheInv, CacheTypeOK, Elems
<1>2. \A j, k \in DOMAIN queue : queue[j] = queue[k] => j = k
  BY DEF CacheInv, Good
<1>3. /\ r \in Seq(Obj) /\ Len(r) = Len(queue) - 1 /\ Elems(r) = Elems(queue) \ {x}
      /\ \A j, k \in DOMAIN r : r[j] = r[k] => j = k
  BY <1>1, <1>2, SwapRemoveElems
<1>4. /\ dev \in [BlockNo -> Val]
      /\ \A k \in BlockNo : k # id[x] => dev[k] = device[k]
      /\ dev[id[x]] = latest[id[x]] /\ id[x] \in BlockNo
  BY <1>1, WrittenLatest
<1>. HIDE DEF r, dev
<1>5. \A p \in Elems(queue) : id[p] = id[x] => p = x
  BY <1>1 DEF CacheInv, Good, Elems
<1>6. Good(r, dev)
  <2>1. \A j, k \in DOMAIN r : id[r[j]] = id[r[k]] => j = k
    <3>1. \A p, o \in Elems(queue) : id[p] = id[o] => p = o
      BY DEF CacheInv, Good, Elems
    <3>2. \A j \in DOMAIN r : r[j] \in Elems(queue)
      BY <1>3 DEF Elems
    <3>. QED BY <1>3, <3>1, <3>2
  <2>2. \A o \in Elems(r) : data[o] = latest[id[o]]
    BY <1>3 DEF CacheInv, Good
  <2>3. \A o \in Elems(r) : ~modified[o] => data[o] = dev[id[o]]
    BY <1>1, <1>3, <1>4, <1>5 DEF CacheInv, Good
  <2>4. ASSUME NEW b \in BlockNo, \A o \in Elems(r) : id[o] # b PROVE dev[b] = latest[b]
    BY <1>3, <1>4, <2>4 DEF CacheInv, Good
  <2>5. Elems(stack) \subseteq Elems(r)
    BY <1>1, <1>3 DEF CacheInv, Good
  <2>. QED BY <2>1, <2>2, <2>3, <2>4, <2>5 DEF Good
<1>7. \A k \in BlockNo : dev[k] \in sinceSync[k]
  BY <1>4 DEF CacheInv
<1>. QED BY <1>3, <1>4, <1>6, <1>7 DEF r, dev

\* More entries than places: two entries share a place.
LEMMA PigeonHole ==
    ASSUME NEW m \in Nat, NEW n \in Nat, n < m, NEW f \in [1 .. m -> 1 .. n]
    PROVE  \E x, y \in 1 .. m : x # y /\ f[x] = f[y]
<1>1. m \in Int /\ n \in Int /\ 1 \in Int
  OBVIOUS
<1>2. /\ IsFiniteSet(1 .. m)
      /\ Cardinality(1 .. m) = IF 1 > m THEN 0 ELSE m - 1 + 1
  BY ONLY <1>1, FS_Interval, Zenon
<1>3. /\ IsFiniteSet(1 .. n)
      /\ Cardinality(1 .. n) = IF 1 > n THEN 0 ELSE n - 1 + 1
  BY ONLY <1>1, FS_Interval, Zenon
<1>4. Cardinality(1 .. n) < Cardinality(1 .. m)
  BY <1>2, <1>3
<1>. QED BY <1>2, <1>3, <1>4, FS_PigeonHole, Zenon

\* When the queue is full and callers may still nest, somebody's block can go.
LEMMA SomeEvictable ==
    ASSUME CacheInv, Full, Len(stack) < MaxNest
    PROVE  Evictable # {}
<1>. SUFFICES ASSUME Evictable = {} PROVE FALSE
  OBVIOUS
<1>1. /\ queue \in Seq(Obj) /\ stack \in Seq(Obj) /\ Len(queue) = Max
      /\ Max \in Nat \ {0} /\ MaxNest <= Max /\ MaxNest \in Nat
  BY CacheAssumption DEF CacheInv, CacheTypeOK, Full
<1>2. \A i \in 1 .. Max : \E j \in 1 .. Len(stack) : stack[j] = queue[i]
  <2>1. DOMAIN queue = 1 .. Max /\ DOMAIN stack = 1 .. Len(stack)
    BY <1>1
  <2>. QED BY <2>1 DEF Evictable, Elems
<1>3. PICK f \in [1 .. Max -> 1 .. Len(stack)] : \A i \in 1 .. Max : stack[f[i]] = queue[i]
  <2>. DEFINE g == [i \in 1 .. Max |-> CHOOSE j \in 1 .. Len(stack) : stack[j] = queue[i]]
  <2>1. g \in [1 .. Max -> 1 .. Len(stack)] /\ \A i \in 1 .. Max : stack[g[i]] = queue[i]
    BY <1>2
  <2>. QED BY ONLY <2>1
<1>4. Len(stack) \in Nat /\ Len(stack) < Max /\ DOMAIN queue = 1 .. Max
  BY <1>1
<1>5. PICK x, y \in 1 .. Max : x # y /\ f[x] = f[y]
  <2>1. Max \in Nat /\ Len(stack) \in Nat /\ Len(stack) < Max
    BY <1>1, <1>4
  <2>2. f \in [1 .. Max -> 1 .. Len(stack)]
    OBVIOUS
  <2>. QED BY ONLY <2>1, <2>2, PigeonHole, Zenon
<1>6. stack[f[x]] = queue[x] /\ stack[f[y]] = queue[y]
  BY ONLY <1>3, <1>5
<1>7. queue[x] = queue[y]
  BY ONLY <1>5, <1>6
<1>. QED BY <1>4, <1>5, <1>7 DEF CacheInv, Good

\* The view of the file system is the last value stored in each block.
LEMMA ViewIsLatest == CacheInv => View = latest
<1>. SUFFICES ASSUME CacheInv PROVE View = latest
  OBVIOUS
<1>1. latest \in [BlockNo -> Val]
  BY DEF CacheInv, CacheTypeOK
<1>2. ASSUME NEW b \in BlockNo PROVE View[b] = latest[b]
  <2>1. CASE \E i \in DOMAIN queue : id[queue[i]] = b
    <3>. DEFINE i == CHOOSE i \in DOMAIN queue : id[queue[i]] = b
    <3>1. i \in DOMAIN queue /\ id[queue[i]] = b
      BY <2>1
    <3>2. View[b] = data[queue[i]]
      BY <2>1 DEF View
    <3>. HIDE DEF i
    <3>. QED BY <3>1, <3>2 DEF CacheInv, Good, Elems
  <2>2. CASE ~ \E i \in DOMAIN queue : id[queue[i]] = b
    BY <2>2 DEF View, CacheInv, Good, Elems
  <2>. QED BY <2>1, <2>2
<1>. QED BY <1>1, <1>2 DEF View

LEMMA CacheInitInv == CacheInit => CacheInv
<1>. SUFFICES ASSUME CacheInit PROVE CacheInv
  OBVIOUS
<1>1. /\ queue = <<>> /\ stack = <<>> /\ syncing = 0 /\ latest = device
      /\ device \in [BlockNo -> Val] /\ sinceSync = [b \in BlockNo |-> {device[b]}]
      /\ exhausted = FALSE /\ modified = [o \in Obj |-> FALSE]
      /\ id \in [Obj -> BlockNo] /\ data \in [Obj -> Val]
  BY DEF CacheInit
<1>2. CacheTypeOK
  <2>1. /\ queue \in Seq(Obj) /\ Len(queue) = 0 /\ stack \in Seq(Obj) /\ Len(stack) = 0
    BY <1>1
  <2>2. sinceSync \in [BlockNo -> SUBSET Val] /\ modified \in [Obj -> BOOLEAN]
    BY <1>1
  <2>3. syncing \in 0 .. Len(queue) /\ Len(queue) <= Max /\ Len(stack) <= MaxNest
    BY <1>1, <2>1, CacheAssumption
  <2>4. exhausted \in BOOLEAN
    BY <1>1, Zenon
  <2>. QED BY <1>1, <2>1, <2>2, <2>3, <2>4 DEF CacheTypeOK
<1>. QED BY <1>1, <1>2 DEF CacheInv, Good, Passed, Elems

\* Every step keeps the inductive invariant.
LEMMA CacheStep == CacheInv /\ [CacheNext]_cvars => CacheInv'
<1>. SUFFICES ASSUME CacheInv, [CacheNext]_cvars PROVE CacheInv'
  OBVIOUS
<1>0. /\ queue \in Seq(Obj) /\ stack \in Seq(Obj) /\ Len(queue) <= Max
      /\ id \in [Obj -> BlockNo] /\ data \in [Obj -> Val]
      /\ modified \in [Obj -> BOOLEAN] /\ device \in [BlockNo -> Val]
      /\ latest \in [BlockNo -> Val] /\ sinceSync \in [BlockNo -> SUBSET Val]
      /\ Max \in Nat /\ MaxNest \in Nat /\ Len(stack) <= MaxNest
      /\ \A o \in Elems(queue) : o \in Obj
  BY CacheAssumption DEF CacheInv, CacheTypeOK, Elems
<1>F. ASSUME UNCHANGED <<queue, objs, device, latest>>, Elems(stack') \subseteq Elems(queue)
      PROVE  Good(queue, device)'
  BY <1>F DEF CacheInv, Good, Elems, objs
<1>1. CASE UNCHANGED cvars
  <2>1. CacheTypeOK'
    BY <1>1 DEF CacheInv, CacheTypeOK, cvars
  <2>2. Good(queue, device)'
    <3>1. UNCHANGED <<queue, objs, device, latest>> /\ stack' = stack
      BY <1>1 DEF cvars, objs
    <3>2. Elems(stack') \subseteq Elems(queue)
      BY <3>1 DEF CacheInv, Good
    <3>. QED BY <1>F, <3>1, <3>2
  <2>. QED BY <1>1, <2>1, <2>2 DEF CacheInv, Passed, cvars
<1>2. ASSUME NEW b \in BlockNo, Hit(b) PROVE CacheInv'
  <2>1. PICK i \in DOMAIN queue : First(i, Find(b)) /\ stack' = Append(stack, queue[i])
    BY <1>2 DEF Hit
  <2>2. /\ UNCHANGED <<queue, objs, device, syncing, hist, exhausted>> /\ syncing = 0
        /\ Len(stack) < MaxNest /\ \A o \in Elems(stack) : id[o] # b
    BY <1>2 DEF Hit, MayGet, Runs
  <2>3. queue[i] \in Obj /\ queue[i] \in Elems(queue) /\ id[queue[i]] = b
    BY <1>0, <2>1 DEF First, Find, Elems
  <2>4. /\ Elems(stack') = Elems(stack) \cup {queue[i]} /\ queue[i] \notin Elems(stack)
        /\ stack' \in Seq(Obj) /\ Len(stack') <= MaxNest
    BY <1>0, <2>1, <2>2, <2>3, ElemsAppend
  <2>5. \A j, k \in DOMAIN stack' : stack'[j] = stack'[k] => j = k
    <3>1. /\ DOMAIN stack' = 1 .. Len(stack) + 1 /\ stack'[Len(stack) + 1] = queue[i]
          /\ \A j \in 1 .. Len(stack) : stack'[j] = stack[j] /\ stack[j] \in Elems(stack)
          /\ DOMAIN stack = 1 .. Len(stack) /\ Len(stack) \in Nat
      BY <1>0, <2>1, <2>3 DEF Elems
    <3>2. \A j \in DOMAIN stack' : j \in DOMAIN stack \/ j = Len(stack) + 1
      BY <3>1
    <3>. QED BY <2>4, <3>1, <3>2 DEF CacheInv
  <2>6. CacheTypeOK'
    BY <2>2, <2>4 DEF CacheInv, CacheTypeOK, objs, hist
  <2>7. Good(queue, device)'
    <3>1. Elems(stack') \subseteq Elems(queue)
      BY <2>3, <2>4 DEF CacheInv, Good
    <3>. QED BY <1>F, <2>2, <3>1 DEF hist
  <2>. QED BY <2>2, <2>5, <2>6, <2>7 DEF CacheInv, Passed, objs, hist
<1>3. ASSUME NEW b \in BlockNo, Miss(b) PROVE CacheInv'
  <2>1. /\ Runs /\ Len(stack) < MaxNest /\ Find(b) = {} /\ ~Full /\ Load(b, queue, device)
    BY <1>3 DEF Miss, MayGet
  <2>2. Len(queue) < Max
    BY <1>0, <2>1 DEF Full
  <2>3. \A o \in Elems(queue) : id[o] # b
    BY <2>1 DEF Find, Elems
  <2>4. Good(queue, device) /\ \A k \in BlockNo : device[k] \in sinceSync[k]
    BY DEF CacheInv
  <2>. QED BY <1>0, <2>1, <2>2, <2>3, <2>4, LoadInv
<1>4. ASSUME NEW b \in BlockNo, Evict(b) PROVE CacheInv'
  <2>1. Runs /\ Len(stack) < MaxNest /\ Find(b) = {} /\ Full
    BY <1>4 DEF Evict, MayGet
  <2>2. Evictable # {}
    BY <2>1, SomeEvictable
  <2>3. PICK i \in DOMAIN queue :
           First(i, Evictable) /\ Load(b, SwapRemove(queue, i), Written(queue[i]))
    BY <1>4, <2>2 DEF Evict
  <2>4. i \in Evictable
    BY <2>3 DEF First
  <2>5. /\ SwapRemove(queue, i) \in Seq(Obj)
        /\ Len(SwapRemove(queue, i)) = Len(queue) - 1
        /\ Elems(SwapRemove(queue, i)) = Elems(queue) \ {queue[i]}
        /\ Written(queue[i]) \in [BlockNo -> Val]
        /\ Good(SwapRemove(queue, i), Written(queue[i]))
        /\ \A k \in BlockNo : Written(queue[i])[k] \in sinceSync[k]
    BY <2>4, DropGood
  <2>6. Len(SwapRemove(queue, i)) < Max
    BY <1>0, <2>5
  <2>7. \A o \in Elems(SwapRemove(queue, i)) : id[o] # b
    BY <2>1, <2>5 DEF Find, Elems
  <2>. QED BY <2>1, <2>3, <2>5, <2>6, <2>7, LoadInv
<1>5. ASSUME NEW v \in Val, Modify(v) PROVE CacheInv'
  <2>1. /\ stack # <<>> /\ syncing = 0 /\ ~exhausted
        /\ data' = [data EXCEPT ![Top] = v]
        /\ latest' = [latest EXCEPT ![id[Top]] = v]
        /\ sinceSync' = [sinceSync EXCEPT ![id[Top]] = @ \cup {v}]
        /\ modified' = [modified EXCEPT ![Top] = TRUE]
        /\ UNCHANGED <<queue, stack, id, device, syncing, exhausted>>
    BY <1>5 DEF Modify, StoreTop, Runs
  <2>2. Top \in Elems(queue) /\ Top \in Obj
    <3>1. Top \in Elems(stack)
      BY <1>0, <2>1 DEF Top, Elems
    <3>. QED BY <1>0, <3>1 DEF CacheInv, Good
  <2>3. CacheTypeOK'
    <3>1. /\ data' \in [Obj -> Val] /\ latest' \in [BlockNo -> Val]
          /\ sinceSync' \in [BlockNo -> SUBSET Val] /\ modified' \in [Obj -> BOOLEAN]
      BY <1>0, <2>1, <2>2
    <3>. QED BY <2>1, <3>1 DEF CacheInv, CacheTypeOK
  <2>4. \A o \in Elems(queue) : id[o] = id[Top] => o = Top
    BY <2>2 DEF CacheInv, Good, Elems
  <2>5. /\ \A o \in Elems(queue) : data'[o] = latest'[id[o]]
        /\ \A o \in Elems(queue) : ~modified'[o] => data'[o] = device[id[o]]
        /\ \A b \in BlockNo : (\A o \in Elems(queue) : id[o] # b) => device[b] = latest'[b]
    BY <1>0, <2>1, <2>2, <2>4 DEF CacheInv, Good
  <2>6. Good(queue, device)'
    BY <2>1, <2>5 DEF CacheInv, Good, Elems
  <2>7. \A b \in BlockNo : device'[b] \in sinceSync'[b] /\ latest'[b] \in sinceSync'[b]
    BY <1>0, <2>1, <2>2 DEF CacheInv
  <2>8. Passed'
    <3>1. \A i \in DOMAIN queue : ~(i < 0)
      BY <1>0
    <3>. QED BY <2>1, <3>1 DEF Passed
  <2>. QED BY <2>1, <2>3, <2>6, <2>7, <2>8 DEF CacheInv
<1>6. CASE Release
  <2>1. /\ stack # <<>> /\ stack' = SubSeq(stack, 1, Len(stack) - 1)
        /\ device' = IF Top \in Elems(queue) THEN device ELSE Written(Top)
        /\ UNCHANGED <<queue, objs, syncing, hist, exhausted>> /\ syncing = 0
    BY <1>6 DEF Release, Runs
  <2>2. device' = device
    <3>1. Top \in Elems(stack)
      BY <1>0, <2>1 DEF Top, Elems
    <3>. QED BY <2>1, <3>1 DEF CacheInv, Good
  <2>3. /\ stack' \in Seq(Obj) /\ Len(stack') = Len(stack) - 1 /\ Len(stack') <= MaxNest
        /\ \A i \in DOMAIN stack' : i \in DOMAIN stack /\ stack'[i] = stack[i]
    <3>1. Len(stack) \in Nat /\ Len(stack) - 1 \in 0 .. Len(stack) /\ DOMAIN stack = 1 .. Len(stack)
      BY <1>0, <2>1
    <3>2. /\ stack' \in Seq(Obj) /\ Len(stack') = Len(stack) - 1
          /\ \A i \in 1 .. Len(stack) - 1 : stack'[i] = stack[i]
      BY <1>0, <2>1, <3>1
    <3>3. DOMAIN stack' = 1 .. Len(stack) - 1
      BY <3>1, <3>2
    <3>. QED BY <1>0, <3>1, <3>2, <3>3
  <2>4. Elems(stack') \subseteq Elems(stack)
    BY <2>3 DEF Elems
  <2>5. CacheTypeOK'
    BY <2>1, <2>2, <2>3 DEF CacheInv, CacheTypeOK, objs, hist
  <2>6. Good(queue, device)'
    <3>1. Elems(stack') \subseteq Elems(queue)
      BY <2>4 DEF CacheInv, Good
    <3>. QED BY <1>F, <2>1, <2>2, <3>1 DEF hist
  <2>7. \A i, j \in DOMAIN stack' : stack'[i] = stack'[j] => i = j
    BY <2>3 DEF CacheInv
  <2>. QED BY <2>1, <2>2, <2>5, <2>6, <2>7 DEF CacheInv, Passed, objs, hist
<1>7. CASE BlockCacheSyncAll
  <2>1. /\ stack = <<>> /\ queue # <<>> /\ syncing' = 1
        /\ UNCHANGED <<queue, stack, objs, device, hist, exhausted>>
    BY <1>7 DEF BlockCacheSyncAll
  <2>2. CacheTypeOK'
    <3>1. 1 \in 0 .. Len(queue)
      BY <1>0, <2>1
    <3>. QED BY <2>1, <3>1 DEF CacheInv, CacheTypeOK, objs, hist
  <2>3. Passed'
    <3>1. \A i \in DOMAIN queue : ~(i < 1)
      BY <1>0
    <3>. QED BY <2>1, <3>1 DEF Passed
  <2>. QED BY <2>1, <2>2, <2>3 DEF CacheInv, Good, Elems, objs, hist
<1>8. CASE SyncOne
  <2>. DEFINE x == queue[syncing]
  <2>1. /\ syncing # 0 /\ device' = Written(x)
        /\ modified' = [modified EXCEPT ![x] = FALSE]
        /\ syncing' = IF Last THEN 0 ELSE syncing + 1
        /\ sinceSync' = IF Last THEN [b \in BlockNo |-> {latest[b]}] ELSE sinceSync
        /\ UNCHANGED <<queue, stack, id, data, latest, exhausted>>
    BY <1>8 DEF SyncOne
  <2>2. /\ syncing \in Nat /\ syncing \in DOMAIN queue /\ x \in Elems(queue) /\ x \in Obj
        /\ syncing <= Len(queue)
    <3>1. syncing \in 0 .. Len(queue)
      BY DEF CacheInv, CacheTypeOK
    <3>2. syncing \in 1 .. Len(queue)
      BY <1>0, <2>1, <3>1
    <3>3. syncing \in DOMAIN queue
      BY <1>0, <3>2
    <3>. QED BY <1>0, <3>1, <3>3 DEF Elems
  <2>3. /\ Written(x) \in [BlockNo -> Val] /\ id[x] \in BlockNo
        /\ \A k \in BlockNo : k # id[x] => Written(x)[k] = device[k]
        /\ Written(x)[id[x]] = latest[id[x]]
    BY <2>2, WrittenLatest
  <2>. HIDE DEF x
  <2>4. syncing' \in 0 .. Len(queue)
    BY <1>0, <2>1, <2>2 DEF Last
  <2>5. CacheTypeOK'
    <3>1. sinceSync' \in [BlockNo -> SUBSET Val] /\ modified' \in [Obj -> BOOLEAN]
      BY <1>0, <2>1
    <3>. QED BY <2>1, <2>3, <2>4, <3>1 DEF CacheInv, CacheTypeOK
  <2>6. /\ \A o \in Elems(queue) : ~modified'[o] => data[o] = device'[id[o]]
        /\ \A b \in BlockNo : (\A o \in Elems(queue) : id[o] # b) => device'[b] = latest[b]
    <3>1. \A o \in Elems(queue) : o # x => modified'[o] = modified[o]
      BY <1>0, <2>1
    <3>. QED BY <1>0, <2>1, <2>2, <2>3, <3>1 DEF CacheInv, Good
  <2>7. Good(queue, device)'
    BY <2>1, <2>6 DEF CacheInv, Good, Elems
  <2>8. \A i \in DOMAIN queue : i <= syncing => ~modified'[queue[i]]
    <3>. SUFFICES ASSUME NEW i \in DOMAIN queue, i <= syncing, queue[i] # x
                  PROVE  ~modified[queue[i]]
      BY <1>0, <2>1
    <3>1. i < syncing
      BY <1>0, <2>2 DEF x
    <3>. QED BY <3>1 DEF CacheInv, Passed
  <2>9. Passed'
    <3>1. stack = <<>>
      BY <2>1 DEF CacheInv, Passed
    <3>2. \A i \in DOMAIN queue : i < syncing' => i <= syncing
      BY <1>0, <2>1, <2>2
    <3>. QED BY <2>1, <2>8, <3>1, <3>2 DEF Passed
  <2>10. \A b \in BlockNo : device'[b] \in sinceSync'[b] /\ latest'[b] \in sinceSync'[b]
    <3>1. CASE ~Last
      BY <2>1, <2>3, <3>1 DEF CacheInv
    <3>2. CASE Last
      <4>1. \A o \in Elems(queue) : ~modified'[o]
        <5>1. \A i \in DOMAIN queue : i <= syncing
          BY <1>0, <2>2, <3>2 DEF Last
        <5>. QED BY <2>8, <5>1 DEF Elems
      <4>2. \A b \in BlockNo : device'[b] = latest[b]
        BY <2>6, <4>1 DEF CacheInv, Good
      <4>. QED BY <2>1, <3>2, <4>2
    <3>. QED BY <3>1, <3>2
  <2>. QED BY <2>1, <2>5, <2>7, <2>9, <2>10 DEF CacheInv
<1>9. CASE Crash
  <2>1. /\ queue' = <<>> /\ stack' = <<>> /\ modified' = [o \in Obj |-> FALSE]
        /\ syncing' = 0 /\ latest' = device
        /\ sinceSync' = [b \in BlockNo |-> {device[b]}] /\ exhausted' = FALSE
        /\ UNCHANGED <<id, data, device>>
    BY <1>9 DEF Crash
  <2>2. CacheTypeOK'
    <3>1. /\ queue' \in Seq(Obj) /\ Len(queue') = 0 /\ stack' \in Seq(Obj)
          /\ Len(stack') = 0
      BY <2>1
    <3>2. sinceSync' \in [BlockNo -> SUBSET Val] /\ modified' \in [Obj -> BOOLEAN]
      BY <1>0, <2>1
    <3>3. syncing' \in 0 .. Len(queue') /\ Len(queue') <= Max /\ Len(stack') <= MaxNest
      BY <1>0, <2>1, <3>1
    <3>4. exhausted' \in BOOLEAN
      BY <2>1, Zenon
    <3>. QED BY <1>0, <2>1, <3>1, <3>2, <3>3, <3>4 DEF CacheTypeOK
  <2>3. \A b \in BlockNo : device'[b] \in sinceSync'[b] /\ latest'[b] \in sinceSync'[b]
    BY <2>1
  <2>. QED BY <2>1, <2>2, <2>3 DEF CacheInv, Good, Passed, Elems
<1>. QED BY <1>1, <1>2, <1>3, <1>4, <1>5, <1>6, <1>7, <1>8, <1>9 DEF CacheNext

\* The inductive invariant holds in every reachable state.
THEOREM CacheInvariance == CacheSpec => []CacheInv
<1>. QED BY CacheInitInv, CacheStep, PTL DEF CacheSpec

\* The queue stays within its limit and all fields keep their types.
THEOREM CacheTypeCorrect == CacheSpec => []CacheTypeOK
<1>1. CacheInv => CacheTypeOK
  BY DEF CacheInv
<1>. QED BY <1>1, CacheInvariance, PTL

\* get_block_cache never makes a second copy of a cached block.
THEOREM OneCopy == CacheSpec => []OneCachePerBlock
<1>1. CacheInv => OneCachePerBlock
  BY DEF CacheInv, Good, OneCachePerBlock
<1>. QED BY <1>1, CacheInvariance, PTL

\* Eviction takes no block that a caller holds.
THEOREM HeldStays == CacheSpec => []HeldIsCached
<1>1. CacheInv => HeldIsCached
  BY DEF CacheInv, Good, HeldIsCached
<1>. QED BY <1>1, CacheInvariance, PTL

\* A block whose modified flag is off may be dropped without a write.
THEOREM CleanIsSaved == CacheSpec => []CleanMatchesDevice
<1>1. CacheInv => CleanMatchesDevice
  BY DEF CacheInv, Good, CleanMatchesDevice
<1>. QED BY <1>1, CacheInvariance, PTL

\* Reads through get_block_cache see the last value stored.
THEOREM Coherent == CacheSpec => []ReadsLatest
<1>1. CacheInv => ReadsLatest
  BY ViewIsLatest DEF ReadsLatest
<1>. QED BY <1>1, CacheInvariance, PTL

\* What block_cache_sync_all has written survives a power loss at any later point.
THEOREM Durability == CacheSpec => []Durable
<1>1. CacheInv => Durable
  BY DEF CacheInv, Durable
<1>. QED BY <1>1, CacheInvariance, PTL

\* The panic of get_block_cache is out of reach for callers that nest at most
\* BLOCK_CACHE_MAX_NUM deep.
THEOREM NoPanic == CacheSpec => []NeverRunsOut
<1>1. CacheInv => NeverRunsOut
  BY DEF CacheInv, NeverRunsOut
<1>. QED BY <1>1, CacheInvariance, PTL

\* A step of the cache is a step of the durable array or none.
LEMMA CacheRefinesNext == CacheInv /\ CacheInv' /\ [CacheNext]_cvars => [CacheDisk!DNext]_(CacheDisk!dvars)
<1>. SUFFICES ASSUME CacheInv, CacheInv', [CacheNext]_cvars PROVE CacheDisk!DNext \/ UNCHANGED CacheDisk!dvars
  OBVIOUS
<1>1. View = latest /\ View' = latest' /\ latest \in [BlockNo -> Val]
  <2>1. (CacheInv => View = latest)'
    BY ViewIsLatest, PTL
  <2>. QED BY <2>1, ViewIsLatest DEF CacheInv, CacheTypeOK
<1>2. CASE latest' = latest /\ sinceSync' = sinceSync
  BY <1>1, <1>2 DEF CacheDisk!dvars
<1>3. ASSUME NEW b \in BlockNo, Hit(b) \/ Miss(b) \/ Evict(b)
      PROVE  latest' = latest /\ sinceSync' = sinceSync
  BY <1>3 DEF Hit, Miss, Evict, Load, hist
<1>4. ASSUME NEW v \in Val, Modify(v) PROVE CacheDisk!DNext
  <2>1. /\ stack # <<>> /\ latest' = [latest EXCEPT ![id[Top]] = v]
        /\ sinceSync' = [sinceSync EXCEPT ![id[Top]] = @ \cup {v}]
    BY <1>4 DEF Modify, StoreTop
  <2>2. id[Top] \in BlockNo
    <3>1. Top \in Obj /\ id \in [Obj -> BlockNo]
      BY <2>1 DEF CacheInv, CacheTypeOK, Top
    <3>. QED BY <3>1
  <2>3. CacheDisk!Write(id[Top], v)
    BY <1>1, <2>1 DEF CacheDisk!Write
  <2>. QED BY <2>2, <2>3 DEF CacheDisk!DNext
<1>5. CASE Release \/ BlockCacheSyncAll
  BY <1>2, <1>5 DEF Release, BlockCacheSyncAll, hist
<1>6. CASE SyncOne
  <2>1. latest' = latest /\ sinceSync' = IF Last THEN [b \in BlockNo |-> {latest[b]}] ELSE sinceSync
    BY <1>6 DEF SyncOne
  <2>2. CASE Last
    <3>1. CacheDisk!Flush
      BY <1>1, <2>1, <2>2 DEF CacheDisk!Flush
    <3>. QED BY <3>1 DEF CacheDisk!DNext
  <2>3. CASE ~Last
    BY <1>2, <2>1, <2>3
  <2>. QED BY <2>2, <2>3
<1>7. CASE Crash
  <2>1. latest' = device /\ sinceSync' = [b \in BlockNo |-> {device[b]}]
    BY <1>7 DEF Crash
  <2>2. device \in [BlockNo -> Val] /\ \A b \in BlockNo : device[b] \in sinceSync[b]
    BY DEF CacheInv, CacheTypeOK
  <2>3. CacheDisk!PowerLoss
    BY <1>1, <2>1, <2>2 DEF CacheDisk!PowerLoss
  <2>. QED BY <2>3 DEF CacheDisk!DNext
<1>8. CASE UNCHANGED cvars
  BY <1>2, <1>8 DEF cvars
<1>. QED BY <1>2, <1>3, <1>4, <1>5, <1>6, <1>7, <1>8 DEF CacheNext

\* The cache and the device together implement the durable array of blocks.
THEOREM CacheRefines == CacheSpec => DiskSpec
<1>1. CacheInit => CacheDisk!DInit
  <2>. SUFFICES ASSUME CacheInit PROVE CacheDisk!DInit
    OBVIOUS
  <2>1. View = device /\ sinceSync = [b \in BlockNo |-> {device[b]}]
    BY CacheInitInv, ViewIsLatest DEF CacheInit
  <2>. QED BY <2>1 DEF CacheInit, CacheDisk!DInit
<1>. QED BY <1>1, CacheRefinesNext, CacheInvariance, PTL DEF CacheSpec, DiskSpec, CacheDisk!DSpec

----------------------------------------------------------------------------
\* The directory.

Entry == [name : Name, inode : Nat]

\* Types of the directory's variables.
DirTypeOK ==
    /\ entries \in Seq(Entry)
    /\ nlink \in Seq(Nat) /\ Len(nlink) \in Nat \ {0}
    /\ removed \subseteq Name /\ IsFiniteSet(removed)

\* What NamesExact says holds of unlinked names too, since their entries stay where they
\* are, and only so can it be carried from call to call.
EntriesExact ==
    /\ \A i, j \in DOMAIN entries : entries[i].name = entries[j].name => i = j
    /\ \A i \in DOMAIN entries : entries[i].inode \in 1 .. NewInode - 1
    /\ \A k \in 1 .. NewInode - 1 : NamesOf(k) # {}

\* The invariant of the directory layer.
DirInv == DirTypeOK /\ EntriesExact /\ LinkCountExact

----------------------------------------------------------------------------
\* Quotient and remainder are unique.
LEMMA DivModUnique ==
    ASSUME NEW w \in Nat \ {0}, NEW q \in Int, NEW r \in 0 .. w - 1,
           NEW c \in Int, c = q * w + r
    PROVE  c % w = r /\ c \div w = q
<1>. DEFINE q2 == c \div w
            r2 == c % w
<1>1. q2 \in Int /\ r2 \in 0 .. w - 1 /\ c = q2 * w + r2
  BY Z3
<1>. HIDE DEF q2, r2
<1>3. (q - q2) * w = r2 - r
  BY <1>1, Z3
<1>4. q - q2 = 0
  <2>. DEFINE d == q - q2
  <2>1. d \in Int /\ d * w < w /\ d * w > -w
    BY <1>1, <1>3
  <2>. HIDE DEF d
  <2>2. CASE d >= 1
    BY <2>1, <2>2, Z3
  <2>3. CASE d <= -1
    BY <2>1, <2>3, Z3
  <2>. QED BY <2>1, <2>2, <2>3 DEF d
<1>5. q = q2 /\ r = r2
  BY <1>1, <1>4
<1>. QED BY <1>5 DEF q2, r2

\* A number below the modulus is its own remainder.
LEMMA SmallMod ==
    ASSUME NEW w \in Nat \ {0}, NEW r \in 0 .. w - 1
    PROVE  r % w = r /\ r \div w = 0
<1>. DEFINE z == 0
<1>1. z \in Int /\ r \in Int /\ r = z * w + r
  OBVIOUS
<1>. HIDE DEF z
<1>. QED BY <1>1, DivModUnique DEF z

\* Replacing one element keeps a sequence's length, its type and the other elements.
LEMMA SeqExcept ==
    ASSUME NEW S, NEW s \in Seq(S), NEW i \in 1 .. Len(s), NEW v \in S,
           NEW t, t = [s EXCEPT ![i] = v]
    PROVE  /\ t \in Seq(S) /\ Len(t) = Len(s) /\ t[i] = v
           /\ \A k \in 1 .. Len(s) : k # i => t[k] = s[k]
<1>1. DOMAIN t = 1 .. Len(s) /\ Len(s) \in Nat
  OBVIOUS
<1>2. \A k \in 1 .. Len(s) : t[k] \in S
  OBVIOUS
<1>3. t \in [1 .. Len(s) -> S]
  BY <1>1, <1>2
<1>. QED BY <1>1, <1>3

\* The decomposition of a natural by quotient and remainder.
LEMMA DivMod ==
    ASSUME NEW w \in Nat \ {0}, NEW c \in Nat
    PROVE  /\ c \div w \in Nat /\ c % w \in 0 .. w - 1
           /\ c = (c \div w) * w + (c % w)
<1>1. c \div w \in Int /\ c % w \in 0 .. w - 1 /\ c = (c \div w) * w + (c % w)
  BY Z3
<1>2. c \div w >= 0
  <2>. DEFINE q == c \div w
              r == c % w
  <2>. HIDE DEF q, r
  <2>1. q \in Int /\ r \in 0 .. w - 1 /\ c = q * w + r
    BY <1>1 DEF q, r
  <2>2. ASSUME q <= -1 PROVE FALSE
    <3>1. q * w <= -w
      BY <2>1, <2>2, Z3
    <3>. QED BY <2>1, <3>1
  <2>. QED BY <2>1, <2>2 DEF q
<1>. QED BY <1>1, <1>2

\* Adding one commutes with a wrap around of the link count.
LEMMA ModSucc ==
    ASSUME NEW c \in Nat, NEW w \in Nat \ {0}
    PROVE  ((c % w) + 1) % w = (c + 1) % w
<1>. DEFINE q == c \div w
            r == c % w
<1>1. q \in Nat /\ r \in 0 .. w - 1 /\ c = q * w + r
  BY DivMod
<1>. HIDE DEF q, r
<1>2. CASE r + 1 < w
  <2>1. c + 1 = q * w + (r + 1) /\ r + 1 = 0 * w + (r + 1) /\ r + 1 \in 0 .. w - 1
    BY <1>1, <1>2
  <2>2. (c + 1) % w = r + 1 /\ (r + 1) % w = r + 1
    BY <1>1, <2>1, DivModUnique
  <2>. QED BY <2>1, <2>2 DEF r
<1>3. CASE r + 1 = w
  <2>0. (q + 1) * w = q * w + w
    BY <1>1, Z3
  <2>1. c + 1 = (q + 1) * w + 0 /\ r + 1 = 1 * w + 0 /\ q + 1 \in Int /\ 0 \in 0 .. w - 1
    BY <1>1, <1>3, <2>0
  <2>2. (c + 1) % w = 0 /\ (r + 1) % w = 0
    BY <1>1, <2>1, DivModUnique
  <2>. QED BY <2>1, <2>2 DEF r
<1>. QED BY <1>1, <1>2, <1>3

\* So does subtracting one, which dec_nlink does by adding the largest count.
LEMMA ModPred ==
    ASSUME NEW c \in Nat \ {0}, NEW w \in Nat \ {0}
    PROVE  ((c % w) + w - 1) % w = (c - 1) % w
<1>. DEFINE q == c \div w
            r == c % w
<1>1. q \in Nat /\ r \in 0 .. w - 1 /\ c = q * w + r
  BY DivMod
<1>. HIDE DEF q, r
<1>2. CASE r >= 1
  <2>1. /\ c - 1 = q * w + (r - 1) /\ r + w - 1 = 1 * w + (r - 1) /\ r - 1 \in 0 .. w - 1
        /\ q \in Int /\ 1 \in Int /\ c - 1 \in Int /\ r + w - 1 \in Int
    BY <1>1, <1>2
  <2>2. PICK x, y, z : x = c - 1 /\ y = r + w - 1 /\ z = r - 1
    OBVIOUS
  <2>3. x \in Int /\ y \in Int /\ z \in 0 .. w - 1 /\ x = q * w + z /\ y = 1 * w + z
    BY <2>1, <2>2
  <2>4. x % w = z /\ y % w = z
    BY <1>1, <2>1, <2>3, DivModUnique
  <2>. QED BY <2>2, <2>4 DEF r
<1>3. CASE r = 0
  <2>0. (q - 1) * w = q * w - w
    BY <1>1, Z3
  <2>1. /\ c - 1 = (q - 1) * w + (w - 1) /\ r + w - 1 = 0 * w + (w - 1) /\ w - 1 \in 0 .. w - 1
        /\ q - 1 \in Int /\ 0 \in Int /\ c - 1 \in Int /\ r + w - 1 \in Int
    BY <1>1, <1>3, <2>0
  <2>2. PICK x, y, z, p : x = c - 1 /\ y = r + w - 1 /\ z = w - 1 /\ p = q - 1
    OBVIOUS
  <2>3. /\ x \in Int /\ y \in Int /\ z \in 0 .. w - 1 /\ p \in Int
        /\ x = p * w + z /\ y = 0 * w + z
    BY <2>1, <2>2
  <2>4. x % w = z /\ y % w = z
    BY <1>1, <2>1, <2>3, DivModUnique
  <2>. QED BY <2>2, <2>4 DEF r
<1>. QED BY <1>1, <1>2, <1>3

\* Where names are unique, find_inode_id returns the inode of the entry with the name.
LEMMA FindUnique ==
    ASSUME EntriesExact, NEW n, NEW i \in DOMAIN entries, entries[i].name = n,
           entries \in Seq(Entry)
    PROVE  Found(n) /\ FindInode(n) = entries[i].inode
<1>1. DOMAIN entries = 1 .. Len(entries) /\ Len(entries) \in Nat
  OBVIOUS
<1>2. \A j \in 1 .. i - 1 : entries[j].name # n
  BY <1>1 DEF EntriesExact
<1>3. \A k \in DOMAIN entries : entries[k].name = n /\ (\A j \in 1 .. k - 1 : entries[j].name # n)
                                 => k = i
  BY DEF EntriesExact
<1>. DEFINE P(k) == entries[k].name = n /\ \A j \in 1 .. k - 1 : entries[j].name # n
<1>4. (CHOOSE k \in DOMAIN entries : P(k)) = i
  <2>1. P(i) /\ \A k \in DOMAIN entries : P(k) => k = i
    BY <1>2, <1>3
  <2>. HIDE DEF P
  <2>. QED BY <2>1
<1>. QED BY <1>4 DEF Found, FindInode

\* The same, as a formula that can be used in the next state.
FindExact ==
    DirInv => \A i \in DOMAIN entries :
                 Found(entries[i].name) /\ FindInode(entries[i].name) = entries[i].inode

\* It holds in every state.
LEMMA FindIs == FindExact
BY FindUnique DEF FindExact, DirInv, DirTypeOK

\* A name that is found belongs to an allocated inode other than the root.
LEMMA FoundInode ==
    ASSUME DirInv, NEW n, Found(n)
    PROVE  FindInode(n) \in 1 .. NewInode - 1
<1>1. PICK i \in DOMAIN entries : entries[i].name = n
  BY DEF Found
<1>. QED BY <1>1, FindUnique DEF DirInv, DirTypeOK, EntriesExact

\* The names of an inode are finitely many.
LEMMA NamesFinite ==
    ASSUME entries \in Seq(Entry), NEW k
    PROVE  IsFiniteSet(LiveNames(k)) /\ Cardinality(LiveNames(k)) \in Nat
<1>1. IsFiniteSet(1 .. Len(entries))
  BY FS_Interval
<1>2. LiveNames(k) \subseteq 1 .. Len(entries)
  BY DEF NamesOf, LiveNames
<1>. QED BY <1>1, <1>2, FS_Subset, FS_CardinalityType

\* Inodes that have lost their names were given different names that are removed: there
\* are no more of them than removed names.
LEMMA NamelessBounded ==
    ASSUME DirInv
    PROVE  Cardinality({k \in 1 .. NewInode - 1 : LiveNames(k) = {}}) <= Cardinality(removed)
<1>. DEFINE N == {k \in 1 .. NewInode - 1 : LiveNames(k) = {}}
<1>1. \A k \in N : \E n \in removed : \E i \in DOMAIN entries :
                       entries[i].inode = k /\ entries[i].name = n
  <2>. SUFFICES ASSUME NEW k \in N
                PROVE  \E n \in removed : \E i \in DOMAIN entries :
                          entries[i].inode = k /\ entries[i].name = n
    OBVIOUS
  <2>1. PICK i \in NamesOf(k) : TRUE
    BY DEF DirInv, EntriesExact
  <2>. QED BY <2>1 DEF LiveNames, NamesOf
<1>2. PICK f \in [N -> removed] :
         \A k \in N : \E i \in DOMAIN entries : entries[i].inode = k /\ entries[i].name = f[k]
  <2>. DEFINE P(k, n) == \E i \in DOMAIN entries : entries[i].inode = k /\ entries[i].name = n
              g == [k \in N |-> CHOOSE n \in removed : P(k, n)]
  <2>1. \A k \in N : \E n \in removed : P(k, n)
    BY <1>1
  <2>. HIDE DEF P, N
  <2>2. \A k \in N : g[k] \in removed /\ P(k, g[k])
    BY <2>1
  <2>3. g \in [N -> removed]
    BY <2>2
  <2>. QED BY <2>2, <2>3 DEF P
<1>3. \A k, l \in N : f[k] = f[l] => k = l
  BY <1>2 DEF DirInv, EntriesExact
<1>4. IsFiniteSet(removed)
  BY DEF DirInv, DirTypeOK
<1>. HIDE DEF N
<1>5. f \in Injection(N, removed)
  BY <1>2, <1>3 DEF Injection, IsInjective
<1>6. Cardinality(N) <= Cardinality(removed)
  BY <1>4, <1>5, FS_Injection
<1>. QED BY <1>6 DEF N

\* The invariant gives what it says of the names that were not unlinked.
LEMMA NamesFollow == DirInv => NamesExact
BY NamelessBounded DEF DirInv, EntriesExact, NamesExact

----------------------------------------------------------------------------
\* What one more entry does to the names: it is the last one, the others stay, and
\* only its inode gets another name.
LEMMA Extended ==
    ASSUME DirInv, NEW n \in Name, NEW inode \in Nat, ~Found(n),
           entries' = Append(entries, [name |-> n, inode |-> inode])
    PROVE  /\ entries' \in Seq(Entry)
           /\ DOMAIN entries = 1 .. Len(entries) /\ DOMAIN entries' = 1 .. Len(entries) + 1
           /\ \A i \in DOMAIN entries : entries'[i] = entries[i] /\ entries[i].name # n
           /\ entries'[Len(entries) + 1] = [name |-> n, inode |-> inode]
           /\ \A i, j \in DOMAIN entries' : entries'[i].name = entries'[j].name => i = j
           /\ \A k : NamesOf(k)' = IF k = inode THEN NamesOf(k) \cup {Len(entries) + 1}
                                   ELSE NamesOf(k)
<1>1. entries \in Seq(Entry) /\ Len(entries) \in Nat
  BY DEF DirInv, DirTypeOK
<1>2. [name |-> n, inode |-> inode] \in Entry
  BY DEF Entry
<1>3. /\ entries' \in Seq(Entry)
      /\ DOMAIN entries = 1 .. Len(entries) /\ DOMAIN entries' = 1 .. Len(entries) + 1
      /\ \A i \in DOMAIN entries : entries'[i] = entries[i]
      /\ entries'[Len(entries) + 1] = [name |-> n, inode |-> inode]
  BY <1>1, <1>2
<1>4. \A i \in DOMAIN entries : entries[i].name # n
  BY DEF Found
<1>5. \A i, j \in DOMAIN entries' : entries'[i].name = entries'[j].name => i = j
  BY <1>1, <1>3, <1>4 DEF DirInv, EntriesExact
<1>6. ASSUME NEW k
      PROVE  NamesOf(k)' = IF k = inode THEN NamesOf(k) \cup {Len(entries) + 1} ELSE NamesOf(k)
  BY <1>1, <1>3 DEF NamesOf
<1>. QED BY <1>3, <1>4, <1>5, <1>6

\* The same for the names that were not unlinked: a new name is one of them.
LEMMA ExtendedLive ==
    ASSUME DirInv, NEW n \in Name, NEW inode \in Nat, ~Found(n),
           entries' = Append(entries, [name |-> n, inode |-> inode]),
           removed' = removed \ {n}, NEW k
    PROVE  LiveNames(k)' = IF k = inode THEN LiveNames(k) \cup {Len(entries) + 1}
                           ELSE LiveNames(k)
<1>1. NamesOf(k)' = IF k = inode THEN NamesOf(k) \cup {Len(entries) + 1} ELSE NamesOf(k)
  BY Extended
<1>2. \A i \in NamesOf(k) : entries'[i].name = entries[i].name /\ entries[i].name # n
  BY Extended DEF NamesOf
<1>3. entries'[Len(entries) + 1].name = n
  BY Extended
<1>. QED BY <1>1, <1>2, <1>3 DEF LiveNames

\* The names of removed stay finitely many.
LEMMA RemovedFinite ==
    ASSUME DirInv, NEW n
    PROVE  IsFiniteSet(removed \ {n}) /\ IsFiniteSet(removed \cup {n})
BY FS_RemoveElement, FS_AddElement DEF DirInv, DirTypeOK

\* Inode::create: a new inode with one name and link count 1.
LEMMA CreateKeeps ==
    ASSUME DirInv, NEW n \in Name, ~Found(n),
           entries' = Append(entries, [name |-> n, inode |-> NewInode]),
           nlink' = Append(nlink, 1), removed' = removed \ {n}, again' = again
    PROVE  DirInv'
<1>1. NewInode \in Nat \ {0} /\ nlink \in Seq(Nat) /\ NewInode' = NewInode + 1
  BY DEF DirInv, DirTypeOK, NewInode
<1>2. DirTypeOK'
  <2>1. entries' \in Seq(Entry)
    BY <1>1, Extended
  <2>2. nlink' \in Seq(Nat) /\ Len(nlink') \in Nat \ {0}
    BY <1>1
  <2>3. removed' \subseteq Name /\ IsFiniteSet(removed')
    BY RemovedFinite DEF DirInv, DirTypeOK
  <2>. QED BY <2>1, <2>2, <2>3 DEF DirTypeOK
<1>3. EntriesExact'
  <2>1. ASSUME NEW i \in DOMAIN entries' PROVE entries'[i].inode \in 1 .. NewInode' - 1
    BY <1>1, Extended DEF DirInv, EntriesExact
  <2>2. ASSUME NEW k \in 1 .. NewInode' - 1 PROVE NamesOf(k)' # {}
    <3>1. NamesOf(k)' = IF k = NewInode THEN NamesOf(k) \cup {Len(entries) + 1} ELSE NamesOf(k)
      BY <1>1, Extended
    <3>2. ASSUME k # NewInode PROVE NamesOf(k) # {}
      <4>1. k \in 1 .. NewInode - 1
        BY <1>1, <3>2
      <4>. QED BY <4>1 DEF DirInv, EntriesExact
    <3>. QED BY <3>1, <3>2
  <2>. QED BY <2>1, <2>2, <1>1, Extended DEF EntriesExact
<1>4. LinkCountExact'
  <2>. SUFFICES ASSUME NEW k \in 1 .. NewInode' - 1,
                       \A i \in NamesOf(k)' : entries'[i].name \notin again'
                PROVE  nlink'[k + 1] = Cardinality(LiveNames(k)') % Word
    BY DEF LinkCountExact
  <2>1. CASE k = NewInode
    <3>1. NamesOf(k) = {}
      BY <2>1, <1>1 DEF NamesOf, DirInv, EntriesExact
    <3>2. LiveNames(k)' = {Len(entries) + 1}
      <4>1. LiveNames(k) = {}
        BY <3>1 DEF LiveNames
      <4>2. LiveNames(k)' = LiveNames(k) \cup {Len(entries) + 1}
        BY <2>1, <1>1, ExtendedLive
      <4>. QED BY <4>1, <4>2
    <3>3. Cardinality(LiveNames(k)') = 1
      BY <3>2, FS_Singleton
    <3>4. 1 % Word = 1
      <4>1. Word \in Nat \ {0} /\ 1 \in 0 .. Word - 1
        BY DirectoryAssumption
      <4>. QED BY <4>1, SmallMod, Zenon
    <3>. QED BY <2>1, <3>3, <3>4, <1>1 DEF NewInode
  <2>2. CASE k # NewInode
    <3>1. k \in 1 .. NewInode - 1 /\ NamesOf(k)' = NamesOf(k) /\ nlink'[k + 1] = nlink[k + 1]
      BY <2>2, <1>1, Extended DEF NewInode
    <3>2. ASSUME NEW i \in NamesOf(k) PROVE entries[i].name \notin again
      <4>1. i \in DOMAIN entries /\ entries'[i].name \notin again'
        BY <3>1 DEF NamesOf
      <4>2. entries'[i] = entries[i]
        BY <1>1, <4>1, Extended
      <4>. QED BY <4>1, <4>2
    <3>3. LiveNames(k)' = LiveNames(k)
      BY <2>2, <1>1, ExtendedLive
    <3>. QED BY <3>1, <3>2, <3>3 DEF DirInv, LinkCountExact
  <2>. QED BY <2>1, <2>2
<1>. QED BY <1>2, <1>3, <1>4 DEF DirInv

\* Inode::linkat: another name for an inode, whose link count goes up by one.
LEMMA LinkatKeeps ==
    ASSUME DirInv, NEW n \in Name, ~Found(n), NEW inode \in 1 .. NewInode - 1,
           entries' = Append(entries, [name |-> n, inode |-> inode]),
           nlink' = Linked(inode), removed' = removed \ {n}, again' = again
    PROVE  DirInv'
<1>1. NewInode \in Nat \ {0} /\ nlink \in Seq(Nat) /\ inode \in Nat
  BY DEF DirInv, DirTypeOK, NewInode
<1>2. nlink' \in Seq(Nat) /\ Len(nlink') = Len(nlink) /\ NewInode' = NewInode
      /\ nlink'[inode + 1] = (nlink[inode + 1] + 1) % Word
      /\ \A k \in 1 .. Len(nlink) : k # inode + 1 => nlink'[k] = nlink[k]
  BY <1>1, DirectoryAssumption DEF Linked, NewInode
<1>3. DirTypeOK'
  BY <1>1, <1>2, Extended, RemovedFinite DEF DirInv, DirTypeOK, NewInode
<1>4. EntriesExact'
  <2>1. ASSUME NEW i \in DOMAIN entries' PROVE entries'[i].inode \in 1 .. NewInode' - 1
    <3>1. CASE i \in DOMAIN entries
      <4>1. entries'[i] = entries[i] /\ entries[i].inode \in 1 .. NewInode - 1
        BY <3>1, <1>1, Extended DEF DirInv, EntriesExact
      <4>. QED BY <4>1, <1>2
    <3>2. CASE i = Len(entries) + 1
      <4>1. entries'[i].inode = inode
        BY <3>2, <1>1, Extended
      <4>. QED BY <4>1, <1>2
    <3>. QED BY <3>1, <3>2, <1>1, Extended DEF DirInv, DirTypeOK
  <2>2. ASSUME NEW k \in 1 .. NewInode' - 1 PROVE NamesOf(k)' # {}
    <3>1. NamesOf(k)' = IF k = inode THEN NamesOf(k) \cup {Len(entries) + 1} ELSE NamesOf(k)
      BY <1>1, Extended
    <3>2. NamesOf(k) # {}
      BY <1>1, <1>2 DEF DirInv, EntriesExact
    <3>. QED BY <3>1, <3>2
  <2>. QED BY <2>1, <2>2, <1>1, Extended DEF EntriesExact
<1>5. LinkCountExact'
  <2>. SUFFICES ASSUME NEW k \in 1 .. NewInode' - 1,
                       \A i \in NamesOf(k)' : entries'[i].name \notin again'
                PROVE  nlink'[k + 1] = Cardinality(LiveNames(k)') % Word
    BY DEF LinkCountExact
  <2>0. NamesOf(k)' = IF k = inode THEN NamesOf(k) \cup {Len(entries) + 1} ELSE NamesOf(k)
    BY <1>1, Extended
  <2>1. ASSUME NEW i \in NamesOf(k) PROVE entries[i].name \notin again
    <3>1. i \in DOMAIN entries /\ i \in NamesOf(k)'
      BY <2>0 DEF NamesOf
    <3>2. entries'[i] = entries[i]
      BY <3>1, <1>1, Extended
    <3>. QED BY <3>1, <3>2
  <2>2. nlink[k + 1] = Cardinality(LiveNames(k)) % Word
    BY <2>1, <1>2 DEF DirInv, LinkCountExact
  <2>3. CASE k = inode
    <3>. DEFINE c == Cardinality(LiveNames(k))
    <3>1. IsFiniteSet(LiveNames(k)) /\ c \in Nat
      BY NamesFinite DEF DirInv, DirTypeOK
    <3>2. Len(entries) + 1 \notin LiveNames(k) /\ LiveNames(k)' = LiveNames(k) \cup {Len(entries) + 1}
      <4>1. LiveNames(k)' = LiveNames(k) \cup {Len(entries) + 1}
        BY <2>3, <1>1, ExtendedLive
      <4>2. Len(entries) + 1 \notin DOMAIN entries
        BY DEF DirInv, DirTypeOK
      <4>. QED BY <4>1, <4>2 DEF NamesOf, LiveNames
    <3>3. Cardinality(LiveNames(k)') = c + 1
      BY <3>1, <3>2, FS_AddElement
    <3>. HIDE DEF c
    <3>4. ((c % Word) + 1) % Word = (c + 1) % Word
      BY <3>1, ModSucc, DirectoryAssumption
    <3>. QED BY <2>2, <2>3, <3>3, <3>4, <1>2 DEF c
  <2>4. CASE k # inode
    <3>1. LiveNames(k)' = LiveNames(k)
      BY <2>4, <1>1, ExtendedLive
    <3>2. nlink'[k + 1] = nlink[k + 1]
      <4>1. PICK l : l = k + 1
        OBVIOUS
      <4>2. l \in 1 .. Len(nlink) /\ l # inode + 1
        BY <2>4, <1>1, <1>2, <4>1 DEF NewInode
      <4>3. nlink'[l] = nlink[l]
        BY <1>2, <4>2, Zenon
      <4>. QED BY <4>1, <4>3
    <3>. QED BY <3>1, <3>2, <2>2
  <2>. QED BY <2>3, <2>4
<1>. QED BY <1>3, <1>4, <1>5 DEF DirInv

\* Inode::unlinkat: the count goes down, the entry stays.  A name that is unlinked again
\* takes its inode out of what LinkCountExact speaks of.
LEMMA UnlinkatKeeps ==
    ASSUME DirInv, NEW n \in Name, NEW e \in DOMAIN entries, entries[e].name = n,
           NEW inode \in Nat, inode = entries[e].inode, NEW less \in Nat,
           less = (nlink[inode + 1] + Word - 1) % Word,
           nlink' = [nlink EXCEPT ![inode + 1] = less],
           entries' = entries, removed' = removed \cup {n},
           again' = again \cup ({n} \cap removed)
    PROVE  DirInv'
<1>3. inode + 1 \in 1 .. Len(nlink) /\ nlink \in Seq(Nat) /\ Len(nlink) \in Nat
  <2>1. nlink \in Seq(Nat) /\ Len(nlink) \in Nat
    BY DEF DirInv, DirTypeOK
  <2>2. inode \in 1 .. Len(nlink) - 1
    BY DEF DirInv, EntriesExact, NewInode
  <2>. QED BY <2>1, <2>2
<1>6. nlink' \in Seq(Nat) /\ Len(nlink') = Len(nlink) /\ NewInode' = NewInode
      /\ nlink'[inode + 1] = less
      /\ \A k \in 1 .. Len(nlink) : k # inode + 1 => nlink'[k] = nlink[k]
  BY <1>3, SeqExcept DEF NewInode
<1>7. DirTypeOK'
  BY <1>6, RemovedFinite DEF DirInv, DirTypeOK
<1>8. EntriesExact'
  BY <1>6 DEF DirInv, EntriesExact, NamesOf
<1>9. LinkCountExact'
  <2>. SUFFICES ASSUME NEW k \in 1 .. NewInode' - 1,
                       \A i \in NamesOf(k)' : entries'[i].name \notin again'
                PROVE  nlink'[k + 1] = Cardinality(LiveNames(k)') % Word
    BY DEF LinkCountExact
  <2>1. NamesOf(k)' = NamesOf(k) /\ \A i \in NamesOf(k) : entries[i].name \notin again
    BY DEF NamesOf
  <2>2. nlink[k + 1] = Cardinality(LiveNames(k)) % Word
    BY <1>6, <2>1 DEF DirInv, LinkCountExact
  <2>3. LiveNames(k)' = LiveNames(k) \ {e}
    <3>1. \A i \in DOMAIN entries : entries[i].name = n <=> i = e
      BY DEF DirInv, EntriesExact
    <3>2. \A i \in NamesOf(k) : i \in DOMAIN entries
      BY DEF NamesOf
    <3>. QED BY <2>1, <3>1, <3>2 DEF LiveNames
  <2>4. CASE k = inode
    <3>1. e \in LiveNames(k)
      <4>1. e \in NamesOf(k)
        BY <2>4 DEF NamesOf
      <4>2. n \notin again'
        BY <2>1, <4>1
      <4>. QED BY <4>1, <4>2 DEF LiveNames
    <3>. DEFINE c == Cardinality(LiveNames(k))
    <3>2. IsFiniteSet(LiveNames(k)) /\ c \in Nat
      BY NamesFinite DEF DirInv, DirTypeOK
    <3>3. Cardinality(LiveNames(k) \ {e}) = c - 1
      BY <3>1, <3>2, FS_RemoveElement
    <3>4. c # 0
      BY <3>1, <3>2, FS_EmptySet
    <3>. HIDE DEF c
    <3>5. ((c % Word) + Word - 1) % Word = (c - 1) % Word
      BY <3>2, <3>4, ModPred, DirectoryAssumption
    <3>. QED BY <1>6, <2>2, <2>3, <2>4, <3>3, <3>5 DEF c
  <2>5. CASE k # inode
    <3>1. LiveNames(k)' = LiveNames(k)
      BY <2>3, <2>5 DEF LiveNames, NamesOf
    <3>2. nlink'[k + 1] = nlink[k + 1]
      BY <2>5, <1>3, <1>6 DEF NewInode
    <3>. QED BY <2>2, <3>1, <3>2
  <2>. QED BY <2>4, <2>5
<1>. QED BY <1>7, <1>8, <1>9 DEF DirInv

\* Every call of the directory layer keeps the invariant, also one that panics.
LEMMA DirStep == DirInv /\ [Next]_vars => DirInv'
<1>. SUFFICES ASSUME DirInv, [Next]_vars PROVE DirInv'
  OBVIOUS
<1>1. ASSUME UNCHANGED <<entries, nlink, removed, again>> PROVE DirInv'
  BY <1>1 DEF DirInv, DirTypeOK, EntriesExact, LinkCountExact, NamesOf, LiveNames, NewInode
<1>2. ASSUME NEW n \in Name, Create(n) PROVE DirInv'
  <2>1. CASE UNCHANGED <<entries, nlink, removed, again>>
    BY <2>1, <1>1
  <2>2. CASE ~UNCHANGED <<entries, nlink, removed, again>>
    <3>1. ~Found(n) /\ AddEntry(n, NewInode, Append(nlink, 1))
      BY <1>2, <2>2 DEF Create, Panic
    <3>. QED BY <3>1, <2>2, CreateKeeps DEF AddEntry, Panic
  <2>. QED BY <2>1, <2>2
<1>3. ASSUME NEW n \in Name, Unlinkat(n) PROVE DirInv'
  <2>1. CASE UNCHANGED <<entries, nlink, removed, again>>
    BY <2>1, <1>1
  <2>2. CASE ~UNCHANGED <<entries, nlink, removed, again>>
    <3>1. /\ Found(n) /\ entries' = entries /\ removed' = removed \cup {n}
          /\ again' = again \cup ({n} \cap removed)
          /\ nlink' = [nlink EXCEPT ![FindInode(n) + 1] = (@ + Word - 1) % Word]
      BY <1>3, <2>2 DEF Unlinkat, Panic, EntriesAfterUnlink, Unlinked
    <3>2. PICK e \in DOMAIN entries : entries[e].name = n
      BY <3>1 DEF Found
    <3>3. FindInode(n) = entries[e].inode /\ FindInode(n) \in 1 .. NewInode - 1
      BY <3>1, <3>2, FindUnique, FoundInode DEF DirInv, DirTypeOK
    <3>4. FindInode(n) \in Nat /\ nlink[FindInode(n) + 1] \in Nat
      BY <3>3 DEF DirInv, DirTypeOK, NewInode
    <3>5. (nlink[FindInode(n) + 1] + Word - 1) % Word \in Nat
      BY <3>4, DirectoryAssumption
    <3>. QED BY <3>1, <3>2, <3>3, <3>4, <3>5, UnlinkatKeeps
  <2>. QED BY <2>1, <2>2
<1>4. ASSUME NEW n \in Name, NEW m \in Name, Linkat(n, m) PROVE DirInv'
  <2>1. CASE UNCHANGED <<entries, nlink, removed, again>>
    BY <2>1, <1>1
  <2>2. CASE ~UNCHANGED <<entries, nlink, removed, again>>
    <3>1. ~Found(m) /\ Found(n) /\ AddEntry(m, FindInode(n), Linked(FindInode(n)))
      BY <1>4, <2>2 DEF Linkat, Panic
    <3>2. FindInode(n) \in 1 .. NewInode - 1
      BY <3>1, FoundInode
    <3>. QED BY <3>1, <3>2, <2>2, LinkatKeeps DEF AddEntry, Panic
  <2>. QED BY <2>1, <2>2
<1>. QED BY <1>1, <1>2, <1>3, <1>4 DEF Next, vars

\* The root directory of a new file system, and every call on it.
THEOREM DirInvariance == Spec => []DirInv
<1>1. Init => DirInv
  <2>. SUFFICES ASSUME Init PROVE DirInv
    OBVIOUS
  <2>1. entries = <<>> /\ nlink = <<1>> /\ removed = {} /\ NewInode = 1
    BY DEF Init, NewInode
  <2>. QED BY <2>1, FS_EmptySet DEF DirInv, DirTypeOK, EntriesExact, LinkCountExact
<1>. QED BY <1>1, DirStep, PTL DEF Spec

\* A name that was not unlinked is in the directory once and refers to an allocated inode,
\* and only unlinkat leaves inodes without a name, one for each name it removes at most.
THEOREM NamesSafety == Spec => []NamesExact
BY DirInvariance, NamesFollow, PTL

\* The link count that linkat and unlinkat keep in the inode is the number of names it has
\* been given and not lost, modulo the width of the count, until one is unlinked twice.
THEOREM LinkCountSafety == Spec => []LinkCountExact
BY DirInvariance, PTL DEF DirInv

\* find_inode_id of a name returns the same inode until that name is unlinked.
THEOREM BindingSafety == Spec => BindingStable
<1>. DEFINE Bound1 == \A n \in Name \ removed' :
                        Found(n) => Found(n)' /\ FindInode(n)' = FindInode(n)
<1>1. ASSUME DirInv, DirInv', FindExact', [Next]_vars PROVE [Bound1]_vars
  <2>. SUFFICES ASSUME Next, NEW n, Found(n) PROVE Found(n)' /\ FindInode(n)' = FindInode(n)
    BY <1>1
  <2>1. PICK i \in DOMAIN entries : entries[i].name = n
    BY DEF Found
  <2>2. i \in DOMAIN entries' /\ entries'[i] = entries[i]
    <3>1. UNCHANGED entries \/ \E e \in Entry : entries' = Append(entries, e)
      <4>1. \A x \in Name : Found(x) => FindInode(x) \in Nat
        BY <1>1, FoundInode DEF DirInv, DirTypeOK, NewInode
      <4>2. NewInode \in Nat
        BY <1>1 DEF DirInv, DirTypeOK, NewInode
      <4>. QED BY <4>1, <4>2 DEF Next, Create, Linkat, Unlinkat, AddEntry, Panic,
                                 EntriesAfterUnlink, Entry
    <3>2. entries \in Seq(Entry)
      BY <1>1 DEF DirInv, DirTypeOK
    <3>. QED BY <2>1, <3>1, <3>2
  <2>3. FindInode(n) = entries[i].inode
    BY <1>1, <2>1, FindUnique DEF DirInv, DirTypeOK
  <2>4. Found(n)' /\ FindInode(n)' = entries'[i].inode
    BY <1>1, <2>1, <2>2 DEF FindExact
  <2>. QED BY <2>2, <2>3, <2>4
<1>. QED BY <1>1, DirInvariance, FindIs, PTL DEF Spec, BindingStable

----------------------------------------------------------------------------
\* Power loss.

\* Numbers of data blocks that the directory can have.
BlockId == 0 .. MaxBlocks - 1

\* With contents d, block k has all it must have for the first n entries of the
\* directory es, and nothing that contradicts es.
Covers(es, k, d, n) ==
    /\ k = Bitmap => \A i \in 1 .. n : es[i].inode < d
    /\ k = DataBitmap => TotalBlocks(n) <= d
    /\ k = InodeBlock(0) => n <= d.size /\ d.size <= Len(es)
    /\ k = Indirect2 => \A b \in BlockId : b >= Bound /\ b * PerBlock < n => IndexOf(b) <= d
    /\ \A b \in BlockId :
         /\ k = Index(IndexOf(b)) /\ b >= Direct /\ b * PerBlock < n => SlotOf(b) < d
         /\ k = DataBlock(b) =>
              /\ Len(d) <= PerBlock
              /\ \A m \in 1 .. Len(d) : b * PerBlock + m <= Len(es) /\ d[m] = es[b * PerBlock + m]
              /\ n <= b * PerBlock + Len(d) \/ Len(d) = PerBlock

\* Values that the type of block k allows.
Fits(k) ==
    CASE k[1] = "data"   -> Seq(Entry)
      [] k[1] = "inodes" -> [links : [0 .. InodesPerBlock - 1 -> Nat], size : Nat]
      [] OTHER           -> Nat

StoreSet == {s \in [block : Block, data : Content] : s.data \in Fits(s.block)}

RTypeOK ==
    /\ view \in [Block -> Content] /\ \A k \in Block : view[k] \in Fits(k)
    /\ since \in [Block -> SUBSET Content]
    /\ \A k \in Block : view[k] \in since[k] /\ since[k] \subseteq Fits(k)
    /\ todo \in Seq(StoreSet)
    /\ kept \in 0 .. Count /\ calls \in 0 .. MaxCalls /\ Count <= calls /\ NewInode <= MaxInodes
    /\ off \in BOOLEAN

\* Every value that a block may fall back to, and every store still to be made, covers
\* the entries of the last flush.
SinceCovers == \A k \in Block : \A d \in since[k] : Covers(entries, k, d, kept)
TodoCovers  == \A i \in DOMAIN todo : Covers(entries, todo[i].block, todo[i].data, kept)

\* Once all stores are made, every block covers all entries: a block that does not, and
\* a store that does not, has a later store.
Stored(s) == {s[i].block : i \in DOMAIN s}
Settles(es, s) ==
    \A i \in DOMAIN s : \/ Covers(es, s[i].block, s[i].data, Len(es))
                        \/ \E j \in DOMAIN s : j > i /\ s[j].block = s[i].block
WillCover ==
    ~off /\ panic = "no" =>
       /\ \A k \in Block : Covers(entries, k, view[k], Count) \/ k \in Stored(todo)
       /\ Settles(entries, todo)

RInv == DirInv /\ RTypeOK /\ SinceCovers /\ TodoCovers /\ WillCover

----------------------------------------------------------------------------
\* Arithmetic of blocks.

\* The quotient is the largest factor that fits.
LEMMA DivBound ==
    ASSUME NEW w \in Nat \ {0}, NEW b \in Nat, NEW c \in Nat
    PROVE  b * w <= c <=> b <= c \div w
<1>. DEFINE q == c \div w
            r == c % w
<1>1. q \in Nat /\ r \in 0 .. w - 1 /\ c = q * w + r
  BY DivMod
<1>. HIDE DEF q, r
<1>2. ASSUME b <= q PROVE b * w <= c
  <2>1. b * w <= q * w
    BY <1>1, <1>2, Z3
  <2>. QED BY <1>1, <2>1
<1>3. ASSUME b >= q + 1 PROVE b * w > c
  <2>1. b * w >= (q + 1) * w /\ (q + 1) * w = q * w + w
    BY <1>1, <1>3, Z3
  <2>. QED BY <1>1, <2>1
<1>. QED BY <1>1, <1>2, <1>3 DEF q

\* Division keeps the order.
LEMMA DivMonotone ==
    ASSUME NEW w \in Nat \ {0}, NEW a \in Nat, NEW c \in Nat, a <= c
    PROVE  a \div w \in Nat /\ a \div w <= c \div w
<1>. DEFINE q == a \div w
<1>1. q \in Nat /\ a \div w = q
  BY DivMod
<1>2. q * w <= a <=> q <= a \div w
  BY <1>1, DivBound
<1>3. q * w <= c <=> q <= c \div w
  BY <1>1, DivBound
<1>. HIDE DEF q
<1>. QED BY <1>1, <1>2, <1>3

\* The constants, one by one.
LEMMA Sizes ==
    /\ PerBlock \in Nat \ {0} /\ Direct \in Nat \ {0} /\ Width \in Nat \ {0}
    /\ InodesPerBlock \in Nat \ {0} /\ MaxInodes \in Nat \ {0} /\ MaxCalls \in Nat
    /\ Bound \in Nat /\ Bound = Direct + Width
BY DirectoryAssumption, RecoveryAssumption DEF Bound

\* The directory of c entries has the data blocks that begin before its end.
LEMMA DirBlocksIs ==
    ASSUME NEW c \in Nat
    PROVE  DirBlocks(c) \in Nat /\ \A b \in Nat : b * PerBlock < c <=> b < DirBlocks(c)
<1>1. c + PerBlock - 1 \in Nat
  BY Sizes
<1>2. DirBlocks(c) \in Nat
  BY <1>1, Sizes, DivMod DEF DirBlocks
<1>3. ASSUME NEW b \in Nat PROVE b * PerBlock < c <=> b < DirBlocks(c)
  <2>1. (b + 1) * PerBlock = b * PerBlock + PerBlock /\ b * PerBlock \in Nat
    BY Sizes, Z3
  <2>2. (b + 1) * PerBlock <= c + PerBlock - 1 <=> b + 1 <= (c + PerBlock - 1) \div PerBlock
    BY <1>1, Sizes, DivBound
  <2>3. (b + 1) * PerBlock <= c + PerBlock - 1 <=> b * PerBlock < c
    BY <2>1, Sizes
  <2>. QED BY <1>2, <2>2, <2>3 DEF DirBlocks
<1>. QED BY <1>2, <1>3

\* One more entry: a new block if the others are full.
LEMMA DirBlocksNext ==
    ASSUME NEW c \in Nat
    PROVE  /\ c \div PerBlock \in Nat /\ c % PerBlock \in 0 .. PerBlock - 1
           /\ c = (c \div PerBlock) * PerBlock + (c % PerBlock)
           /\ DirBlocks(c + 1) = (c \div PerBlock) + 1
           /\ c % PerBlock = 0 => DirBlocks(c) = c \div PerBlock
           /\ c % PerBlock # 0 => DirBlocks(c) = DirBlocks(c + 1)
<1>. DEFINE q == c \div PerBlock
            r == c % PerBlock
<1>1. q \in Nat /\ r \in 0 .. PerBlock - 1 /\ c = q * PerBlock + r
  BY Sizes, DivMod
<1>2. (c + 1) + PerBlock - 1 = (q + 1) * PerBlock + r
  <2>. HIDE DEF q, r
  <2>1. (q + 1) * PerBlock = q * PerBlock + PerBlock
    BY <1>1, Sizes, Z3
  <2>. QED BY <1>1, <2>1, Sizes
<1>. HIDE DEF q, r
<1>3. DirBlocks(c + 1) = q + 1
  BY <1>1, <1>2, Sizes, DivModUnique DEF DirBlocks
<1>4. ASSUME r = 0 PROVE DirBlocks(c) = q
  <2>1. c + PerBlock - 1 = q * PerBlock + (PerBlock - 1) /\ PerBlock - 1 \in 0 .. PerBlock - 1
    BY <1>1, <1>4, Sizes
  <2>. QED BY <1>1, <2>1, Sizes, DivModUnique DEF DirBlocks
<1>5. ASSUME r # 0 PROVE DirBlocks(c) = q + 1
  <2>1. (q + 1) * PerBlock = q * PerBlock + PerBlock
    BY <1>1, Sizes, Z3
  <2>2. c + PerBlock - 1 = (q + 1) * PerBlock + (r - 1) /\ r - 1 \in 0 .. PerBlock - 1
    BY <1>1, <1>5, <2>1, Sizes
  <2>. QED BY <1>1, <2>2, Sizes, DivModUnique DEF DirBlocks
<1>. QED BY <1>1, <1>3, <1>4, <1>5 DEF q, r

\* A larger directory has no fewer data blocks.
LEMMA DirBlocksMonotone ==
    ASSUME NEW a \in Nat, NEW c \in Nat, a <= c
    PROVE  DirBlocks(a) <= DirBlocks(c)
<1>1. a + PerBlock - 1 \in Nat /\ c + PerBlock - 1 \in Nat /\ a + PerBlock - 1 <= c + PerBlock - 1
  BY Sizes
<1>. QED BY <1>1, Sizes, DivMonotone DEF DirBlocks

\* Nor fewer blocks in all, with its index blocks.
LEMMA TotalBlocksMonotone ==
    ASSUME NEW a \in Nat, NEW c \in Nat, a <= c
    PROVE  TotalBlocks(a) \in Nat /\ TotalBlocks(a) <= TotalBlocks(c)
<1>. DEFINE n == DirBlocks(a)
            m == DirBlocks(c)
            T(x) == x + (IF x > Direct THEN 1 ELSE 0)
                      + (IF x > Bound THEN 1 + (x - Bound + Width - 1) \div Width ELSE 0)
<1>1. n \in Nat /\ m \in Nat /\ n <= m
  BY DirBlocksIs, DirBlocksMonotone
<1>2. TotalBlocks(a) = T(n) /\ TotalBlocks(c) = T(m)
  BY DEF TotalBlocks
<1>. HIDE DEF n, m
<1>3. ASSUME NEW x \in Nat, x > Bound
      PROVE  x - Bound + Width - 1 \in Nat /\ (x - Bound + Width - 1) \div Width \in Nat
  <2>1. x - Bound + Width - 1 \in Nat
    BY <1>3, Sizes
  <2>. QED BY <2>1, Sizes, DivMod
<1>4. ASSUME n > Bound
      PROVE  (n - Bound + Width - 1) \div Width <= (m - Bound + Width - 1) \div Width
  <2>1. /\ n - Bound + Width - 1 \in Nat /\ m - Bound + Width - 1 \in Nat
        /\ n - Bound + Width - 1 <= m - Bound + Width - 1
    BY <1>1, <1>4, Sizes
  <2>. QED BY <2>1, Sizes, DivMonotone
<1>5. T(n) \in Nat
  BY <1>1, <1>3, Sizes
<1>6. T(n) <= T(m)
  BY <1>1, <1>3, <1>4, Sizes
<1>. QED BY <1>2, <1>5, <1>6

\* Later data blocks are not under earlier index blocks.
LEMMA IndexMonotone ==
    ASSUME NEW a \in Nat, NEW b \in Nat, a <= b
    PROVE  IndexOf(a) \in Nat /\ IndexOf(b) \in Nat /\ IndexOf(a) <= IndexOf(b)
<1>1. ASSUME NEW x \in Nat PROVE IndexOf(x) \in Nat
  <2>1. CASE x < Bound
    BY <2>1 DEF IndexOf
  <2>2. CASE x >= Bound
    <3>1. x - Bound \in Nat
      BY <2>2, Sizes
    <3>2. (x - Bound) \div Width \in Nat
      BY <3>1, Sizes, DivMod
    <3>. QED BY <3>2, <2>2, Sizes DEF IndexOf
  <2>. QED BY <2>1, <2>2, Sizes
<1>2. CASE a < Bound
  BY <1>1, <1>2 DEF IndexOf
<1>3. CASE a >= Bound
  <2>1. a - Bound \in Nat /\ b - Bound \in Nat /\ a - Bound <= b - Bound
    BY <1>3, Sizes
  <2>2. (a - Bound) \div Width <= (b - Bound) \div Width
    BY <2>1, Sizes, DivMonotone
  <2>3. (a - Bound) \div Width \in Nat /\ (b - Bound) \div Width \in Nat
    BY <2>1, Sizes, DivMod
  <2>. QED BY <1>1, <1>3, <2>2, <2>3, Sizes DEF IndexOf
<1>. QED BY <1>2, <1>3, Sizes

\* Under one index block, later data blocks have later slots.
LEMMA SlotMonotone ==
    ASSUME NEW a \in Nat, NEW b \in Nat, Direct <= a, a <= b, IndexOf(a) = IndexOf(b)
    PROVE  SlotOf(a) \in Nat /\ SlotOf(b) \in Nat /\ SlotOf(a) <= SlotOf(b)
<1>1. CASE b < Bound
  BY <1>1, Sizes DEF SlotOf
<1>2. CASE b >= Bound
  <2>1. a >= Bound
    <3>1. b - Bound \in Nat
      BY <1>2, Sizes
    <3>2. (b - Bound) \div Width \in Nat
      BY <3>1, Sizes, DivMod
    <3>. QED BY <1>2, <3>2, Sizes DEF IndexOf
  <2>. DEFINE x == a - Bound
              y == b - Bound
              q == x \div Width
              u == x % Width
              v == y % Width
  <2>2. x \in Nat /\ y \in Nat /\ x <= y
    BY <1>2, <2>1, Sizes
  <2>. HIDE DEF x, y
  <2>3. /\ q \in Nat /\ u \in 0 .. Width - 1 /\ x = q * Width + u
        /\ y \div Width \in Nat /\ v \in 0 .. Width - 1 /\ y = (y \div Width) * Width + v
    BY <2>2, Sizes, DivMod
  <2>4. y \div Width = q
    BY <1>2, <2>1, <2>3, Sizes DEF IndexOf, x, y
  <2>. HIDE DEF q, u, v
  <2>5. u <= v /\ u \in Nat /\ v \in Nat
    <3>1. q * Width \in Nat
      BY <2>3, Sizes
    <3>. QED BY <2>2, <2>3, <2>4, <3>1, Sizes
  <2>6. SlotOf(a) = u /\ SlotOf(b) = v
    BY <1>2, <2>1, Sizes DEF SlotOf, u, v, x, y
  <2>. QED BY <2>5, <2>6
<1>. QED BY <1>1, <1>2, Sizes

\* A block that is not the first under its index block has a predecessor there.
LEMMA IndexSame ==
    ASSUME NEW b \in Nat, b >= Bound, SlotOf(b) # 0
    PROVE  b - 1 \in Nat /\ b - 1 >= Bound /\ IndexOf(b - 1) = IndexOf(b)
<1>. DEFINE y == b - Bound
            q == y \div Width
            v == y % Width
<1>1. y \in Nat
  BY Sizes
<1>. HIDE DEF y
<1>2. q \in Nat /\ v \in 0 .. Width - 1 /\ y = q * Width + v
  BY <1>1, Sizes, DivMod
<1>3. v # 0
  BY Sizes DEF SlotOf, v, y
<1>. HIDE DEF q, v
<1>4. y - 1 = q * Width + (v - 1) /\ v - 1 \in 0 .. Width - 1 /\ y - 1 \in Int
  BY <1>2, <1>3, Sizes
<1>5. (y - 1) \div Width = q
  BY <1>2, <1>4, Sizes, DivModUnique
<1>6. y >= 1
  <2>1. q * Width \in Nat
    BY <1>2, Sizes
  <2>. QED BY <1>2, <1>3, <2>1, Sizes
<1>7. b - 1 \in Nat /\ b - 1 >= Bound /\ (b - 1) - Bound = y - 1
  BY <1>6, Sizes DEF y
<1>8. IndexOf(b) = 1 + q /\ IndexOf(b - 1) = 1 + ((y - 1) \div Width)
  BY <1>7, Sizes DEF IndexOf, q, y
<1>. QED BY <1>5, <1>7, <1>8

\* The blocks of a directory that the calls can fill are blocks of the model.
LEMMA InBlock ==
    /\ MaxBlocks \in Nat
    /\ Bitmap \in Block /\ DataBitmap \in Block /\ Indirect2 \in Block /\ InodeBlock(0) \in Block
    /\ \A b \in BlockId : DataBlock(b) \in Block /\ Index(IndexOf(b)) \in Block
    /\ \A c \in 0 .. MaxCalls, b \in Nat : b * PerBlock < c => b \in BlockId
    /\ \A i \in 0 .. MaxInodes - 1 : InodeBlock(PosOf(i)) \in Block /\ PosOf(i) \in Nat
<1>1. MaxBlocks \in Nat
  BY Sizes, DirBlocksIs DEF MaxBlocks
<1>2. ASSUME NEW i \in 0 .. MaxInodes - 1
      PROVE  PosOf(i) \in 0 .. PosOf(MaxInodes - 1)
  <2>1. i \in Nat /\ MaxInodes - 1 \in Nat /\ i <= MaxInodes - 1
    BY Sizes
  <2>2. i \div InodesPerBlock \in Nat /\ (MaxInodes - 1) \div InodesPerBlock \in Nat
        /\ i \div InodesPerBlock <= (MaxInodes - 1) \div InodesPerBlock
    BY <2>1, Sizes, DivMonotone
  <2>. QED BY <2>2 DEF PosOf
<1>3. PosOf(0) = 0
  BY Sizes, SmallMod DEF PosOf
<1>4. ASSUME NEW c \in 0 .. MaxCalls, NEW b \in Nat, b * PerBlock < c PROVE b \in BlockId
  BY <1>1, <1>4, Sizes, DirBlocksIs, DirBlocksMonotone DEF BlockId, MaxBlocks
<1>5. ASSUME NEW b \in BlockId PROVE DataBlock(b) \in Block /\ Index(IndexOf(b)) \in Block
  <2>1. b \in Nat /\ b <= MaxBlocks
    BY <1>1 DEF BlockId
  <2>2. IndexOf(b) \in 0 .. IndexOf(MaxBlocks)
    BY <1>1, <2>1, IndexMonotone
  <2>. QED BY <2>2 DEF Block, BlockId
<1>6. InodeBlock(0) \in Block
  <2>1. 0 \in 0 .. MaxInodes - 1
    BY Sizes
  <2>. QED BY <2>1, <1>2, <1>3 DEF Block
<1>. QED BY <1>1, <1>2, <1>4, <1>5, <1>6 DEF Block

----------------------------------------------------------------------------
\* What a block covers.

\* The kinds of blocks are told apart by their first component.
LEMMA KindsDiffer ==
    /\ Bitmap[1] = "inode_bitmap" /\ DataBitmap[1] = "data_bitmap" /\ Indirect2[1] = "indirect2"
    /\ \A x : Index(x)[1] = "index" /\ InodeBlock(x)[1] = "inodes" /\ DataBlock(x)[1] = "data"
    /\ \A x, y : /\ Index(x) = Index(y) => x = y
                 /\ InodeBlock(x) = InodeBlock(y) => x = y
                 /\ DataBlock(x) = DataBlock(y) => x = y
BY DEF Bitmap, DataBitmap, Indirect2, Index, InodeBlock, DataBlock

\* A block that covers n entries covers fewer.
LEMMA CoversLess ==
    ASSUME NEW es \in Seq(Entry), NEW k, NEW d, NEW n \in 0 .. Len(es), NEW m \in 0 .. n,
           Covers(es, k, d, n), d \in Fits(k)
    PROVE  Covers(es, k, d, m)
<1>1. Len(es) \in Nat /\ n \in Nat /\ m \in Nat /\ m <= n
  OBVIOUS
<1>2. k = Bitmap => \A i \in 1 .. m : es[i].inode < d
  BY <1>1 DEF Covers
<1>3. k = DataBitmap => TotalBlocks(m) <= d
  <2>1. TotalBlocks(m) \in Nat /\ TotalBlocks(n) \in Nat /\ TotalBlocks(m) <= TotalBlocks(n)
    BY <1>1, TotalBlocksMonotone
  <2>2. k = DataBitmap => d \in Nat
    BY KindsDiffer DEF Fits
  <2>. QED BY <2>1, <2>2 DEF Covers
<1>4. k = InodeBlock(0) => m <= d.size /\ d.size <= Len(es)
  <2>1. k = InodeBlock(0) => d.size \in Nat
    BY KindsDiffer DEF Fits
  <2>. QED BY <1>1, <2>1 DEF Covers
<1>5. ASSUME NEW b \in BlockId PROVE b * PerBlock \in Nat /\ b \in Nat
  BY Sizes, InBlock DEF BlockId
<1>6. k = Indirect2 => \A b \in BlockId : b >= Bound /\ b * PerBlock < m => IndexOf(b) <= d
  BY <1>1, <1>5 DEF Covers
<1>7. ASSUME NEW b \in BlockId
      PROVE  k = Index(IndexOf(b)) /\ b >= Direct /\ b * PerBlock < m => SlotOf(b) < d
  BY <1>1, <1>5 DEF Covers
<1>8. ASSUME NEW b \in BlockId, k = DataBlock(b)
      PROVE  /\ Len(d) <= PerBlock
             /\ \A j \in 1 .. Len(d) : b * PerBlock + j <= Len(es) /\ d[j] = es[b * PerBlock + j]
             /\ m <= b * PerBlock + Len(d) \/ Len(d) = PerBlock
  <2>1. d \in Seq(Entry)
    BY <1>8, KindsDiffer DEF Fits
  <2>2. Len(d) \in Nat
    BY <2>1
  <2>. QED BY <1>1, <1>5, <1>8, <2>2 DEF Covers
<1>. QED BY <1>2, <1>3, <1>4, <1>6, <1>7, <1>8 DEF Covers

\* One more entry in the directory does not disturb what a block covers.
LEMMA CoversMore ==
    ASSUME NEW es \in Seq(Entry), NEW e \in Entry, NEW k, NEW d, NEW n \in 0 .. Len(es),
           Covers(es, k, d, n), d \in Fits(k)
    PROVE  Covers(Append(es, e), k, d, n)
<1>. DEFINE es2 == Append(es, e)
<1>1. /\ Len(es) \in Nat /\ n \in Nat /\ Len(es2) = Len(es) + 1
      /\ \A i \in 1 .. Len(es) : es2[i] = es[i]
  OBVIOUS
<1>. HIDE DEF es2
<1>2. k = Bitmap => \A i \in 1 .. n : es2[i].inode < d
  BY <1>1 DEF Covers
<1>3. k = InodeBlock(0) => n <= d.size /\ d.size <= Len(es2)
  <2>1. k = InodeBlock(0) => d.size \in Nat
    BY KindsDiffer DEF Fits
  <2>. QED BY <1>1, <2>1 DEF Covers
<1>4. ASSUME NEW b \in BlockId, k = DataBlock(b)
      PROVE  /\ Len(d) <= PerBlock
             /\ \A j \in 1 .. Len(d) : b * PerBlock + j <= Len(es2) /\ d[j] = es2[b * PerBlock + j]
             /\ n <= b * PerBlock + Len(d) \/ Len(d) = PerBlock
  <2>1. Len(d) \in Nat
    BY <1>4, KindsDiffer DEF Fits
  <2>2. b * PerBlock \in Nat
    BY Sizes, InBlock DEF BlockId
  <2>3. ASSUME NEW j \in 1 .. Len(d)
        PROVE  b * PerBlock + j <= Len(es2) /\ d[j] = es2[b * PerBlock + j]
    <3>1. b * PerBlock + j <= Len(es) /\ d[j] = es[b * PerBlock + j]
      BY <1>4 DEF Covers
    <3>2. b * PerBlock + j \in 1 .. Len(es)
      BY <2>1, <2>2, <3>1
    <3>. QED BY <1>1, <3>1, <3>2
  <2>. QED BY <1>4, <2>3 DEF Covers
<1>5. Covers(es2, k, d, n)
  BY <1>2, <1>3, <1>4 DEF Covers
<1>. QED BY <1>5 DEF es2

\* A block that the addition of an entry does not store into covers the new entry as
\* well, if its inode is one the bitmap has marked.
LEMMA CoversNext ==
    ASSUME NEW es \in Seq(Entry), NEW e \in Entry, NEW k, NEW d, Len(es) < MaxCalls,
           Covers(es, k, d, Len(es)), d \in Fits(k),
           k = Bitmap => e.inode < d,
           k # InodeBlock(0), k # DataBlock(Len(es) \div PerBlock),
           Len(es) % PerBlock = 0 =>
              LET b == Len(es) \div PerBlock
              IN  /\ k # DataBitmap
                  /\ b >= Direct => k # Index(IndexOf(b))
                  /\ b >= Bound /\ SlotOf(b) = 0 => k # Indirect2
    PROVE  Covers(Append(es, e), k, d, Len(es) + 1)
<1>. DEFINE es2 == Append(es, e)
            c == Len(es)
            q == c \div PerBlock
<1>1. /\ c \in Nat /\ Len(es2) = c + 1 /\ es2[c + 1] = e
      /\ \A i \in 1 .. c : es2[i] = es[i]
  OBVIOUS
<1>2. Covers(es2, k, d, c)
  BY <1>1, CoversMore
<1>. HIDE DEF es2
<1>3. /\ q \in Nat /\ c % PerBlock \in 0 .. PerBlock - 1 /\ c = q * PerBlock + (c % PerBlock)
      /\ DirBlocks(c) \in Nat /\ DirBlocks(c + 1) = q + 1
      /\ c % PerBlock = 0 => DirBlocks(c) = q
      /\ c % PerBlock # 0 => DirBlocks(c) = DirBlocks(c + 1)
  BY <1>1, DirBlocksNext, DirBlocksIs
<1>4. ASSUME NEW b \in BlockId
      PROVE  /\ b \in Nat /\ b * PerBlock \in Nat
             /\ b * PerBlock < c + 1 => b * PerBlock < c \/ (c % PerBlock = 0 /\ b = q)
  <2>1. b \in Nat /\ b * PerBlock \in Nat
    BY Sizes, InBlock DEF BlockId
  <2>2. (b * PerBlock < c + 1 <=> b < q + 1) /\ (b * PerBlock < c <=> b < DirBlocks(c))
    <3>1. c + 1 \in Nat
      BY <1>1
    <3>. QED BY <1>1, <1>3, <2>1, <3>1, DirBlocksIs
  <2>. QED BY <1>3, <2>1, <2>2
<1>5. k = Bitmap => \A i \in 1 .. c + 1 : es2[i].inode < d
  BY <1>1, <1>2 DEF Covers
<1>6. k = DataBitmap => TotalBlocks(c + 1) <= d
  <2>. SUFFICES ASSUME k = DataBitmap PROVE TotalBlocks(c + 1) <= d
    OBVIOUS
  <2>1. DirBlocks(c) = DirBlocks(c + 1)
    BY <1>3
  <2>2. TotalBlocks(c + 1) = TotalBlocks(c)
    BY <2>1 DEF TotalBlocks
  <2>. QED BY <1>2, <2>2 DEF Covers
<1>7. ASSUME NEW b \in BlockId, k = Indirect2, b >= Bound, b * PerBlock < c + 1
      PROVE  IndexOf(b) <= d
  <2>1. CASE b * PerBlock < c
    BY <1>2, <1>7, <2>1 DEF Covers
  <2>2. CASE c % PerBlock = 0 /\ b = q
    <3>1. SlotOf(b) # 0
      BY <1>7, <2>2
    <3>2. b - 1 \in Nat /\ b - 1 >= Bound /\ IndexOf(b - 1) = IndexOf(b)
      BY <1>4, <1>7, <3>1, IndexSame
    <3>3. b - 1 \in BlockId /\ b - 1 < DirBlocks(c)
      BY <1>3, <1>4, <2>2, <3>2, InBlock DEF BlockId
    <3>4. (b - 1) * PerBlock < c
      BY <1>1, <3>2, <3>3, DirBlocksIs
    <3>5. IndexOf(b - 1) <= d
      BY <1>2, <1>7, <3>2, <3>3, <3>4 DEF Covers
    <3>. QED BY <3>2, <3>5
  <2>. QED BY <1>4, <1>7, <2>1, <2>2
<1>8. ASSUME NEW b \in BlockId, k = Index(IndexOf(b)), b >= Direct, b * PerBlock < c + 1
      PROVE  SlotOf(b) < d
  <2>1. ~(c % PerBlock = 0 /\ b = q)
    BY <1>8
  <2>2. b * PerBlock < c
    BY <1>4, <1>8, <2>1
  <2>. QED BY <1>2, <1>8, <2>2 DEF Covers
<1>9. ASSUME NEW b \in BlockId, k = DataBlock(b)
      PROVE  /\ Len(d) <= PerBlock
             /\ \A j \in 1 .. Len(d) : b * PerBlock + j <= Len(es2) /\ d[j] = es2[b * PerBlock + j]
             /\ c + 1 <= b * PerBlock + Len(d) \/ Len(d) = PerBlock
  <2>1. /\ Len(d) <= PerBlock
        /\ \A j \in 1 .. Len(d) : b * PerBlock + j <= Len(es2) /\ d[j] = es2[b * PerBlock + j]
        /\ c <= b * PerBlock + Len(d) \/ Len(d) = PerBlock
    BY <1>2, <1>9 DEF Covers
  <2>2. Len(d) \in Nat
    BY <1>9, KindsDiffer DEF Fits
  <2>3. b # q
    BY <1>9
  <2>4. ASSUME Len(d) # PerBlock, c = b * PerBlock + Len(d) PROVE FALSE
    <3>1. Len(d) \in 0 .. PerBlock - 1
      BY <2>1, <2>2, <2>4, Sizes
    <3>2. c \div PerBlock = b
      <4>1. /\ PerBlock \in Nat \ {0} /\ b \in Int /\ Len(d) \in 0 .. PerBlock - 1 /\ c \in Int
            /\ c = b * PerBlock + Len(d)
        BY <1>1, <1>4, <2>4, <3>1, Sizes
      <4>. HIDE DEF c
      <4>. QED BY <4>1, DivModUnique, Zenon
    <3>. QED BY <2>3, <3>2
  <2>. QED BY <1>1, <1>4, <2>1, <2>2, <2>4
<1>10. Covers(es2, k, d, c + 1)
  BY <1>5, <1>6, <1>7, <1>8, <1>9 DEF Covers
<1>. QED BY <1>10 DEF es2

\* The stores that add an entry cover it: the bitmaps,
LEMMA BitmapCovers ==
    ASSUME NEW es, NEW n \in Nat, NEW d, \A i \in 1 .. n : es[i].inode < d
    PROVE  Covers(es, Bitmap, d, n)
BY KindsDiffer DEF Covers

\* that of the data blocks too,
LEMMA DataBitmapCovers ==
    ASSUME NEW es, NEW n \in Nat, NEW d, TotalBlocks(n) <= d
    PROVE  Covers(es, DataBitmap, d, n)
BY KindsDiffer DEF Covers

\* the inode blocks, of which the first has the root,
LEMMA InodesCover ==
    ASSUME NEW es \in Seq(Entry), NEW j \in Nat, NEW d, NEW n \in 0 .. Len(es),
           j = 0 => n <= d.size /\ d.size <= Len(es)
    PROVE  Covers(es, InodeBlock(j), d, n)
BY KindsDiffer DEF Covers

\* the index blocks,
LEMMA IndexCovers ==
    ASSUME NEW es, NEW c \in Nat, c % PerBlock = 0, c \div PerBlock >= Direct
    PROVE  LET b == c \div PerBlock
           IN  /\ Covers(es, Index(IndexOf(b)), SlotOf(b) + 1, c + 1)
               /\ Covers(es, Indirect2, IndexOf(b), c + 1)
               /\ SlotOf(b) + 1 \in Nat /\ IndexOf(b) \in Nat
<1>. DEFINE q == c \div PerBlock
<1>1. q \in Nat /\ DirBlocks(c + 1) = q + 1 /\ c + 1 \in Nat
  BY DirBlocksNext
<1>. HIDE DEF q
<1>2. ASSUME NEW b \in BlockId, b * PerBlock < c + 1 PROVE b \in Nat /\ b <= q
  BY <1>1, <1>2, DirBlocksIs, InBlock DEF BlockId
<1>3. SlotOf(q) + 1 \in Nat /\ IndexOf(q) \in Nat
  <2>1. q >= Direct /\ Direct <= q /\ q <= q
    BY <1>1, Sizes DEF q
  <2>2. IndexOf(q) \in Nat
    BY <1>1, <2>1, IndexMonotone, Zenon
  <2>3. SlotOf(q) \in Nat
    BY <1>1, <2>1, SlotMonotone, Zenon
  <2>. QED BY <2>2, <2>3
<1>4. ASSUME NEW b \in BlockId, b >= Direct, b * PerBlock < c + 1, IndexOf(b) = IndexOf(q)
      PROVE  SlotOf(b) < SlotOf(q) + 1
  BY <1>1, <1>2, <1>4, SlotMonotone, Sizes
<1>5. ASSUME NEW b \in BlockId, b * PerBlock < c + 1
      PROVE  IndexOf(b) <= IndexOf(q)
  BY <1>1, <1>2, <1>5, IndexMonotone
<1>6. Covers(es, Index(IndexOf(q)), SlotOf(q) + 1, c + 1)
  BY <1>4, KindsDiffer DEF Covers
<1>7. Covers(es, Indirect2, IndexOf(q), c + 1)
  BY <1>5, KindsDiffer DEF Covers
<1>. QED BY <1>3, <1>6, <1>7 DEF q

\* and the last data block.
LEMMA EntriesCover ==
    ASSUME NEW es \in Seq(Entry), Len(es) # 0
    PROVE  LET b == (Len(es) - 1) \div PerBlock
           IN  /\ EntriesIn(b, es) \in Seq(Entry)
               /\ Covers(es, DataBlock(b), EntriesIn(b, es), Len(es))
<1>. DEFINE c == Len(es) - 1
            q == c \div PerBlock
            r == c % PerBlock
            d == EntriesIn(q, es)
<1>1. c \in Nat /\ Len(es) = c + 1
  OBVIOUS
<1>2. q \in Nat /\ r \in 0 .. PerBlock - 1 /\ c = q * PerBlock + r
  BY <1>1, DirBlocksNext
<1>. HIDE DEF c, q, r
<1>3. (q + 1) * PerBlock = q * PerBlock + PerBlock /\ q * PerBlock \in Nat
  BY <1>2, Sizes, Z3
<1>4. d = SubSeq(es, q * PerBlock + 1, c + 1)
  BY <1>1, <1>2, <1>3, Sizes DEF EntriesIn
<1>5. d \in Seq(Entry) /\ Len(d) = r + 1 /\ \A j \in 1 .. r + 1 : d[j] = es[q * PerBlock + j]
  BY <1>1, <1>2, <1>3, <1>4, Sizes
<1>. HIDE DEF d
<1>6. ASSUME NEW b \in BlockId, DataBlock(q) = DataBlock(b)
      PROVE  /\ Len(d) <= PerBlock
             /\ \A j \in 1 .. Len(d) : b * PerBlock + j <= Len(es) /\ d[j] = es[b * PerBlock + j]
             /\ Len(es) <= b * PerBlock + Len(d) \/ Len(d) = PerBlock
  <2>1. b = q
    BY <1>6, KindsDiffer
  <2>2. ASSUME NEW j \in 1 .. Len(d)
        PROVE  q * PerBlock + j <= Len(es) /\ d[j] = es[q * PerBlock + j]
    BY <1>1, <1>2, <1>3, <1>5, Sizes
  <2>3. Len(d) <= PerBlock /\ Len(es) <= q * PerBlock + Len(d)
    BY <1>1, <1>2, <1>3, <1>5, Sizes
  <2>. QED BY <2>1, <2>2, <2>3
<1>7. Covers(es, DataBlock(q), d, Len(es))
  BY <1>6, KindsDiffer DEF Covers
<1>. QED BY <1>5, <1>7 DEF d, q, c

----------------------------------------------------------------------------
\* The stores of a call.

\* All stores of s cover the first n entries of es.
AllCover(es, s, n) == \A i \in DOMAIN s : Covers(es, s[i].block, s[i].data, n)

\* One store.
LEMMA OneStore ==
    ASSUME NEW k \in Block, NEW d \in Fits(k)
    PROVE  /\ Store(k, d) \in Seq(StoreSet) /\ Stored(Store(k, d)) = {k}
           /\ \A es, n : Covers(es, k, d, n) => AllCover(es, Store(k, d), n)
<1>. DEFINE x == [block |-> k, data |-> d]
<1>1. d \in Content
  BY DEF Fits, Content, Entry
<1>2. x \in StoreSet /\ x.block = k /\ x.data = d
  BY <1>1 DEF StoreSet
<1>. HIDE DEF x
<1>3. Store(k, d) = <<x>>
  BY DEF Store, x
<1>4. DOMAIN <<x>> = {1} /\ <<x>>[1] = x /\ <<x>> \in Seq(StoreSet)
  BY <1>2
<1>. QED BY <1>2, <1>3, <1>4 DEF Stored, AllCover

\* Stores one after the other.
LEMMA ConcatStores ==
    ASSUME NEW s \in Seq(StoreSet), NEW t \in Seq(StoreSet)
    PROVE  /\ s \o t \in Seq(StoreSet) /\ Stored(s \o t) = Stored(s) \cup Stored(t)
           /\ \A es, n : AllCover(es, s, n) /\ AllCover(es, t, n) => AllCover(es, s \o t, n)
<1>. DEFINE u == s \o t
<1>1. /\ u \in Seq(StoreSet) /\ Len(u) = Len(s) + Len(t) /\ Len(s) \in Nat /\ Len(t) \in Nat
      /\ \A i \in 1 .. Len(s) : u[i] = s[i]
      /\ \A i \in 1 .. Len(t) : u[Len(s) + i] = t[i]
      /\ DOMAIN s = 1 .. Len(s) /\ DOMAIN t = 1 .. Len(t) /\ DOMAIN u = 1 .. Len(u)
  OBVIOUS
<1>. HIDE DEF u
<1>2. ASSUME NEW i \in DOMAIN u
      PROVE  \/ i \in DOMAIN s /\ u[i] = s[i]
             \/ \E j \in DOMAIN t : i = Len(s) + j /\ u[i] = t[j]
  <2>1. CASE i <= Len(s)
    BY <1>1, <2>1
  <2>2. CASE i > Len(s)
    <3>1. i - Len(s) \in DOMAIN t /\ i = Len(s) + (i - Len(s))
      BY <1>1, <2>2
    <3>. QED BY <1>1, <3>1
  <2>. QED BY <1>1, <2>1, <2>2
<1>3. ASSUME NEW j \in DOMAIN t PROVE Len(s) + j \in DOMAIN u /\ u[Len(s) + j] = t[j]
  BY <1>1
<1>4. ASSUME NEW i \in DOMAIN s PROVE i \in DOMAIN u /\ u[i] = s[i]
  BY <1>1
<1>5. Stored(u) = Stored(s) \cup Stored(t)
  <2>1. ASSUME NEW k \in Stored(u) PROVE k \in Stored(s) \cup Stored(t)
    BY <1>2 DEF Stored
  <2>2. ASSUME NEW k \in Stored(s) \cup Stored(t) PROVE k \in Stored(u)
    BY <1>3, <1>4 DEF Stored
  <2>. QED BY <2>1, <2>2
<1>6. \A es, n : AllCover(es, s, n) /\ AllCover(es, t, n) => AllCover(es, u, n)
  BY <1>2 DEF AllCover
<1>. QED BY <1>1, <1>5, <1>6 DEF u

\* Stores that all cover es settle what a store before them does not cover.
LEMMA ConcatSettles ==
    ASSUME NEW s \in Seq(StoreSet), NEW t \in Seq(StoreSet), NEW es,
           AllCover(es, t, Len(es)),
           \A i \in DOMAIN s : Covers(es, s[i].block, s[i].data, Len(es)) \/ s[i].block \in Stored(t)
    PROVE  Settles(es, s \o t)
<1>. DEFINE u == s \o t
<1>1. /\ u \in Seq(StoreSet) /\ Len(u) = Len(s) + Len(t) /\ Len(s) \in Nat /\ Len(t) \in Nat
      /\ \A i \in 1 .. Len(s) : u[i] = s[i]
      /\ \A i \in 1 .. Len(t) : u[Len(s) + i] = t[i]
      /\ DOMAIN s = 1 .. Len(s) /\ DOMAIN t = 1 .. Len(t) /\ DOMAIN u = 1 .. Len(u)
  OBVIOUS
<1>. HIDE DEF u
<1>. SUFFICES ASSUME NEW i \in DOMAIN u
              PROVE  \/ Covers(es, u[i].block, u[i].data, Len(es))
                     \/ \E j \in DOMAIN u : j > i /\ u[j].block = u[i].block
  BY DEF Settles, u
<1>2. CASE i <= Len(s)
  <2>1. i \in DOMAIN s /\ u[i] = s[i]
    BY <1>1, <1>2
  <2>2. CASE s[i].block \in Stored(t)
    <3>1. PICK j \in DOMAIN t : t[j].block = s[i].block
      BY <2>2 DEF Stored
    <3>2. Len(s) + j \in DOMAIN u /\ Len(s) + j > i /\ u[Len(s) + j] = t[j]
      BY <1>1, <1>2, <3>1
    <3>. QED BY <2>1, <3>1, <3>2
  <2>. QED BY <2>1, <2>2
<1>3. CASE i > Len(s)
  <2>1. i - Len(s) \in DOMAIN t /\ u[i] = t[i - Len(s)]
    BY <1>1, <1>3
  <2>. QED BY <2>1 DEF AllCover
<1>. QED BY <1>1, <1>2, <1>3

\* The inodes of a block have their types; the root's size is in the first block.
LEMMA InodesType ==
    ASSUME NEW j \in Nat, NEW links \in Seq(Nat), NEW size \in Nat
    PROVE  /\ Inodes(j, links, size) \in Fits(InodeBlock(j))
           /\ j = 0 => Inodes(j, links, size).size = size
<1>. DEFINE ls == [m \in 0 .. InodesPerBlock - 1 |->
                     LET k == j * InodesPerBlock + m + 1
                     IN  IF k \in DOMAIN links THEN links[k] ELSE 0]
            sz == IF j = 0 THEN size ELSE 0
<1>1. ls \in [0 .. InodesPerBlock - 1 -> Nat]
  OBVIOUS
<1>2. sz \in Nat
  OBVIOUS
<1>3. Inodes(j, links, size) = [links |-> ls, size |-> sz]
  BY DEF Inodes
<1>. HIDE DEF ls
<1>4. Fits(InodeBlock(j)) = [links : [0 .. InodesPerBlock - 1 -> Nat], size : Nat]
  <2>1. InodeBlock(j)[1] = "inodes"
    BY KindsDiffer
  <2>. QED BY <2>1 DEF Fits
<1>. QED BY <1>1, <1>2, <1>3, <1>4

\* A conditional store.
LEMMA WhenStore ==
    ASSUME NEW cond \in BOOLEAN, NEW s, cond => s \in Seq(StoreSet)
    PROVE  /\ When(cond, s) \in Seq(StoreSet)
           /\ cond => When(cond, s) = s
           /\ \A es, n : (cond => AllCover(es, s, n)) => AllCover(es, When(cond, s), n)
BY DEF When, AllCover

\* increase_size and write_at of the root inode: the stores cover the new entry, and
\* every block that needs to change for it is among them.
LEMMA AppendedCovers ==
    ASSUME NEW es \in Seq(Entry), Len(es) # 0, Len(es) <= MaxCalls, NEW links \in Seq(Nat),
           view[DataBitmap] \in Nat, TotalBlocks(Len(es) - 1) <= view[DataBitmap]
    PROVE  LET A == Appended(es, links)
               c == Len(es) - 1
               b == c \div PerBlock
           IN  /\ A \in Seq(StoreSet) /\ AllCover(es, A, Len(es))
               /\ InodeBlock(0) \in Stored(A) /\ DataBlock(b) \in Stored(A)
               /\ c % PerBlock = 0 =>
                    /\ DataBitmap \in Stored(A)
                    /\ b >= Direct => Index(IndexOf(b)) \in Stored(A)
                    /\ b >= Bound /\ SlotOf(b) = 0 => Indirect2 \in Stored(A)
<1>. DEFINE c == Len(es) - 1
            b == c \div PerBlock
            new == c % PerBlock = 0
            v1 == view[DataBitmap] + (TotalBlocks(c + 1) - TotalBlocks(c))
            s1 == Store(DataBitmap, v1)
            s2 == Store(Index(IndexOf(b)), SlotOf(b) + 1)
            s3 == Store(Indirect2, IndexOf(b))
            s4 == Store(DataBlock(b), EntriesIn(b, es))
            s5 == Store(InodeBlock(0), Inodes(0, links, Len(es)))
            w1 == When(new, s1)
            w2 == When(new /\ b >= Direct, s2)
            w3 == When(new /\ b >= Bound /\ SlotOf(b) = 0, s3)
<1>1. /\ c \in Nat /\ Len(es) = c + 1 /\ Len(es) \in Nat /\ b \in Nat
      /\ b * PerBlock <= c /\ b \in BlockId
  <2>1. c \in Nat /\ Len(es) = c + 1
    OBVIOUS
  <2>. HIDE DEF c
  <2>2. b \in Nat /\ c % PerBlock \in 0 .. PerBlock - 1 /\ c = b * PerBlock + (c % PerBlock)
    BY <2>1, DirBlocksNext
  <2>. HIDE DEF b
  <2>3. b * PerBlock \in Nat /\ b * PerBlock <= c
    BY <2>2, Sizes
  <2>4. b \in BlockId
    <3>1. c + 1 \in 0 .. MaxCalls /\ b * PerBlock < c + 1
      BY <2>1, <2>3, Sizes
    <3>. QED BY <2>2, <3>1, InBlock
  <2>. QED BY <2>1, <2>2, <2>3, <2>4
<1>2. Appended(es, links) = w1 \o w2 \o w3 \o s4 \o s5
  <2>1. c + 1 = Len(es)
    BY <1>1
  <2>. QED BY <2>1 DEF Appended
<1>. HIDE DEF c, b
<1>3. s1 \in Seq(StoreSet) /\ Stored(s1) = {DataBitmap} /\ AllCover(es, s1, Len(es))
  <2>1. TotalBlocks(c) \in Nat /\ TotalBlocks(c + 1) \in Nat /\ TotalBlocks(c) <= TotalBlocks(c + 1)
    <3>1. c \in Nat /\ c + 1 \in Nat /\ c <= c + 1 /\ c + 1 <= c + 1
      BY <1>1
    <3>. QED BY <3>1, TotalBlocksMonotone
  <2>2. v1 \in Nat /\ TotalBlocks(c + 1) <= v1
    BY <2>1 DEF c
  <2>3. v1 \in Fits(DataBitmap) /\ DataBitmap \in Block
    BY <2>2, KindsDiffer, InBlock DEF Fits
  <2>4. Covers(es, DataBitmap, v1, Len(es))
    BY <1>1, <2>2, DataBitmapCovers
  <2>. HIDE DEF v1
  <2>. QED BY <2>3, <2>4, OneStore
<1>4. ASSUME new, b >= Direct
      PROVE  s2 \in Seq(StoreSet) /\ Stored(s2) = {Index(IndexOf(b))} /\ AllCover(es, s2, Len(es))
  <2>1. Covers(es, Index(IndexOf(b)), SlotOf(b) + 1, c + 1) /\ SlotOf(b) + 1 \in Nat
    BY <1>1, <1>4, IndexCovers DEF b
  <2>2. Index(IndexOf(b)) \in Block /\ SlotOf(b) + 1 \in Fits(Index(IndexOf(b)))
    BY <1>1, <2>1, KindsDiffer, InBlock DEF Fits
  <2>. QED BY <1>1, <2>1, <2>2, OneStore
<1>5. ASSUME new, b >= Bound
      PROVE  s3 \in Seq(StoreSet) /\ Stored(s3) = {Indirect2} /\ AllCover(es, s3, Len(es))
  <2>0. b >= Direct
    BY <1>1, <1>5, Sizes
  <2>1. Covers(es, Indirect2, IndexOf(b), c + 1) /\ IndexOf(b) \in Nat
    BY <1>1, <1>5, <2>0, IndexCovers DEF b
  <2>2. Indirect2 \in Block /\ IndexOf(b) \in Fits(Indirect2)
    BY <2>1, KindsDiffer, InBlock DEF Fits
  <2>. QED BY <1>1, <2>1, <2>2, OneStore
<1>6. s4 \in Seq(StoreSet) /\ Stored(s4) = {DataBlock(b)} /\ AllCover(es, s4, Len(es))
  <2>1. EntriesIn(b, es) \in Seq(Entry) /\ Covers(es, DataBlock(b), EntriesIn(b, es), Len(es))
    BY EntriesCover DEF b, c
  <2>2. DataBlock(b) \in Block /\ EntriesIn(b, es) \in Fits(DataBlock(b))
    BY <1>1, <2>1, KindsDiffer, InBlock DEF Fits
  <2>. QED BY <2>1, <2>2, OneStore
<1>7. s5 \in Seq(StoreSet) /\ Stored(s5) = {InodeBlock(0)} /\ AllCover(es, s5, Len(es))
  <2>. DEFINE d == Inodes(0, links, Len(es))
  <2>1. 0 \in Nat /\ d \in Fits(InodeBlock(0)) /\ d.size = Len(es)
    BY <1>1, InodesType
  <2>. HIDE DEF d
  <2>2. Covers(es, InodeBlock(0), d, Len(es))
    BY <1>1, <2>1, InodesCover
  <2>3. InodeBlock(0) \in Block
    BY InBlock
  <2>4. Store(InodeBlock(0), d) \in Seq(StoreSet) /\ Stored(Store(InodeBlock(0), d)) = {InodeBlock(0)}
        /\ AllCover(es, Store(InodeBlock(0), d), Len(es))
    BY <2>1, <2>2, <2>3, OneStore
  <2>. QED BY <2>4 DEF d
<1>. HIDE DEF s1, s2, s3, s4, s5, new
<1>8. w1 \in Seq(StoreSet) /\ AllCover(es, w1, Len(es)) /\ (new => DataBitmap \in Stored(w1))
  BY <1>3, WhenStore DEF new
<1>9. /\ w2 \in Seq(StoreSet) /\ AllCover(es, w2, Len(es))
      /\ new /\ b >= Direct => Index(IndexOf(b)) \in Stored(w2)
  BY <1>4, WhenStore DEF new
<1>10. /\ w3 \in Seq(StoreSet) /\ AllCover(es, w3, Len(es))
       /\ new /\ b >= Bound /\ SlotOf(b) = 0 => Indirect2 \in Stored(w3)
  BY <1>5, WhenStore DEF new
<1>. HIDE DEF w1, w2, w3
<1>. DEFINE x2 == w1 \o w2
            x3 == x2 \o w3
            x4 == x3 \o s4
            x5 == x4 \o s5
<1>11. x2 \in Seq(StoreSet) /\ AllCover(es, x2, Len(es)) /\ Stored(x2) = Stored(w1) \cup Stored(w2)
  BY <1>8, <1>9, ConcatStores
<1>. HIDE DEF x2
<1>12. x3 \in Seq(StoreSet) /\ AllCover(es, x3, Len(es)) /\ Stored(x3) = Stored(x2) \cup Stored(w3)
  BY <1>10, <1>11, ConcatStores
<1>. HIDE DEF x3
<1>13. x4 \in Seq(StoreSet) /\ AllCover(es, x4, Len(es)) /\ Stored(x4) = Stored(x3) \cup Stored(s4)
  BY <1>6, <1>12, ConcatStores
<1>. HIDE DEF x4
<1>14. x5 \in Seq(StoreSet) /\ AllCover(es, x5, Len(es)) /\ Stored(x5) = Stored(x4) \cup Stored(s5)
  BY <1>7, <1>13, ConcatStores
<1>. HIDE DEF x5
<1>15. Appended(es, links) = x5
  BY <1>2 DEF x2, x3, x4, x5
<1>16. /\ InodeBlock(0) \in Stored(x5) /\ DataBlock(b) \in Stored(x5)
       /\ new => /\ DataBitmap \in Stored(x5)
                 /\ b >= Direct => Index(IndexOf(b)) \in Stored(x5)
                 /\ b >= Bound /\ SlotOf(b) = 0 => Indirect2 \in Stored(x5)
  BY <1>6, <1>7, <1>8, <1>9, <1>10, <1>11, <1>12, <1>13, <1>14
<1>. QED BY <1>14, <1>15, <1>16 DEF new, b, c

\* A directory with an entry more: what blocks and flushed values cover stays covered.
LEMMA MoreEntries ==
    ASSUME DirTypeOK, RTypeOK, SinceCovers, NEW e \in Entry
    PROVE  /\ Append(entries, e) \in Seq(Entry) /\ Len(Append(entries, e)) = Count + 1
           /\ \A k \in Block : \A d \in since[k] : Covers(Append(entries, e), k, d, kept)
<1>1. entries \in Seq(Entry) /\ kept \in 0 .. Len(entries)
  BY DEF DirTypeOK, RTypeOK, Count
<1>2. ASSUME NEW k \in Block, NEW d \in since[k] PROVE Covers(Append(entries, e), k, d, kept)
  <2>1. d \in Fits(k) /\ Covers(entries, k, d, kept)
    BY DEF RTypeOK, SinceCovers
  <2>. QED BY <1>1, <2>1, CoversMore
<1>. QED BY <1>1, <1>2 DEF Count

\* The stores of a call that adds entry e after the stores P to inodes and their bitmap:
\* none falls behind the last flush, and when all are made every block covers e.
LEMMA Adding ==
    ASSUME DirTypeOK, RTypeOK, SinceCovers, WillCover, ~off, panic = "no", todo = <<>>,
           NEW e \in Entry, NEW links \in Seq(Nat), Count < MaxCalls, NEW P \in Seq(StoreSet),
           AllCover(Append(entries, e), P, kept),
           \A i \in DOMAIN P : \/ Covers(Append(entries, e), P[i].block, P[i].data, Count + 1)
                               \/ P[i].block = InodeBlock(0),
           Bitmap \in Stored(P) \/ e.inode < view[Bitmap]
    PROVE  LET es == Append(entries, e)
               T == P \o Appended(es, links)
           IN  /\ T \in Seq(StoreSet) /\ AllCover(es, T, kept) /\ Settles(es, T)
               /\ \A k \in Block : Covers(es, k, view[k], Count + 1) \/ k \in Stored(T)
<1>. DEFINE es == Append(entries, e)
            A == Appended(es, links)
            T == P \o A
            c == Count
            b == c \div PerBlock
<1>1. entries \in Seq(Entry) /\ c = Len(entries) /\ c \in Nat /\ kept \in 0 .. c
  BY DEF DirTypeOK, RTypeOK, Count
<1>2. es \in Seq(Entry) /\ Len(es) = c + 1 /\ Len(es) - 1 = c /\ Len(es) # 0 /\ Len(es) <= MaxCalls
  BY <1>1, Sizes
<1>3. \A k \in Block : Covers(entries, k, view[k], c) /\ view[k] \in Fits(k)
  BY DEF WillCover, RTypeOK, Stored
<1>4. view[DataBitmap] \in Nat /\ TotalBlocks(c) <= view[DataBitmap]
  BY <1>3, InBlock, KindsDiffer DEF Covers, Fits
<1>5. /\ A \in Seq(StoreSet) /\ AllCover(es, A, Len(es))
      /\ InodeBlock(0) \in Stored(A) /\ DataBlock(b) \in Stored(A)
      /\ c % PerBlock = 0 =>
           /\ DataBitmap \in Stored(A)
           /\ b >= Direct => Index(IndexOf(b)) \in Stored(A)
           /\ b >= Bound /\ SlotOf(b) = 0 => Indirect2 \in Stored(A)
  <2>. HIDE DEF es
  <2>1. TotalBlocks(Len(es) - 1) <= view[DataBitmap]
    BY <1>2, <1>4
  <2>. QED BY <1>2, <1>4, <2>1, AppendedCovers
<1>. HIDE DEF A
<1>6. T \in Seq(StoreSet) /\ Stored(T) = Stored(P) \cup Stored(A)
  BY <1>5, ConcatStores
<1>7. AllCover(es, A, kept)
  <2>. HIDE DEF es
  <2>. SUFFICES ASSUME NEW i \in DOMAIN A PROVE Covers(es, A[i].block, A[i].data, kept)
    BY DEF AllCover
  <2>1. A[i] \in StoreSet
    BY <1>5
  <2>2. A[i].data \in Fits(A[i].block)
    BY <2>1 DEF StoreSet
  <2>3. Covers(es, A[i].block, A[i].data, Len(es)) /\ Len(es) \in 0 .. Len(es) /\ kept \in 0 .. Len(es)
    BY <1>1, <1>2, <1>5 DEF AllCover
  <2>. QED BY <1>2, <2>2, <2>3, CoversLess
<1>8. AllCover(es, T, kept)
  <2>. HIDE DEF es
  <2>1. AllCover(es, P, kept)
    BY DEF es
  <2>. QED BY <1>5, <1>7, <2>1, ConcatStores
<1>9. Settles(es, T)
  <2>. HIDE DEF es
  <2>1. ASSUME NEW i \in DOMAIN P
        PROVE  Covers(es, P[i].block, P[i].data, Len(es)) \/ P[i].block \in Stored(A)
    BY <1>2, <1>5 DEF es
  <2>. QED BY <1>5, <2>1, ConcatSettles
<1>10. ASSUME NEW k \in Block, k \notin Stored(T) PROVE Covers(es, k, view[k], c + 1)
  <2>1. k # InodeBlock(0) /\ k # DataBlock(b) /\ k \notin Stored(P)
    BY <1>5, <1>6, <1>10
  <2>2. k = Bitmap => e.inode < view[k]
    BY <2>1
  <2>3. c % PerBlock = 0 => /\ k # DataBitmap
                            /\ b >= Direct => k # Index(IndexOf(b))
                            /\ b >= Bound /\ SlotOf(b) = 0 => k # Indirect2
    BY <1>5, <1>6, <1>10
  <2>4. Covers(entries, k, view[k], Len(entries)) /\ view[k] \in Fits(k) /\ Len(entries) < MaxCalls
    BY <1>1, <1>3
  <2>5. Covers(Append(entries, e), k, view[k], Len(entries) + 1)
    BY <1>1, <2>1, <2>2, <2>3, <2>4, CoversNext DEF Count
  <2>. QED BY <1>1, <2>5
<1>. QED BY <1>6, <1>8, <1>9, <1>10 DEF A

\* The store of an inode block with the root's size before the call covers the entries
\* before the call, and the new one too unless it is the block of the root.
LEMMA RelinkedCovers ==
    ASSUME DirTypeOK, NEW inode \in 0 .. MaxInodes - 1, NEW links \in Seq(Nat),
           NEW es \in Seq(Entry), Count <= Len(es)
    PROVE  LET R == Relinked(inode, links)
           IN  /\ R \in Seq(StoreSet) /\ \A n \in 0 .. Count : AllCover(es, R, n)
               /\ \A i \in DOMAIN R : \/ Covers(es, R[i].block, R[i].data, Len(es))
                                      \/ R[i].block = InodeBlock(0)
<1>. DEFINE j == PosOf(inode)
            d == Inodes(j, links, Count)
            R == Store(InodeBlock(j), d)
<1>1. j \in Nat /\ InodeBlock(j) \in Block /\ Count \in Nat /\ Len(es) \in Nat
  BY InBlock DEF DirTypeOK, Count
<1>. HIDE DEF j
<1>2. d \in Fits(InodeBlock(j)) /\ (j = 0 => d.size = Count)
  BY <1>1, InodesType
<1>. HIDE DEF d
<1>3. R \in Seq(StoreSet) /\ Stored(R) = {InodeBlock(j)}
      /\ \A n : Covers(es, InodeBlock(j), d, n) => AllCover(es, R, n)
  BY <1>1, <1>2, OneStore
<1>. HIDE DEF R
<1>4. ASSUME NEW n \in 0 .. Count PROVE AllCover(es, R, n)
  <2>1. n \in 0 .. Len(es) /\ (j = 0 => n <= d.size /\ d.size <= Len(es))
    BY <1>1, <1>2
  <2>2. Covers(es, InodeBlock(j), d, n)
    BY <1>1, <2>1, InodesCover
  <2>. QED BY <1>3, <2>2
<1>5. ASSUME NEW i \in DOMAIN R
      PROVE  Covers(es, R[i].block, R[i].data, Len(es)) \/ R[i].block = InodeBlock(0)
  <2>1. CASE j = 0
    BY <1>3, <2>1 DEF Stored
  <2>2. CASE j # 0
    <3>1. Len(es) \in 0 .. Len(es)
      BY <1>1
    <3>2. Covers(es, InodeBlock(j), d, Len(es))
      BY <1>1, <2>2, <3>1, InodesCover
    <3>. QED BY <1>3, <3>2 DEF AllCover
  <2>. QED BY <2>1, <2>2
<1>6. Relinked(inode, links) = R
  BY DEF Relinked, R, d, j
<1>. QED BY <1>3, <1>4, <1>5, <1>6

\* A call whose stores fall behind nothing that was flushed and settle all blocks if it
\* succeeds keeps the invariant.
LEMMA CallKeeps ==
    ASSUME RInv, DirInv', UNCHANGED <<view, since, kept, off>>, ~off,
           calls < MaxCalls, calls' = calls + 1, Len(nlink') <= MaxInodes,
           entries' = entries \/ \E e \in Entry : entries' = Append(entries, e),
           todo' \in Seq(StoreSet), AllCover(entries', todo', kept),
           panic' = "no" =>
              /\ Settles(entries', todo')
              /\ \A k \in Block : Covers(entries', k, view[k], Len(entries')) \/ k \in Stored(todo')
    PROVE  RInv'
<1>1. /\ entries' \in Seq(Entry) /\ Len(entries') \in Nat /\ Count \in Nat
      /\ Len(entries') = Count \/ Len(entries') = Count + 1
  <2>1. entries \in Seq(Entry) /\ entries' \in Seq(Entry)
    BY DEF RInv, DirInv, DirTypeOK
  <2>2. CASE entries' = entries
    BY <2>1, <2>2 DEF Count
  <2>3. ASSUME NEW e \in Entry, entries' = Append(entries, e) PROVE Len(entries') = Count + 1
    BY <2>1, <2>3 DEF Count
  <2>. QED BY <2>1, <2>2, <2>3 DEF Count
<1>2. RTypeOK'
  <2>1. (kept \in 0 .. Count /\ calls \in 0 .. MaxCalls /\ Count <= calls /\ NewInode <= MaxInodes)'
    <3>1. kept \in 0 .. Count /\ calls \in 0 .. MaxCalls /\ Count <= calls
      BY DEF RInv, RTypeOK
    <3>. QED BY <1>1, <3>1, Sizes DEF Count, NewInode
  <2>. QED BY <2>1 DEF RInv, RTypeOK
<1>3. SinceCovers'
  <2>1. CASE entries' = entries
    BY <2>1 DEF RInv, SinceCovers
  <2>2. ASSUME NEW e \in Entry, entries' = Append(entries, e) PROVE SinceCovers'
    BY <2>2, MoreEntries DEF RInv, DirInv, SinceCovers
  <2>. QED BY <2>1, <2>2
<1>4. TodoCovers'
  BY DEF TodoCovers, AllCover
<1>5. WillCover'
  BY DEF WillCover, Count
<1>. QED BY <1>2, <1>3, <1>4, <1>5 DEF RInv

----------------------------------------------------------------------------
\* The steps.

\* The calls are those of module Directory; nothing else changes the directory.
LEMMA Implements == RNext => [Next]_vars
BY DEF RNext, RCreate, RLinkat, RUnlinkat, StoreNext, Sync, PowerLoss, Next, vars

\* Before a call, all stores have been made: every block covers the directory.
LEMMA Settled ==
    ASSUME RInv, todo = <<>>, ~off, panic = "no"
    PROVE  \A k \in Block : Covers(entries, k, view[k], Count)
BY DEF RInv, WillCover, Stored

\* alloc_inode and initialize: the bitmap marks the new inode before an entry names it.
LEMMA CreatePrefix ==
    ASSUME RInv, NewInode < MaxInodes, NEW es \in Seq(Entry), Count <= Len(es),
           \A i \in 1 .. Len(es) : es[i].inode <= NewInode
    PROVE  LET P == Store(Bitmap, NewInode + 1) \o Relinked(NewInode, Append(nlink, 1))
           IN  /\ P \in Seq(StoreSet) /\ AllCover(es, P, kept) /\ Bitmap \in Stored(P)
               /\ \A i \in DOMAIN P : \/ Covers(es, P[i].block, P[i].data, Len(es))
                                      \/ P[i].block = InodeBlock(0)
<1>. DEFINE S == Store(Bitmap, NewInode + 1)
            R == Relinked(NewInode, Append(nlink, 1))
<1>1. /\ DirTypeOK /\ NewInode \in Nat /\ NewInode \in 0 .. MaxInodes - 1
      /\ Append(nlink, 1) \in Seq(Nat) /\ kept \in 0 .. Count /\ Count \in Nat /\ Len(es) \in Nat
  BY Sizes DEF RInv, DirInv, DirTypeOK, NewInode, RTypeOK, Count
<1>2. /\ R \in Seq(StoreSet) /\ AllCover(es, R, kept)
      /\ \A i \in DOMAIN R : Covers(es, R[i].block, R[i].data, Len(es)) \/ R[i].block = InodeBlock(0)
  BY <1>1, RelinkedCovers
<1>. HIDE DEF R
<1>3. S \in Seq(StoreSet) /\ Stored(S) = {Bitmap} /\ AllCover(es, S, kept) /\ AllCover(es, S, Len(es))
  <2>1. NewInode + 1 \in Fits(Bitmap) /\ Bitmap \in Block
    BY <1>1, InBlock, KindsDiffer DEF Fits
  <2>2. ASSUME NEW n \in 0 .. Len(es) PROVE Covers(es, Bitmap, NewInode + 1, n)
    <3>1. ASSUME NEW i \in 1 .. n PROVE es[i].inode < NewInode + 1
      <4>1. i \in 1 .. Len(es)
        BY <1>1
      <4>2. es[i] \in Entry /\ es[i].inode <= NewInode
        BY <4>1
      <4>3. es[i].inode \in Nat
        BY <4>2 DEF Entry
      <4>. QED BY <1>1, <4>2, <4>3
    <3>. QED BY <3>1, BitmapCovers
  <2>3. kept \in 0 .. Len(es) /\ Len(es) \in 0 .. Len(es)
    BY <1>1
  <2>. QED BY <2>1, <2>2, <2>3, OneStore
<1>. HIDE DEF S
<1>. DEFINE P == S \o R
<1>4. P \in Seq(StoreSet) /\ Stored(P) = Stored(S) \cup Stored(R) /\ AllCover(es, P, kept)
  BY <1>2, <1>3, ConcatStores
<1>5. ASSUME NEW i \in DOMAIN P
      PROVE  Covers(es, P[i].block, P[i].data, Len(es)) \/ P[i].block = InodeBlock(0)
  <2>1. (i \in DOMAIN S /\ P[i] = S[i]) \/ \E j \in DOMAIN R : P[i] = R[j]
    <3>1. /\ P = S \o R /\ Len(S) \in Nat /\ Len(R) \in Nat /\ Len(P) = Len(S) + Len(R)
          /\ DOMAIN S = 1 .. Len(S) /\ DOMAIN R = 1 .. Len(R) /\ i \in 1 .. Len(P)
      BY <1>2, <1>3, <1>4
    <3>2. CASE i <= Len(S)
      BY <1>2, <1>3, <3>1, <3>2
    <3>3. CASE i > Len(S)
      <4>1. i - Len(S) \in DOMAIN R /\ P[i] = R[i - Len(S)]
        BY <1>2, <1>3, <3>1, <3>3
      <4>. QED BY <4>1
    <3>. QED BY <3>1, <3>2, <3>3
  <2>. QED BY <1>2, <1>3, <2>1 DEF AllCover
<1>. QED BY <1>3, <1>4, <1>5 DEF S, R

\* create
LEMMA CreateStep ==
    ASSUME RInv, NEW n \in Name, RCreate(n)
    PROVE  RInv'
<1>. DEFINE e == [name |-> n, inode |-> NewInode]
            P == Store(Bitmap, NewInode + 1) \o Relinked(NewInode, Append(nlink, 1))
<1>1. /\ todo = <<>> /\ ~off /\ panic = "no" /\ calls < MaxCalls /\ calls' = calls + 1
      /\ UNCHANGED <<view, since, kept, off>>
  BY DEF RCreate, Starts, Create, Calls
<1>2. DirInv'
  BY DirStep DEF RInv, RCreate, Next
<1>3. /\ entries \in Seq(Entry) /\ NewInode \in Nat /\ kept \in 0 .. Count /\ Count \in Nat
      /\ NewInode <= MaxInodes /\ Count <= calls /\ calls \in Nat /\ Count = Len(entries)
      /\ nlink \in Seq(Nat) /\ NewInode = Len(nlink)
  BY Sizes DEF RInv, DirInv, DirTypeOK, RTypeOK, NewInode, Count
<1>4. ASSUME NEW i \in 1 .. Len(entries) PROVE entries[i].inode <= NewInode
  <2>1. i \in DOMAIN entries
    BY <1>3
  <2>2. entries[i].inode \in 1 .. NewInode - 1
    BY <2>1 DEF RInv, DirInv, EntriesExact
  <2>. QED BY <1>3, <2>2
<1>5. CASE UNCHANGED <<entries, nlink>> /\ panic' # "no"
  <2>1. todo' \in Seq(StoreSet) /\ AllCover(entries, todo', kept)
    <3>1. CASE panic' = "find" \/ ~(NewInode < MaxInodes)
      <4>1. todo' = <<>>
        BY <1>5, <3>1 DEF RCreate, When, CreateStores
      <4>. QED BY <4>1 DEF AllCover
    <3>2. CASE panic' # "find" /\ NewInode < MaxInodes
      <4>1. P \in Seq(StoreSet) /\ AllCover(entries, P, kept)
        BY <1>3, <1>4, <3>2, CreatePrefix
      <4>. HIDE DEF P
      <4>2. todo' = P \o <<>>
        BY <1>5, <3>2 DEF RCreate, When, CreateStores, P
      <4>3. todo' = P
        BY <4>1, <4>2
      <4>. QED BY <4>1, <4>3
    <3>. QED BY <3>1, <3>2
  <2>. QED BY <1>1, <1>2, <1>3, <1>5, <2>1, CallKeeps DEF NewInode
<1>6. CASE /\ NewInode # MaxInodes /\ entries' = Append(entries, e)
           /\ nlink' = Append(nlink, 1) /\ panic' = "no"
  <2>. DEFINE es == Append(entries, e)
  <2>1. e \in Entry /\ e.inode = NewInode /\ NewInode < MaxInodes /\ Append(nlink, 1) \in Seq(Nat)
    BY <1>3, <1>6, Sizes DEF Entry
  <2>. HIDE DEF e
  <2>2. /\ es \in Seq(Entry) /\ Len(es) = Count + 1 /\ Count <= Len(es)
        /\ \A i \in 1 .. Len(es) : es[i].inode <= NewInode
    BY <1>3, <1>4, <2>1
  <2>3. /\ P \in Seq(StoreSet) /\ AllCover(es, P, kept) /\ Bitmap \in Stored(P)
        /\ \A i \in DOMAIN P : \/ Covers(es, P[i].block, P[i].data, Len(es))
                               \/ P[i].block = InodeBlock(0)
    <3>. HIDE DEF es
    <3>. QED BY <2>1, <2>2, CreatePrefix
  <2>4. todo' = P \o Appended(es, Append(nlink, 1))
    BY <1>6, <2>1 DEF RCreate, When, CreateStores
  <2>. HIDE DEF P
  <2>5. Count < MaxCalls
    BY <1>1, <1>3, Sizes
  <2>6. \A i \in DOMAIN P : \/ Covers(es, P[i].block, P[i].data, Count + 1)
                            \/ P[i].block = InodeBlock(0)
    BY <2>2, <2>3
  <2>7. /\ todo' \in Seq(StoreSet) /\ AllCover(es, todo', kept) /\ Settles(es, todo')
        /\ \A k \in Block : Covers(es, k, view[k], Count + 1) \/ k \in Stored(todo')
    BY <1>1, <2>1, <2>3, <2>4, <2>5, <2>6, Adding DEF RInv, DirInv
  <2>8. Len(nlink') <= MaxInodes
    BY <1>3, <1>6, <2>1, Sizes
  <2>. QED BY <1>1, <1>2, <1>6, <2>1, <2>2, <2>7, <2>8, CallKeeps
<1>. QED BY <1>1, <1>5, <1>6 DEF RCreate, Create, AddEntry, Panic, e

\* linkat
LEMMA LinkatStep ==
    ASSUME RInv, NEW old \in Name, NEW new \in Name, RLinkat(old, new)
    PROVE  RInv'
<1>. DEFINE o == FindInode(old)
            e == [name |-> new, inode |-> o]
            P == Relinked(o, Linked(o))
<1>1. /\ todo = <<>> /\ ~off /\ panic = "no" /\ calls < MaxCalls /\ calls' = calls + 1
      /\ UNCHANGED <<view, since, kept, off>>
  BY DEF RLinkat, Starts, Linkat, Calls
<1>2. DirInv'
  BY DirStep DEF RInv, RLinkat, Next
<1>3. /\ entries \in Seq(Entry) /\ kept \in 0 .. Count /\ Count \in Nat
      /\ NewInode <= MaxInodes /\ Count <= calls /\ calls \in Nat /\ Count = Len(entries)
      /\ nlink \in Seq(Nat) /\ NewInode = Len(nlink) /\ NewInode \in Nat
  BY Sizes DEF RInv, DirInv, DirTypeOK, RTypeOK, NewInode, Count
<1>4. CASE UNCHANGED <<entries, nlink>> /\ panic' = "find"
  <2>1. todo' = <<>>
    BY <1>4 DEF RLinkat, When
  <2>2. todo' \in Seq(StoreSet) /\ AllCover(entries, todo', kept)
    BY <2>1 DEF AllCover
  <2>. QED BY <1>1, <1>2, <1>3, <1>4, <2>2, CallKeeps DEF NewInode
<1>5. ASSUME Found(old)
      PROVE  /\ o \in Nat /\ o \in 0 .. MaxInodes - 1 /\ o < view[Bitmap]
             /\ Linked(o) \in Seq(Nat) /\ Len(Linked(o)) = NewInode
  <2>1. PICK i \in DOMAIN entries : entries[i].name = old
    BY <1>5 DEF Found
  <2>2. o = entries[i].inode /\ o \in 1 .. NewInode - 1
    BY <1>3, <1>5, <2>1, FindUnique, FoundInode DEF RInv, DirInv
  <2>3. i \in 1 .. Count
    BY <1>3, <2>1
  <2>4. o < view[Bitmap]
    BY <1>1, <2>2, <2>3, Settled, InBlock DEF Covers
  <2>. HIDE DEF o
  <2>5. Linked(o) \in Seq(Nat) /\ Len(Linked(o)) = NewInode
    <3>0. PICK n \in Nat : n = NewInode /\ n = Len(nlink)
      BY <1>3
    <3>1. o + 1 \in 1 .. Len(nlink)
      <4>1. o \in 1 .. n - 1
        BY <2>2, <3>0
      <4>2. o + 1 \in 1 .. n
        BY <4>1
      <4>. QED BY <3>0, <4>2
    <3>2. nlink[o + 1] + 1 \in Nat
      BY <1>3, <3>1
    <3>3. (nlink[o + 1] + 1) % Word \in Nat
      BY <3>2, DirectoryAssumption, DivMod
    <3>. QED BY <1>3, <3>1, <3>3, SeqExcept DEF Linked
  <2>6. o \in Nat /\ o \in 0 .. MaxInodes - 1
    BY <1>3, <2>2, Sizes
  <2>. QED BY <2>4, <2>5, <2>6
<1>6. CASE UNCHANGED <<entries, nlink>> /\ panic' \notin {"no", "find"} /\ Found(old)
  <2>. HIDE DEF o
  <2>1. Count <= Len(entries) /\ DirTypeOK
    BY <1>3 DEF RInv, DirInv
  <2>2. P \in Seq(StoreSet) /\ AllCover(entries, P, kept)
    BY <1>3, <1>5, <1>6, <2>1, RelinkedCovers
  <2>. HIDE DEF P
  <2>3. todo' = P \o <<>>
    BY <1>6 DEF RLinkat, When, LinkatStores, P, o
  <2>4. todo' = P
    BY <2>2, <2>3
  <2>. QED BY <1>1, <1>2, <1>3, <1>6, <2>2, <2>4, CallKeeps DEF NewInode
<1>7. CASE Found(old) /\ entries' = Append(entries, e) /\ nlink' = Linked(o) /\ panic' = "no"
  <2>. DEFINE es == Append(entries, e)
  <2>1. e \in Entry /\ e.inode = o
    BY <1>5, <1>7 DEF Entry
  <2>. HIDE DEF e
  <2>2. es \in Seq(Entry) /\ Len(es) = Count + 1 /\ Count <= Len(es) /\ DirTypeOK
    BY <1>3, <2>1 DEF RInv, DirInv
  <2>3. /\ P \in Seq(StoreSet) /\ AllCover(es, P, kept)
        /\ \A i \in DOMAIN P : \/ Covers(es, P[i].block, P[i].data, Len(es))
                               \/ P[i].block = InodeBlock(0)
    <3>. HIDE DEF es, o
    <3>. QED BY <1>3, <1>5, <1>7, <2>2, RelinkedCovers
  <2>4. todo' = P \o Appended(es, Linked(o))
    BY <1>7 DEF RLinkat, When, LinkatStores
  <2>. HIDE DEF P
  <2>5. Count < MaxCalls
    BY <1>1, <1>3, Sizes
  <2>6. \A i \in DOMAIN P : \/ Covers(es, P[i].block, P[i].data, Count + 1)
                            \/ P[i].block = InodeBlock(0)
    BY <2>2, <2>3
  <2>7. /\ todo' \in Seq(StoreSet) /\ AllCover(es, todo', kept) /\ Settles(es, todo')
        /\ \A k \in Block : Covers(es, k, view[k], Count + 1) \/ k \in Stored(todo')
    <3>. HIDE DEF o
    <3>1. Linked(o) \in Seq(Nat) /\ e.inode < view[Bitmap]
      BY <1>5, <1>7, <2>1
    <3>. QED BY <1>1, <2>1, <2>3, <2>4, <2>5, <2>6, <3>1, Adding DEF RInv, DirInv
  <2>8. Len(nlink') <= MaxInodes
    BY <1>3, <1>5, <1>7
  <2>. QED BY <1>1, <1>2, <1>7, <2>1, <2>2, <2>7, <2>8, CallKeeps
<1>. QED BY <1>1, <1>4, <1>6, <1>7 DEF RLinkat, Linkat, AddEntry, Panic, e

\* unlinkat, which leaves the entries as they are
LEMMA UnlinkatStep ==
    ASSUME RInv, NEW n \in Name, RUnlinkat(n)
    PROVE  RInv'
<1>. DEFINE o == FindInode(n)
            P == Relinked(o, nlink')
<1>1. /\ todo = <<>> /\ ~off /\ panic = "no" /\ calls < MaxCalls /\ calls' = calls + 1
      /\ UNCHANGED <<view, since, kept, off>>
  BY DEF RUnlinkat, Starts, Unlinkat, Calls
<1>2. DirInv'
  BY DirStep DEF RInv, RUnlinkat, Next
<1>3. /\ entries \in Seq(Entry) /\ kept \in 0 .. Count /\ Count \in Nat /\ DirTypeOK
      /\ NewInode <= MaxInodes /\ Count = Len(entries) /\ NewInode = Len(nlink) /\ NewInode \in Nat
      /\ nlink \in Seq(Nat)
  BY Sizes DEF RInv, DirInv, DirTypeOK, RTypeOK, NewInode, Count
<1>4. CASE UNCHANGED <<entries, nlink>> /\ panic' # "no"
  <2>1. todo' = <<>>
    BY <1>4 DEF RUnlinkat, When
  <2>2. todo' \in Seq(StoreSet) /\ AllCover(entries, todo', kept)
    BY <2>1 DEF AllCover
  <2>. QED BY <1>1, <1>2, <1>3, <1>4, <2>2, CallKeeps DEF NewInode
<1>5. CASE /\ Found(n) /\ entries' = entries /\ panic' = "no"
           /\ nlink' = [nlink EXCEPT ![o + 1] = (@ + Word - 1) % Word]
  <2>1. o \in 1 .. NewInode - 1
    BY <1>5, FoundInode DEF RInv
  <2>2. o \in 0 .. MaxInodes - 1
    BY <1>3, <2>1, Sizes
  <2>. HIDE DEF o
  <2>3. nlink' \in Seq(Nat) /\ Len(nlink') = NewInode
    <3>1. o + 1 \in 1 .. Len(nlink)
      BY <1>3, <2>1
    <3>2. nlink[o + 1] + Word - 1 \in Nat
      BY <1>3, <3>1, DirectoryAssumption
    <3>3. (nlink[o + 1] + Word - 1) % Word \in Nat
      BY <3>2, DirectoryAssumption, DivMod
    <3>. QED BY <1>3, <1>5, <3>1, <3>3, SeqExcept
  <2>4. /\ P \in Seq(StoreSet) /\ AllCover(entries, P, kept) /\ AllCover(entries, P, Len(entries))
    <3>1. Count <= Len(entries) /\ Count \in 0 .. Count
      BY <1>3
    <3>2. P \in Seq(StoreSet) /\ \A m \in 0 .. Count : AllCover(entries, P, m)
      BY <1>3, <2>2, <2>3, <3>1, RelinkedCovers
    <3>. QED BY <1>3, <3>1, <3>2
  <2>. HIDE DEF P
  <2>5. todo' = P
    BY <1>5 DEF RUnlinkat, When, P, o
  <2>6. Settles(entries', todo')
    BY <1>5, <2>4, <2>5 DEF AllCover, Settles
  <2>7. \A k \in Block : Covers(entries', k, view[k], Len(entries'))
    BY <1>1, <1>3, <1>5, Settled
  <2>. QED BY <1>1, <1>2, <1>3, <1>5, <2>3, <2>4, <2>5, <2>6, <2>7, CallKeeps
<1>. QED BY <1>1, <1>4, <1>5 DEF RUnlinkat, Unlinkat, Panic, EntriesAfterUnlink, Unlinked

\* The next store of a call
LEMMA StoreStep ==
    ASSUME RInv, StoreNext
    PROVE  RInv'
<1>. DEFINE k == todo[1].block
            d == todo[1].data
<1>1. /\ view' = [view EXCEPT ![k] = d] /\ since' = [since EXCEPT ![k] = @ \cup {d}]
      /\ todo' = Tail(todo) /\ UNCHANGED <<vars, kept, off>> /\ todo # <<>>
  BY DEF StoreNext, Disk!Write
<1>2. /\ todo \in Seq(StoreSet) /\ view \in [Block -> Content] /\ since \in [Block -> SUBSET Content]
      /\ \A x \in Block : view[x] \in Fits(x) /\ view[x] \in since[x] /\ since[x] \subseteq Fits(x)
  BY DEF RInv, RTypeOK
<1>3. /\ todo[1] \in StoreSet /\ Len(todo) \in Nat \ {0} /\ DOMAIN todo = 1 .. Len(todo)
      /\ Tail(todo) \in Seq(StoreSet) /\ DOMAIN Tail(todo) = 1 .. Len(todo) - 1
      /\ \A i \in 1 .. Len(todo) - 1 : Tail(todo)[i] = todo[i + 1]
  BY <1>1, <1>2
<1>4. k \in Block /\ d \in Content /\ d \in Fits(k)
  BY <1>3 DEF StoreSet
<1>5. Covers(entries, k, d, kept)
  BY <1>3 DEF RInv, TodoCovers
<1>6. ASSUME NEW i \in DOMAIN todo, i # 1
      PROVE  i - 1 \in DOMAIN todo' /\ todo'[i - 1] = todo[i]
  <2>1. i - 1 \in 1 .. Len(todo) - 1 /\ (i - 1) + 1 = i
    BY <1>3, <1>6
  <2>. QED BY <1>1, <1>3, <2>1
<1>7. ASSUME NEW i \in DOMAIN todo'
      PROVE  i + 1 \in DOMAIN todo /\ i + 1 # 1 /\ todo'[i] = todo[i + 1] /\ i \in Nat
  BY <1>1, <1>3
<1>. HIDE DEF k, d
<1>8. view'[k] = d /\ since'[k] = since[k] \cup {d}
      /\ \A x \in Block : x # k => view'[x] = view[x] /\ since'[x] = since[x]
  BY <1>1, <1>2, <1>4
<1>9. RTypeOK'
  <2>1. view' \in [Block -> Content] /\ since' \in [Block -> SUBSET Content]
    BY <1>1, <1>2, <1>4
  <2>2. \A x \in Block : view'[x] \in Fits(x) /\ view'[x] \in since'[x] /\ since'[x] \subseteq Fits(x)
    BY <1>2, <1>4, <1>8
  <2>. QED BY <1>1, <1>3, <2>1, <2>2 DEF RInv, RTypeOK, vars, Count, NewInode
<1>10. SinceCovers'
  BY <1>1, <1>5, <1>8 DEF RInv, SinceCovers, vars
<1>11. TodoCovers'
  BY <1>1, <1>7 DEF RInv, TodoCovers, vars
<1>12. WillCover'
  <2>. SUFFICES ASSUME ~off, panic = "no"
                PROVE  /\ \A x \in Block : Covers(entries, x, view'[x], Count) \/ x \in Stored(todo')
                       /\ Settles(entries, todo')
    BY <1>1 DEF WillCover, vars, Count
  <2>1. /\ \A x \in Block : Covers(entries, x, view[x], Count) \/ x \in Stored(todo)
        /\ Settles(entries, todo)
    BY DEF RInv, WillCover
  <2>2. ASSUME NEW i \in DOMAIN todo, i # 1 PROVE todo[i].block \in Stored(todo')
    BY <1>6, <2>2 DEF Stored
  <2>3. ASSUME NEW x \in Block PROVE Covers(entries, x, view'[x], Count) \/ x \in Stored(todo')
    <3>1. CASE x = k
      <4>1. Covers(entries, k, d, Count) \/ \E j \in DOMAIN todo : j > 1 /\ todo[j].block = k
        BY <1>3, <2>1 DEF Settles, k, d, Count
      <4>. QED BY <1>8, <2>2, <3>1, <4>1
    <3>2. CASE x # k
      <4>1. CASE x \in Stored(todo)
        <5>1. PICK i \in DOMAIN todo : todo[i].block = x
          BY <4>1 DEF Stored
        <5>2. i # 1
          BY <3>2, <5>1 DEF k
        <5>. QED BY <2>2, <5>1, <5>2
      <4>. QED BY <1>8, <2>1, <3>2, <4>1
    <3>. QED BY <3>1, <3>2
  <2>4. ASSUME NEW i \in DOMAIN todo'
        PROVE  \/ Covers(entries, todo'[i].block, todo'[i].data, Len(entries))
               \/ \E j \in DOMAIN todo' : j > i /\ todo'[j].block = todo'[i].block
    <3>1. i + 1 \in DOMAIN todo /\ todo'[i] = todo[i + 1] /\ i \in Nat
      BY <1>7
    <3>2. ASSUME NEW j \in DOMAIN todo, j > i + 1, todo[j].block = todo[i + 1].block
          PROVE  \E m \in DOMAIN todo' : m > i /\ todo'[m].block = todo'[i].block
      <4>1. j # 1 /\ j - 1 > i
        BY <1>3, <3>1, <3>2
      <4>2. j - 1 \in DOMAIN todo' /\ todo'[j - 1] = todo[j]
        BY <1>6, <4>1
      <4>. QED BY <3>1, <3>2, <4>1, <4>2
    <3>. QED BY <2>1, <3>1, <3>2 DEF Settles
  <2>. QED BY <2>3, <2>4 DEF Settles
<1>13. DirInv'
  BY <1>1, DirStep DEF RInv
<1>. QED BY <1>9, <1>10, <1>11, <1>12, <1>13 DEF RInv

\* block_cache_sync_all: what every block holds now covers the whole directory.
LEMMA SyncStep ==
    ASSUME RInv, Sync
    PROVE  RInv'
<1>1. /\ since' = [k \in Block |-> {view[k]}] /\ view' = view /\ todo = <<>> /\ todo' = todo
      /\ kept' = Count /\ ~off /\ panic = "no" /\ UNCHANGED <<vars, off>>
  BY DEF Sync, SyncAll, Disk!Flush
<1>2. \A k \in Block : Covers(entries, k, view[k], Count)
  BY <1>1, Settled
<1>3. DirInv' /\ Count' = Count /\ NewInode' = NewInode /\ entries' = entries
  BY <1>1, DirStep DEF RInv, vars, Count, NewInode
<1>4. RTypeOK'
  <2>1. since' \in [Block -> SUBSET Content]
    BY <1>1 DEF RInv, RTypeOK
  <2>2. \A k \in Block : view'[k] \in Fits(k) /\ view'[k] \in since'[k] /\ since'[k] \subseteq Fits(k)
    BY <1>1 DEF RInv, RTypeOK
  <2>3. kept' \in 0 .. Count'
    BY <1>1, <1>3 DEF RInv, DirInv, DirTypeOK, Count
  <2>. QED BY <1>1, <1>3, <2>1, <2>2, <2>3 DEF RInv, RTypeOK, vars
<1>5. SinceCovers' /\ TodoCovers' /\ WillCover'
  BY <1>1, <1>2, <1>3 DEF SinceCovers, TodoCovers, WillCover, Settles
<1>. QED BY <1>3, <1>4, <1>5 DEF RInv

\* The power loss: each block falls back to one of the values it had since the flush.
LEMMA PowerStep ==
    ASSUME RInv, PowerLoss
    PROVE  RInv' /\ Disk!PowerLoss
<1>1. off' = TRUE /\ since' = [k \in Block |-> {view'[k]}] /\ UNCHANGED <<vars, todo, kept>>
  BY DEF PowerLoss
<1>2. /\ view \in [Block -> Content] /\ since \in [Block -> SUBSET Content]
      /\ \A k \in Block : view[k] \in since[k] /\ since[k] \subseteq Fits(k)
  BY DEF RInv, RTypeOK
<1>3. PICK c \in Remains(Counters), i \in Remains(OfInodes), d \in Remains(OfData) :
         view' = [k \in Block |-> IF k \in Counters THEN c[k]
                                  ELSE IF k \in OfInodes THEN i[k]
                                  ELSE IF k \in OfData THEN d[k] ELSE view[k]]
  BY DEF PowerLoss
<1>4. /\ \A k \in Counters : c[k] \in since[k]
      /\ \A k \in OfInodes : i[k] \in since[k]
      /\ \A k \in OfData : d[k] \in since[k]
  BY DEF Remains
<1>5. \A k \in Block : view'[k] \in since[k]
  BY <1>2, <1>3, <1>4
<1>6. view' \in [Block -> Content]
  BY <1>2, <1>3, <1>5
<1>7. DirInv' /\ Count' = Count /\ NewInode' = NewInode /\ entries' = entries /\ calls' = calls
  BY <1>1, DirStep DEF RInv, vars, Count, NewInode
<1>8. RTypeOK'
  <2>1. since' \in [Block -> SUBSET Content]
    BY <1>1, <1>6
  <2>2. \A k \in Block : view'[k] \in Fits(k) /\ view'[k] \in since'[k] /\ since'[k] \subseteq Fits(k)
    BY <1>1, <1>2, <1>5
  <2>. QED BY <1>1, <1>6, <1>7, <2>1, <2>2 DEF RInv, RTypeOK
<1>9. SinceCovers'
  <2>1. ASSUME NEW k \in Block PROVE \A x \in since'[k] : x \in since[k]
    BY <1>1, <1>5
  <2>. QED BY <1>1, <1>7, <2>1 DEF RInv, SinceCovers
<1>10. TodoCovers' /\ WillCover'
  BY <1>1, <1>7 DEF RInv, TodoCovers, WillCover
<1>11. Disk!PowerLoss
  BY <1>1, <1>5, <1>6 DEF Disk!PowerLoss
<1>. QED BY <1>7, <1>8, <1>9, <1>10, <1>11 DEF RInv

\* A new file system has an empty directory.
LEMMA FreshCovers ==
    ASSUME NEW k \in Block
    PROVE  Fresh(k) \in Fits(k) /\ Covers(<<>>, k, Fresh(k), 0)
<1>1. <<>> \in Seq(Entry) /\ Len(<<>>) = 0 /\ <<1>> \in Seq(Nat)
  OBVIOUS
<1>2. ASSUME NEW b \in BlockId PROVE b * PerBlock \in Nat
  BY Sizes, InBlock DEF BlockId
<1>3. CASE k[1] = "inodes"
  <2>1. PICK j \in Nat : k = InodeBlock(j)
    <3>1. PosOf(MaxInodes - 1) \in Nat
      <4>1. MaxInodes - 1 \in 0 .. MaxInodes - 1
        BY Sizes
      <4>. QED BY <4>1, InBlock
    <3>. QED BY <1>3, <3>1, KindsDiffer DEF Block
  <2>2. k[2] = j /\ k # Bitmap
    BY <2>1, KindsDiffer DEF InodeBlock
  <2>. DEFINE d == Inodes(j, <<1>>, 0)
  <2>3. Fresh(k) = d
    BY <1>3, <2>2 DEF Fresh
  <2>4. d \in Fits(InodeBlock(j)) /\ (j = 0 => d.size = 0)
    <3>. DEFINE one == <<1>>
                zero == 0
    <3>1. one \in Seq(Nat) /\ zero \in Nat
      OBVIOUS
    <3>. HIDE DEF one, zero
    <3>2. Inodes(j, one, zero) \in Fits(InodeBlock(j)) /\ (j = 0 => Inodes(j, one, zero).size = zero)
      BY <3>1, InodesType
    <3>. QED BY <3>2 DEF one, zero
  <2>. HIDE DEF d
  <2>5. Covers(<<>>, InodeBlock(j), d, 0)
    <3>1. 0 \in 0 .. Len(<<>>) /\ (j = 0 => 0 <= d.size /\ d.size <= Len(<<>>))
      BY <2>4
    <3>. QED BY <1>1, <2>1, <3>1, InodesCover
  <2>. QED BY <2>1, <2>3, <2>4, <2>5
<1>4. CASE k[1] = "data"
  <2>1. Fresh(k) = <<>> /\ k # Bitmap
    BY <1>4, KindsDiffer DEF Fresh
  <2>2. Fresh(k) \in Fits(k)
    BY <1>1, <1>4, <2>1 DEF Fits
  <2>. QED BY <1>1, <1>2, <1>4, <2>1, <2>2, KindsDiffer, Sizes DEF Covers
<1>5. CASE k[1] \notin {"inodes", "data"}
  <2>1. Fresh(k) \in Nat /\ (k = DataBitmap => Fresh(k) = 0)
    BY <1>5, KindsDiffer DEF Fresh
  <2>2. Fresh(k) \in Fits(k)
    BY <1>5, <2>1 DEF Fits
  <2>3. TotalBlocks(0) = 0
    <3>1. 0 + PerBlock - 1 \in 0 .. PerBlock - 1
      BY Sizes
    <3>2. DirBlocks(0) = 0
      BY <3>1, Sizes, SmallMod DEF DirBlocks
    <3>. QED BY <3>2, Sizes DEF TotalBlocks
  <2>. QED BY <1>2, <1>5, <2>1, <2>2, <2>3, KindsDiffer DEF Covers
<1>. QED BY <1>3, <1>4, <1>5

\* The blocks of a new file system cover the empty directory.
LEMMA RInitInv == RInit => RInv
<1>. SUFFICES ASSUME RInit PROVE RInv
  OBVIOUS
<1>1. /\ entries = <<>> /\ nlink = <<1>> /\ removed = {} /\ calls = 0 /\ panic = "no"
      /\ view = [k \in Block |-> Fresh(k)] /\ since = [k \in Block |-> {Fresh(k)}]
      /\ todo = <<>> /\ kept = 0 /\ off = FALSE
  BY DEF RInit, Init
<1>2. DirInv /\ Count = 0 /\ NewInode = 1
  BY <1>1, FS_EmptySet DEF DirInv, DirTypeOK, EntriesExact, LinkCountExact, Count, NewInode
<1>3. \A k \in Block : Fresh(k) \in Fits(k) /\ Covers(<<>>, k, Fresh(k), 0)
  BY FreshCovers
<1>4. \A k \in Block : Fresh(k) \in Content
  BY <1>3 DEF Fits, Content, Entry
<1>5. RTypeOK
  <2>1. view \in [Block -> Content] /\ since \in [Block -> SUBSET Content]
    BY <1>1, <1>4
  <2>2. \A k \in Block : view[k] \in Fits(k) /\ view[k] \in since[k] /\ since[k] \subseteq Fits(k)
    BY <1>1, <1>3
  <2>3. todo \in Seq(StoreSet)
    BY <1>1
  <2>4. kept \in 0 .. Count /\ calls \in 0 .. MaxCalls /\ Count <= calls /\ NewInode <= MaxInodes
    BY <1>1, <1>2, Sizes
  <2>. QED BY <1>1, <2>1, <2>2, <2>3, <2>4 DEF RTypeOK
<1>6. SinceCovers /\ TodoCovers /\ WillCover
  BY <1>1, <1>2, <1>3 DEF SinceCovers, TodoCovers, WillCover, Settles
<1>. QED BY <1>2, <1>5, <1>6 DEF RInv

\* Calls, their stores, flushes and the power loss keep the invariant.
LEMMA RStep == RInv /\ [RNext]_<<vars, rvars>> => RInv'
<1>. SUFFICES ASSUME RInv, [RNext]_<<vars, rvars>> PROVE RInv'
  OBVIOUS
<1>1. ASSUME UNCHANGED <<vars, rvars>> PROVE RInv'
  <2>1. DirInv'
    BY <1>1, DirStep DEF RInv
  <2>2. RTypeOK'
    BY <1>1 DEF RInv, RTypeOK, vars, rvars, Count, NewInode
  <2>3. SinceCovers' /\ TodoCovers' /\ WillCover'
    BY <1>1 DEF RInv, SinceCovers, TodoCovers, WillCover, vars, rvars, Count
  <2>. QED BY <2>1, <2>2, <2>3 DEF RInv
<1>. QED BY <1>1, CreateStep, UnlinkatStep, LinkatStep, StoreStep, SyncStep, PowerStep DEF RNext

\* The invariant of directory and blocks: every value that a power loss can leave of a
\* block covers the flushed entries, also in the middle of a call and after a panic.
THEOREM RecoveryInvariance == RSpec => []RInv
BY RInitInv, RStep, PTL DEF RSpec

\* What the invariant says of the blocks that a power loss leaves: the lookup of the first
\* kept entries finds them, and behind them it finds the directory's entries, nothing, or
\* the super block.
LEMMA LookupAfterLoss ==
    ASSUME RInv
    PROVE  FlushedNamesSurvive
<1>1. /\ entries \in Seq(Entry) /\ Count = Len(entries) /\ Count \in Nat /\ Count <= MaxCalls
      /\ kept \in 0 .. Count
  BY Sizes DEF RInv, DirInv, DirTypeOK, RTypeOK, Count
<1>2. \A k \in Block : Covers(entries, k, view[k], kept) /\ view[k] \in Fits(k)
  BY DEF RInv, RTypeOK, SinceCovers
<1>3. Size \in Nat /\ kept <= Size /\ Size <= Count
  <2>1. Covers(entries, InodeBlock(0), view[InodeBlock(0)], kept)
    BY <1>2, InBlock
  <2>2. view[InodeBlock(0)] \in Fits(InodeBlock(0))
    BY <1>2, InBlock
  <2>3. view[InodeBlock(0)].size \in Nat
    BY <2>2, KindsDiffer DEF Fits
  <2>. QED BY <1>1, <2>1, <2>3 DEF Covers, Size
<1>4. ASSUME NEW i \in 1 .. Count
      PROVE  /\ i <= kept => EntryAt(i) = entries[i] /\ ~LookupFails(BlockOfEntry(i))
             /\ EntryAt(i) \in {Blank, SuperEntry, entries[i]}
  <2>. DEFINE b == (i - 1) \div PerBlock
              r == (i - 1) % PerBlock
              d == view[DataBlock(b)]
  <2>1. i - 1 \in Nat /\ b \in Nat /\ r \in 0 .. PerBlock - 1 /\ i - 1 = b * PerBlock + r
    BY DirBlocksNext
  <2>2. /\ BlockOfEntry(i) = b
        /\ LostBlock(b) => EntryAt(i) \in {SuperEntry, Blank}
        /\ ~LostBlock(b) => EntryAt(i) = IF r + 1 <= Len(d) THEN d[r + 1] ELSE Blank
    BY DEF EntryAt, BlockOfEntry
  <2>. HIDE DEF b, r
  <2>3. b * PerBlock \in Nat /\ b * PerBlock < i /\ i = b * PerBlock + (r + 1)
    BY <2>1, Sizes
  <2>4. b \in BlockId /\ DataBlock(b) \in Block /\ Index(IndexOf(b)) \in Block
    <3>1. i \in 0 .. MaxCalls
      BY <1>1, Sizes
    <3>2. b \in BlockId
      BY <2>1, <2>3, <3>1, InBlock
    <3>. QED BY <3>2, InBlock
  <2>5. Len(d) \in Nat
    BY <1>2, <2>4, KindsDiffer DEF Fits
  <2>6. /\ \A m \in 1 .. Len(d) : d[m] = entries[b * PerBlock + m]
        /\ kept <= b * PerBlock + Len(d) \/ Len(d) = PerBlock
    <3>1. Covers(entries, DataBlock(b), d, kept)
      BY <1>2, <2>4
    <3>. HIDE DEF d
    <3>. QED BY <2>4, <3>1 DEF Covers
  <2>. HIDE DEF d
  <2>7. ASSUME r + 1 <= Len(d) PROVE d[r + 1] = entries[i]
    <3>1. r + 1 \in 1 .. Len(d)
      BY <2>1, <2>5, <2>7, Sizes
    <3>. QED BY <2>3, <2>6, <3>1, Zenon
  <2>8. ASSUME i <= kept PROVE r + 1 <= Len(d)
    <3>1. PICK c \in Nat, l \in Nat : c = b * PerBlock /\ l = Len(d)
      BY <2>3, <2>5
    <3>2. i = c + (r + 1) /\ (kept <= c + l \/ l = PerBlock) /\ r \in 0 .. PerBlock - 1
      BY <2>1, <2>3, <2>6, <3>1
    <3>3. kept \in Nat /\ PerBlock \in Nat /\ i \in Nat
      BY <1>1, Sizes
    <3>4. r + 1 <= l
      BY <2>8, <3>2, <3>3
    <3>. QED BY <3>1, <3>4
  <2>9. ASSUME i <= kept PROVE ~LostBlock(b) /\ ~LookupFails(b)
    <3>0. b * PerBlock < kept
      BY <1>1, <2>3, <2>9
    <3>1. b >= Direct => SlotOf(b) < view[Index(IndexOf(b))]
      <4>1. Covers(entries, Index(IndexOf(b)), view[Index(IndexOf(b))], kept)
        BY <1>2, <2>4
      <4>. QED BY <2>4, <3>0, <4>1 DEF Covers
    <3>2. b >= Bound => IndexOf(b) <= view[Indirect2]
      <4>1. Covers(entries, Indirect2, view[Indirect2], kept)
        BY <1>2, InBlock
      <4>. QED BY <2>4, <3>0, <4>1 DEF Covers
    <3>3. view[Index(IndexOf(b))] \in Nat /\ view[Indirect2] \in Nat
      BY <1>2, <2>4, InBlock, KindsDiffer DEF Fits
    <3>4. IndexOf(b) \in Nat /\ (b >= Direct => SlotOf(b) \in Nat)
      <4>1. b <= b /\ (b >= Direct => Direct <= b)
        BY <2>1, Sizes
      <4>2. IndexOf(b) \in Nat
        BY <2>1, <4>1, IndexMonotone
      <4>3. ASSUME b >= Direct PROVE SlotOf(b) \in Nat
        BY <2>1, <4>1, <4>3, SlotMonotone
      <4>. QED BY <4>2, <4>3
    <3>. QED BY <2>1, <3>1, <3>2, <3>3, <3>4, Sizes DEF LostBlock, LookupFails
  <2>. QED BY <2>2, <2>7, <2>8, <2>9
<1>5. \A i \in 1 .. kept : entries[i].inode < view[Bitmap]
  BY <1>2, InBlock DEF Covers
<1>6. TotalBlocks(kept) <= view[DataBitmap]
  BY <1>2, InBlock DEF Covers
<1>7. \A i \in 1 .. kept : i \in 1 .. Count /\ i <= kept
  BY <1>1
<1>8. \A i \in kept + 1 .. Size : i \in 1 .. Count
  BY <1>1, <1>3
<1>9. \A i \in 1 .. kept : Readable(i)
  <2>1. \A i \in 1 .. kept : \A j \in 1 .. i : j \in 1 .. kept
    BY <1>1
  <2>. QED BY <1>4, <1>7, <2>1 DEF Readable
<1>. QED BY <1>3, <1>4, <1>5, <1>6, <1>7, <1>8, <1>9 DEF FlushedNamesSurvive

\* Whenever the power fails, the names that block_cache_sync_all has covered are found with
\* their inodes, their bitmap bits are still set, and what find reads behind them is an
\* entry of a later call, blank, or the super block, so no name is bound to another inode:
\* for any directory size, also where it needs indirect blocks, and any number of calls.
THEOREM FlushedSafety == RSpec => []FlushedNamesSurvive
<1>1. RInv => FlushedNamesSurvive
  BY LookupAfterLoss
<1>. QED BY <1>1, RecoveryInvariance, PTL

\* The directory with its blocks is the directory: names, link counts and bindings are as
\* exact in the middle of a call's stores as between calls.
THEOREM RecoveryRefines == RSpec => Spec
<1>1. RInit => Init
  BY DEF RInit
<1>2. [RNext]_<<vars, rvars>> => [Next]_vars
  BY Implements DEF vars
<1>. QED BY <1>1, <1>2, PTL DEF RSpec, Spec

\* The blocks of the directory behave as the durable disk that the block cache implements:
\* each step of a call is one write, one flush or one power loss of it.
THEOREM BlocksAreDurable == RSpec => Disk!DSpec
<1>1. RInit => Disk!DInit
  <2>. SUFFICES ASSUME RInit PROVE Disk!DInit
    OBVIOUS
  <2>1. view = [k \in Block |-> Fresh(k)] /\ since = [k \in Block |-> {Fresh(k)}]
    BY DEF RInit
  <2>2. \A k \in Block : Fresh(k) \in Content
    BY FreshCovers DEF Fits, Content, Entry
  <2>. QED BY <2>1, <2>2 DEF Disk!DInit
<1>2. RInv /\ [RNext]_<<vars, rvars>> => [Disk!DNext]_(Disk!dvars)
  <2>. SUFFICES ASSUME RInv, [RNext]_<<vars, rvars>> PROVE [Disk!DNext]_(Disk!dvars)
    OBVIOUS
  <2>1. CASE StoreNext
    <3>1. todo \in Seq(StoreSet) /\ todo # <<>>
      BY <2>1 DEF StoreNext, RInv, RTypeOK
    <3>2. todo[1] \in StoreSet
      BY <3>1
    <3>3. todo[1].block \in Block /\ todo[1].data \in Content
      BY <3>2 DEF StoreSet
    <3>. QED BY <2>1, <3>3 DEF StoreNext, Disk!DNext
  <2>2. CASE Sync
    BY <2>2 DEF Sync, SyncAll, Disk!DNext
  <2>3. CASE PowerLoss
    BY <2>3, PowerStep DEF Disk!DNext
  <2>4. ASSUME UNCHANGED <<view, since>> PROVE [Disk!DNext]_(Disk!dvars)
    BY <2>4 DEF Disk!dvars
  <2>. QED BY <2>1, <2>2, <2>3, <2>4 DEF RNext, RCreate, RLinkat, RUnlinkat, rvars
<1>. QED BY <1>1, <1>2, RecoveryInvariance, PTL DEF RSpec, Disk!DSpec
==============================================================================
