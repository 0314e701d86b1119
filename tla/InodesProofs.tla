---------------------------- MODULE InodesProofs ----------------------------
(***************************************************************************)
(* Proofs about module Inodes for every number of direct blocks, every     *)
(* block size, every device and any files and handles: the blocks of the   *)
(* trees, the panics that are possible, and that block trees are files.    *)
(***************************************************************************)
EXTENDS Inodes, FiniteSetTheorems, WellFoundedInduction, TLAPS

----------------------------------------------------------------------------
\* Arithmetic of the block size

\* The first cell of a block, the block of a cell and the place of the cell in it.
Start(a) == a * Width
Quo(p)   == p \div Width
Rem(p)   == p % Width

\* The constants and the sets of cells and blocks, as the provers need them.
LEMMA Sizes ==
    /\ Width \in Nat /\ Width > 0 /\ Direct \in Nat /\ Direct > 0 /\ Area \in Nat
    /\ \A i : i \in Cell <=> i \in Nat /\ i < Width
    /\ \A b : b \in Block <=> b \in Nat /\ b <= Area
  BY InodesAssumption DEF Cell, Block

\* Quotient and rest of a natural number.
LEMMA DivMod ==
    ASSUME NEW a \in Nat
    PROVE  Quo(a) \in Nat /\ Rem(a) \in Nat /\ Rem(a) < Width /\ a = Start(Quo(a)) + Rem(a)
<1>. DEFINE q == a \div Width
            r == a % Width
<1>1. q \in Int /\ r \in 0 .. Width - 1 /\ a = q * Width + r /\ Width \in Nat \ {0}
  BY InodesAssumption, Z3
<1>. HIDE DEF q, r
<1>2. ASSUME q <= -1 PROVE FALSE
  <2>1. q * Width <= -Width
    BY <1>1, <1>2, Z3
  <2>. QED BY <1>1, <2>1
<1>3. q \in Nat /\ r \in Nat /\ r < Width
  BY <1>1, <1>2
<1>. QED BY <1>1, <1>3 DEF q, r, Quo, Rem, Start

\* Multiples of the block size are ordered as their factors.
LEMMA Multiples ==
    ASSUME NEW x \in Nat
    PROVE  /\ Start(x) \in Nat /\ Start(x + 1) = Start(x) + Width
           /\ \A y \in Nat : /\ x < y <=> Start(x) < Start(y)
                             /\ x < y => Start(x) + Width <= Start(y)
<1>1. Width \in Nat \ {0}
  BY InodesAssumption
<1>2. ASSUME NEW y \in Nat
      PROVE  y * Width \in Nat /\ (x + 1) * Width = x * Width + Width
  BY <1>1, Z3
<1>3. ASSUME NEW y \in Nat, x < y PROVE x * Width + Width <= y * Width
  <2>1. (x + 1) * Width <= y * Width
    BY <1>1, <1>3, Z3
  <2>. QED BY <1>2, <2>1
<1>4. ASSUME NEW y \in Nat, y <= x PROVE y * Width <= x * Width
  BY <1>1, <1>4, Z3
<1>5. Start(x) \in Nat /\ Start(x + 1) = Start(x) + Width
  BY <1>2 DEF Start
<1>6. ASSUME NEW y \in Nat
      PROVE  (x < y <=> Start(x) < Start(y)) /\ (x < y => Start(x) + Width <= Start(y))
  <2>1. Start(y) \in Nat
    BY <1>2 DEF Start
  <2>2. x < y => Start(x) + Width <= Start(y)
    BY <1>3 DEF Start
  <2>3. y <= x => Start(y) <= Start(x)
    BY <1>4 DEF Start
  <2>. QED BY <1>1, <1>5, <2>1, <2>2, <2>3
<1>. QED BY <1>5, <1>6

\* There is one way to write a position as a block and a cell.
LEMMA OneWay ==
    ASSUME NEW q \in Nat, NEW r \in Nat, r < Width
    PROVE  Start(q) + r \in Nat /\ Quo(Start(q) + r) = q /\ Rem(Start(q) + r) = r
<1>1. Start(q) \in Nat /\ Width \in Nat
  BY Multiples, Sizes
<1>2. PICK a \in Nat : a = Start(q) + r
  BY <1>1
<1>. DEFINE x == Quo(a)
            y == Rem(a)
<1>3. x \in Nat /\ y \in Nat /\ y < Width /\ a = Start(x) + y
  BY DivMod
<1>. HIDE DEF x, y
<1>4. /\ Start(x) \in Nat /\ (x < q => Start(x) + Width <= Start(q))
      /\ (q < x => Start(q) + Width <= Start(x))
  BY <1>3, Multiples
<1>5. x = q
  BY <1>1, <1>2, <1>3, <1>4
<1>6. y = r
  BY <1>1, <1>2, <1>3, <1>5
<1>. QED BY <1>2, <1>5, <1>6 DEF x, y

\* The quotient rounded up counts the multiples below a number.
LEMMA RoundUp ==
    ASSUME NEW n \in Nat
    PROVE  /\ Quo(n + Width - 1) \in Nat
           /\ \A a \in Nat : a < Quo(n + Width - 1) <=> Start(a) < n
<1>1. Width \in Nat /\ Width > 0
  BY Sizes
<1>. DEFINE q == Quo(n + Width - 1)
            r == Rem(n + Width - 1)
<1>2. n + Width - 1 \in Nat
  BY <1>1
<1>3. q \in Nat /\ r \in Nat /\ r < Width /\ n + Width - 1 = Start(q) + r
  BY <1>2, DivMod
<1>. HIDE DEF q, r
<1>4. ASSUME NEW a \in Nat PROVE a < q <=> Start(a) < n
  <2>1. Start(a) \in Nat /\ Start(q) \in Nat /\ (a < q => Start(a) + Width <= Start(q))
        /\ (a < q <=> Start(a) < Start(q))
    BY <1>3, Multiples
  <2>. QED BY <1>1, <1>3, <2>1
<1>. QED BY <1>3, <1>4 DEF q

----------------------------------------------------------------------------
\* Slots

\* The bounds of the two lower levels of the tree.
LEMMA Bounds ==
    /\ Indirect1Bound \in Nat /\ Indirect1Bound = Direct + Width
    /\ Start(Width) \in Nat /\ Indirect2Bound = Indirect1Bound + Start(Width)
<1>1. Start(Width) \in Nat
  BY Sizes, Multiples
<1>. QED BY <1>1, Sizes DEF Indirect1Bound, Indirect2Bound, Start

\* The data blocks of a file are those with a cell below its size.
LEMMA DataBlocksFacts ==
    ASSUME NEW size \in Nat
    PROVE  /\ DataBlocks(size) \in Nat
           /\ \A a \in Nat : a < DataBlocks(size) <=> Start(a) < size
           /\ \A p \in Nat : p < size => Quo(p) < DataBlocks(size)
<1>1. DataBlocks(size) = Quo(size + Width - 1)
  BY DEF DataBlocks, Quo
<1>2. DataBlocks(size) \in Nat /\ \A a \in Nat : a < DataBlocks(size) <=> Start(a) < size
  BY <1>1, RoundUp
<1>3. ASSUME NEW p \in Nat, p < size PROVE Quo(p) < DataBlocks(size)
  <2>1. Quo(p) \in Nat /\ Rem(p) \in Nat /\ p = Start(Quo(p)) + Rem(p) /\ Start(Quo(p)) \in Nat
    BY DivMod, Multiples
  <2>2. Start(Quo(p)) < size
    BY <1>3, <2>1
  <2>. QED BY <1>2, <2>1, <2>2
<1>. QED BY <1>2, <1>3

\* A larger file has no fewer data blocks.
LEMMA DataBlocksGrow ==
    ASSUME NEW size \in Nat, NEW larger \in Nat, size <= larger
    PROVE  DataBlocks(size) <= DataBlocks(larger)
<1>. DEFINE m == DataBlocks(larger)
            n == DataBlocks(size)
<1>1. /\ m \in Nat /\ n \in Nat
      /\ \A a \in Nat : (a < n <=> Start(a) < size) /\ (a < m <=> Start(a) < larger)
  BY DataBlocksFacts
<1>. HIDE DEF m, n
<1>2. ~(m < m) /\ (m < n <=> Start(m) < size) /\ ~(Start(m) < larger) /\ Start(m) \in Nat
  BY <1>1, Multiples
<1>3. ~(m < n)
  BY <1>2
<1>4. n <= m
  BY <1>1, <1>3
<1>. QED BY <1>4 DEF m, n

\* All places of a tree, without a bound on the size of the file.
AllSlots ==
    ({"direct"} \X (0 .. Direct - 1)) \cup {<<"indirect1", 0>>} \cup ({"first"} \X Cell)
    \cup {<<"indirect2", 0>>} \cup ({"middle"} \X Nat) \cup ({"second"} \X Nat)

\* The first data block at or under a slot.
Lead(slot) ==
    LET i == slot[2] IN
    CASE slot[1] = "direct"    -> i
      [] slot[1] = "indirect1" -> Direct
      [] slot[1] = "first"     -> Direct + i
      [] slot[1] = "indirect2" -> Indirect1Bound
      [] slot[1] = "middle"    -> Indirect1Bound + Start(i)
      [] slot[1] = "second"    -> Indirect1Bound + i

\* The kinds of slots.
LEMMA Kinds ==
    ASSUME NEW s \in AllSlots
    PROVE  \/ \E i \in Nat : i < Direct /\ s = <<"direct", i>>
           \/ s = <<"indirect1", 0>>
           \/ \E i \in Nat : i < Width /\ s = <<"first", i>>
           \/ s = <<"indirect2", 0>>
           \/ \E i \in Nat : s = <<"middle", i>>
           \/ \E i \in Nat : s = <<"second", i>>
<1>1. CASE s \in {"direct"} \X (0 .. Direct - 1)
  BY <1>1, Sizes
<1>2. CASE s \in {"first"} \X Cell
  BY <1>2, Sizes
<1>3. CASE s \in {"middle"} \X Nat
  BY <1>3
<1>4. CASE s \in {"second"} \X Nat
  BY <1>4
<1>5. CASE s \in {<<"indirect1", 0>>, <<"indirect2", 0>>}
  BY <1>5
<1>. QED BY <1>1, <1>2, <1>3, <1>4, <1>5 DEF AllSlots

\* The lead of each kind.
LEMMA Leads ==
    ASSUME NEW i \in Nat
    PROVE  /\ Lead(<<"direct", i>>) = i
           /\ Lead(<<"indirect1", i>>) = Direct
           /\ Lead(<<"first", i>>) = Direct + i
           /\ Lead(<<"indirect2", i>>) = Indirect1Bound
           /\ Lead(<<"middle", i>>) = Indirect1Bound + Start(i)
           /\ Lead(<<"second", i>>) = Indirect1Bound + i
  BY DEF Lead

\* The first data block that needs a slot is a natural number.
LEMMA LeadType == ASSUME NEW s \in AllSlots PROVE Lead(s) \in Nat
<1>1. \A i \in Nat : Start(i) \in Nat
  BY Multiples
<1>2. Direct \in Nat /\ Indirect1Bound \in Nat
  BY Sizes, Bounds
<1>3. CASE \E i \in Nat : s = <<"direct", i>> \/ s = <<"first", i>> \/ s = <<"second", i>> \/ s = <<"middle", i>>
  <2>1. PICK i \in Nat : s = <<"direct", i>> \/ s = <<"first", i>> \/ s = <<"second", i>> \/ s = <<"middle", i>>
    BY <1>3
  <2>2. Lead(s) \in {i, Direct + i, Indirect1Bound + i, Indirect1Bound + Start(i)}
    BY <2>1, Leads, Zenon
  <2>. QED BY <1>1, <1>2, <2>2
<1>4. CASE s = <<"indirect1", 0>> \/ s = <<"indirect2", 0>>
  BY <1>2, <1>4, Leads
<1>. QED BY <1>3, <1>4, Kinds

\* Which pairs are slots.
LEMMA Members ==
    /\ \A i \in Nat : i < Direct <=> <<"direct", i>> \in AllSlots
    /\ <<"indirect1", 0>> \in AllSlots
    /\ \A i \in Nat : i < Width <=> <<"first", i>> \in AllSlots
    /\ <<"indirect2", 0>> \in AllSlots
    /\ \A i \in Nat : <<"middle", i>> \in AllSlots /\ <<"second", i>> \in AllSlots
  BY Sizes DEF AllSlots

\* The index blocks under indirect2 that clear_size visits.
LEMMA Visited ==
    ASSUME NEW n \in Nat, n > Indirect1Bound,
           NEW a1, a1 = (n - Indirect1Bound) \div Width,
           NEW b1, b1 = (n - Indirect1Bound) % Width
    PROVE  /\ a1 * Width \in Int /\ b1 \in Int /\ a1 * Width + b1 = n - Indirect1Bound
           /\ (0 .. a1 - 1) \cup (IF b1 > 0 THEN {a1} ELSE {})
                = {a \in Nat : Indirect1Bound + Start(a) < n}
<1>1. PICK rest \in Nat : rest = n - Indirect1Bound
  BY Bounds
<1>2. Width \in Nat /\ Width > 0 /\ Indirect1Bound \in Nat
  BY Sizes, Bounds
<1>3. a1 = Quo(rest) /\ b1 = Rem(rest)
  BY <1>1 DEF Quo, Rem
<1>4. a1 \in Nat /\ b1 \in Nat /\ b1 < Width /\ rest = Start(a1) + b1 /\ Start(a1) \in Nat
  BY <1>3, DivMod, Multiples
<1>5. ASSUME NEW a \in Nat
      PROVE  (a < a1 \/ (b1 > 0 /\ a = a1)) <=> Indirect1Bound + Start(a) < n
  <2>1. /\ Start(a) \in Nat
        /\ a < a1 => Start(a) + Width <= Start(a1)
        /\ a1 < a => Start(a1) + Width <= Start(a)
    BY <1>4, Multiples
  <2>2. Indirect1Bound + Start(a) < n <=> Start(a) < rest
    BY <1>1, <1>2, <2>1
  <2>. QED BY <1>2, <1>4, <2>1, <2>2
<1>6. \A a : a \in (0 .. a1 - 1) \cup (IF b1 > 0 THEN {a1} ELSE {})
              <=> a \in Nat /\ (a < a1 \/ (b1 > 0 /\ a = a1))
  BY <1>4
<1>7. Start(a1) = a1 * Width
  BY DEF Start
<1>8. a1 * Width \in Int /\ b1 \in Int /\ a1 * Width + b1 = n - Indirect1Bound
  BY <1>1, <1>4, <1>7
<1>. QED BY <1>5, <1>6, <1>8

\* The index blocks under indirect2 that increase_size makes: those whose first entry is
\* among the new ones.
LEMMA Made ==
    ASSUME NEW c \in Nat, NEW t \in Int
    PROVE  {j \div Width : j \in {k \in c .. t : k % Width = 0}}
             = {a \in Nat : c <= Start(a) /\ Start(a) <= t}
<1>. DEFINE L == {Quo(j) : j \in {k \in c .. t : Rem(k) = 0}}
            R == {a \in Nat : c <= Start(a) /\ Start(a) <= t}
<1>1. ASSUME NEW a \in L PROVE a \in R
  <2>1. PICK j \in c .. t : Rem(j) = 0 /\ a = Quo(j)
    OBVIOUS
  <2>2. j \in Nat
    OBVIOUS
  <2>3. a \in Nat /\ j = Start(a) + Rem(j) /\ Start(a) \in Nat
    BY <2>1, <2>2, DivMod, Multiples
  <2>. QED BY <2>1, <2>3
<1>2. ASSUME NEW a \in R PROVE a \in L
  <2>1. a \in Nat /\ Start(a) \in Nat /\ c <= Start(a) /\ Start(a) <= t
    BY Multiples
  <2>2. Start(a) + 0 = Start(a)
    BY <2>1
  <2>3. Quo(Start(a)) = a /\ Rem(Start(a)) = 0
    BY <2>1, <2>2, Sizes, OneWay
  <2>4. Start(a) \in c .. t
    BY <2>1
  <2>. QED BY <2>3, <2>4
<1>3. L = R
  BY <1>1, <1>2
<1>. QED BY <1>3 DEF Quo, Rem

\* The slots of a file of n data blocks are the ones that lead to its blocks.
LEMMA SlotsAre ==
    ASSUME NEW n \in Nat
    PROVE  Slots(n) = {s \in AllSlots : Lead(s) < n}
<1>. DEFINE a1 == (n - Indirect1Bound) \div Width
            b1 == (n - Indirect1Bound) % Width
            mid == (0 .. a1 - 1) \cup (IF b1 > 0 THEN {a1} ELSE {})
            m == a1 * Width
            sec == 0 .. m + b1 - 1
            D == 0 .. Least(n, Direct) - 1
            F == 0 .. Least(n - Direct, Width) - 1
            All == ({"direct"} \X D)
                   \cup (IF n > Direct THEN {<<"indirect1", 0>>} \cup ({"first"} \X F) ELSE {})
                   \cup (IF n > Indirect1Bound
                         THEN {<<"indirect2", 0>>} \cup ({"middle"} \X mid) \cup ({"second"} \X sec) ELSE {})
<1>1. Direct \in Nat /\ Width \in Nat /\ Indirect1Bound \in Nat /\ Indirect1Bound = Direct + Width
  BY Sizes, Bounds
<1>2. \A i : i \in D <=> i \in Nat /\ i < Direct /\ i < n
  BY <1>1 DEF Least
<1>3. n > Direct => \A i : i \in F <=> i \in Nat /\ i < Width /\ Direct + i < n
  BY <1>1 DEF Least
<1>4. n > Indirect1Bound =>
         /\ \A i : i \in mid <=> i \in Nat /\ Indirect1Bound + Start(i) < n
         /\ m + b1 = n - Indirect1Bound /\ b1 \in Int /\ m \in Int
  BY Visited
<1>5. Slots(n) = All
  <2>1. sec = 0 .. a1 * Width + b1 - 1
    BY Zenon
  <2>. HIDE DEF D, F, mid, sec, a1, b1, m
  <2>2. Slots(n) = All
    BY <2>1, Zenon DEF Slots, D, F, mid, a1, b1
  <2>. QED BY <2>2
<1>. HIDE DEF D, F, mid, m, b1
<1>6. n > Indirect1Bound => \A i : i \in sec <=> i \in Nat /\ Indirect1Bound + i < n
  BY <1>1, <1>4
<1>. HIDE DEF a1, b1, sec
<1>7. ASSUME NEW s \in All PROVE s \in AllSlots /\ Lead(s) < n
  <2>1. CASE s \in {"direct"} \X D
    <3>1. PICK i \in Nat : s = <<"direct", i>> /\ i < Direct /\ i < n
      BY <1>2, <2>1
    <3>. QED BY <3>1, Leads, Members
  <2>2. CASE n > Direct /\ s = <<"indirect1", 0>>
    BY <1>1, <2>2, Leads, Members
  <2>3. CASE n > Direct /\ s \in {"first"} \X F
    <3>1. PICK i \in Nat : s = <<"first", i>> /\ i < Width /\ Direct + i < n
      BY <1>3, <2>3
    <3>. QED BY <3>1, Leads, Members
  <2>4. CASE n > Indirect1Bound /\ s = <<"indirect2", 0>>
    BY <1>1, <2>4, Leads, Members
  <2>5. CASE n > Indirect1Bound /\ s \in {"middle"} \X mid
    <3>1. PICK i \in Nat : s = <<"middle", i>> /\ Indirect1Bound + Start(i) < n
      BY <1>4, <2>5
    <3>. QED BY <3>1, Leads, Members
  <2>6. CASE n > Indirect1Bound /\ s \in {"second"} \X sec
    <3>1. PICK i \in Nat : s = <<"second", i>> /\ Indirect1Bound + i < n
      BY <1>6, <2>6
    <3>. QED BY <3>1, Leads, Members
  <2>. QED BY <2>1, <2>2, <2>3, <2>4, <2>5, <2>6
<1>8. ASSUME NEW s \in AllSlots, Lead(s) < n PROVE s \in All
  <2>1. ASSUME NEW i \in Nat, i < Direct, s = <<"direct", i>> PROVE s \in All
    <3>1. i \in D
      BY <1>2, <1>8, <2>1, Leads
    <3>. QED BY <2>1, <3>1
  <2>2. CASE s = <<"indirect1", 0>>
    <3>1. n > Direct
      BY <1>1, <1>8, <2>2, Leads
    <3>. QED BY <2>2, <3>1
  <2>3. ASSUME NEW i \in Nat, i < Width, s = <<"first", i>> PROVE s \in All
    <3>1. Direct + i < n
      BY <1>8, <2>3, Leads
    <3>2. n > Direct
      BY <1>1, <3>1
    <3>3. i \in F
      BY <1>3, <2>3, <3>1, <3>2
    <3>. QED BY <2>3, <3>2, <3>3
  <2>4. CASE s = <<"indirect2", 0>>
    <3>1. n > Indirect1Bound
      BY <1>1, <1>8, <2>4, Leads
    <3>. QED BY <2>4, <3>1
  <2>5. ASSUME NEW i \in Nat, s = <<"middle", i>> PROVE s \in All
    <3>1. Indirect1Bound + Start(i) < n /\ Start(i) \in Nat
      BY <1>8, <2>5, Leads, Multiples
    <3>2. n > Indirect1Bound
      BY <1>1, <3>1
    <3>3. i \in mid
      BY <1>4, <3>1, <3>2
    <3>. QED BY <2>5, <3>2, <3>3
  <2>6. ASSUME NEW i \in Nat, s = <<"second", i>> PROVE s \in All
    <3>1. Indirect1Bound + i < n
      BY <1>8, <2>6, Leads
    <3>2. n > Indirect1Bound
      BY <1>1, <3>1
    <3>3. i \in sec
      BY <1>6, <3>1, <3>2
    <3>. QED BY <2>6, <3>2, <3>3
  <2>. QED BY <2>1, <2>2, <2>3, <2>4, <2>5, <2>6, Kinds
<1>. QED BY <1>5, <1>7, <1>8

\* The slots that are filled when a file grows are the ones that lead to its new blocks.
LEMMA NewSlotsAre ==
    ASSUME NEW cur \in Nat, NEW tot \in Nat, cur <= tot
    PROVE  NewSlots(cur, tot) = {s \in AllSlots : cur <= Lead(s) /\ Lead(s) < tot}
<1>. DEFINE c1 == Most(cur, Least(tot, Direct))
            c2 == Most(c1, Least(tot, Indirect1Bound))
            under == (c2 - Indirect1Bound) .. (tot - Indirect1Bound - 1)
            mid == {j \div Width : j \in {k \in under : k % Width = 0}}
            D == cur .. Least(tot, Direct) - 1
            F == c1 - Direct .. Least(tot - Direct, Width) - 1
            All == ({"direct"} \X D)
                   \cup (IF tot > Direct
                         THEN (IF c1 = Direct THEN {<<"indirect1", 0>>} ELSE {}) \cup ({"first"} \X F) ELSE {})
                   \cup (IF tot > Indirect1Bound
                         THEN (IF c2 = Indirect1Bound THEN {<<"indirect2", 0>>} ELSE {})
                              \cup ({"middle"} \X mid) \cup ({"second"} \X under) ELSE {})
<1>1. Direct \in Nat /\ Width \in Nat /\ Indirect1Bound \in Nat /\ Indirect1Bound = Direct + Width
  BY Sizes, Bounds
<1>2. \A i : i \in D <=> i \in Nat /\ cur <= i /\ i < Direct /\ i < tot
  BY <1>1 DEF Least
<1>3. tot > Direct => /\ c1 = Direct <=> cur <= Direct
                      /\ \A i : i \in F <=> i \in Nat /\ i < Width /\ cur <= Direct + i /\ Direct + i < tot
  BY <1>1 DEF Least, Most
<1>4. tot > Indirect1Bound => /\ c2 \in Nat /\ c2 >= Indirect1Bound
                              /\ c2 = Indirect1Bound <=> cur <= Indirect1Bound
                              /\ c2 = Most(cur, Indirect1Bound)
  BY <1>1 DEF Least, Most
<1>5. NewSlots(cur, tot) = All
  BY DEF NewSlots
<1>. HIDE DEF c2, c1
<1>6. tot > Indirect1Bound =>
         \A i : i \in under <=> i \in Nat /\ cur <= Indirect1Bound + i /\ Indirect1Bound + i < tot
  BY <1>1, <1>4 DEF Most
<1>7. tot > Indirect1Bound =>
         \A i : i \in mid <=> i \in Nat /\ cur <= Indirect1Bound + Start(i) /\ Indirect1Bound + Start(i) < tot
  <2>1. SUFFICES ASSUME tot > Indirect1Bound
                 PROVE  \A i : i \in mid <=> /\ i \in Nat /\ cur <= Indirect1Bound + Start(i)
                                            /\ Indirect1Bound + Start(i) < tot
    OBVIOUS
  <2>2. PICK c \in Nat : c = c2 - Indirect1Bound
    BY <1>1, <1>4, <2>1
  <2>3. PICK t \in Int : t = tot - Indirect1Bound - 1
    BY <1>1
  <2>4. mid = {a \in Nat : c <= Start(a) /\ Start(a) <= t}
    BY <2>2, <2>3, Made
  <2>5. \A i \in Nat : Start(i) \in Nat
    BY Multiples
  <2>6. \A i \in Nat : /\ c <= Start(i) <=> cur <= Indirect1Bound + Start(i)
                       /\ Start(i) <= t <=> Indirect1Bound + Start(i) < tot
    BY <1>1, <1>4, <2>1, <2>2, <2>3, <2>5 DEF Most
  <2>. QED BY <2>4, <2>6
<1>. HIDE DEF D, F, mid, under
<1>8. ASSUME NEW s \in All PROVE s \in AllSlots /\ cur <= Lead(s) /\ Lead(s) < tot
  <2>1. CASE s \in {"direct"} \X D
    <3>1. PICK i \in Nat : s = <<"direct", i>> /\ i < Direct /\ cur <= i /\ i < tot
      BY <1>2, <2>1
    <3>. QED BY <3>1, Leads, Members
  <2>2. CASE tot > Direct /\ c1 = Direct /\ s = <<"indirect1", 0>>
    <3>1. Lead(s) = Direct /\ s \in AllSlots
      BY <2>2, Leads, Members
    <3>2. cur <= Direct
      BY <1>3, <2>2
    <3>. QED BY <1>1, <2>2, <3>1, <3>2
  <2>3. CASE tot > Direct /\ s \in {"first"} \X F
    <3>1. PICK i \in Nat : s = <<"first", i>> /\ i < Width /\ cur <= Direct + i /\ Direct + i < tot
      BY <1>3, <2>3
    <3>. QED BY <3>1, Leads, Members
  <2>4. CASE tot > Indirect1Bound /\ c2 = Indirect1Bound /\ s = <<"indirect2", 0>>
    <3>1. Lead(s) = Indirect1Bound /\ s \in AllSlots
      BY <2>4, Leads, Members
    <3>2. cur <= Indirect1Bound
      BY <1>4, <2>4
    <3>. QED BY <1>1, <2>4, <3>1, <3>2
  <2>5. CASE tot > Indirect1Bound /\ s \in {"middle"} \X mid
    <3>1. PICK i \in Nat : s = <<"middle", i>> /\ cur <= Indirect1Bound + Start(i) /\ Indirect1Bound + Start(i) < tot
      BY <1>7, <2>5
    <3>. QED BY <3>1, Leads, Members
  <2>6. CASE tot > Indirect1Bound /\ s \in {"second"} \X under
    <3>1. PICK i \in Nat : s = <<"second", i>> /\ cur <= Indirect1Bound + i /\ Indirect1Bound + i < tot
      BY <1>6, <2>6
    <3>. QED BY <3>1, Leads, Members
  <2>. QED BY <2>1, <2>2, <2>3, <2>4, <2>5, <2>6
<1>9. ASSUME NEW s \in AllSlots, cur <= Lead(s), Lead(s) < tot PROVE s \in All
  <2>1. ASSUME NEW i \in Nat, i < Direct, s = <<"direct", i>> PROVE s \in All
    <3>1. i \in D
      BY <1>2, <1>9, <2>1, Leads
    <3>. QED BY <2>1, <3>1
  <2>2. CASE s = <<"indirect1", 0>>
    <3>1. tot > Direct /\ cur <= Direct
      BY <1>1, <1>9, <2>2, Leads
    <3>. QED BY <1>3, <2>2, <3>1
  <2>3. ASSUME NEW i \in Nat, i < Width, s = <<"first", i>> PROVE s \in All
    <3>1. Direct + i < tot /\ cur <= Direct + i
      BY <1>9, <2>3, Leads
    <3>2. tot > Direct
      BY <1>1, <3>1
    <3>3. i \in F
      BY <1>3, <2>3, <3>1, <3>2
    <3>. QED BY <2>3, <3>2, <3>3
  <2>4. CASE s = <<"indirect2", 0>>
    <3>1. tot > Indirect1Bound /\ cur <= Indirect1Bound
      BY <1>1, <1>9, <2>4, Leads
    <3>. QED BY <1>4, <2>4, <3>1
  <2>5. ASSUME NEW i \in Nat, s = <<"middle", i>> PROVE s \in All
    <3>1. cur <= Indirect1Bound + Start(i) /\ Indirect1Bound + Start(i) < tot /\ Start(i) \in Nat
      BY <1>9, <2>5, Leads, Multiples
    <3>2. tot > Indirect1Bound
      BY <1>1, <3>1
    <3>3. i \in mid
      BY <1>7, <3>1, <3>2
    <3>. QED BY <2>5, <3>2, <3>3
  <2>6. ASSUME NEW i \in Nat, s = <<"second", i>> PROVE s \in All
    <3>1. cur <= Indirect1Bound + i /\ Indirect1Bound + i < tot
      BY <1>9, <2>6, Leads
    <3>2. tot > Indirect1Bound
      BY <1>1, <3>1
    <3>3. i \in under
      BY <1>6, <3>1, <3>2
    <3>. QED BY <2>6, <3>2, <3>3
  <2>. QED BY <2>1, <2>2, <2>3, <2>4, <2>5, <2>6, Kinds
<1>. QED BY <1>5, <1>8, <1>9

\* The slots of a file are there also when it is larger, and the new ones are the others.
LEMMA SlotSets ==
    ASSUME NEW cur \in Nat, NEW tot \in Nat, cur <= tot
    PROVE  /\ Slots(cur) \subseteq Slots(tot) /\ Slots(tot) \subseteq AllSlots
           /\ NewSlots(cur, tot) = Slots(tot) \ Slots(cur)
<1>1. \A s \in AllSlots : /\ Lead(s) < cur => Lead(s) < tot
                          /\ ~(Lead(s) < cur) <=> cur <= Lead(s)
  BY LeadType
<1>2. /\ Slots(cur) = {s \in AllSlots : Lead(s) < cur} /\ Slots(tot) = {s \in AllSlots : Lead(s) < tot}
      /\ NewSlots(cur, tot) = {s \in AllSlots : cur <= Lead(s) /\ Lead(s) < tot}
  BY SlotsAre, NewSlotsAre
<1>. QED BY <1>1, <1>2

\* The slot of data block k.
DataSlot(k) == IF k < Direct THEN <<"direct", k>>
               ELSE IF k < Indirect1Bound THEN <<"first", k - Direct>>
               ELSE <<"second", k - Indirect1Bound>>

IsData(slot) == slot[1] \in {"direct", "first", "second"}

\* Each data block has one slot.
LEMMA DataKinds ==
    ASSUME NEW i
    PROVE  /\ IsData(<<"direct", i>>) /\ IsData(<<"first", i>>) /\ IsData(<<"second", i>>)
           /\ ~IsData(<<"middle", i>>) /\ ~IsData(<<"indirect1", i>>) /\ ~IsData(<<"indirect2", i>>)
  BY DEF IsData

\* Data blocks and the slots that hold data are one and the same.
LEMMA DataSlots ==
    /\ \A k \in Nat : DataSlot(k) \in AllSlots /\ Lead(DataSlot(k)) = k /\ IsData(DataSlot(k))
    /\ \A s \in AllSlots : IsData(s) => s = DataSlot(Lead(s))
<1>1. Direct \in Nat /\ Width \in Nat /\ Indirect1Bound \in Nat /\ Indirect1Bound = Direct + Width
  BY Sizes, Bounds
<1>2. ASSUME NEW k \in Nat PROVE DataSlot(k) \in AllSlots /\ Lead(DataSlot(k)) = k /\ IsData(DataSlot(k))
  <2>1. CASE k < Direct
    <3>1. DataSlot(k) = <<"direct", k>>
      BY <2>1 DEF DataSlot
    <3>2. Lead(<<"direct", k>>) = k /\ <<"direct", k>> \in AllSlots
      BY <2>1, Leads, Members
    <3>. QED BY <3>1, <3>2, DataKinds, Zenon
  <2>2. CASE ~(k < Direct) /\ k < Indirect1Bound
    <3>1. PICK i \in Nat : i = k - Direct /\ i < Width
      BY <1>1, <2>2
    <3>2. DataSlot(k) = <<"first", i>>
      BY <2>2, <3>1 DEF DataSlot
    <3>3. Direct + i = k
      BY <1>1, <3>1
    <3>4. Lead(<<"first", i>>) = Direct + i /\ <<"first", i>> \in AllSlots
      BY <3>1, Leads, Members
    <3>. QED BY <3>2, <3>3, <3>4, DataKinds, Zenon
  <2>3. CASE ~(k < Direct) /\ ~(k < Indirect1Bound)
    <3>1. PICK i \in Nat : i = k - Indirect1Bound
      BY <1>1, <2>3
    <3>2. DataSlot(k) = <<"second", i>>
      BY <2>3, <3>1 DEF DataSlot
    <3>3. Indirect1Bound + i = k
      BY <1>1, <3>1
    <3>4. Lead(<<"second", i>>) = Indirect1Bound + i /\ <<"second", i>> \in AllSlots
      BY <3>1, Leads, Members
    <3>. QED BY <3>2, <3>3, <3>4, DataKinds, Zenon
  <2>. QED BY <2>1, <2>2, <2>3
<1>3. ASSUME NEW s \in AllSlots, IsData(s) PROVE s = DataSlot(Lead(s))
  <2>1. ASSUME NEW i \in Nat, i < Direct, s = <<"direct", i>> PROVE s = DataSlot(Lead(s))
    BY <2>1, Leads DEF DataSlot
  <2>2. ASSUME NEW i \in Nat, i < Width, s = <<"first", i>> PROVE s = DataSlot(Lead(s))
    <3>1. Lead(s) = Direct + i
      BY <2>2, Leads
    <3>2. ~(Direct + i < Direct) /\ Direct + i < Indirect1Bound /\ (Direct + i) - Direct = i
      BY <1>1, <2>2
    <3>. QED BY <2>2, <3>1, <3>2, Zenon DEF DataSlot
  <2>3. ASSUME NEW i \in Nat, s = <<"second", i>> PROVE s = DataSlot(Lead(s))
    <3>1. Lead(s) = Indirect1Bound + i
      BY <2>3, Leads
    <3>2. /\ ~(Indirect1Bound + i < Direct) /\ ~(Indirect1Bound + i < Indirect1Bound)
          /\ (Indirect1Bound + i) - Indirect1Bound = i
      BY <1>1, <2>3
    <3>. QED BY <2>3, <3>1, <3>2, Zenon DEF DataSlot
  <2>4. s # <<"indirect1", 0>> /\ s # <<"indirect2", 0>> /\ \A i \in Nat : s # <<"middle", i>>
    BY <1>3 DEF IsData
  <2>. QED BY <2>1, <2>2, <2>3, <2>4, Kinds
<1>. QED BY <1>2, <1>3

\* The order of the slots is that of the data blocks under them, index blocks first.
Turn(slot) == IF IsData(slot) THEN 2 ELSE IF slot[1] = "middle" THEN 1 ELSE 0

\* increase_size fills one slot at a time: Order tells any two slots apart.
LEMMA Orders ==
    /\ \A s \in AllSlots : Order(s) \in Nat /\ Order(s) = 3 * Lead(s) + Turn(s)
    /\ \A r, s \in AllSlots : Order(r) = Order(s) => r = s
<1>1. Direct \in Nat /\ Width \in Nat /\ Width > 0 /\ Indirect1Bound \in Nat /\ Indirect1Bound = Direct + Width
  BY Sizes, Bounds
<1>2. ASSUME NEW s \in AllSlots PROVE Order(s) = 3 * Lead(s) + Turn(s)
  <2>1. ASSUME NEW i \in Nat, s = <<"direct", i>> PROVE Order(s) = 3 * Lead(s) + Turn(s)
    BY <2>1 DEF Order, Lead, Turn, IsData
  <2>2. ASSUME NEW i \in Nat, s = <<"first", i>> PROVE Order(s) = 3 * Lead(s) + Turn(s)
    BY <2>2 DEF Order, Lead, Turn, IsData
  <2>3. ASSUME NEW i \in Nat, s = <<"second", i>> PROVE Order(s) = 3 * Lead(s) + Turn(s)
    BY <2>3 DEF Order, Lead, Turn, IsData
  <2>4. ASSUME NEW i \in Nat, s = <<"middle", i>> PROVE Order(s) = 3 * Lead(s) + Turn(s)
    <3>1. Turn(s) = 1
      BY <2>4 DEF Turn, IsData
    <3>2. Order(s) = 3 * (Indirect1Bound + Start(i)) + 1
      BY <2>4 DEF Order, Start
    <3>. QED BY <2>4, <3>1, <3>2, Leads
  <2>5. CASE s = <<"indirect1", 0>> \/ s = <<"indirect2", 0>>
    BY <1>1, <2>5 DEF Order, Lead, Turn, IsData
  <2>. QED BY <2>1, <2>2, <2>3, <2>4, <2>5, Kinds
<1>3. ASSUME NEW s \in AllSlots PROVE Turn(s) \in {0, 1, 2} /\ Lead(s) \in Nat
  BY LeadType DEF Turn
<1>4. ASSUME NEW r \in AllSlots, NEW s \in AllSlots, Order(r) = Order(s) PROVE r = s
  <2>1. Turn(r) = Turn(s) /\ Lead(r) = Lead(s)
    BY <1>2, <1>3, <1>4
  <2>2. CASE IsData(r)
    <3>1. IsData(s)
      BY <2>1, <2>2 DEF Turn
    <3>. QED BY <2>1, <2>2, <3>1, DataSlots
  <2>3. CASE r[1] = "middle"
    <3>1. s[1] = "middle"
      BY <2>1, <2>3 DEF Turn, IsData
    <3>2. PICK i \in Nat : r = <<"middle", i>>
      BY <2>3, Kinds
    <3>3. PICK j \in Nat : s = <<"middle", j>>
      BY <3>1, Kinds
    <3>4. Start(i) \in Nat /\ Start(j) \in Nat /\ (i < j => Start(i) < Start(j)) /\ (j < i => Start(j) < Start(i))
      BY Multiples
    <3>5. Indirect1Bound + Start(i) = Indirect1Bound + Start(j)
      BY <2>1, <3>2, <3>3, Leads
    <3>6. i = j
      BY <1>1, <3>4, <3>5
    <3>. QED BY <3>2, <3>3, <3>6
  <2>4. CASE r \in {<<"indirect1", 0>>, <<"indirect2", 0>>}
    <3>1. Turn(s) = 0
      BY <2>1, <2>4 DEF Turn, IsData
    <3>2. s \in {<<"indirect1", 0>>, <<"indirect2", 0>>}
      <4>1. ~IsData(s) /\ s[1] # "middle"
        BY <3>1 DEF Turn
      <4>. QED BY <4>1, Kinds DEF IsData
    <3>3. Lead(<<"indirect1", 0>>) # Lead(<<"indirect2", 0>>)
      <4>1. Lead(<<"indirect1", 0>>) = Direct /\ Lead(<<"indirect2", 0>>) = Indirect1Bound
        BY Leads
      <4>. QED BY <1>1, <4>1
    <3>. QED BY <2>1, <2>4, <3>2, <3>3
  <2>5. IsData(r) \/ r[1] = "middle" \/ r \in {<<"indirect1", 0>>, <<"indirect2", 0>>}
    BY Kinds DEF IsData
  <2>. QED BY <2>2, <2>3, <2>4, <2>5
<1>5. ASSUME NEW s \in AllSlots PROVE Order(s) \in Nat
  BY <1>2, <1>3
<1>. QED BY <1>2, <1>4, <1>5

----------------------------------------------------------------------------
\* Counting

\* total_blocks counts the slots of a file.
LEMMA SlotCount ==
    ASSUME NEW size \in Nat
    PROVE  /\ IsFiniteSet(Slots(DataBlocks(size)))
           /\ Cardinality(Slots(DataBlocks(size))) = TotalBlocks(size)
<1>1. PICK n \in Nat : n = DataBlocks(size)
  BY DataBlocksFacts
<1>2. Direct \in Nat /\ Width \in Nat /\ Width > 0 /\ Indirect1Bound \in Nat /\ Indirect1Bound = Direct + Width
  BY Sizes, Bounds
<1>. DEFINE q == IF n > Indirect1Bound THEN Quo(n - Indirect1Bound + Width - 1) ELSE 0
            D == {DataSlot(k) : k \in 0 .. n - 1}
            I1 == IF n > Direct THEN {<<"indirect1", 0>>} ELSE {}
            I2 == IF n > Indirect1Bound THEN {<<"indirect2", 0>>} ELSE {}
            M == {"middle"} \X (0 .. q - 1)
<1>3. q \in Nat /\ \A i \in Nat : i < q <=> Indirect1Bound + Start(i) < n
  <2>1. CASE n > Indirect1Bound
    <3>1. PICK rest \in Nat : rest = n - Indirect1Bound
      BY <1>2, <2>1
    <3>2. q = Quo(rest + Width - 1)
      BY <2>1, <3>1
    <3>3. q \in Nat /\ \A i \in Nat : i < q <=> Start(i) < rest
      BY <3>2, RoundUp
    <3>4. \A i \in Nat : Start(i) < rest <=> Indirect1Bound + Start(i) < n
      <4>1. \A i \in Nat : Start(i) \in Nat
        BY Multiples
      <4>. QED BY <1>2, <3>1, <4>1
    <3>. QED BY <3>3, <3>4
  <2>2. CASE ~(n > Indirect1Bound)
    <3>1. q = 0
      BY <2>2
    <3>2. \A i \in Nat : ~(Indirect1Bound + Start(i) < n)
      BY <1>2, <2>2, Multiples
    <3>. QED BY <3>1, <3>2
  <2>. QED BY <2>1, <2>2
<1>4. TotalBlocks(size) = n + (IF n > Direct THEN 1 ELSE 0) + (IF n > Indirect1Bound THEN 1 + q ELSE 0)
  BY <1>1 DEF TotalBlocks, Quo
<1>5. ~(n > Indirect1Bound) => q = 0
  OBVIOUS
<1>. HIDE DEF q
<1>6. IsFiniteSet(D) /\ Cardinality(D) = n
  <2>. DEFINE f == [k \in 0 .. n - 1 |-> DataSlot(k)]
  <2>1. \A k, l \in 0 .. n - 1 : DataSlot(k) = DataSlot(l) => k = l
    BY DataSlots
  <2>2. f \in Bijection(0 .. n - 1, D)
    BY <2>1 DEF Bijection, Injection, Surjection, IsInjective
  <2>3. ExistsBijection(0 .. n - 1, D)
    BY <2>2 DEF ExistsBijection
  <2>. HIDE DEF D
  <2>4. IsFiniteSet(0 .. n - 1) /\ Cardinality(0 .. n - 1) = n
    BY FS_Interval
  <2>. QED BY <2>3, <2>4, FS_Bijection
<1>7. IsFiniteSet(M) /\ Cardinality(M) = q
  <2>1. IsFiniteSet(0 .. q - 1) /\ Cardinality(0 .. q - 1) = q
    BY <1>3, FS_Interval
  <2>2. IsFiniteSet({"middle"}) /\ Cardinality({"middle"}) = 1
    BY FS_Singleton
  <2>3. IsFiniteSet(M) /\ Cardinality(M) = 1 * q
    BY <2>1, <2>2, FS_Product
  <2>. QED BY <1>3, <2>3
<1>8. /\ IsFiniteSet(I1) /\ Cardinality(I1) = (IF n > Direct THEN 1 ELSE 0)
      /\ IsFiniteSet(I2) /\ Cardinality(I2) = (IF n > Indirect1Bound THEN 1 ELSE 0)
  BY FS_Singleton, FS_EmptySet
<1>9. D = {s \in AllSlots : Lead(s) < n /\ IsData(s)}
  <2>1. ASSUME NEW s \in D PROVE s \in AllSlots /\ Lead(s) < n /\ IsData(s)
    <3>1. PICK k \in 0 .. n - 1 : s = DataSlot(k)
      OBVIOUS
    <3>. QED BY <3>1, DataSlots
  <2>2. ASSUME NEW s \in AllSlots, Lead(s) < n, IsData(s) PROVE s \in D
    <3>1. Lead(s) \in 0 .. n - 1 /\ s = DataSlot(Lead(s))
      BY <2>2, LeadType, DataSlots
    <3>. QED BY <3>1
  <2>. QED BY <2>1, <2>2
<1>10. M = {s \in AllSlots : Lead(s) < n /\ s[1] = "middle"}
  <2>1. ASSUME NEW s \in M PROVE s \in AllSlots /\ Lead(s) < n /\ s[1] = "middle"
    <3>1. PICK i \in 0 .. q - 1 : s = <<"middle", i>>
      OBVIOUS
    <3>2. i \in Nat /\ i < q
      BY <1>3
    <3>. QED BY <1>3, <3>1, <3>2, Leads, Members
  <2>2. ASSUME NEW s \in AllSlots, Lead(s) < n, s[1] = "middle" PROVE s \in M
    <3>1. PICK i \in Nat : s = <<"middle", i>>
      BY <2>2, Kinds
    <3>2. i < q
      BY <1>3, <2>2, <3>1, Leads
    <3>3. i \in 0 .. q - 1
      BY <1>3, <3>2
    <3>. QED BY <3>1, <3>3
  <2>. QED BY <2>1, <2>2
<1>11. I1 = {s \in AllSlots : Lead(s) < n /\ s[1] = "indirect1"}
  <2>1. \A s \in AllSlots : s[1] = "indirect1" <=> s = <<"indirect1", 0>>
    BY Kinds
  <2>2. Lead(<<"indirect1", 0>>) = Direct /\ <<"indirect1", 0>> \in AllSlots
    BY Leads, Members
  <2>. QED BY <1>2, <2>1, <2>2
<1>12. I2 = {s \in AllSlots : Lead(s) < n /\ s[1] = "indirect2"}
  <2>1. \A s \in AllSlots : s[1] = "indirect2" <=> s = <<"indirect2", 0>>
    BY Kinds
  <2>2. Lead(<<"indirect2", 0>>) = Indirect1Bound /\ <<"indirect2", 0>> \in AllSlots
    BY Leads, Members
  <2>. QED BY <1>2, <2>1, <2>2
<1>. HIDE DEF D, M, I1, I2
<1>13. Slots(n) = ((D \cup I1) \cup I2) \cup M
  <2>1. \A s \in AllSlots : IsData(s) \/ s[1] = "indirect1" \/ s[1] = "indirect2" \/ s[1] = "middle"
    BY Kinds DEF IsData
  <2>. QED BY <1>9, <1>10, <1>11, <1>12, <2>1, SlotsAre
<1>14. D \cap I1 = {} /\ (D \cup I1) \cap I2 = {} /\ ((D \cup I1) \cup I2) \cap M = {}
  BY <1>9, <1>10, <1>11, <1>12 DEF IsData
<1>15. Cardinality({}) = 0
  BY FS_EmptySet
<1>16. IsFiniteSet(D \cup I1) /\ Cardinality(D \cup I1) = Cardinality(D) + Cardinality(I1) - 0
  BY <1>6, <1>8, <1>14, <1>15, FS_Union
<1>17. /\ IsFiniteSet((D \cup I1) \cup I2)
       /\ Cardinality((D \cup I1) \cup I2) = Cardinality(D \cup I1) + Cardinality(I2) - 0
  <2>1. PICK DI : DI = D \cup I1
    OBVIOUS
  <2>2. IsFiniteSet(DI) /\ IsFiniteSet(I2) /\ DI \cap I2 = {}
    BY <1>8, <1>14, <1>16, <2>1
  <2>3. IsFiniteSet(DI \cup I2) /\ Cardinality(DI \cup I2) = Cardinality(DI) + Cardinality(I2) - Cardinality(DI \cap I2)
    BY <2>2, FS_Union
  <2>. QED BY <1>15, <2>1, <2>2, <2>3
<1>18. /\ IsFiniteSet(((D \cup I1) \cup I2) \cup M)
       /\ Cardinality(((D \cup I1) \cup I2) \cup M) = Cardinality((D \cup I1) \cup I2) + Cardinality(M) - 0
  BY <1>7, <1>14, <1>15, <1>17, FS_Union
<1>19. Cardinality(Slots(n)) = TotalBlocks(size)
  BY <1>3, <1>4, <1>5, <1>6, <1>7, <1>8, <1>13, <1>16, <1>17, <1>18
<1>. QED BY <1>1, <1>13, <1>18, <1>19

\* blocks_num_needed counts the slots that are filled when a file grows.
LEMMA NeededCount ==
    ASSUME NEW size \in Nat, NEW larger \in Nat, size <= larger
    PROVE  /\ IsFiniteSet(NewSlots(DataBlocks(size), DataBlocks(larger)))
           /\ Cardinality(NewSlots(DataBlocks(size), DataBlocks(larger))) = TotalBlocks(larger) - TotalBlocks(size)
           /\ TotalBlocks(larger) - TotalBlocks(size) \in Nat
<1>. DEFINE S == Slots(DataBlocks(size))
            T == Slots(DataBlocks(larger))
            N == NewSlots(DataBlocks(size), DataBlocks(larger))
<1>1. DataBlocks(size) \in Nat /\ DataBlocks(larger) \in Nat /\ DataBlocks(size) <= DataBlocks(larger)
  BY DataBlocksFacts, DataBlocksGrow
<1>2. S \subseteq T /\ N = T \ S
  BY <1>1, SlotSets
<1>3. /\ IsFiniteSet(S) /\ Cardinality(S) = TotalBlocks(size)
      /\ IsFiniteSet(T) /\ Cardinality(T) = TotalBlocks(larger)
  BY SlotCount
<1>. HIDE DEF S, T, N
<1>4. T \cap S = S
  BY <1>2
<1>5. IsFiniteSet(N) /\ Cardinality(N) = Cardinality(T) - Cardinality(S)
  BY <1>2, <1>3, <1>4, FS_Difference
<1>6. Cardinality(N) \in Nat
  BY <1>5, FS_CardinalityType
<1>. QED BY <1>3, <1>5, <1>6 DEF N

\* A set of naturals that is not empty has a least element.
LEMMA LeastNatural ==
    ASSUME NEW T \in SUBSET Nat, T # {}
    PROVE  \E x \in T : \A y \in T : x <= y
  <1>1. PICK R : /\ IsWellFoundedOn(R, Nat)
                 /\ \A x, y \in Nat : <<x, y>> \in R <=> x < y
    <2>1. IsWellFoundedOn(OpToRel(<, Nat), Nat)
      BY NatLessThanWellFounded
    <2>2. \A x, y \in Nat : <<x, y>> \in OpToRel(<, Nat) <=> x < y
      BY DEF OpToRel
    <2> QED  BY <2>1, <2>2
  <1>2. T \subseteq Nat
    OBVIOUS
  <1>3. \E x \in T : \A y \in T : ~(<<y, x>> \in R)
    <2>1. IsWellFoundedOn(R, Nat)
      BY <1>1
    <2> QED  BY <1>2, <2>1, WFMin, Zenon
  <1>4. PICK x \in T : \A y \in T : ~(<<y, x>> \in R)
    BY <1>3
  <1>5. ASSUME NEW y \in T PROVE x <= y
    <2>1. x \in Nat /\ y \in Nat
      BY <1>2
    <2>2. ~(y < x)
      BY <1>1, <1>4, <2>1, Zenon
    <2> QED  BY <2>1, <2>2
  <1> QED  BY <1>5

\* alloc_data hands out different free blocks, for as long as there are any.
LEMMA Allocated ==
    ASSUME NEW n \in Nat, n <= Cardinality(Free)
    PROVE  /\ AllocData(n) \in [1 .. n -> Free]
           /\ \A j, k \in 1 .. n : AllocData(n)[j] = AllocData(n)[k] => j = k
<1>. DEFINE C(b) == Cardinality(Free \cap 1 .. b)
<1>1. Area \in Nat /\ Free \subseteq 1 .. Area
  BY Sizes DEF Free
<1>2. ASSUME NEW b \in Nat PROVE IsFiniteSet(Free \cap 1 .. b) /\ C(b) \in Nat
  <2>1. IsFiniteSet(1 .. b)
    BY FS_Interval
  <2>2. IsFiniteSet(Free \cap 1 .. b)
    BY <2>1, FS_Intersection
  <2>. QED BY <2>2, FS_CardinalityType
<1>3. C(0) = 0 /\ C(Area) = Cardinality(Free)
  <2>1. Free \cap 1 .. 0 = {}
    BY SMT
  <2>2. Free \cap 1 .. Area = Free
    BY <1>1, Zenon
  <2>. QED BY <2>1, <2>2, FS_EmptySet
<1>4. ASSUME NEW b \in Nat
      PROVE  C(b + 1) = IF b + 1 \in Free THEN C(b) + 1 ELSE C(b)
  <2>1. CASE b + 1 \in Free
    <3>1. Free \cap 1 .. b + 1 = (Free \cap 1 .. b) \cup {b + 1} /\ b + 1 \notin Free \cap 1 .. b
      BY <1>1, <2>1
    <3>. QED BY <1>2, <2>1, <3>1, FS_AddElement
  <2>2. CASE b + 1 \notin Free
    <3>1. Free \cap 1 .. b + 1 = Free \cap 1 .. b
      BY <1>1, <2>2
    <3>. QED BY <2>2, <3>1
  <2>. QED BY <2>1, <2>2
<1>. HIDE DEF C
<1>5. ASSUME NEW k \in 1 .. n PROVE \E b \in Free : C(b) = k
  <2>. DEFINE T == {b \in Nat : C(b) >= k}
  <2>0. k \in Nat /\ k > 0 /\ C(Area) \in Nat /\ C(Area) >= k /\ \A b \in Nat : C(b) \in Nat
    <3>1. \A b \in Nat : C(b) \in Nat
      BY <1>2, Zenon
    <3>2. C(Area) \in Nat /\ n <= C(Area)
      BY <1>1, <1>3, <3>1, Zenon
    <3>. QED BY <3>1, <3>2
  <2>1. Area \in T
    BY <1>1, <2>0
  <2>2. PICK b \in T : \A c \in T : b <= c
    <3>1. T \in SUBSET Nat /\ T # {}
      BY <2>1
    <3>. QED BY <3>1, LeastNatural
  <2>3. b \in Nat /\ C(b) \in Nat /\ C(b) >= k /\ b # 0
    BY <1>3, <2>0, <2>2
  <2>4. PICK a \in Nat : b = a + 1
    <3>1. b - 1 \in Nat /\ b = (b - 1) + 1
      BY <2>3
    <3>. QED BY <3>1
  <2>5. a \notin T
    BY <2>2, <2>3, <2>4
  <2>6. C(a) \in Nat /\ C(a) < k
    BY <2>0, <2>5
  <2>7. C(b) = IF b \in Free THEN C(a) + 1 ELSE C(a)
    BY <1>4, <2>4
  <2>8. b \in Free
    BY <2>0, <2>3, <2>6, <2>7
  <2>9. C(b) = k
    BY <2>0, <2>3, <2>6, <2>7, <2>8
  <2>. QED BY <2>8, <2>9
<1>. DEFINE A == AllocData(n)
<1>6. A = [k \in 1 .. n |-> CHOOSE b \in Free : C(b) = k]
  BY DEF AllocData, C
<1>7. ASSUME NEW k \in 1 .. n PROVE A[k] \in Free /\ C(A[k]) = k
  <2>1. A[k] = CHOOSE b \in Free : C(b) = k
    BY <1>6
  <2>. HIDE DEF A
  <2>. QED BY <1>5, <2>1
<1>8. A \in [1 .. n -> Free]
  BY <1>6, <1>7
<1>. HIDE DEF A
<1>9. \A j, k \in 1 .. n : A[j] = A[k] => j = k
  <2>1. TAKE j, k \in 1 .. n
  <2>2. C(A[j]) = j /\ C(A[k]) = k
    BY <1>7
  <2>. QED BY <2>2
<1>. QED BY <1>8, <1>9 DEF A

\* increase_size hands each of the new blocks to one of the slots.
LEMMA Handed ==
    ASSUME NEW S \in SUBSET AllSlots, IsFiniteSet(S), NEW B, NEW new \in [1 .. Cardinality(S) -> B],
           \A j, k \in 1 .. Cardinality(S) : new[j] = new[k] => j = k
    PROVE  /\ NextBlocks(S, new) \in [S -> B]
           /\ \A r, s \in S : NextBlocks(S, new)[r] = NextBlocks(S, new)[s] => r = s
           /\ {NextBlocks(S, new)[s] : s \in S} = Range(new)
<1>. DEFINE L(s) == {r \in S : Order(r) <= Order(s)}
            t == [s \in S |-> Cardinality(L(s))]
            m == Cardinality(S)
            f == NextBlocks(S, new)
<1>1. m \in Nat
  BY FS_CardinalityType
<1>2. ASSUME NEW s \in S PROVE IsFiniteSet(L(s)) /\ Cardinality(L(s)) \in 1 .. m /\ Cardinality(L(s)) \in Nat
  <2>1. L(s) \in SUBSET S /\ s \in L(s)
    BY Orders
  <2>2. IsFiniteSet(L(s)) /\ Cardinality(L(s)) <= m
    BY <2>1, FS_Subset
  <2>3. Cardinality(L(s)) \in Nat /\ (Cardinality(L(s)) = 0 <=> L(s) = {})
    BY <2>2, FS_EmptySet, FS_CardinalityType
  <2>. HIDE DEF L
  <2>. QED BY <1>1, <2>1, <2>2, <2>3
<1>3. ASSUME NEW r \in S, NEW s \in S, Order(r) < Order(s) PROVE Cardinality(L(r)) < Cardinality(L(s))
  <2>1. L(r) \in SUBSET L(s) /\ s \in L(s) /\ s \notin L(r)
    <3>1. \A x \in S : Order(x) \in Nat
      BY Orders
    <3>. QED BY <1>3, <3>1
  <2>2. /\ Cardinality(L(r)) <= Cardinality(L(s))
        /\ Cardinality(L(s)) = Cardinality(L(r)) => L(s) = L(r)
    <3>1. IsFiniteSet(L(s))
      BY <1>2
    <3>. HIDE DEF L
    <3>. QED BY <2>1, <3>1, FS_Subset
  <2>3. Cardinality(L(s)) \in Nat /\ Cardinality(L(r)) \in Nat
    BY <1>2, Zenon
  <2>. HIDE DEF L
  <2>. QED BY <2>1, <2>2, <2>3
<1>4. ASSUME NEW r \in S, NEW s \in S, Cardinality(L(r)) = Cardinality(L(s)) PROVE r = s
  <2>1. Order(r) \in Nat /\ Order(s) \in Nat
    BY Orders
  <2>2. Cardinality(L(r)) \in Nat
    BY <1>2, Zenon
  <2>3. ~(Order(r) < Order(s)) /\ ~(Order(s) < Order(r))
    BY <1>3, <1>4, <2>2
  <2>4. Order(r) = Order(s)
    BY <2>1, <2>3
  <2>. QED BY <2>4, Orders
<1>5. f = [s \in S |-> new[Cardinality(L(s))]]
  BY DEF NextBlocks
<1>. HIDE DEF L
<1>6. t \in Injection(S, 1 .. m)
  BY <1>2, <1>4 DEF Injection, IsInjective
<1>7. IsFiniteSet(1 .. m) /\ Cardinality(1 .. m) = m
  BY <1>1, FS_Interval
<1>8. t \in Surjection(S, 1 .. m)
  <2>. HIDE DEF t
  <2>. QED BY <1>6, <1>7, FS_Injection
<1>9. ASSUME NEW k \in 1 .. m PROVE \E s \in S : Cardinality(L(s)) = k
  BY <1>8 DEF Surjection
<1>. HIDE DEF m, f
<1>10. f \in [S -> B]
  BY <1>2, <1>5 DEF m
<1>11. ASSUME NEW r \in S, NEW s \in S, f[r] = f[s] PROVE r = s
  <2>1. new[Cardinality(L(r))] = new[Cardinality(L(s))]
    BY <1>5, <1>11
  <2>. QED BY <1>2, <1>4, <2>1 DEF m
<1>12. {f[s] : s \in S} = Range(new)
  <2>1. Range(new) = {new[k] : k \in 1 .. m}
    BY DEF Range, m
  <2>2. ASSUME NEW s \in S PROVE f[s] \in Range(new)
    BY <1>2, <1>5, <2>1
  <2>3. ASSUME NEW b \in Range(new) PROVE b \in {f[s] : s \in S}
    <3>1. PICK k \in 1 .. m : b = new[k]
      BY <2>1
    <3>2. PICK s \in S : Cardinality(L(s)) = k
      BY <1>9
    <3>. QED BY <1>5, <3>1, <3>2
  <2>. QED BY <2>2, <2>3
<1>. QED BY <1>10, <1>11, <1>12 DEF f

----------------------------------------------------------------------------
\* Block trees

CellSet  == [Cell -> Nat \cup Val]
DiskSet  == [Block -> CellSet]
InodeSet == [size : Nat, direct : [0 .. Direct - 1 -> Nat], indirect1 : Nat, indirect2 : Nat]

I1 == <<"indirect1", 0>>
I2 == <<"indirect2", 0>>

\* What is at each kind of slot.
LEMMA AtDirect == ASSUME NEW d, NEW ino, NEW i \in Nat PROVE At(d, ino, <<"direct", i>>) = ino.direct[i]
  BY DEF At

\* The slot of the index block indirect1.
LEMMA AtI1 == ASSUME NEW d, NEW ino PROVE At(d, ino, I1) = ino.indirect1
  BY DEF At, I1

\* An entry of indirect1.
LEMMA AtFirst == ASSUME NEW d, NEW ino, NEW i \in Nat PROVE At(d, ino, <<"first", i>>) = d[ino.indirect1][i]
  BY DEF At

\* The slot of the index block indirect2.
LEMMA AtI2 == ASSUME NEW d, NEW ino PROVE At(d, ino, I2) = ino.indirect2
  BY DEF At, I2

\* An entry of indirect2.
LEMMA AtMiddle == ASSUME NEW d, NEW ino, NEW i \in Nat PROVE At(d, ino, <<"middle", i>>) = d[ino.indirect2][i]
  BY DEF At

\* An entry of an index block under indirect2.
LEMMA AtSecond ==
    ASSUME NEW d, NEW ino, NEW i \in Nat
    PROVE  At(d, ino, <<"second", i>>) = d[d[ino.indirect2][Quo(i)]][Rem(i)]
  BY DEF At, Quo, Rem

\* get_block_id reads the slot of the data block.
LEMMA GetIsAt ==
    ASSUME NEW d, NEW ino, NEW k \in Nat
    PROVE  GetBlockId(d, ino, k) = At(d, ino, DataSlot(k))
<1>1. Direct \in Nat /\ Width \in Nat /\ Indirect1Bound \in Nat /\ Indirect1Bound = Direct + Width
  BY Sizes, Bounds
<1>2. CASE k < Direct
  <2>1. GetBlockId(d, ino, k) = ino.direct[k] /\ DataSlot(k) = <<"direct", k>>
    BY <1>2 DEF GetBlockId, DataSlot
  <2>. QED BY <2>1, AtDirect
<1>3. CASE ~(k < Direct) /\ k < Indirect1Bound
  <2>1. PICK i \in Nat : i = k - Direct
    BY <1>1, <1>3
  <2>2. GetBlockId(d, ino, k) = d[ino.indirect1][i] /\ DataSlot(k) = <<"first", i>>
    BY <1>3, <2>1 DEF GetBlockId, DataSlot
  <2>. QED BY <2>2, AtFirst
<1>4. CASE ~(k < Direct) /\ ~(k < Indirect1Bound)
  <2>1. PICK i \in Nat : i = k - Indirect1Bound
    BY <1>1, <1>4
  <2>2. GetBlockId(d, ino, k) = d[d[ino.indirect2][Quo(i)]][Rem(i)]
    BY <1>4, <2>1 DEF GetBlockId, Quo, Rem
  <2>3. DataSlot(k) = <<"second", i>>
    BY <1>4, <2>1 DEF DataSlot
  <2>. QED BY <2>2, <2>3, AtSecond
<1>. QED BY <1>2, <1>3, <1>4

\* The index block above a slot is in the same tree, and indices are within their blocks.
LEMMA Above ==
    ASSUME NEW n \in Nat, NEW i \in Nat
    PROVE  /\ <<"first", i>> \in Slots(n) => I1 \in Slots(n) /\ i \in Cell
           /\ <<"middle", i>> \in Slots(n) => I2 \in Slots(n) /\ (n <= Indirect2Bound => i \in Cell)
           /\ <<"second", i>> \in Slots(n) => <<"middle", Quo(i)>> \in Slots(n)
<1>1. Direct \in Nat /\ Width \in Nat /\ Indirect1Bound \in Nat /\ Start(i) \in Nat
  BY Sizes, Bounds, Multiples
<1>2. Slots(n) = {s \in AllSlots : Lead(s) < n}
  BY SlotsAre
<1>3. I1 \in AllSlots /\ Lead(I1) = Direct /\ I2 \in AllSlots /\ Lead(I2) = Indirect1Bound
  BY Leads, Members DEF I1, I2
<1>4. ASSUME <<"first", i>> \in Slots(n) PROVE I1 \in Slots(n) /\ i \in Cell
  <2>1. i < Width /\ Direct + i < n
    BY <1>2, <1>4, Leads, Members
  <2>. QED BY <1>1, <1>2, <1>3, <2>1, Sizes
<1>5. ASSUME <<"middle", i>> \in Slots(n) PROVE I2 \in Slots(n) /\ (n <= Indirect2Bound => i \in Cell)
  <2>1. Indirect1Bound + Start(i) < n
    BY <1>2, <1>5, Leads
  <2>2. n <= Indirect2Bound => Start(i) < Start(Width)
    BY <1>1, <2>1, Bounds
  <2>3. n <= Indirect2Bound => i < Width
    BY <1>1, <2>2, Multiples
  <2>. QED BY <1>1, <1>2, <1>3, <2>1, <2>3, Sizes
<1>6. ASSUME <<"second", i>> \in Slots(n) PROVE <<"middle", Quo(i)>> \in Slots(n)
  <2>1. Indirect1Bound + i < n
    BY <1>2, <1>6, Leads
  <2>2. Quo(i) \in Nat /\ Rem(i) \in Nat /\ i = Start(Quo(i)) + Rem(i) /\ Start(Quo(i)) \in Nat
    BY DivMod, Multiples
  <2>3. Lead(<<"middle", Quo(i)>>) = Indirect1Bound + Start(Quo(i)) /\ <<"middle", Quo(i)>> \in AllSlots
    BY <2>2, Leads, Members
  <2>4. Indirect1Bound + Start(Quo(i)) < n
    BY <1>1, <2>1, <2>2
  <2>. QED BY <1>2, <2>3, <2>4
<1>. QED BY <1>4, <1>5, <1>6

\* The tree of an inode depends on its index blocks only.
LEMMA SameTree ==
    ASSUME NEW n \in Nat, NEW d, NEW e, NEW ino,
           \A s \in Slots(n) : ~IsData(s) => e[At(d, ino, s)] = d[At(d, ino, s)]
    PROVE  \A s \in Slots(n) : At(e, ino, s) = At(d, ino, s)
<1>1. SUFFICES ASSUME NEW s \in Slots(n) PROVE At(e, ino, s) = At(d, ino, s)
  OBVIOUS
<1>2. s \in AllSlots
  BY SlotsAre
<1>3. ~IsData(I1) /\ ~IsData(I2) /\ \A i : ~IsData(<<"middle", i>>)
  BY DataKinds DEF I1, I2
<1>4. I2 \in Slots(n) => e[ino.indirect2] = d[ino.indirect2]
  <2>1. At(d, ino, I2) = ino.indirect2
    BY AtI2
  <2>. QED BY <1>3, <2>1
<1>5. CASE s = I1 \/ s = I2
  <2>1. At(d, ino, I1) = At(e, ino, I1) /\ At(d, ino, I2) = At(e, ino, I2)
    BY AtI1, AtI2
  <2>. QED BY <1>5, <2>1
<1>6. ASSUME NEW i \in Nat, s = <<"direct", i>> PROVE At(e, ino, s) = At(d, ino, s)
  <2>1. At(e, ino, s) = ino.direct[i]
    BY <1>6, AtDirect
  <2>2. At(d, ino, s) = ino.direct[i]
    BY <1>6, AtDirect
  <2>. QED BY <2>1, <2>2
<1>7. ASSUME NEW i \in Nat, s = <<"first", i>> PROVE At(e, ino, s) = At(d, ino, s)
  <2>1. e[ino.indirect1] = d[ino.indirect1]
    <3>1. I1 \in Slots(n) /\ At(d, ino, I1) = ino.indirect1
      BY <1>7, Above, AtI1
    <3>. QED BY <1>3, <3>1
  <2>2. At(e, ino, s) = e[ino.indirect1][i]
    BY <1>7, AtFirst
  <2>3. At(d, ino, s) = d[ino.indirect1][i]
    BY <1>7, AtFirst
  <2>. QED BY <2>1, <2>2, <2>3
<1>8. ASSUME NEW i \in Nat, s = <<"middle", i>> PROVE At(e, ino, s) = At(d, ino, s)
  <2>1. e[ino.indirect2] = d[ino.indirect2]
    BY <1>4, <1>8, Above
  <2>. QED BY <1>8, <2>1, AtMiddle
<1>9. ASSUME NEW i \in Nat, s = <<"second", i>> PROVE At(e, ino, s) = At(d, ino, s)
  <2>1. Quo(i) \in Nat /\ <<"middle", Quo(i)>> \in Slots(n)
    BY <1>9, Above, DivMod
  <2>2. e[ino.indirect2] = d[ino.indirect2]
    BY <1>4, <2>1, Above
  <2>3. e[d[ino.indirect2][Quo(i)]] = d[d[ino.indirect2][Quo(i)]]
    <3>1. At(d, ino, <<"middle", Quo(i)>>) = d[ino.indirect2][Quo(i)]
      BY <2>1, AtMiddle
    <3>. QED BY <1>3, <2>1, <3>1
  <2>4. At(e, ino, s) = e[e[ino.indirect2][Quo(i)]][Rem(i)] /\ At(d, ino, s) = d[d[ino.indirect2][Quo(i)]][Rem(i)]
    BY <1>9, AtSecond
  <2>. QED BY <2>2, <2>3, <2>4
<1>. QED BY <1>2, <1>5, <1>6, <1>7, <1>8, <1>9, Kinds DEF I1, I2

\* The slots that are filled when a file grows to a size, and the blocks they get.
Fresh(ino, size) == NewSlots(DataBlocks(ino.size), DataBlocks(size))
Given(ino, size, new) == NextBlocks(Fresh(ino, size), new)

\* The tree after increase_size: the new slots have the new blocks, the others keep theirs,
\* and only index blocks of the tree have changed.
LEMMA Grown ==
    ASSUME NEW d \in DiskSet, NEW ino \in InodeSet, NEW size \in Nat, NEW new,
           ino.size <= size, DataBlocks(size) <= Indirect2Bound,
           Given(ino, size, new) \in [Fresh(ino, size) -> Block],
           NEW T, T = Slots(DataBlocks(size)), NEW G \in [T -> Block],
           \A s \in T : G[s] = IF s \in Fresh(ino, size) THEN Given(ino, size, new)[s] ELSE At(d, ino, s),
           \A s, t \in T : G[s] = G[t] => s = t
    PROVE  LET r == IncreaseSize(d, ino, size, new) IN
           /\ r.disk \in DiskSet /\ r.ino \in InodeSet /\ r.ino.size = size
           /\ \A s \in T : At(r.disk, r.ino, s) = G[s]
           /\ \A b \in Block : (\A s \in T : ~IsData(s) => G[s] # b) => r.disk[b] = d[b]
<1>. DEFINE S == Slots(DataBlocks(ino.size))
            N == Fresh(ino, size)
            next == Given(ino, size, new)
            r == IncreaseSize(d, ino, size, new)
            i1 == IF I1 \in N THEN next[I1] ELSE ino.indirect1
            i2 == IF I2 \in N THEN next[I2] ELSE ino.indirect2
            mid == [a \in Cell |-> IF <<"middle", a>> \in N THEN next[<<"middle", a>>] ELSE d[i2][a]]
            U(b, i) == {a \in Cell : <<"second", Start(a) + i>> \in N /\ mid[a] = b}
            dir == [i \in 0 .. Direct - 1 |-> IF <<"direct", i>> \in N THEN next[<<"direct", i>>] ELSE ino.direct[i]]
            dk == [b \in Block |-> [i \in Cell |->
                     IF b = i1 /\ <<"first", i>> \in N THEN next[<<"first", i>>]
                     ELSE IF b = i2 /\ <<"middle", i>> \in N THEN mid[i]
                     ELSE IF U(b, i) # {}
                          THEN next[<<"second", Start(CHOOSE a \in U(b, i) : TRUE) + i>>]
                     ELSE d[b][i]]]
<1>1. r = [ino |-> [size |-> size, direct |-> dir, indirect1 |-> i1, indirect2 |-> i2], disk |-> dk]
  BY Zenon DEF IncreaseSize, Start, I1, I2, Fresh, Given
<1>. HIDE DEF r, i1, i2, mid, U, dir, dk
<1>2. r.ino.size = size /\ r.ino.direct = dir /\ r.ino.indirect1 = i1 /\ r.ino.indirect2 = i2 /\ r.disk = dk
  BY <1>1
<1>3. PICK m \in Nat, n \in Nat : m = DataBlocks(ino.size) /\ n = DataBlocks(size) /\ m <= n /\ n <= Indirect2Bound
  <2>1. ino.size \in Nat
    BY DEF InodeSet
  <2>. QED BY <2>1, DataBlocksFacts, DataBlocksGrow
<1>4. S = Slots(m) /\ T = Slots(n) /\ S \subseteq T /\ T \subseteq AllSlots /\ N = T \ S
  BY <1>3, SlotSets DEF Fresh
<1>5. /\ \A s \in N : s \in T /\ s \notin S /\ G[s] = next[s]
      /\ \A s \in S : s \in T /\ s \notin N /\ G[s] = At(d, ino, s)
      /\ \A s \in T : s \in N \/ s \in S
  BY <1>4
<1>. HIDE DEF S, N, next
<1>6. ASSUME NEW i \in Nat
      PROVE  /\ <<"first", i>> \in T => I1 \in T /\ i \in Cell
             /\ <<"middle", i>> \in T => I2 \in T /\ i \in Cell
             /\ <<"second", i>> \in T => <<"middle", Quo(i)>> \in T
             /\ <<"first", i>> \in S => I1 \in S
             /\ <<"middle", i>> \in S => I2 \in S
             /\ <<"second", i>> \in S => <<"middle", Quo(i)>> \in S
  BY <1>3, <1>4, Above
<1>7. /\ I1 \in T => i1 = G[I1] /\ i1 \in Block
      /\ I2 \in T => i2 = G[I2] /\ i2 \in Block
  BY <1>5, AtI1, AtI2 DEF i1, i2
<1>8. (I1 \in S => i1 = ino.indirect1) /\ (I2 \in S => i2 = ino.indirect2)
  BY <1>5 DEF i1, i2
<1>9. ASSUME NEW a \in Cell, <<"middle", a>> \in T PROVE mid[a] = G[<<"middle", a>>]
  <2>1. a \in Nat
    BY Sizes
  <2>2. CASE <<"middle", a>> \in N
    BY <1>5, <2>2 DEF mid
  <2>3. CASE <<"middle", a>> \in S
    <3>1. <<"middle", a>> \notin N /\ G[<<"middle", a>>] = At(d, ino, <<"middle", a>>) /\ i2 = ino.indirect2
      <4>1. I2 \in S
        BY <1>6, <2>1, <2>3
      <4>. QED BY <1>5, <1>8, <2>3, <4>1
    <3>2. At(d, ino, <<"middle", a>>) = d[ino.indirect2][a]
      BY <2>1 DEF At
    <3>. QED BY <3>1, <3>2 DEF mid
  <2>. QED BY <1>5, <1>9, <2>2, <2>3
<1>10. ASSUME NEW a \in Cell, NEW i \in Cell, <<"second", Start(a) + i>> \in T PROVE <<"middle", a>> \in T
  <2>1. Start(a) + i \in Nat /\ Quo(Start(a) + i) = a
    BY Sizes, OneWay
  <2>. QED BY <1>6, <1>10, <2>1
<1>11. ASSUME NEW b, NEW i \in Cell, NEW a \in U(b, i)
       PROVE  a \in Cell /\ <<"middle", a>> \in T /\ G[<<"middle", a>>] = b /\ <<"second", Start(a) + i>> \in N
  <2>1. a \in Cell /\ <<"second", Start(a) + i>> \in N /\ mid[a] = b
    BY DEF U
  <2>2. <<"middle", a>> \in T
    BY <1>5, <1>10, <2>1
  <2>. QED BY <1>9, <2>1, <2>2
<1>12. ASSUME NEW b \in Block, NEW i \in Cell
       PROVE  /\ b = i1 /\ <<"first", i>> \in N => dk[b][i] = next[<<"first", i>>]
              /\ ~(b = i1 /\ <<"first", i>> \in N) /\ b = i2 /\ <<"middle", i>> \in N => dk[b][i] = mid[i]
              /\ ~(b = i1 /\ <<"first", i>> \in N) /\ ~(b = i2 /\ <<"middle", i>> \in N)
                 => \/ U(b, i) = {} /\ dk[b][i] = d[b][i]
                    \/ \E a \in U(b, i) : dk[b][i] = next[<<"second", Start(a) + i>>]
  <2>1. U(b, i) # {} => (CHOOSE a \in U(b, i) : TRUE) \in U(b, i)
    BY Zenon
  <2>. DEFINE c == CHOOSE a \in U(b, i) : TRUE
  <2>2. dk[b][i] = IF b = i1 /\ <<"first", i>> \in N THEN next[<<"first", i>>]
                     ELSE IF b = i2 /\ <<"middle", i>> \in N THEN mid[i]
                     ELSE IF U(b, i) # {} THEN next[<<"second", Start(c) + i>>]
                     ELSE d[b][i]
    BY DEF dk
  <2>. HIDE DEF c
  <2>3. U(b, i) # {} => c \in U(b, i)
    BY <2>1 DEF c
  <2>. QED BY <2>2, <2>3
<1>13. ASSUME I1 \in T, I2 \in T PROVE i1 # i2
  BY <1>7, <1>13 DEF I1, I2
<1>14. ASSUME NEW i \in Cell, NEW a \in U(i1, i), I1 \in T PROVE FALSE
  <2>1. <<"middle", a>> \in T /\ G[<<"middle", a>>] = G[I1]
    BY <1>7, <1>11, <1>14
  <2>2. <<"middle", a>> = I1
    BY <1>14, <2>1
  <2>. QED BY <2>2 DEF I1
<1>15. ASSUME NEW i \in Cell, NEW a \in U(i2, i), I2 \in T PROVE FALSE
  <2>1. <<"middle", a>> \in T /\ G[<<"middle", a>>] = G[I2]
    BY <1>7, <1>11, <1>15
  <2>2. <<"middle", a>> = I2
    BY <1>15, <2>1
  <2>. QED BY <2>2 DEF I2
<1>16. ASSUME NEW i \in Nat, <<"first", i>> \in T PROVE dk[i1][i] = G[<<"first", i>>]
  <2>1. I1 \in T /\ i \in Cell /\ i1 \in Block
    <3>1. I1 \in T /\ i \in Cell
      BY <1>6, <1>16, Zenon
    <3>. QED BY <1>7, <3>1, Zenon
  <2>2. CASE <<"first", i>> \in N
    <3>1. dk[i1][i] = next[<<"first", i>>]
      BY <1>12, <2>1, <2>2, Zenon
    <3>. QED BY <1>5, <2>2, <3>1, Zenon
  <2>3. CASE <<"first", i>> \in S
    <3>1. <<"first", i>> \notin N /\ I1 \in S /\ G[<<"first", i>>] = At(d, ino, <<"first", i>>)
      BY <1>5, <1>6, <2>3
    <3>2. ~(i1 = i2 /\ <<"middle", i>> \in N)
      <4>1. ASSUME <<"middle", i>> \in N PROVE I2 \in T
        BY <1>5, <1>6, <4>1
      <4>. QED BY <1>13, <2>1, <4>1
    <3>3. dk[i1][i] = d[i1][i]
      BY <1>12, <1>14, <2>1, <3>1, <3>2
    <3>4. At(d, ino, <<"first", i>>) = d[ino.indirect1][i]
      BY DEF At
    <3>5. i1 = ino.indirect1
      BY <1>8, <3>1
    <3>. QED BY <3>1, <3>3, <3>4, <3>5
  <2>. QED BY <1>5, <1>16, <2>2, <2>3
<1>17. ASSUME NEW i \in Nat, <<"middle", i>> \in T PROVE dk[i2][i] = G[<<"middle", i>>]
  <2>1. I2 \in T /\ i \in Cell /\ i2 \in Block
    <3>1. I2 \in T /\ i \in Cell
      BY <1>6, <1>17, Zenon
    <3>. QED BY <1>7, <3>1, Zenon
  <2>2. ~(i2 = i1 /\ <<"first", i>> \in N)
    <3>1. ASSUME <<"first", i>> \in N PROVE I1 \in T
      BY <1>5, <1>6, <3>1
    <3>. QED BY <1>13, <2>1, <3>1
  <2>3. CASE <<"middle", i>> \in N
    <3>1. dk[i2][i] = mid[i]
      BY <1>12, <2>1, <2>2, <2>3
    <3>. QED BY <1>9, <1>17, <2>1, <3>1
  <2>4. CASE <<"middle", i>> \in S
    <3>1. <<"middle", i>> \notin N /\ I2 \in S /\ G[<<"middle", i>>] = At(d, ino, <<"middle", i>>)
      BY <1>5, <1>6, <2>4
    <3>2. dk[i2][i] = d[i2][i]
      BY <1>12, <1>15, <2>1, <2>2, <3>1
    <3>3. At(d, ino, <<"middle", i>>) = d[ino.indirect2][i]
      BY DEF At
    <3>4. i2 = ino.indirect2
      BY <1>8, <3>1
    <3>. QED BY <3>1, <3>2, <3>3, <3>4
  <2>. QED BY <1>5, <1>17, <2>3, <2>4
<1>18. ASSUME NEW j \in Nat, <<"second", j>> \in T
       PROVE  dk[dk[i2][Quo(j)]][Rem(j)] = G[<<"second", j>>]
  <2>1. PICK a \in Nat, i \in Nat : a = Quo(j) /\ i = Rem(j) /\ i < Width /\ j = Start(a) + i
    BY DivMod
  <2>2. <<"middle", a>> \in T /\ a \in Cell /\ i \in Cell /\ I2 \in T
    BY <1>6, <1>18, <2>1, Sizes
  <2>3. PICK b \in Block : b = G[<<"middle", a>>]
    BY <2>2
  <2>4. dk[i2][a] = b
    BY <1>17, <2>2, <2>3
  <2>5. ~(b = i1 /\ <<"first", i>> \in N)
    <3>1. ASSUME <<"first", i>> \in N, b = i1 PROVE FALSE
      <4>1. I1 \in T /\ G[<<"middle", a>>] = G[I1]
        BY <1>5, <1>6, <1>7, <2>3, <3>1
      <4>2. <<"middle", a>> = I1
        BY <2>2, <4>1
      <4>. QED BY <4>2 DEF I1
    <3>. QED BY <3>1
  <2>6. b # i2
    <3>1. ASSUME b = i2 PROVE FALSE
      <4>1. G[<<"middle", a>>] = G[I2]
        BY <1>7, <2>2, <2>3, <3>1
      <4>2. <<"middle", a>> = I2
        BY <2>2, <4>1
      <4>. QED BY <4>2 DEF I2
    <3>. QED BY <3>1
  <2>7. ASSUME NEW c \in U(b, i) PROVE c = a
    <3>1. <<"middle", c>> \in T /\ G[<<"middle", c>>] = G[<<"middle", a>>]
      BY <1>11, <2>2, <2>3
    <3>2. <<"middle", c>> = <<"middle", a>>
      BY <2>2, <3>1
    <3>. QED BY <3>2
  <2>8. \/ U(b, i) = {} /\ dk[b][i] = d[b][i]
        \/ \E c \in U(b, i) : dk[b][i] = next[<<"second", Start(c) + i>>]
    BY <1>12, <2>2, <2>5, <2>6
  <2>9. CASE <<"second", j>> \in N
    <3>1. a \in U(b, i)
      BY <1>9, <2>1, <2>2, <2>3, <2>9 DEF U
    <3>2. dk[b][i] = next[<<"second", j>>]
      BY <2>1, <2>7, <2>8, <3>1
    <3>. QED BY <1>5, <2>1, <2>4, <2>9, <3>2
  <2>10. CASE <<"second", j>> \in S
    <3>1. U(b, i) = {}
      <4>1. ASSUME NEW c \in U(b, i) PROVE FALSE
        <5>1. c = a /\ <<"second", Start(c) + i>> \in N
          BY <1>11, <2>2, <2>7
        <5>. QED BY <1>5, <2>1, <2>10, <5>1
      <4>. QED BY <4>1
    <3>2. dk[b][i] = d[b][i]
      BY <2>8, <3>1
    <3>3. <<"middle", a>> \in S
      BY <1>6, <2>1, <2>10
    <3>4. b = At(d, ino, <<"middle", a>>) /\ G[<<"second", j>>] = At(d, ino, <<"second", j>>)
      BY <1>5, <2>3, <2>10, <3>3
    <3>5. At(d, ino, <<"middle", a>>) = d[ino.indirect2][a]
      BY DEF At
    <3>6. At(d, ino, <<"second", j>>) = d[d[ino.indirect2][a]][i]
      BY <2>1 DEF At, Quo, Rem
    <3>. QED BY <2>1, <2>4, <3>2, <3>4, <3>5, <3>6
  <2>. QED BY <1>5, <1>18, <2>9, <2>10
<1>19. ASSUME NEW i \in Nat, <<"direct", i>> \in T PROVE dir[i] = G[<<"direct", i>>]
  <2>1. i \in 0 .. Direct - 1
    BY <1>4, <1>19, Members, Sizes
  <2>2. CASE <<"direct", i>> \in N
    BY <1>5, <2>1, <2>2 DEF dir
  <2>3. CASE <<"direct", i>> \in S
    <3>1. <<"direct", i>> \notin N /\ G[<<"direct", i>>] = At(d, ino, <<"direct", i>>)
      BY <1>5, <2>3
    <3>2. At(d, ino, <<"direct", i>>) = ino.direct[i]
      BY DEF At
    <3>. QED BY <2>1, <3>1, <3>2 DEF dir
  <2>. QED BY <1>5, <1>19, <2>2, <2>3
<1>20. ASSUME NEW s \in T PROVE At(r.disk, r.ino, s) = G[s]
  <2>1. ASSUME NEW i \in Nat, s = <<"direct", i>> PROVE At(r.disk, r.ino, s) = G[s]
    <3>1. At(r.disk, r.ino, s) = r.ino.direct[i]
      BY <2>1 DEF At
    <3>. QED BY <1>2, <1>19, <2>1, <3>1
  <2>2. CASE s = I1
    <3>1. At(r.disk, r.ino, s) = r.ino.indirect1
      BY <2>2 DEF At, I1
    <3>. QED BY <1>2, <1>7, <2>2, <3>1
  <2>3. ASSUME NEW i \in Nat, s = <<"first", i>> PROVE At(r.disk, r.ino, s) = G[s]
    <3>1. At(r.disk, r.ino, s) = r.disk[r.ino.indirect1][i]
      BY <2>3 DEF At
    <3>. QED BY <1>2, <1>16, <2>3, <3>1
  <2>4. CASE s = I2
    <3>1. At(r.disk, r.ino, s) = r.ino.indirect2
      BY <2>4 DEF At, I2
    <3>. QED BY <1>2, <1>7, <2>4, <3>1
  <2>5. ASSUME NEW i \in Nat, s = <<"middle", i>> PROVE At(r.disk, r.ino, s) = G[s]
    <3>1. At(r.disk, r.ino, s) = r.disk[r.ino.indirect2][i]
      BY <2>5 DEF At
    <3>. QED BY <1>2, <1>17, <2>5, <3>1
  <2>6. ASSUME NEW i \in Nat, s = <<"second", i>> PROVE At(r.disk, r.ino, s) = G[s]
    <3>1. At(r.disk, r.ino, s) = r.disk[r.disk[r.ino.indirect2][Quo(i)]][Rem(i)]
      BY <2>6 DEF At, Quo, Rem
    <3>. QED BY <1>2, <1>18, <2>6, <3>1
  <2>7. s \in AllSlots
    BY <1>4
  <2>. QED BY <2>1, <2>2, <2>3, <2>4, <2>5, <2>6, <2>7, Kinds DEF I1, I2
<1>21. \A s \in N : next[s] \in Nat
  <2>1. \A s \in N : next[s] \in Block
    BY DEF N, next
  <2>. QED BY <2>1, Sizes
<1>22. r.ino \in InodeSet
  <2>1. i1 \in Nat /\ i2 \in Nat
    BY <1>21 DEF i1, i2, InodeSet
  <2>2. dir \in [0 .. Direct - 1 -> Nat]
    BY <1>21 DEF dir, InodeSet
  <2>. QED BY <1>1, <2>1, <2>2 DEF InodeSet
<1>23. r.disk \in DiskSet
  <2>1. ASSUME NEW b \in Block, NEW i \in Cell PROVE dk[b][i] \in Nat \cup Val
    <3>1. d[b][i] \in Nat \cup Val
      BY DEF DiskSet, CellSet
    <3>2. <<"middle", i>> \in N => mid[i] \in Nat
      BY <1>21 DEF mid
    <3>3. \A a \in U(b, i) : <<"second", Start(a) + i>> \in N
      BY <1>11
    <3>4. CASE b = i1 /\ <<"first", i>> \in N
      <4>1. dk[b][i] = next[<<"first", i>>]
        BY <1>12, <3>4
      <4>. QED BY <1>21, <3>4, <4>1
    <3>5. CASE ~(b = i1 /\ <<"first", i>> \in N) /\ b = i2 /\ <<"middle", i>> \in N
      <4>1. dk[b][i] = mid[i]
        BY <1>12, <3>5
      <4>. QED BY <3>2, <3>5, <4>1
    <3>6. CASE ~(b = i1 /\ <<"first", i>> \in N) /\ ~(b = i2 /\ <<"middle", i>> \in N)
      <4>1. dk[b][i] = d[b][i] \/ \E a \in U(b, i) : dk[b][i] = next[<<"second", Start(a) + i>>]
        BY <1>12, <3>6, Zenon
      <4>2. CASE dk[b][i] = d[b][i]
        BY <3>1, <4>2
      <4>3. CASE \E a \in U(b, i) : dk[b][i] = next[<<"second", Start(a) + i>>]
        BY <1>21, <3>3, <4>3
      <4>. QED BY <4>1, <4>2, <4>3
    <3>. QED BY <3>4, <3>5, <3>6
  <2>2. dk = [b \in Block |-> dk[b]] /\ \A b \in Block : dk[b] = [i \in Cell |-> dk[b][i]]
    BY DEF dk
  <2>. HIDE DEF dk
  <2>. QED BY <1>2, <2>1, <2>2 DEF DiskSet, CellSet
<1>24. ASSUME NEW b \in Block, \A s \in T : ~IsData(s) => G[s] # b PROVE r.disk[b] = d[b]
  <2>1. ASSUME NEW i \in Cell PROVE dk[b][i] = d[b][i]
    <3>1. ~(b = i1 /\ <<"first", i>> \in N)
      <4>1. ASSUME <<"first", i>> \in N PROVE I1 \in T
        BY <1>5, <1>6, <4>1, Sizes
      <4>2. ~IsData(I1)
        BY DataKinds DEF I1
      <4>. QED BY <1>7, <1>24, <4>1, <4>2
    <3>2. ~(b = i2 /\ <<"middle", i>> \in N)
      <4>1. ASSUME <<"middle", i>> \in N PROVE I2 \in T
        BY <1>5, <1>6, <4>1, Sizes
      <4>2. ~IsData(I2)
        BY DataKinds DEF I2
      <4>. QED BY <1>7, <1>24, <4>1, <4>2
    <3>3. ASSUME NEW a \in U(b, i) PROVE FALSE
      <4>1. <<"middle", a>> \in T /\ G[<<"middle", a>>] = b
        BY <1>11
      <4>2. ~IsData(<<"middle", a>>)
        BY DataKinds
      <4>. QED BY <1>24, <4>1, <4>2
    <3>. QED BY <1>12, <3>1, <3>2, <3>3
  <2>2. dk[b] = [i \in Cell |-> dk[b][i]]
    BY DEF dk
  <2>3. d[b] = [i \in Cell |-> d[b][i]]
    BY DEF DiskSet, CellSet
  <2>. HIDE DEF dk
  <2>4. dk[b] = d[b]
    BY <2>1, <2>2, <2>3
  <2>. QED BY <1>2, <2>4
<1>. QED BY <1>2, <1>20, <1>22, <1>23, <1>24 DEF r

\* The cell at a position of a file.
CellAt(d, ino, p) == d[At(d, ino, DataSlot(Quo(p)))][Rem(p)]

\* Which data blocks a file has.
LEMMA HasBlock ==
    ASSUME NEW size \in Nat, NEW p \in Nat
    PROVE  /\ DataSlot(Quo(p)) \in Slots(DataBlocks(size)) <=> p < Start(DataBlocks(size))
           /\ p < size => p < Start(DataBlocks(size))
           /\ IsData(DataSlot(Quo(p))) /\ Rem(p) \in Cell
<1>1. PICK n \in Nat : n = DataBlocks(size) /\ Start(n) \in Nat /\ (p < size => Quo(p) < n)
  BY DataBlocksFacts, Multiples
<1>2. PICK q \in Nat, i \in Nat : q = Quo(p) /\ i = Rem(p) /\ i < Width /\ p = Start(q) + i
  BY DivMod
<1>3. DataSlot(q) \in AllSlots /\ Lead(DataSlot(q)) = q /\ IsData(DataSlot(q))
  BY DataSlots
<1>4. DataSlot(q) \in Slots(n) <=> q < n
  BY <1>3, SlotsAre
<1>5. Start(q) \in Nat /\ (q < n => Start(q) + Width <= Start(n)) /\ (q < n <=> Start(q) < Start(n))
  BY Multiples
<1>6. q < n <=> p < Start(n)
  BY <1>1, <1>2, <1>5, Sizes
<1>. QED BY <1>1, <1>2, <1>3, <1>4, <1>6, Sizes

\* get_block_id and cells.
LEMMA CellIs ==
    ASSUME NEW d, NEW ino, NEW p \in Nat
    PROVE  d[GetBlockId(d, ino, p \div Width)][p % Width] = CellAt(d, ino, p)
<1>1. Quo(p) \in Nat
  BY DivMod
<1>2. GetBlockId(d, ino, Quo(p)) = At(d, ino, DataSlot(Quo(p)))
  BY <1>1, GetIsAt
<1>. QED BY <1>2 DEF CellAt, Quo, Rem

\* write_at changes the cells of a range, and nothing but data blocks of the file.
LEMMA Writing ==
    ASSUME NEW d \in DiskSet, NEW ino \in InodeSet, NEW T, T = Slots(DataBlocks(ino.size)),
           \A s \in T : At(d, ino, s) \in Block,
           \A s, u \in T : At(d, ino, s) = At(d, ino, u) => s = u,
           NEW offset \in Nat, NEW n \in Nat, offset + n <= ino.size, NEW v \in Val
    PROVE  LET e == WriteAt(d, ino, offset, n, v) IN
           /\ e \in DiskSet
           /\ \A s \in T : At(e, ino, s) = At(d, ino, s)
           /\ \A b \in Block : (\A s \in T : IsData(s) => At(d, ino, s) # b) => e[b] = d[b]
           /\ \A p \in Nat : p < Start(DataBlocks(ino.size)) =>
                CellAt(e, ino, p) = IF offset <= p /\ p < offset + n THEN v ELSE CellAt(d, ino, p)
<1>. DEFINE e == WriteAt(d, ino, offset, n, v)
            size == ino.size
            B(p) == At(d, ino, DataSlot(Quo(p)))
            touched == {<<B(p), Rem(p)>> : p \in offset .. offset + n - 1}
<1>1. size \in Nat /\ DataBlocks(size) \in Nat
  BY DataBlocksFacts DEF InodeSet
<1>2. Least(offset + n, ino.size) = offset + n
  BY <1>1 DEF Least
<1>3. \A p \in offset .. offset + n - 1 : GetBlockId(d, ino, p \div Width) = B(p) /\ p % Width = Rem(p)
  <2>1. TAKE p \in offset .. offset + n - 1
  <2>2. p \in Nat /\ Quo(p) \in Nat
    BY DivMod
  <2>3. GetBlockId(d, ino, Quo(p)) = B(p)
    BY <2>2, GetIsAt
  <2>. QED BY <2>3 DEF Quo, Rem
<1>4. {<<GetBlockId(d, ino, p \div Width), p % Width>> : p \in offset .. offset + n - 1} = touched
  BY <1>3
<1>. HIDE DEF touched, B
<1>5. e = [b \in Block |-> [i \in Cell |-> IF <<b, i>> \in touched THEN v ELSE d[b][i]]]
  <2>. DEFINE all(end) == {<<GetBlockId(d, ino, p \div Width), p % Width>> : p \in offset .. end - 1}
  <2>1. e = [b \in Block |-> [i \in Cell |-> IF <<b, i>> \in all(Least(offset + n, ino.size)) THEN v ELSE d[b][i]]]
    BY DEF WriteAt
  <2>2. all(Least(offset + n, ino.size)) = touched
    BY <1>2, <1>4
  <2>. HIDE DEF all, e
  <2>. QED BY <2>1, <2>2
<1>. HIDE DEF e
<1>6. ASSUME NEW p \in offset .. offset + n - 1
      PROVE  p \in Nat /\ DataSlot(Quo(p)) \in T /\ IsData(DataSlot(Quo(p))) /\ p < Start(DataBlocks(size))
  <2>1. p \in Nat /\ p < size
    BY <1>1
  <2>. QED BY <1>1, <2>1, HasBlock
<1>7. e \in DiskSet
  BY <1>5 DEF DiskSet, CellSet
<1>8. ASSUME NEW b \in Block, \A s \in T : IsData(s) => At(d, ino, s) # b PROVE e[b] = d[b]
  <2>1. ASSUME NEW i \in Cell PROVE <<b, i>> \notin touched
    <3>1. ASSUME NEW p \in offset .. offset + n - 1 PROVE B(p) # b
      BY <1>6, <1>8 DEF B
    <3>. QED BY <3>1 DEF touched
  <2>2. d[b] = [i \in Cell |-> d[b][i]]
    BY DEF DiskSet, CellSet
  <2>3. e[b] = [i \in Cell |-> d[b][i]]
    BY <1>5, <2>1
  <2>. QED BY <2>2, <2>3
<1>9. \A s \in T : At(e, ino, s) = At(d, ino, s)
  <2>1. ASSUME NEW s \in T, ~IsData(s) PROVE e[At(d, ino, s)] = d[At(d, ino, s)]
    <3>1. \A u \in T : IsData(u) => At(d, ino, u) # At(d, ino, s)
      BY <2>1
    <3>. QED BY <1>8, <3>1
  <2>. QED BY <1>1, <2>1, SameTree
<1>10. ASSUME NEW p \in Nat, p < Start(DataBlocks(size))
       PROVE  CellAt(e, ino, p) = IF offset <= p /\ p < offset + n THEN v ELSE CellAt(d, ino, p)
  <2>1. DataSlot(Quo(p)) \in T /\ Rem(p) \in Cell
    BY <1>1, <1>10, HasBlock
  <2>2. CellAt(e, ino, p) = e[B(p)][Rem(p)] /\ CellAt(d, ino, p) = d[B(p)][Rem(p)] /\ B(p) \in Block
    BY <1>9, <2>1 DEF CellAt, B
  <2>3. ASSUME NEW q \in offset .. offset + n - 1, B(q) = B(p), Rem(q) = Rem(p) PROVE q = p
    <3>1. DataSlot(Quo(q)) = DataSlot(Quo(p))
      BY <1>6, <2>1, <2>3 DEF B
    <3>2. q \in Nat /\ Quo(q) \in Nat /\ Quo(p) \in Nat
      BY DivMod
    <3>3. Quo(q) = Quo(p)
      BY <3>1, <3>2, DataSlots
    <3>4. q = Start(Quo(q)) + Rem(q) /\ p = Start(Quo(p)) + Rem(p)
      BY <3>2, DivMod
    <3>. QED BY <2>3, <3>3, <3>4
  <2>4. <<B(p), Rem(p)>> \in touched <=> p \in offset .. offset + n - 1
    BY <2>3 DEF touched
  <2>5. p \in offset .. offset + n - 1 <=> offset <= p /\ p < offset + n
    OBVIOUS
  <2>6. e[B(p)][Rem(p)] = IF <<B(p), Rem(p)>> \in touched THEN v ELSE d[B(p)][Rem(p)]
    BY <1>5, <2>1, <2>2
  <2>. QED BY <2>2, <2>4, <2>5, <2>6
<1>. QED BY <1>7, <1>8, <1>9, <1>10 DEF e

----------------------------------------------------------------------------
\* The invariant

OpenSet == [file : File, offset : Nat, readable : BOOLEAN, writable : BOOLEAN]

FileTypesOK ==
    /\ inode \in [File -> InodeSet] /\ disk \in DiskSet /\ used \subseteq 1 .. Area
    /\ handle \in [Handle -> OpenSet \cup {Closed}]

\* No file is larger than its tree can be.
SizesFit == \A f \in File : DataBlocks(inode[f].size) <= Indirect2Bound

\* The cells between the end of a file and the end of its last block are zero, because a
\* write behind the end shows them.
TailsBlank ==
    \A f \in File : \A p \in Nat :
        inode[f].size <= p /\ p < Start(DataBlocks(inode[f].size)) => CellAt(disk, inode[f], p) = 0

FilesInv == FileTypesOK /\ SizesFit /\ TailsBlank /\ BlocksAccounted /\ OnlyLimitsPanic

SlotsOf(ino) == Slots(DataBlocks(ino.size))

\* BlocksAccounted of any inodes, disk and bitmap.
Trees(in, d, u) ==
    /\ \A f \in File : IsInjective(ClearList(d, in[f]))
    /\ \A f, g \in File : f # g => Range(ClearList(d, in[f])) \cap Range(ClearList(d, in[g])) = {}
    /\ u = UNION {Range(ClearList(d, in[f])) : f \in File}
    /\ \A b \in Block \ u : d[b] = ZeroBlock

\* The same in terms of slots.
Sound(in, d, u) ==
    /\ \A f \in File : \A s \in SlotsOf(in[f]) : At(d, in[f], s) \in u
    /\ \A f \in File : \A s, t \in SlotsOf(in[f]) : At(d, in[f], s) = At(d, in[f], t) => s = t
    /\ \A f, g \in File : f # g =>
          \A s \in SlotsOf(in[f]), t \in SlotsOf(in[g]) : At(d, in[f], s) # At(d, in[g], t)
    /\ \A b \in u : \E f \in File : \E s \in SlotsOf(in[f]) : b = At(d, in[f], s)
    /\ \A b \in Block \ u : d[b] = ZeroBlock

\* The two say the same.
LEMMA TreesAreSound == ASSUME NEW in, NEW d, NEW u PROVE Trees(in, d, u) <=> Sound(in, d, u)
<1>. DEFINE S(f) == SlotsOf(in[f])
            V(f, s) == At(d, in[f], s)
            C(f) == ClearList(d, in[f])
<1>1. \A f \in File : C(f) = [s \in S(f) |-> V(f, s)]
  BY DEF ClearList, SlotsOf
<1>2. Trees(in, d, u)
      <=> /\ \A f \in File : IsInjective(C(f))
          /\ \A f, g \in File : f # g => Range(C(f)) \cap Range(C(g)) = {}
          /\ u = UNION {Range(C(f)) : f \in File}
          /\ \A b \in Block \ u : d[b] = ZeroBlock
  BY Zenon DEF Trees
<1>3. Sound(in, d, u)
      <=> /\ \A f \in File : \A s \in S(f) : V(f, s) \in u
          /\ \A f \in File : \A s, t \in S(f) : V(f, s) = V(f, t) => s = t
          /\ \A f, g \in File : f # g => \A s \in S(f), t \in S(g) : V(f, s) # V(g, t)
          /\ \A b \in u : \E f \in File : \E s \in S(f) : b = V(f, s)
          /\ \A b \in Block \ u : d[b] = ZeroBlock
  BY Zenon DEF Sound
<1>. HIDE DEF S, V, C
<1>4. \A f \in File : Range(C(f)) = {V(f, s) : s \in S(f)}
  BY <1>1 DEF Range
<1>5. \A f \in File : IsInjective(C(f)) <=> \A s, t \in S(f) : V(f, s) = V(f, t) => s = t
  BY <1>1 DEF IsInjective
<1>6. \A f, g \in File : Range(C(f)) \cap Range(C(g)) = {} <=> \A s \in S(f), t \in S(g) : V(f, s) # V(g, t)
  BY <1>4
<1>7. u = UNION {Range(C(f)) : f \in File}
      <=> /\ \A f \in File : \A s \in S(f) : V(f, s) \in u
          /\ \A b \in u : \E f \in File : \E s \in S(f) : b = V(f, s)
  BY <1>4
<1>. QED BY <1>5, <1>6, <1>7, <1>2, <1>3, Zenon

\* BlocksAccounted by slots, before and after a step.
LEMMA Accounts ==
    /\ BlocksAccounted <=> Sound(inode, disk, used)
    /\ BlocksAccounted' <=> Sound(inode', disk', used')
<1>1. BlocksAccounted <=> Trees(inode, disk, used)
  BY DEF BlocksAccounted, Tree, Trees
<1>2. BlocksAccounted' <=> Trees(inode', disk', used')
  BY DEF BlocksAccounted, Tree, Trees
<1>. QED BY <1>1, <1>2, TreesAreSound

\* The types of one file.
LEMMA FileTypes ==
    ASSUME FileTypesOK, NEW f \in File
    PROVE  inode[f] \in InodeSet /\ inode[f].size \in Nat /\ DataBlocks(inode[f].size) \in Nat
<1>1. inode[f] \in InodeSet /\ inode[f].size \in Nat
  BY DEF FileTypesOK, InodeSet
<1>. QED BY <1>1, DataBlocksFacts

\* The slots get free blocks, a different one each, and all that were allocated.
LEMMA Supplied ==
    ASSUME NEW S \in SUBSET AllSlots, IsFiniteSet(S), Cardinality(S) <= Cardinality(Free)
    PROVE  LET A == AllocData(Cardinality(S))
               next == NextBlocks(S, A)
           IN  /\ next \in [S -> Free]
               /\ \A r, s \in S : next[r] = next[s] => r = s
               /\ {next[s] : s \in S} = Range(A)
<1>. DEFINE A == AllocData(Cardinality(S))
<1>1. Cardinality(S) \in Nat
  BY FS_CardinalityType
<1>2. A \in [1 .. Cardinality(S) -> Free] /\ \A j, k \in 1 .. Cardinality(S) : A[j] = A[k] => j = k
  BY <1>1, Allocated
<1>. HIDE DEF A
<1>3. NextBlocks(S, A) \in [S -> Free]
  BY <1>2, Handed
<1>4. \A r, s \in S : NextBlocks(S, A)[r] = NextBlocks(S, A)[s] => r = s
  BY <1>2, Handed
<1>5. {NextBlocks(S, A)[s] : s \in S} = Range(A)
  BY <1>2, Handed
<1>. QED BY <1>3, <1>4, <1>5 DEF A

\* Growing a file: its tree keeps its blocks, gets the new ones, and has no block twice;
\* only index blocks of that tree have changed.
LEMMA Resizing ==
    ASSUME FilesInv, NEW f \in File, NEW size \in Nat, Obstacle(inode[f], size) = "no"
    PROVE  LET t == Resized(inode[f], size)
               new == Range(NewBlocks(inode[f], size))
               S == SlotsOf(inode[f])
               T == SlotsOf(t.ino)
           IN  /\ t.disk \in DiskSet /\ t.ino \in InodeSet
               /\ t.ino.size = Most(size, inode[f].size) /\ DataBlocks(t.ino.size) <= Indirect2Bound
               /\ new \subseteq Free /\ S \subseteq T
               /\ \A s \in S : At(t.disk, t.ino, s) = At(disk, inode[f], s)
               /\ {At(t.disk, t.ino, s) : s \in T \ S} = new
               /\ \A s \in T : At(t.disk, t.ino, s) \in Block
               /\ \A s, u \in T : At(t.disk, t.ino, s) = At(t.disk, t.ino, u) => s = u
               /\ \A b \in Block : (\A s \in T : ~IsData(s) => At(t.disk, t.ino, s) # b) => t.disk[b] = disk[b]
<1>. DEFINE ino == inode[f]
            t == Resized(ino, size)
            new == Range(NewBlocks(ino, size))
            S == SlotsOf(ino)
            T == SlotsOf(t.ino)
<1>1. ino \in InodeSet /\ ino.size \in Nat /\ disk \in DiskSet /\ DataBlocks(ino.size) <= Indirect2Bound
  BY FileTypes DEF FilesInv, FileTypesOK, SizesFit
<1>2. /\ \A s \in S : At(disk, ino, s) \in used
      /\ \A s, u \in S : At(disk, ino, s) = At(disk, ino, u) => s = u
  <2>1. Sound(inode, disk, used)
    BY Accounts DEF FilesInv
  <2>. QED BY <2>1, Zenon DEF Sound
<1>3. used \subseteq Block /\ used \cap Free = {} /\ Free \subseteq Block
  BY Sizes DEF FilesInv, FileTypesOK, Free
<1>4. CASE size < ino.size
  <2>1. t = [ino |-> ino, disk |-> disk] /\ NewBlocks(ino, size) = <<>>
    BY <1>4 DEF Resized, NewBlocks
  <2>2. t.ino = ino /\ t.disk = disk
    BY <2>1
  <2>3. new = {}
    BY <2>1 DEF Range
  <2>4. Most(size, ino.size) = ino.size
    BY <1>1, <1>4 DEF Most
  <2>. HIDE DEF t, new, ino
  <2>5. T = S
    BY <2>2
  <2>. HIDE DEF T, S
  <2>. QED BY <1>1, <1>2, <1>3, <2>2, <2>3, <2>4, <2>5 DEF t, new, ino, S, T
<1>5. CASE ~(size < ino.size)
  <2>. DEFINE N == Fresh(ino, size)
              A == AllocData(BlocksNumNeeded(ino, size))
              next == Given(ino, size, A)
              n == Cardinality(N)
              W == Slots(DataBlocks(size))
              G == [s \in W |-> IF s \in N THEN next[s] ELSE At(disk, ino, s)]
  <2>1. /\ BlocksNumNeeded(ino, size) <= Cardinality(Free) /\ DataBlocks(size) <= Indirect2Bound
    <3>1. ~(BlocksNumNeeded(ino, size) > Cardinality(Free)) /\ ~(DataBlocks(size) > Indirect2Bound)
      BY <1>5 DEF Obstacle
    <3>2. /\ BlocksNumNeeded(ino, size) \in Nat
      BY <1>1, <1>5, NeededCount DEF BlocksNumNeeded
    <3>3. IsFiniteSet(Free) /\ Cardinality(Free) \in Nat
      <4>1. IsFiniteSet(1 .. Area) /\ Free \subseteq 1 .. Area
        BY FS_Interval, Sizes DEF Free
      <4>2. IsFiniteSet(Free)
        BY <4>1, FS_Subset
      <4>. QED BY <4>2, FS_CardinalityType
    <3>4. DataBlocks(size) \in Nat /\ Indirect2Bound \in Nat
      BY DataBlocksFacts, Bounds
    <3>. QED BY <3>1, <3>2, <3>3, <3>4
  <2>2. IsFiniteSet(N) /\ BlocksNumNeeded(ino, size) = n /\ n \in Nat
    BY <1>1, <1>5, NeededCount DEF BlocksNumNeeded, Fresh
  <2>3. S \subseteq W /\ W \subseteq AllSlots /\ N = W \ S
    <3>1. DataBlocks(ino.size) \in Nat /\ DataBlocks(size) \in Nat /\ DataBlocks(ino.size) <= DataBlocks(size)
      BY <1>1, <1>5, DataBlocksFacts, DataBlocksGrow
    <3>. QED BY <3>1, SlotSets DEF Fresh, SlotsOf
  <2>4. A \in [1 .. n -> Free] /\ \A j, k \in 1 .. n : A[j] = A[k] => j = k
    BY <2>1, <2>2, Allocated
  <2>5. t = IncreaseSize(disk, ino, size, A) /\ NewBlocks(ino, size) = A
    BY <1>5 DEF Resized, NewBlocks
  <2>. HIDE DEF A, N, n, ino
  <2>6. /\ next \in [N -> Free]
        /\ \A r, s \in N : next[r] = next[s] => r = s
        /\ {next[s] : s \in N} = Range(A)
    <3>1. N \in SUBSET AllSlots /\ n <= Cardinality(Free)
      BY <2>1, <2>2, <2>3
    <3>2. A = AllocData(n) /\ next = NextBlocks(N, A)
      BY <2>2 DEF A, next, N, Given
    <3>. QED BY <2>2, <3>1, <3>2, Supplied DEF n
  <2>. HIDE DEF next, S, W
  <2>7. G \in [W -> Block] /\ \A s \in W : G[s] = IF s \in N THEN next[s] ELSE At(disk, ino, s)
    BY <1>2, <1>3, <2>3, <2>6
  <2>8. \A s, u \in W : G[s] = G[u] => s = u
    <3>1. \A s \in W : (s \in N => G[s] \in Free /\ G[s] = next[s]) /\ (s \notin N => G[s] \in used /\ s \in S /\ G[s] = At(disk, ino, s))
      BY <1>2, <2>3, <2>6, <2>7
    <3>. HIDE DEF G
    <3>. QED BY <1>2, <1>3, <2>6, <3>1
  <2>. HIDE DEF G
  <2>9. LET r == IncreaseSize(disk, ino, size, A) IN
        /\ r.disk \in DiskSet /\ r.ino \in InodeSet /\ r.ino.size = size
        /\ \A s \in W : At(r.disk, r.ino, s) = G[s]
        /\ \A b \in Block : (\A s \in W : ~IsData(s) => G[s] # b) => r.disk[b] = disk[b]
    <3>1. ino.size <= size
      BY <1>1, <1>5
    <3>2. Given(ino, size, A) \in [Fresh(ino, size) -> Block]
      BY <1>3, <2>6 DEF next, N
    <3>3. \A s \in W : G[s] = IF s \in Fresh(ino, size) THEN Given(ino, size, A)[s] ELSE At(disk, ino, s)
      BY <2>7 DEF next, N
    <3>4. W = Slots(DataBlocks(size))
      BY DEF W
    <3>. HIDE DEF W
    <3>. QED BY <1>1, <2>1, <2>7, <2>8, <3>1, <3>2, <3>3, <3>4, Grown
  <2>. HIDE DEF t, new
  <2>10. /\ t.disk \in DiskSet /\ t.ino \in InodeSet /\ t.ino.size = size
         /\ \A s \in W : At(t.disk, t.ino, s) = G[s]
         /\ \A b \in Block : (\A s \in W : ~IsData(s) => G[s] # b) => t.disk[b] = disk[b]
    BY <2>5, <2>9
  <2>11. T = W
    BY <2>10 DEF SlotsOf, W
  <2>12. size = Most(size, ino.size)
    BY <1>1, <1>5 DEF Most
  <2>13. new = Range(A)
    BY <2>5 DEF new
  <2>14. new \subseteq Free
    BY <2>6, <2>13
  <2>15. {At(t.disk, t.ino, s) : s \in W \ S} = new
    BY <2>3, <2>6, <2>7, <2>10, <2>13
  <2>16. \A s \in S : At(t.disk, t.ino, s) = At(disk, ino, s)
    BY <2>3, <2>7, <2>10
  <2>17. /\ \A s \in W : At(t.disk, t.ino, s) \in Block
         /\ \A s, u \in W : At(t.disk, t.ino, s) = At(t.disk, t.ino, u) => s = u
         /\ \A b \in Block : (\A s \in W : ~IsData(s) => At(t.disk, t.ino, s) # b) => t.disk[b] = disk[b]
    BY <2>7, <2>8, <2>10
  <2>. HIDE DEF T
  <2>. QED BY <2>1, <2>3, <2>10, <2>11, <2>12, <2>14, <2>15, <2>16, <2>17 DEF t, new, ino, S, T
<1>. QED BY <1>4, <1>5

\* The other files have the same inodes and cells.
OthersKept(f) ==
    \A g \in File \ {f} : /\ inode'[g] = inode[g]
                          /\ \A p \in Nat : p < inode[g].size =>
                                CellAt(disk', inode'[g], p) = CellAt(disk, inode[g], p)

\* A file after a write of v from offset up to to, and before it.
CellsPatched(d, ino, e, out, offset, to, v) ==
    /\ out.size = Most(to, ino.size)
    /\ \A p \in Nat : p < out.size =>
          CellAt(e, out, p) = IF offset <= p /\ p < to THEN v
                              ELSE IF p < ino.size THEN CellAt(d, ino, p) ELSE 0

\* A write: what it does to the trees and to the cells of all files.
LEMMA Written ==
    ASSUME FilesInv, NEW f \in File, NEW offset \in Nat, NEW n \in Nat, NEW v \in Val,
           Obstacle(inode[f], offset + n) = "no",
           inode' = [inode EXCEPT ![f] = Resized(inode[f], offset + n).ino],
           disk' = WriteAt(Resized(inode[f], offset + n).disk, Resized(inode[f], offset + n).ino, offset, n, v),
           used' = used \cup Range(NewBlocks(inode[f], offset + n))
    PROVE  /\ inode' \in [File -> InodeSet] /\ disk' \in DiskSet /\ used' \subseteq 1 .. Area
           /\ SizesFit' /\ TailsBlank' /\ BlocksAccounted'
           /\ CellsPatched(disk, inode[f], disk', inode'[f], offset, offset + n, v)
           /\ OthersKept(f)
<1>. DEFINE size == offset + n
            t == Resized(inode[f], size)
            new == Range(NewBlocks(inode[f], size))
            S == SlotsOf(inode[f])
            T == SlotsOf(t.ino)
            V(s) == At(t.disk, t.ino, s)
<1>1. size \in Nat /\ f \in File /\ inode \in [File -> InodeSet] /\ disk \in DiskSet /\ used \subseteq 1 .. Area
  BY DEF FilesInv, FileTypesOK
<1>2. /\ t.disk \in DiskSet /\ t.ino \in InodeSet
      /\ t.ino.size = Most(size, inode[f].size) /\ DataBlocks(t.ino.size) <= Indirect2Bound
      /\ new \subseteq Free /\ S \subseteq T
      /\ \A s \in S : V(s) = At(disk, inode[f], s)
      /\ {V(s) : s \in T \ S} = new
      /\ \A s \in T : V(s) \in Block
      /\ \A s, u \in T : V(s) = V(u) => s = u
      /\ \A b \in Block : (\A s \in T : ~IsData(s) => V(s) # b) => t.disk[b] = disk[b]
  BY <1>1, Resizing
<1>3. /\ inode' = [inode EXCEPT ![f] = t.ino] /\ disk' = WriteAt(t.disk, t.ino, offset, n, v)
      /\ used' = used \cup new
  OBVIOUS
<1>. HIDE DEF t, new, S
<1>4. inode[f].size \in Nat /\ t.ino.size \in Nat /\ size <= t.ino.size /\ inode[f].size <= t.ino.size
  BY <1>1, <1>2 DEF InodeSet, Most
<1>5. /\ disk' \in DiskSet
      /\ \A s \in T : At(disk', t.ino, s) = V(s)
      /\ \A b \in Block : (\A s \in T : IsData(s) => V(s) # b) => disk'[b] = t.disk[b]
      /\ \A p \in Nat : p < Start(DataBlocks(t.ino.size)) =>
           CellAt(disk', t.ino, p) = IF offset <= p /\ p < size THEN v ELSE CellAt(t.disk, t.ino, p)
  <2>1. T = Slots(DataBlocks(t.ino.size))
    BY DEF SlotsOf
  <2>. HIDE DEF T
  <2>. QED BY <1>2, <1>3, <1>4, <2>1, Writing
<1>. HIDE DEF T, V, size
<1>6. inode'[f] = t.ino /\ \A g \in File : g # f => inode'[g] = inode[g]
  BY <1>1, <1>3
<1>7. inode' \in [File -> InodeSet] /\ used' \subseteq 1 .. Area
  BY <1>1, <1>2, <1>3 DEF Free
<1>8. \A b \in Block : (\A s \in T : V(s) # b) => disk'[b] = disk[b]
  BY <1>2, <1>5
<1>9. Sound(inode, disk, used)
  BY Accounts DEF FilesInv
<1>10. /\ \A g \in File : \A s \in SlotsOf(inode[g]) : At(disk, inode[g], s) \in used
       /\ \A g \in File : \A s, u \in SlotsOf(inode[g]) : At(disk, inode[g], s) = At(disk, inode[g], u) => s = u
       /\ \A g, h \in File : g # h =>
             \A s \in SlotsOf(inode[g]), u \in SlotsOf(inode[h]) : At(disk, inode[g], s) # At(disk, inode[h], u)
       /\ \A b \in used : \E g \in File : \E s \in SlotsOf(inode[g]) : b = At(disk, inode[g], s)
       /\ \A b \in Block \ used : disk[b] = ZeroBlock
  BY <1>9 DEF Sound
<1>11. used \subseteq Block /\ used \cap new = {} /\ new \subseteq Block
  BY <1>1, <1>2, Sizes DEF Free
<1>12. ASSUME NEW g \in File, g # f, NEW s \in SlotsOf(inode[g]), NEW u \in T PROVE V(u) # At(disk, inode[g], s)
  <2>1. CASE u \in S
    BY <1>2, <1>10, <1>12, <2>1 DEF S
  <2>2. CASE u \notin S
    <3>1. V(u) \in new
      BY <1>2, <2>2
    <3>. QED BY <1>10, <1>11, <3>1
  <2>. QED BY <2>1, <2>2
<1>13. ASSUME NEW g \in File, g # f, NEW s \in SlotsOf(inode[g])
       PROVE  disk'[At(disk, inode[g], s)] = disk[At(disk, inode[g], s)]
  BY <1>8, <1>10, <1>11, <1>12, <1>13
<1>14. ASSUME NEW g \in File, g # f
       PROVE  \A s \in SlotsOf(inode[g]) : At(disk', inode[g], s) = At(disk, inode[g], s)
  <2>1. DataBlocks(inode[g].size) \in Nat
    BY FileTypes DEF FilesInv
  <2>. QED BY <1>13, <1>14, <2>1, SameTree DEF SlotsOf
<1>15. Sound(inode', disk', used')
  <2>. DEFINE Z(g) == SlotsOf(inode[g])
              O(g, s) == At(disk, inode[g], s)
              Y(g) == SlotsOf(inode'[g])
              K(g, s) == At(disk', inode'[g], s)
  <2>1. Y(f) = T /\ \A s \in T : K(f, s) = V(s)
    BY <1>5, <1>6 DEF T
  <2>2. \A g \in File : g # f => Y(g) = Z(g) /\ \A s \in Z(g) : K(g, s) = O(g, s)
    BY <1>6, <1>14
  <2>3. \A s \in T : V(s) \in used' /\ V(s) \in Block
    <3>1. TAKE s \in T
    <3>2. CASE s \in S
      BY <1>2, <1>3, <1>10, <3>2 DEF S
    <3>3. CASE s \notin S
      <4>1. V(s) \in new
        BY <1>2, <3>3
      <4>. QED BY <1>2, <1>3, <4>1
    <3>. QED BY <3>2, <3>3
  <2>4. \A b \in used' : (\E s \in T : b = V(s)) \/ \E g \in File : g # f /\ \E s \in Z(g) : b = O(g, s)
    <3>1. TAKE b \in used'
    <3>2. CASE b \in new
      BY <1>2, <3>2
    <3>3. CASE b \in used
      <4>1. PICK g \in File : \E s \in Z(g) : b = O(g, s)
        BY <1>10, <3>3
      <4>2. CASE g = f
        BY <1>2, <4>1, <4>2 DEF S
      <4>. QED BY <4>1, <4>2
    <3>. QED BY <1>3, <3>2, <3>3
  <2>5. \A b \in Block \ used' : disk'[b] = ZeroBlock
    <3>1. TAKE b \in Block \ used'
    <3>2. \A s \in T : V(s) # b
      BY <2>3
    <3>3. disk'[b] = disk[b]
      BY <1>8, <3>2
    <3>. QED BY <1>3, <1>10, <3>3
  <2>6. \A g \in File : \A s \in Z(g) : O(g, s) \in used'
    BY <1>3, <1>10
  <2>7. /\ \A g \in File : \A s, u \in Z(g) : O(g, s) = O(g, u) => s = u
        /\ \A g, h \in File : g # h => \A s \in Z(g), u \in Z(h) : O(g, s) # O(h, u)
        /\ \A g \in File : g # f => \A s \in Z(g), u \in T : V(u) # O(g, s)
    BY <1>10, <1>12
  <2>. HIDE DEF Z, O, Y, K
  <2>8. \A g \in File : \A s \in Y(g) : K(g, s) \in used'
    BY <2>1, <2>2, <2>3, <2>6
  <2>9. \A g \in File : \A s, u \in Y(g) : K(g, s) = K(g, u) => s = u
    <3>1. TAKE g \in File
    <3>2. CASE g = f
      BY <1>2, <2>1, <3>2
    <3>3. CASE g # f
      BY <2>2, <2>7, <3>3
    <3>. QED BY <3>2, <3>3
  <2>10. \A g, h \in File : g # h => \A s \in Y(g), u \in Y(h) : K(g, s) # K(h, u)
    <3>1. TAKE g, h \in File
    <3>2. CASE g = f /\ h # f
      BY <2>1, <2>2, <2>7, <3>2
    <3>3. CASE g # f /\ h = f
      BY <2>1, <2>2, <2>7, <3>3
    <3>4. CASE g # f /\ h # f
      BY <2>2, <2>7, <3>4
    <3>. QED BY <3>2, <3>3, <3>4
  <2>11. \A b \in used' : \E g \in File : \E s \in Y(g) : b = K(g, s)
    BY <2>1, <2>2, <2>4
  <2>. QED BY <2>5, <2>8, <2>9, <2>10, <2>11, Zenon DEF Sound, Y, K
<1>16. SizesFit'
  <2>1. \A g \in File : DataBlocks(inode[g].size) <= Indirect2Bound
    BY DEF FilesInv, SizesFit
  <2>2. ASSUME NEW g \in File PROVE DataBlocks(inode'[g].size) <= Indirect2Bound
    BY <1>2, <1>6, <2>1
  <2>. QED BY <2>2 DEF SizesFit
<1>17. ASSUME NEW p \in Nat, p < Start(DataBlocks(t.ino.size))
       PROVE  CellAt(disk', inode'[f], p) = IF offset <= p /\ p < size THEN v
                                            ELSE IF p < inode[f].size THEN CellAt(disk, inode[f], p) ELSE 0
  <2>. DEFINE s == DataSlot(Quo(p))
              i == Rem(p)
  <2>1. s \in T /\ IsData(s) /\ i \in Cell
    BY <1>4, <1>17, HasBlock DEF T, SlotsOf
  <2>2. t.disk[V(s)] = disk[V(s)] /\ V(s) \in Block
    BY <1>2, <2>1
  <2>3. CellAt(t.disk, t.ino, p) = disk[V(s)][i]
    BY <2>2 DEF CellAt, V
  <2>4. CASE s \in S
    <3>1. CellAt(t.disk, t.ino, p) = CellAt(disk, inode[f], p)
      BY <1>2, <2>3, <2>4 DEF CellAt
    <3>2. p < Start(DataBlocks(inode[f].size))
      BY <1>4, <2>4, HasBlock DEF S, SlotsOf
    <3>3. ~(p < inode[f].size) => CellAt(disk, inode[f], p) = 0
      BY <1>4, <3>2 DEF FilesInv, TailsBlank
    <3>. QED BY <1>5, <1>6, <1>17, <3>1, <3>3
  <2>5. CASE s \notin S
    <3>1. V(s) \in new
      BY <1>2, <2>1, <2>5
    <3>2. disk[V(s)] = ZeroBlock
      BY <1>10, <1>11, <2>2, <3>1
    <3>3. CellAt(t.disk, t.ino, p) = 0
      BY <2>1, <2>3, <3>2 DEF ZeroBlock
    <3>4. ~(p < inode[f].size)
      BY <1>4, <2>5, HasBlock DEF S, SlotsOf
    <3>. QED BY <1>5, <1>6, <1>17, <3>3, <3>4
  <2>. QED BY <2>4, <2>5
<1>18. ASSUME NEW g \in File, g # f, NEW p \in Nat, p < Start(DataBlocks(inode[g].size))
       PROVE  CellAt(disk', inode'[g], p) = CellAt(disk, inode[g], p)
  <2>1. DataSlot(Quo(p)) \in SlotsOf(inode[g])
    <3>1. inode[g].size \in Nat
      BY FileTypes DEF FilesInv
    <3>. QED BY <1>18, <3>1, HasBlock DEF SlotsOf
  <2>. QED BY <1>6, <1>13, <1>14, <1>18, <2>1 DEF CellAt
<1>19. TailsBlank'
  <2>1. ASSUME NEW g \in File, NEW p \in Nat, inode'[g].size <= p, p < Start(DataBlocks(inode'[g].size))
        PROVE  CellAt(disk', inode'[g], p) = 0
    <3>1. CASE g = f
      <4>1. ~(p < size) /\ ~(p < inode[f].size)
        BY <1>1, <1>4, <1>6, <2>1, <3>1
      <4>. QED BY <1>6, <1>17, <2>1, <3>1, <4>1
    <3>2. CASE g # f
      <4>1. CellAt(disk, inode[g], p) = 0
        BY <1>6, <2>1, <3>2 DEF FilesInv, TailsBlank
      <4>. QED BY <1>6, <1>18, <2>1, <3>2, <4>1
    <3>. QED BY <3>1, <3>2
  <2>. QED BY <2>1 DEF TailsBlank
<1>20. \A p \in Nat : p < inode'[f].size =>
          CellAt(disk', inode'[f], p) = IF offset <= p /\ p < size THEN v
                                        ELSE IF p < inode[f].size THEN CellAt(disk, inode[f], p) ELSE 0
  <2>1. \A p \in Nat : p < t.ino.size => p < Start(DataBlocks(t.ino.size))
    BY <1>4, HasBlock
  <2>. QED BY <1>6, <1>17, <2>1
<1>21. \A g \in File \ {f} : \A p \in Nat : p < inode[g].size => CellAt(disk', inode'[g], p) = CellAt(disk, inode[g], p)
  <2>1. \A g \in File : \A p \in Nat : p < inode[g].size => p < Start(DataBlocks(inode[g].size))
    <3>1. \A g \in File : inode[g].size \in Nat
      BY FileTypes DEF FilesInv
    <3>. QED BY <3>1, HasBlock
  <2>. QED BY <1>18, <2>1
<1>. QED BY <1>2, <1>5, <1>6, <1>7, <1>15, <1>16, <1>19, <1>20, <1>21, Accounts DEF size, OthersKept, CellsPatched

\* A file of size zero has no blocks.
LEMMA NoBlocks == DataBlocks(0) = 0 /\ Slots(0) = {}
<1>1. PICK n \in Nat : n = DataBlocks(0) /\ \A a \in Nat : a < n <=> Start(a) < 0
  BY DataBlocksFacts
<1>2. n = 0
  <2>1. Start(0) \in Nat
    BY Multiples
  <2>. QED BY <1>1, <2>1
<1>3. Slots(0) = {}
  BY SlotsAre, LeadType
<1>. QED BY <1>1, <1>2, <1>3

\* Clearing a file cannot panic, and gives back exactly its blocks.
LEMMA Cleared ==
    ASSUME FilesInv, NEW f \in File, NEW h, NEW new, ClearAndOpen(h, f, new)
    PROVE  /\ inode' \in [File -> InodeSet] /\ disk' \in DiskSet /\ used' \subseteq 1 .. Area
           /\ SizesFit' /\ TailsBlank' /\ BlocksAccounted'
           /\ handle' = [handle EXCEPT ![h] = new] /\ panic' = panic
           /\ inode'[f].size = 0
           /\ OthersKept(f)
<1>. DEFINE w == ClearList(disk, inode[f])
            gone == Range(w)
            S == SlotsOf(inode[f])
<1>1. inode \in [File -> InodeSet] /\ disk \in DiskSet /\ used \subseteq 1 .. Area /\ used \subseteq Block
  BY Sizes DEF FilesInv, FileTypesOK
<1>2. inode[f] \in InodeSet /\ inode[f].size \in Nat
  BY FileTypes DEF FilesInv
<1>3. Sound(inode, disk, used)
  BY Accounts DEF FilesInv
<1>4. /\ \A g \in File : \A s \in SlotsOf(inode[g]) : At(disk, inode[g], s) \in used
      /\ \A g \in File : \A s, u \in SlotsOf(inode[g]) : At(disk, inode[g], s) = At(disk, inode[g], u) => s = u
      /\ \A g, k \in File : g # k =>
            \A s \in SlotsOf(inode[g]), u \in SlotsOf(inode[k]) : At(disk, inode[g], s) # At(disk, inode[k], u)
      /\ \A b \in used : \E g \in File : \E s \in SlotsOf(inode[g]) : b = At(disk, inode[g], s)
      /\ \A b \in Block \ used : disk[b] = ZeroBlock
  BY <1>3 DEF Sound
<1>5. w = [s \in S |-> At(disk, inode[f], s)]
  BY DEF ClearList, SlotsOf
<1>6. Cardinality(DOMAIN w) = TotalBlocks(inode[f].size)
  <2>1. DOMAIN w = Slots(DataBlocks(inode[f].size))
    BY DEF ClearList
  <2>. QED BY <1>2, <2>1, SlotCount
<1>7. IsInjective(w) /\ gone \subseteq used
  <2>1. IsInjective(ClearList(disk, inode[f])) /\ Range(ClearList(disk, inode[f])) \subseteq used
    BY DEF FilesInv, BlocksAccounted, Tree
  <2>. QED BY <2>1
<1>8. ~DeallocFails(w)
  BY <1>7 DEF DeallocFails
<1>9. /\ inode' = [inode EXCEPT ![f] = ClearSize(inode[f])]
      /\ disk' = Zeroed(gone) /\ used' = used \ gone
      /\ handle' = [handle EXCEPT ![h] = new] /\ panic' = panic
  BY <1>6, <1>8 DEF ClearAndOpen
<1>. HIDE DEF w
<1>10. \A b : b \in gone <=> \E s \in S : b = At(disk, inode[f], s)
  BY <1>5 DEF Range
<1>. HIDE DEF gone
<1>11. disk' = [b \in Block |-> IF b \in gone THEN ZeroBlock ELSE disk[b]]
  BY <1>9 DEF Zeroed
<1>12. ClearSize(inode[f]) \in InodeSet /\ ClearSize(inode[f]).size = 0
  BY <1>2 DEF ClearSize, InodeSet
<1>13. /\ inode' \in [File -> InodeSet] /\ inode'[f].size = 0
       /\ \A g \in File : g # f => inode'[g] = inode[g]
  BY <1>1, <1>9, <1>12
<1>14. disk' \in DiskSet
  <2>1. ZeroBlock \in CellSet
    BY DEF ZeroBlock, CellSet
  <2>. QED BY <1>1, <1>11, <2>1 DEF DiskSet
<1>15. used' \subseteq 1 .. Area
  BY <1>1, <1>9
<1>16. ASSUME NEW g \in File, g # f, NEW s \in SlotsOf(inode[g])
       PROVE  /\ At(disk, inode[g], s) \notin gone
              /\ disk'[At(disk, inode[g], s)] = disk[At(disk, inode[g], s)]
  <2>1. At(disk, inode[g], s) \notin gone
    BY <1>4, <1>10, <1>16
  <2>2. At(disk, inode[g], s) \in Block
    BY <1>1, <1>4
  <2>. QED BY <1>11, <2>1, <2>2
<1>17. ASSUME NEW g \in File, g # f
       PROVE  \A s \in SlotsOf(inode[g]) : At(disk', inode[g], s) = At(disk, inode[g], s)
  <2>1. DataBlocks(inode[g].size) \in Nat
    BY FileTypes DEF FilesInv
  <2>. QED BY <1>16, <1>17, <2>1, SameTree DEF SlotsOf
<1>18. Sound(inode', disk', used')
  <2>. DEFINE Z(g) == SlotsOf(inode[g])
              O(g, s) == At(disk, inode[g], s)
              Y(g) == SlotsOf(inode'[g])
              K(g, s) == At(disk', inode'[g], s)
  <2>1. Y(f) = {}
    BY <1>13, NoBlocks DEF SlotsOf
  <2>2. \A g \in File : g # f => Y(g) = Z(g) /\ \A s \in Z(g) : K(g, s) = O(g, s) /\ O(g, s) \in used'
    BY <1>4, <1>9, <1>13, <1>16, <1>17
  <2>3. \A b \in used' : \E g \in File : g # f /\ \E s \in Z(g) : b = O(g, s)
    <3>1. TAKE b \in used'
    <3>2. b \in used /\ b \notin gone
      BY <1>9
    <3>3. PICK g \in File : \E s \in Z(g) : b = O(g, s)
      BY <1>4, <3>2
    <3>4. g # f
      BY <1>10, <3>2, <3>3
    <3>. QED BY <3>3, <3>4
  <2>4. \A b \in Block \ used' : disk'[b] = ZeroBlock
    BY <1>4, <1>9, <1>11
  <2>5. /\ \A g \in File : \A s, u \in Z(g) : O(g, s) = O(g, u) => s = u
        /\ \A g, k \in File : g # k => \A s \in Z(g), u \in Z(k) : O(g, s) # O(k, u)
    BY <1>4
  <2>. HIDE DEF Z, O, Y, K
  <2>6. \A g \in File : \A s \in Y(g) : K(g, s) \in used'
    BY <2>1, <2>2
  <2>7. \A g \in File : \A s, u \in Y(g) : K(g, s) = K(g, u) => s = u
    BY <2>1, <2>2, <2>5
  <2>8. \A g, k \in File : g # k => \A s \in Y(g), u \in Y(k) : K(g, s) # K(k, u)
    BY <2>1, <2>2, <2>5
  <2>9. \A b \in used' : \E g \in File : \E s \in Y(g) : b = K(g, s)
    BY <2>2, <2>3
  <2>. QED BY <2>4, <2>6, <2>7, <2>8, <2>9, Zenon DEF Sound, Y, K
<1>19. SizesFit'
  <2>1. \A g \in File : DataBlocks(inode[g].size) <= Indirect2Bound
    BY DEF FilesInv, SizesFit
  <2>2. 0 <= Indirect2Bound
    BY Bounds
  <2>. QED BY <1>13, <2>1, <2>2, NoBlocks DEF SizesFit
<1>20. ASSUME NEW g \in File, g # f, NEW p \in Nat, p < Start(DataBlocks(inode[g].size))
       PROVE  CellAt(disk', inode'[g], p) = CellAt(disk, inode[g], p)
  <2>1. DataSlot(Quo(p)) \in SlotsOf(inode[g])
    <3>1. inode[g].size \in Nat
      BY FileTypes DEF FilesInv
    <3>. QED BY <1>20, <3>1, HasBlock DEF SlotsOf
  <2>. QED BY <1>13, <1>16, <1>17, <1>20, <2>1 DEF CellAt
<1>21. TailsBlank'
  <2>1. ASSUME NEW g \in File, NEW p \in Nat, inode'[g].size <= p, p < Start(DataBlocks(inode'[g].size))
        PROVE  CellAt(disk', inode'[g], p) = 0
    <3>1. CASE g = f
      <4>1. Start(0) = 0
        BY Sizes DEF Start
      <4>2. p < 0
        BY <1>13, <2>1, <3>1, <4>1, NoBlocks
      <4>. QED BY <4>2
    <3>2. CASE g # f
      <4>1. CellAt(disk, inode[g], p) = 0
        BY <1>13, <2>1, <3>2 DEF FilesInv, TailsBlank
      <4>. QED BY <1>13, <1>20, <2>1, <3>2, <4>1
    <3>. QED BY <3>1, <3>2
  <2>. QED BY <2>1 DEF TailsBlank
<1>22. \A g \in File \ {f} : \A p \in Nat : p < inode[g].size => CellAt(disk', inode'[g], p) = CellAt(disk, inode[g], p)
  <2>1. \A g \in File : \A p \in Nat : p < inode[g].size => p < Start(DataBlocks(inode[g].size))
    <3>1. \A g \in File : inode[g].size \in Nat
      BY FileTypes DEF FilesInv
    <3>. QED BY <3>1, HasBlock
  <2>. QED BY <1>20, <2>1
<1>. QED BY <1>9, <1>13, <1>14, <1>15, <1>18, <1>19, <1>21, <1>22, Accounts DEF OthersKept

\* The length of a sequence that is given as a function.
LEMMA Length == ASSUME NEW m \in Nat, NEW s, DOMAIN s = 1 .. m PROVE Len(s) = m
  OBVIOUS

\* What read_at returns: up to the end of the file, and nothing beyond it.
LEMMA ReadLength ==
    ASSUME NEW d, NEW ino \in InodeSet, NEW offset \in Nat, NEW n \in Nat
    PROVE  /\ Len(ReadAt(d, ino, offset, n)) \in Nat
           /\ Len(ReadAt(d, ino, offset, n)) = Most(Least(offset + n, ino.size) - offset, 0)
<1>1. ino.size \in Nat
  BY DEF InodeSet
<1>2. PICK m \in Nat : m = Most(Least(offset + n, ino.size) - offset, 0)
  BY <1>1 DEF Most, Least
<1>3. DOMAIN ReadAt(d, ino, offset, n) = 1 .. m
  BY <1>2 DEF ReadAt
<1>. QED BY <1>2, <1>3, Length

\* The contents of a file, cell by cell.
LEMMA Contents ==
    ASSUME NEW d, NEW ino \in InodeSet
    PROVE  /\ ReadAt(d, ino, 0, ino.size) = [k \in 1 .. ino.size |-> CellAt(d, ino, k - 1)]
           /\ Len(ReadAt(d, ino, 0, ino.size)) = ino.size
<1>1. PICK size \in Nat : size = ino.size
  BY DEF InodeSet
<1>2. Most(Least(0 + size, size) - 0, 0) = size
  BY DEF Most, Least
<1>3. ASSUME NEW k \in 1 .. size
      PROVE  d[GetBlockId(d, ino, (0 + k - 1) \div Width)][(0 + k - 1) % Width] = CellAt(d, ino, k - 1)
  <2>1. PICK p \in Nat : p = k - 1 /\ 0 + k - 1 = p
    OBVIOUS
  <2>. QED BY <2>1, CellIs
<1>4. ReadAt(d, ino, 0, size)
      = [k \in 1 .. size |-> d[GetBlockId(d, ino, (0 + k - 1) \div Width)][(0 + k - 1) % Width]]
  BY <1>1, <1>2, Zenon DEF ReadAt
<1>5. ReadAt(d, ino, 0, size) = [k \in 1 .. size |-> CellAt(d, ino, k - 1)]
  BY <1>3, <1>4
<1>6. DOMAIN ReadAt(d, ino, 0, size) = 1 .. size
  BY <1>5
<1>7. Len(ReadAt(d, ino, 0, size)) = size
  BY <1>6, Length
<1>. QED BY <1>1, <1>5, <1>7

----------------------------------------------------------------------------
\* The actions preserve the invariant

\* A new file system has the invariant.
LEMMA Starts == Init => FilesInv
<1>. SUFFICES ASSUME Init PROVE FilesInv
  OBVIOUS
<1>1. NewInode \in InodeSet /\ NewInode.size = 0
  BY DEF NewInode, InodeSet
<1>2. ZeroBlock \in CellSet
  BY DEF ZeroBlock, CellSet
<1>3. FileTypesOK
  BY <1>1, <1>2 DEF Init, FileTypesOK, DiskSet
<1>4. \A f \in File : inode[f].size = 0
  BY <1>1 DEF Init
<1>5. SizesFit
  <2>1. 0 <= Indirect2Bound
    BY Bounds
  <2>. QED BY <1>4, <2>1, NoBlocks DEF SizesFit
<1>6. TailsBlank
  <2>1. Start(0) = 0
    BY Sizes DEF Start
  <2>. QED BY <1>4, <2>1, NoBlocks DEF TailsBlank
<1>7. Sound(inode, disk, used)
  <2>1. \A f \in File : SlotsOf(inode[f]) = {}
    BY <1>4, NoBlocks DEF SlotsOf
  <2>2. used = {} /\ \A b \in Block : disk[b] = ZeroBlock
    BY DEF Init
  <2>. QED BY <2>1, <2>2 DEF Sound
<1>8. OnlyLimitsPanic
  BY DEF Init, OnlyLimitsPanic
<1>. QED BY <1>3, <1>5, <1>6, <1>7, <1>8, Accounts DEF FilesInv

\* A step that leaves files and blocks alone.
LEMMA Same ==
    ASSUME FilesInv, UNCHANGED <<inode, disk, used>>,
           handle' \in [Handle -> OpenSet \cup {Closed}], OnlyLimitsPanic'
    PROVE  FilesInv'
<1>1. FileTypesOK'
  BY DEF FilesInv, FileTypesOK
<1>2. SizesFit' /\ TailsBlank'
  BY DEF FilesInv, SizesFit, TailsBlank
<1>3. BlocksAccounted'
  BY Accounts DEF FilesInv
<1>. QED BY <1>1, <1>2, <1>3 DEF FilesInv

\* open_file, with the clear of CREATE and TRUNC.
LEMMA OpenKeeps ==
    ASSUME FilesInv, NEW h \in Handle, NEW f \in File, NEW flags \in Flags, OpenFile(h, f, flags)
    PROVE  FilesInv'
<1>. DEFINE new == [file |-> f, offset |-> 0, readable |-> Readable(flags), writable |-> Writable(flags)]
<1>1. new \in OpenSet
  BY DEF OpenSet, Readable, Writable
<1>2. handle \in [Handle -> OpenSet \cup {Closed}] /\ OnlyLimitsPanic
  BY DEF FilesInv, FileTypesOK
<1>3. CASE flags \cap {"CREATE", "TRUNC"} # {}
  <2>1. ClearAndOpen(h, f, new)
    BY <1>3 DEF OpenFile
  <2>. HIDE DEF new
  <2>2. /\ inode' \in [File -> InodeSet] /\ disk' \in DiskSet /\ used' \subseteq 1 .. Area
        /\ SizesFit' /\ TailsBlank' /\ BlocksAccounted'
        /\ handle' = [handle EXCEPT ![h] = new] /\ panic' = panic
    BY <2>1, Cleared
  <2>3. handle' \in [Handle -> OpenSet \cup {Closed}]
    BY <1>1, <1>2, <2>2
  <2>4. OnlyLimitsPanic'
    BY <1>2, <2>2 DEF OnlyLimitsPanic
  <2>. QED BY <2>2, <2>3, <2>4 DEF FilesInv, FileTypesOK
<1>4. CASE flags \cap {"CREATE", "TRUNC"} = {}
  <2>1. handle' = [handle EXCEPT ![h] = new] /\ UNCHANGED <<inode, disk, used, panic>>
    BY <1>4 DEF OpenFile
  <2>. HIDE DEF new
  <2>2. handle' \in [Handle -> OpenSet \cup {Closed}]
    BY <1>1, <1>2, <2>1
  <2>3. OnlyLimitsPanic'
    BY <1>2, <2>1 DEF OnlyLimitsPanic
  <2>. QED BY <2>1, <2>2, <2>3, Same
<1>. QED BY <1>3, <1>4

\* sys_close changes no file.
LEMMA CloseKeeps == ASSUME FilesInv, NEW h \in Handle, Close(h) PROVE FilesInv'
<1>1. handle' \in [Handle -> OpenSet \cup {Closed}]
  BY DEF FilesInv, FileTypesOK, Close
<1>2. OnlyLimitsPanic'
  BY DEF FilesInv, OnlyLimitsPanic, Close
<1>. QED BY <1>1, <1>2, Same DEF Close

\* An open handle, and the same handle at another offset.
LEMMA Moves ==
    ASSUME FilesInv, NEW h \in Handle, handle[h] # Closed
    PROVE  /\ handle[h] \in OpenSet /\ handle[h].file \in File /\ handle[h].offset \in Nat
           /\ \A k \in Nat : LET moved == [handle EXCEPT ![h].offset = k] IN
                /\ moved \in [Handle -> OpenSet \cup {Closed}]
                /\ moved[h] # Closed /\ moved[h].file = handle[h].file /\ moved[h].offset = k
                /\ \A g \in Handle : g # h => moved[g] = handle[g]
<1>1. handle \in [Handle -> OpenSet \cup {Closed}]
  BY DEF FilesInv, FileTypesOK
<1>2. handle[h] \in OpenSet
  BY <1>1
<1>3. "none" \notin File /\ Closed.file = "none"
  BY InodesAssumption DEF Closed
<1>4. ASSUME NEW k \in Nat
      PROVE  LET moved == [handle EXCEPT ![h].offset = k] IN
             /\ moved \in [Handle -> OpenSet \cup {Closed}]
             /\ moved[h] # Closed /\ moved[h].file = handle[h].file /\ moved[h].offset = k
             /\ \A g \in Handle : g # h => moved[g] = handle[g]
  <2>. DEFINE moved == [handle EXCEPT ![h].offset = k]
  <2>1. moved[h] = [handle[h] EXCEPT !.offset = k] /\ \A g \in Handle : g # h => moved[g] = handle[g]
    BY <1>1
  <2>2. moved[h] \in OpenSet /\ moved[h].file = handle[h].file /\ moved[h].offset = k
    BY <1>2, <2>1 DEF OpenSet
  <2>3. moved = [g \in Handle |-> moved[g]]
    BY <1>1
  <2>. HIDE DEF moved
  <2>4. moved \in [Handle -> OpenSet \cup {Closed}]
    BY <1>1, <2>1, <2>2, <2>3
  <2>5. moved[h] # Closed
    BY <1>3, <2>2 DEF OpenSet
  <2>. QED BY <2>1, <2>2, <2>4, <2>5 DEF moved
<1>. QED BY <1>2, <1>4 DEF OpenSet

\* OSInode::read moves an offset only.
LEMMA ReadKeeps == ASSUME FilesInv, NEW h \in Handle, NEW n \in Lens, Read(h, n) PROVE FilesInv'
<1>. DEFINE f == handle[h].file
            k == handle[h].offset + Len(ReadAt(disk, inode[f], handle[h].offset, n))
<1>1. handle[h] # Closed /\ UNCHANGED <<inode, disk, used, panic>> /\ n \in Nat
  BY InodesAssumption DEF Read
<1>2. handle' = [handle EXCEPT ![h].offset = k]
  <2>1. handle \in [Handle -> OpenSet \cup {Closed}]
    BY DEF FilesInv, FileTypesOK
  <2>. QED BY <2>1 DEF Read
<1>3. f \in File /\ handle[h].offset \in Nat /\ inode[f] \in InodeSet
  BY <1>1, Moves, FileTypes DEF FilesInv
<1>4. k \in Nat
  BY <1>1, <1>3, ReadLength
<1>. HIDE DEF k, f
<1>5. handle' \in [Handle -> OpenSet \cup {Closed}]
  BY <1>1, <1>2, <1>4, Moves
<1>6. OnlyLimitsPanic'
  BY <1>1 DEF FilesInv, OnlyLimitsPanic
<1>. QED BY <1>1, <1>5, <1>6, Same

\* Running out of blocks and too large a file are all that goes wrong.
LEMMA Obstacles ==
    ASSUME FilesInv, NEW f \in File, NEW size \in Nat
    PROVE  Obstacle(inode[f], size) \in {"no", "full", "big"}
<1>. DEFINE ino == inode[f]
            needed == BlocksNumNeeded(ino, size)
            N == NewSlots(DataBlocks(ino.size), DataBlocks(size))
<1>1. ino.size \in Nat
  BY FileTypes DEF FilesInv
<1>2. ~(size < ino.size) => needed = Cardinality(N) /\ needed \in Nat
  BY <1>1, NeededCount DEF BlocksNumNeeded
<1>3. ~(size < ino.size) => ~(Cardinality(N) > needed)
  BY <1>2
<1>. QED BY <1>3 DEF Obstacle

\* OSInode::write, with the growth of the tree, or with one of the two limits as the panic.
LEMMA WriteKeeps == ASSUME FilesInv, NEW h \in Handle, NEW n \in Lens, NEW v \in Val, Write(h, n, v) PROVE FilesInv'
<1>. DEFINE f == handle[h].file
            offset == handle[h].offset
<1>1. handle[h] # Closed /\ n \in Nat
  BY InodesAssumption DEF Write
<1>2. f \in File /\ offset \in Nat /\ offset + n \in Nat
  BY <1>1, Moves
<1>3. handle \in [Handle -> OpenSet \cup {Closed}] /\ OnlyLimitsPanic
  BY DEF FilesInv, FileTypesOK
<1>4. CASE Obstacle(inode[f], offset + n) # "no"
  <2>1. panic' = Obstacle(inode[f], offset + n) /\ UNCHANGED <<inode, disk, used, handle>>
    BY <1>4 DEF Write, Panic
  <2>2. OnlyLimitsPanic'
    BY <1>2, <2>1, Obstacles DEF OnlyLimitsPanic
  <2>. QED BY <1>3, <2>1, <2>2, Same
<1>5. CASE Obstacle(inode[f], offset + n) = "no"
  <2>1. /\ inode' = [inode EXCEPT ![f] = Resized(inode[f], offset + n).ino]
        /\ disk' = WriteAt(Resized(inode[f], offset + n).disk, Resized(inode[f], offset + n).ino, offset, n, v)
        /\ used' = used \cup Range(NewBlocks(inode[f], offset + n))
        /\ handle' = [handle EXCEPT ![h].offset = offset + n] /\ panic' = panic
    BY <1>5 DEF Write
  <2>. HIDE DEF f, offset
  <2>2. /\ inode' \in [File -> InodeSet] /\ disk' \in DiskSet /\ used' \subseteq 1 .. Area
        /\ SizesFit' /\ TailsBlank' /\ BlocksAccounted'
    BY <1>1, <1>2, <1>5, <2>1, Written
  <2>3. handle' \in [Handle -> OpenSet \cup {Closed}]
    BY <1>1, <1>2, <2>1, Moves
  <2>4. OnlyLimitsPanic'
    BY <1>3, <2>1 DEF OnlyLimitsPanic
  <2>. QED BY <2>2, <2>3, <2>4 DEF FilesInv, FileTypesOK
<1>. QED BY <1>4, <1>5

\* Every step preserves the invariant.
LEMMA Keeps == FilesInv /\ [Next]_vars => FilesInv'
<1>. SUFFICES ASSUME FilesInv, [Next]_vars PROVE FilesInv'
  OBVIOUS
<1>1. CASE Next
  <2>1. PICK h \in Handle : \/ \E f \in File, flags \in Flags : OpenFile(h, f, flags)
                            \/ Close(h)
                            \/ \E n \in Lens : Read(h, n) \/ \E v \in Val : Write(h, n, v)
    BY <1>1 DEF Next
  <2>2. CASE \E f \in File, flags \in Flags : OpenFile(h, f, flags)
    BY <2>2, OpenKeeps
  <2>3. CASE Close(h)
    BY <2>3, CloseKeeps
  <2>4. CASE \E n \in Lens : Read(h, n) \/ \E v \in Val : Write(h, n, v)
    BY <2>4, ReadKeeps, WriteKeeps
  <2>. QED BY <2>1, <2>2, <2>3, <2>4
<1>2. CASE UNCHANGED vars
  BY <1>2, Same DEF vars, FilesInv, FileTypesOK, OnlyLimitsPanic
<1>. QED BY <1>1, <1>2

\* The invariant of the file contents: types, sizes, blank tails, trees and panics.
THEOREM FilesInvariance == Spec => []FilesInv
<1>. QED BY Starts, Keeps, PTL DEF Spec

\* Blocks are neither shared nor lost: BlocksAccounted holds for every tree and device.
THEOREM BlocksSafety == Spec => []BlocksAccounted
<1>1. FilesInv => BlocksAccounted
  BY DEF FilesInv
<1>. QED BY <1>1, FilesInvariance, PTL

\* The assertions and unwraps of the block tree never fail.
THEOREM PanicSafety == Spec => []OnlyLimitsPanic
<1>1. FilesInv => OnlyLimitsPanic
  BY DEF FilesInv
<1>. QED BY <1>1, FilesInvariance, PTL

----------------------------------------------------------------------------
\* Refinement

\* What PlainFiles sees of the files and of the handles.
ContentOf(in, d) == [f \in File |-> ReadAt(d, in[f], 0, in[f].size)]
PosOf(open) == [h \in Handle |-> IF open[h] = Closed THEN Closed
                                 ELSE [file |-> open[h].file, offset |-> open[h].offset]]

\* A sequence without elements is the empty one.
LEMMA EmptySequence == ASSUME NEW s, NEW e, s = [k \in 1 .. 0 |-> e[k]] PROVE s = <<>>
  OBVIOUS

\* Each file by its cells.
LEMMA CellsOf ==
    ASSUME NEW d, NEW ino \in InodeSet
    PROVE  ReadAt(d, ino, 0, ino.size) = [k \in 1 .. ino.size |-> CellAt(d, ino, k - 1)]
  BY Contents

\* A file has as many cells as its size says.
LEMMA LengthOf == ASSUME NEW d, NEW ino \in InodeSet PROVE Len(ReadAt(d, ino, 0, ino.size)) = ino.size
  BY Contents

\* The content of one file.
LEMMA ContentIs ==
    ASSUME NEW in, NEW d, NEW f \in File
    PROVE  ContentOf(in, d)[f] = ReadAt(d, in[f], 0, in[f].size)
  BY DEF ContentOf

\* A file of size zero is empty.
LEMMA EmptyRead ==
    ASSUME NEW d, NEW ino \in InodeSet
    PROVE  ino.size = 0 => ReadAt(d, ino, 0, ino.size) = <<>>
<1>. DEFINE s == ReadAt(d, ino, 0, ino.size)
<1>1. s = [k \in 1 .. ino.size |-> CellAt(d, ino, k - 1)]
  BY CellsOf
<1>. HIDE DEF s
<1>2. ASSUME ino.size = 0 PROVE s = <<>>
  <2>1. s = [k \in 1 .. 0 |-> s[k]]
    BY <1>1, <1>2
  <2>. QED BY <2>1, EmptySequence
<1>. QED BY <1>2 DEF s

\* A file whose size and cells are the same reads the same.
LEMMA SameRead ==
    ASSUME NEW d, NEW e, NEW ino \in InodeSet, \A p \in Nat : p < ino.size => CellAt(e, ino, p) = CellAt(d, ino, p)
    PROVE  ReadAt(e, ino, 0, ino.size) = ReadAt(d, ino, 0, ino.size)
<1>1. ino.size \in Nat
  BY DEF InodeSet
<1>2. \A k \in 1 .. ino.size : CellAt(e, ino, k - 1) = CellAt(d, ino, k - 1)
  <2>1. TAKE k \in 1 .. ino.size
  <2>2. k - 1 \in Nat /\ k - 1 < ino.size
    BY <1>1
  <2>. QED BY <2>2
<1>3. ReadAt(e, ino, 0, ino.size) = [k \in 1 .. ino.size |-> CellAt(e, ino, k - 1)]
  BY CellsOf
<1>4. ReadAt(d, ino, 0, ino.size) = [k \in 1 .. ino.size |-> CellAt(d, ino, k - 1)]
  BY CellsOf
<1>. QED BY <1>2, <1>3, <1>4

\* The other files read as before.
LEMMA OthersRead ==
    ASSUME inode \in [File -> InodeSet], NEW f \in File, OthersKept(f)
    PROVE  \A g \in File \ {f} : ContentOf(inode', disk')[g] = ContentOf(inode, disk)[g]
<1>1. TAKE g \in File \ {f}
<1>2. PICK ino \in InodeSet : ino = inode[g] /\ ino = inode'[g]
  BY DEF OthersKept
<1>3. \A p \in Nat : p < ino.size => CellAt(disk', ino, p) = CellAt(disk, ino, p)
  BY <1>2 DEF OthersKept
<1>4. ReadAt(disk', ino, 0, ino.size) = ReadAt(disk, ino, 0, ino.size)
  BY <1>3, SameRead
<1>5. /\ ContentOf(inode, disk)[g] = ReadAt(disk, inode[g], 0, inode[g].size)
      /\ ContentOf(inode', disk')[g] = ReadAt(disk', inode'[g], 0, inode'[g].size)
  BY DEF ContentOf
<1>. QED BY <1>2, <1>4, <1>5

\* open_file is the open of a plain file, emptied or not.
LEMMA OpenRefines ==
    ASSUME FilesInv, NEW h \in Handle, NEW f \in File, NEW flags \in Flags, OpenFile(h, f, flags)
    PROVE  Plain!POpen(h, f)
<1>. DEFINE new == [file |-> f, offset |-> 0, readable |-> Readable(flags), writable |-> Writable(flags)]
            C == ContentOf(inode, disk)
            D == ContentOf(inode', disk')
<1>1. new # Closed /\ new.file = f /\ new.offset = 0
  <2>1. Closed.file = "none" /\ "none" \notin File
    BY InodesAssumption DEF Closed
  <2>. QED BY <2>1
<1>2. handle \in [Handle -> OpenSet \cup {Closed}] /\ inode \in [File -> InodeSet]
  BY DEF FilesInv, FileTypesOK
<1>. HIDE DEF new
<1>3. ASSUME handle' = [handle EXCEPT ![h] = new]
      PROVE  PosOf(handle') = [PosOf(handle) EXCEPT ![h] = [file |-> f, offset |-> 0]]
  BY <1>1, <1>2, <1>3 DEF PosOf
<1>4. handle' = [handle EXCEPT ![h] = new] /\ D \in {C, [C EXCEPT ![f] = <<>>]}
  <2>1. CASE flags \cap {"CREATE", "TRUNC"} # {}
    <3>1. ClearAndOpen(h, f, new)
      BY <2>1 DEF OpenFile, new
    <3>2. /\ inode' \in [File -> InodeSet] /\ handle' = [handle EXCEPT ![h] = new] /\ inode'[f].size = 0
          /\ OthersKept(f)
      BY <3>1, Cleared
    <3>3. \A g \in File \ {f} : D[g] = C[g]
      BY <1>2, <3>2, OthersRead
    <3>4. D[f] = <<>>
      <4>1. PICK ino \in InodeSet : ino = inode'[f] /\ ino.size = 0
        BY <3>2
      <4>2. ReadAt(disk', ino, 0, ino.size) = <<>>
        BY <4>1, EmptyRead
      <4>. QED BY <4>1, <4>2, ContentIs
    <3>5. C = [g \in File |-> C[g]] /\ D = [g \in File |-> D[g]]
      BY DEF ContentOf
    <3>. HIDE DEF C, D
    <3>6. D = [C EXCEPT ![f] = <<>>]
      BY <3>3, <3>4, <3>5
    <3>. QED BY <3>2, <3>6
  <2>2. CASE flags \cap {"CREATE", "TRUNC"} = {}
    <3>1. handle' = [handle EXCEPT ![h] = new] /\ UNCHANGED <<inode, disk>>
      BY <2>2 DEF OpenFile, new
    <3>2. D = C
      BY <3>1
    <3>. QED BY <3>1, <3>2
  <2>. QED BY <2>1, <2>2
<1>5. PosOf(handle)[h] = Closed
  BY DEF PosOf, OpenFile
<1>. QED BY <1>3, <1>4, <1>5 DEF Plain!POpen, ContentOf, PosOf

\* sys_close is the close of a plain file.
LEMMA CloseRefines == ASSUME FilesInv, NEW h \in Handle, Close(h) PROVE Plain!PClose(h)
<1>1. handle \in [Handle -> OpenSet \cup {Closed}]
  BY DEF FilesInv, FileTypesOK
<1>2. PosOf(handle') = [PosOf(handle) EXCEPT ![h] = Closed]
  BY <1>1 DEF PosOf, Close
<1>3. ContentOf(inode', disk') = ContentOf(inode, disk)
  BY DEF Close
<1>. QED BY <1>2, <1>3 DEF Plain!PClose, ContentOf, PosOf

\* The position of a handle that moves.
LEMMA PosMoves ==
    ASSUME FilesInv, NEW h \in Handle, handle[h] # Closed, NEW k \in Nat, handle' = [handle EXCEPT ![h].offset = k]
    PROVE  /\ PosOf(handle)[h] = [file |-> handle[h].file, offset |-> handle[h].offset]
           /\ PosOf(handle)[h] # Closed
           /\ PosOf(handle') = [PosOf(handle) EXCEPT ![h].offset = k]
<1>. DEFINE P == PosOf(handle)
            Q == PosOf(handle')
<1>1. /\ handle[h].file \in File /\ handle'[h] # Closed /\ handle'[h].file = handle[h].file /\ handle'[h].offset = k
      /\ \A g \in Handle : g # h => handle'[g] = handle[g]
  BY Moves
<1>2. P[h] = [file |-> handle[h].file, offset |-> handle[h].offset]
  BY DEF PosOf
<1>3. P[h] # Closed
  <2>1. Closed.file = "none" /\ "none" \notin File
    BY InodesAssumption DEF Closed
  <2>2. P[h].file = handle[h].file
    BY <1>2
  <2>. QED BY <1>1, <2>1, <2>2
<1>4. Q[h] = [file |-> handle[h].file, offset |-> k]
  BY <1>1 DEF PosOf
<1>5. \A g \in Handle : g # h => Q[g] = P[g]
  BY <1>1 DEF PosOf
<1>6. P = [g \in Handle |-> P[g]] /\ Q = [g \in Handle |-> Q[g]]
  BY DEF PosOf
<1>. HIDE DEF P, Q
<1>7. [P[h] EXCEPT !.offset = k] = [file |-> handle[h].file, offset |-> k]
  BY <1>2
<1>8. Q = [P EXCEPT ![h] = [P[h] EXCEPT !.offset = k]]
  BY <1>4, <1>5, <1>6, <1>7
<1>9. Q = [P EXCEPT ![h].offset = k]
  BY <1>8
<1>. QED BY <1>2, <1>3, <1>9 DEF P, Q

\* OSInode::read returns the cells of the plain file and moves behind them.
LEMMA ReadRefines == ASSUME FilesInv, NEW h \in Handle, NEW n \in Lens, Read(h, n) PROVE Plain!PRead(h, n)
<1>. DEFINE f == handle[h].file
            offset == handle[h].offset
            k == offset + Len(ReadAt(disk, inode[f], offset, n))
            P == PosOf(handle)
            Q == PosOf(handle')
            C == ContentOf(inode, disk)
            D == ContentOf(inode', disk')
<1>1. handle[h] # Closed /\ UNCHANGED <<inode, disk, used, panic>> /\ n \in Nat
  BY InodesAssumption DEF Read
<1>2. handle' = [handle EXCEPT ![h].offset = k]
  <2>1. handle \in [Handle -> OpenSet \cup {Closed}]
    BY DEF FilesInv, FileTypesOK
  <2>. QED BY <2>1 DEF Read
<1>3. f \in File /\ offset \in Nat /\ inode[f] \in InodeSet
  BY <1>1, Moves, FileTypes DEF FilesInv
<1>4. k \in Nat /\ k = offset + Most(Least(offset + n, inode[f].size) - offset, 0)
  BY <1>1, <1>3, ReadLength
<1>5. D = C
  BY <1>1
<1>6. Len(C[f]) = inode[f].size /\ inode[f].size \in Nat
  <2>1. inode \in [File -> InodeSet]
    BY DEF FilesInv, FileTypesOK
  <2>2. PICK g \in File : g = f
    BY <1>3
  <2>3. PICK ino \in InodeSet : ino = inode[g] /\ ino.size \in Nat
    BY <2>1 DEF InodeSet
  <2>4. Len(ReadAt(disk, ino, 0, ino.size)) = ino.size
    BY LengthOf
  <2>. QED BY <2>2, <2>3, <2>4, ContentIs
<1>. HIDE DEF k, f, offset
<1>7. P[h] = [file |-> f, offset |-> offset] /\ P[h] # Closed /\ Q = [P EXCEPT ![h].offset = k]
  BY <1>1, <1>2, <1>4, PosMoves DEF f, offset
<1>. HIDE DEF P, Q, C, D
<1>8. P[h].file = f /\ P[h].offset = offset
  BY <1>7
<1>9. k = Plain!Longer(offset, IF offset + n > Len(C[f]) THEN Len(C[f]) ELSE offset + n)
  BY <1>1, <1>3, <1>4, <1>6 DEF Plain!Longer, Most, Least
<1>10. Q = [P EXCEPT ![h].offset = Plain!Longer(P[h].offset, IF P[h].offset + n > Len(C[P[h].file])
                                                             THEN Len(C[P[h].file]) ELSE P[h].offset + n)]
  BY <1>7, <1>8, <1>9
<1>. QED BY <1>5, <1>7, <1>10 DEF Plain!PRead, P, Q, C, D, ContentOf, PosOf

\* A file after a write, as PlainFiles has it.
LEMMA PatchedRead ==
    ASSUME NEW d, NEW e, NEW ino \in InodeSet, NEW out \in InodeSet,
           NEW offset \in Nat, NEW to \in Nat, NEW v, CellsPatched(d, ino, e, out, offset, to, v)
    PROVE  ReadAt(e, out, 0, out.size) = Plain!Patched(ReadAt(d, ino, 0, ino.size), offset, to, v)
<1>. DEFINE s == ReadAt(d, ino, 0, ino.size)
            r == ReadAt(e, out, 0, out.size)
<1>1. s = [i \in 1 .. ino.size |-> CellAt(d, ino, i - 1)]
  BY CellsOf
<1>2. r = [i \in 1 .. out.size |-> CellAt(e, out, i - 1)]
  BY CellsOf
<1>3. Len(s) = ino.size
  BY LengthOf
<1>. HIDE DEF s, r
<1>. SUFFICES ASSUME out.size = Most(to, ino.size),
                     \A p \in Nat : p < out.size =>
                        CellAt(e, out, p) = IF offset <= p /\ p < to THEN v
                                            ELSE IF p < ino.size THEN CellAt(d, ino, p) ELSE 0
              PROVE  r = Plain!Patched(s, offset, to, v)
  BY DEF r, s, CellsPatched
<1>4. PICK m \in Nat, k \in Nat : m = ino.size /\ k = out.size
  BY DEF InodeSet
<1>5. Plain!Patched(s, offset, to, v)
      = [i \in 1 .. Plain!Longer(Len(s), to) |->
            IF offset < i /\ i <= to THEN v ELSE IF i <= Len(s) THEN s[i] ELSE 0]
  BY DEF Plain!Patched
<1>6. Plain!Longer(Len(s), to) = k
  BY <1>3, <1>4 DEF Plain!Longer, Most
<1>7. ASSUME NEW i \in 1 .. k
      PROVE  r[i] = IF offset < i /\ i <= to THEN v ELSE IF i <= Len(s) THEN s[i] ELSE 0
  <2>1. PICK p \in Nat : p = i - 1 /\ p < k
    BY <1>7
  <2>2. r[i] = CellAt(e, out, p)
    BY <1>2, <1>4, <2>1
  <2>3. i <= m => s[i] = CellAt(d, ino, p)
    BY <1>1, <1>4, <2>1
  <2>4. CellAt(e, out, p) = IF offset <= p /\ p < to THEN v
                            ELSE IF p < ino.size THEN CellAt(d, ino, p) ELSE 0
    BY <1>4, <2>1
  <2>5. (offset <= p /\ p < to <=> offset < i /\ i <= to) /\ (p < m <=> i <= m)
    BY <2>1
  <2>. QED BY <1>3, <1>4, <2>2, <2>3, <2>4, <2>5
<1>8. r = [i \in 1 .. k |-> r[i]]
  BY <1>2, <1>4
<1>. QED BY <1>5, <1>6, <1>7, <1>8

\* OSInode::write is the write of a plain file, also behind its end, or a panic.
LEMMA WriteRefines ==
    ASSUME FilesInv, NEW h \in Handle, NEW n \in Lens, NEW v \in Val, Write(h, n, v)
    PROVE  Plain!PWrite(h, n, v) \/ UNCHANGED <<inode, disk, handle>>
<1>. DEFINE f == handle[h].file
            offset == handle[h].offset
            P == PosOf(handle)
            Q == PosOf(handle')
            C == ContentOf(inode, disk)
            D == ContentOf(inode', disk')
<1>1. handle[h] # Closed /\ n \in Nat
  BY InodesAssumption DEF Write
<1>2. f \in File /\ offset \in Nat /\ offset + n \in Nat /\ inode \in [File -> InodeSet]
  BY <1>1, Moves DEF FilesInv, FileTypesOK
<1>3. CASE Obstacle(inode[f], offset + n) # "no"
  BY <1>3 DEF Write, Panic
<1>4. CASE Obstacle(inode[f], offset + n) = "no"
  <2>1. /\ inode' = [inode EXCEPT ![f] = Resized(inode[f], offset + n).ino]
        /\ disk' = WriteAt(Resized(inode[f], offset + n).disk, Resized(inode[f], offset + n).ino, offset, n, v)
        /\ used' = used \cup Range(NewBlocks(inode[f], offset + n))
        /\ handle' = [handle EXCEPT ![h].offset = offset + n]
    BY <1>4 DEF Write
  <2>2. P[h] = [file |-> f, offset |-> offset] /\ P[h] # Closed /\ Q = [P EXCEPT ![h].offset = offset + n]
    BY <1>1, <1>2, <2>1, PosMoves
  <2>. HIDE DEF f, offset
  <2>0. inode' \in [File -> InodeSet]
    BY <1>1, <1>2, <1>4, <2>1, Written
  <2>3. CellsPatched(disk, inode[f], disk', inode'[f], offset, offset + n, v)
    BY <1>1, <1>2, <1>4, <2>1, Written
  <2>4. \A g \in File \ {f} : D[g] = C[g]
    <3>1. OthersKept(f)
      BY <1>1, <1>2, <1>4, <2>1, Written
    <3>. QED BY <1>2, <3>1, OthersRead
  <2>5. D[f] = Plain!Patched(C[f], offset, offset + n, v)
    <3>1. PICK to \in Nat : to = offset + n
      BY <1>2
    <3>2. PICK ino \in InodeSet, out \in InodeSet : ino = inode[f] /\ out = inode'[f]
      BY <1>2, <2>0
    <3>3. CellsPatched(disk, ino, disk', out, offset, to, v)
      BY <2>3, <3>1, <3>2
    <3>4. ReadAt(disk', out, 0, out.size) = Plain!Patched(ReadAt(disk, ino, 0, ino.size), offset, to, v)
      BY <1>2, <3>3, PatchedRead
    <3>5. C[f] = ReadAt(disk, ino, 0, ino.size) /\ D[f] = ReadAt(disk', out, 0, out.size)
      BY <1>2, <3>2 DEF ContentOf
    <3>. QED BY <3>1, <3>4, <3>5
  <2>6. C = [g \in File |-> C[g]] /\ D = [g \in File |-> D[g]]
    BY DEF ContentOf
  <2>. HIDE DEF C, D, P, Q
  <2>7. P[h].file = f /\ P[h].offset = offset
    BY <2>2
  <2>8. D = [C EXCEPT ![f] = Plain!Patched(C[f], offset, offset + n, v)]
    BY <1>2, <2>4, <2>5, <2>6
  <2>9. /\ P[h] # Closed
        /\ Q = [P EXCEPT ![h].offset = P[h].offset + n]
        /\ D = [C EXCEPT ![P[h].file] = Plain!Patched(C[P[h].file], P[h].offset, P[h].offset + n, v)]
    BY <2>2, <2>7, <2>8
  <2>10. Plain!PWrite(h, n, v)
    BY <2>9 DEF Plain!PWrite, P, Q, C, D, ContentOf, PosOf
  <2>. QED BY <2>10
<1>. QED BY <1>3, <1>4

\* Every step is a step of plain files, or none.
LEMMA FilesRefine == FilesInv /\ [Next]_vars => [Plain!PNext]_(Plain!pvars)
<1>. SUFFICES ASSUME FilesInv, [Next]_vars PROVE [Plain!PNext]_(Plain!pvars)
  OBVIOUS
<1>1. CASE UNCHANGED <<inode, disk, handle>>
  BY <1>1 DEF Plain!pvars
<1>2. CASE UNCHANGED vars
  BY <1>1, <1>2 DEF vars
<1>3. CASE Next
  <2>1. PICK h \in Handle : \/ \E f \in File, flags \in Flags : OpenFile(h, f, flags)
                            \/ Close(h)
                            \/ \E n \in Lens : Read(h, n) \/ \E v \in Val : Write(h, n, v)
    BY <1>3 DEF Next
  <2>2. CASE \E f \in File, flags \in Flags : OpenFile(h, f, flags)
    <3>1. \E f \in File : Plain!POpen(h, f)
      BY <2>2, OpenRefines
    <3>. QED BY <3>1 DEF Plain!PNext
  <2>3. CASE Close(h)
    BY <2>3, CloseRefines DEF Plain!PNext
  <2>4. CASE \E n \in Lens : Read(h, n)
    <3>1. \E n \in Lens : Plain!PRead(h, n)
      BY <2>4, ReadRefines
    <3>. QED BY <3>1 DEF Plain!PNext
  <2>5. CASE \E n \in Lens : \E v \in Val : Write(h, n, v)
    <3>1. (\E n \in Lens : \E v \in Val : Plain!PWrite(h, n, v)) \/ UNCHANGED <<inode, disk, handle>>
      BY <2>5, WriteRefines
    <3>. QED BY <1>1, <3>1 DEF Plain!PNext
  <2>. QED BY <2>1, <2>2, <2>3, <2>4, <2>5
<1>. QED BY <1>2, <1>3

\* The block trees implement plain files: every operation on the trees, the bitmap and the
\* handles is the operation on a sequence of cells, or changes nothing a program sees.
THEOREM FilesRefinement == Spec => PlainSpec
<1>1. Init => Plain!PInit
  <2>. SUFFICES ASSUME Init PROVE Plain!PInit
    OBVIOUS
  <2>1. inode \in [File -> InodeSet] /\ \A f \in File : inode[f].size = 0
    BY DEF Init, NewInode, InodeSet
  <2>2. \A f \in File : ContentOf(inode, disk)[f] = <<>>
    BY <2>1, EmptyRead, ContentIs
  <2>3. ContentOf(inode, disk) = [f \in File |-> <<>>]
    BY <2>2 DEF ContentOf
  <2>4. PosOf(handle) = [h \in Handle |-> Closed]
    BY DEF Init, PosOf
  <2>. QED BY <2>3, <2>4 DEF Plain!PInit, ContentOf, PosOf
<1>. QED BY <1>1, FilesRefine, FilesInvariance, PTL DEF Spec, PlainSpec, Plain!PSpec
=============================================================================
