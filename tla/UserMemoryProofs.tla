-------------------------- MODULE UserMemoryProofs --------------------------
(***************************************************************************)
(* Proofs about module UserMemory for any page size and size of a usize,   *)
(* any page table, pointers and lengths: which physical bytes of a process *)
(* the kernel touches when it moves a buffer, reads a string or uses a     *)
(* pointer to a structure.                                                 *)
(***************************************************************************)
EXTENDS UserMemory, Integers, TLAPS

\* Base(p, i) is where the page of slice i begins, for a buffer that starts at p, and
\* From(p, i) where the slice does.
Base(p, i) == (Floor(p) + i - 1) * PageSize
From(p, i) == IF i = 1 THEN p ELSE Base(p, i)

SliceSet == [frame : Nat, from : Nat, to : Nat]

TypeInv ==
    /\ pt \in PageTables
    /\ phase \in {"user", "slicing", "moving", "string", "panic",
                 "pushing", "started", "main"}
    /\ call \in [op : {"none", "buffer", "first", "ref", "string"}, ptr : Nat, len : Nat]
    /\ start \in Nat /\ slices \in Seq(SliceSet)
    /\ current \in [buffer : Nat, idx : Nat] /\ touched \in Seq(Nat)

\* What each phase knows of its call.
CallOK ==
    /\ phase = "slicing" => call.op \in {"buffer", "first"} /\ touched = <<>> /\ current = AtFirst
    /\ phase = "moving" => call.op = "buffer" /\ start = End
    /\ phase = "string" => call.op = "string" /\ start = call.ptr + Len(touched)
    /\ phase \in {"pushing", "started", "main"} => call = NoCall
    /\ call.op \in {"first", "ref"} =>
         /\ call.len \in Structs /\ \E p \in 0 .. (Pages * PageSize) \div Word : call.ptr = p * Word
         /\ touched # <<>> => Mapped(call.ptr) /\ touched = Run(Translate(call.ptr), call.len)

\* The slices are the pages of the buffer from its pointer up to start, in order.
Tiled ==
    phase \in {"slicing", "moving"} =>
       /\ call.ptr <= start /\ start <= End
       /\ slices = <<>> => start = call.ptr
       /\ slices # <<>> =>
            /\ From(call.ptr, Len(slices)) < start
            /\ start = IF Base(call.ptr, Len(slices) + 1) < End
                       THEN Base(call.ptr, Len(slices) + 1) ELSE End
       /\ \A i \in 1 .. Len(slices) :
            /\ Floor(call.ptr) + i - 1 < Pages /\ pt[Floor(call.ptr) + i - 1] # 0
            /\ slices[i].frame = pt[Floor(call.ptr) + i - 1]
            /\ slices[i].from = From(call.ptr, i) - Base(call.ptr, i)
            /\ slices[i].to = IF i = Len(slices) THEN start - Base(call.ptr, i) ELSE PageSize

\* The iterator is at the byte behind those it has yielded.
Walked ==
    phase = "moving" =>
       /\ current.buffer \in 1 .. Len(slices) + 1
       /\ current.buffer <= Len(slices) =>
            /\ slices[current.buffer].from + current.idx < slices[current.buffer].to
            /\ call.ptr + Len(touched) = From(call.ptr, current.buffer) + current.idx
       /\ current.buffer > Len(slices) => Len(touched) = call.len

IInv == TypeInv /\ CallOK /\ Tiled /\ Walked /\ BufferExact

----------------------------------------------------------------------------
\* Addresses.

\* The constants, one by one.
LEMMA Sizes ==
    /\ PageSize \in Nat \ {0} /\ Word \in Nat \ {0} /\ Pages \in Nat /\ MaxLen \in Nat
    /\ Frames \subseteq Nat /\ Structs \subseteq Nat \ {0}
BY UserMemoryAssumption

\* Page number and offset of an address.
LEMMA DivMod ==
    ASSUME NEW a \in Nat
    PROVE  /\ Floor(a) \in Nat /\ PageOffset(a) \in 0 .. PageSize - 1
           /\ a = Floor(a) * PageSize + PageOffset(a)
<1>. DEFINE q == a \div PageSize
            r == a % PageSize
<1>1. q \in Int /\ r \in 0 .. PageSize - 1 /\ a = q * PageSize + r /\ PageSize \in Nat \ {0}
  BY Sizes, Z3
<1>. HIDE DEF q, r
<1>2. ASSUME q <= -1 PROVE FALSE
  <2>1. q * PageSize <= -PageSize
    BY <1>1, <1>2, Z3
  <2>. QED BY <1>1, <2>1
<1>. QED BY <1>1, <1>2 DEF Floor, PageOffset, q, r

\* There is one way to write an address as page and offset.
LEMMA OneWay ==
    ASSUME NEW a \in Nat, NEW q \in Nat, NEW r \in 0 .. PageSize - 1, a = q * PageSize + r
    PROVE  Floor(a) = q /\ PageOffset(a) = r
<1>. DEFINE x == Floor(a)
            y == PageOffset(a)
<1>1. x \in Nat /\ y \in 0 .. PageSize - 1 /\ a = x * PageSize + y /\ PageSize \in Nat \ {0}
  BY DivMod, Sizes
<1>. HIDE DEF x, y
<1>2. ASSUME x < q PROVE FALSE
  <2>1. (x + 1) * PageSize <= q * PageSize
    BY <1>1, <1>2, Z3
  <2>2. (x + 1) * PageSize = x * PageSize + PageSize
    BY <1>1, Z3
  <2>3. x * PageSize \in Nat /\ q * PageSize \in Nat
    BY <1>1, Z3
  <2>. QED BY <1>1, <2>1, <2>2, <2>3
<1>3. ASSUME q < x PROVE FALSE
  <2>1. (q + 1) * PageSize <= x * PageSize
    BY <1>1, <1>3, Z3
  <2>2. (q + 1) * PageSize = q * PageSize + PageSize
    BY <1>1, Z3
  <2>3. x * PageSize \in Nat /\ q * PageSize \in Nat
    BY <1>1, Z3
  <2>. QED BY <1>1, <2>1, <2>2, <2>3
<1>4. x = q
  BY <1>1, <1>2, <1>3
<1>5. y = r
  <2>1. q * PageSize \in Nat
    BY <1>1, Z3
  <2>. QED BY <1>1, <1>4, <2>1
<1>. QED BY <1>4, <1>5 DEF x, y

\* The pages of a buffer follow one another.
LEMMA Bases ==
    ASSUME NEW p \in Nat, NEW i \in Nat \ {0}
    PROVE  /\ Base(p, i) \in Nat /\ Base(p, i + 1) = Base(p, i) + PageSize
           /\ Base(p, 1) <= p /\ p < Base(p, 2)
           /\ \A k \in 0 .. PageSize - 1 :
                 Floor(Base(p, i) + k) = Floor(p) + i - 1 /\ PageOffset(Base(p, i) + k) = k
<1>. DEFINE f == Floor(p)
            q == f + i - 1
<1>1. f \in Nat /\ PageOffset(p) \in 0 .. PageSize - 1 /\ p = f * PageSize + PageOffset(p)
      /\ PageSize \in Nat \ {0} /\ q \in Nat
  BY DivMod, Sizes
<1>2. Base(p, i) = q * PageSize /\ Base(p, i + 1) = (q + 1) * PageSize
      /\ Base(p, 1) = f * PageSize /\ Base(p, 2) = (f + 1) * PageSize
  <2>1. f + (i + 1) - 1 = q + 1 /\ f + 1 - 1 = f /\ f + 2 - 1 = f + 1
    BY <1>1
  <2>. QED BY <2>1 DEF Base
<1>. HIDE DEF q, f
<1>3. q * PageSize \in Nat /\ f * PageSize \in Nat /\ (q + 1) * PageSize = q * PageSize + PageSize
      /\ (f + 1) * PageSize = f * PageSize + PageSize
  BY <1>1, Z3
<1>4. ASSUME NEW k \in 0 .. PageSize - 1
      PROVE  Floor(q * PageSize + k) = q /\ PageOffset(q * PageSize + k) = k
  <2>1. PICK a \in Nat : a = q * PageSize + k
    BY <1>1, <1>3
  <2>2. Floor(a) = q /\ PageOffset(a) = k
    BY <1>1, <2>1, OneWay
  <2>. QED BY <2>1, <2>2
<1>. QED BY <1>1, <1>2, <1>3, <1>4 DEF q, f

\* The page table has a frame for a mapped address.
LEMMA FrameType ==
    ASSUME TypeInv, NEW va \in Nat, Mapped(va)
    PROVE  pt[Floor(va)] \in Nat /\ Translate(va) \in Nat
<1>1. Floor(va) \in 0 .. Pages - 1 /\ PageOffset(va) \in Nat /\ PageSize \in Nat
  BY DivMod, Sizes DEF Mapped
<1>2. pt[Floor(va)] \in Nat
  <2>1. pt \in [0 .. Pages - 1 -> Frames \cup {0}] /\ Frames \cup {0} \subseteq Nat
    BY Sizes DEF TypeInv, PageTables
  <2>. QED BY <1>1, <2>1
<1>. DEFINE f == pt[Floor(va)]
<1>. HIDE DEF f
<1>3. f * PageSize \in Nat
  BY <1>1, <1>2, Z3 DEF f
<1>. QED BY <1>1, <1>2, <1>3 DEF Translate, f

\* A byte more.
LEMMA NextByte ==
    ASSUME NEW p \in Nat, NEW t \in Seq(Nat), t = Meant(p, Len(t)),
           NEW x \in Nat, x = Translate(p + Len(t))
    PROVE  /\ Append(t, x) \in Seq(Nat) /\ Len(Append(t, x)) = Len(t) + 1
           /\ Append(t, x) = Meant(p, Len(t) + 1)
<1>. DEFINE n == Len(t)
            m == Meant(p, n + 1)
<1>1. n \in Nat /\ Append(t, x) \in Seq(Nat) /\ Len(Append(t, x)) = n + 1
      /\ DOMAIN Append(t, x) = 1 .. n + 1
  OBVIOUS
<1>2. DOMAIN m = 1 .. n + 1 /\ \A k \in 1 .. n + 1 : m[k] = Translate(p + k - 1)
  BY DEF Meant
<1>3. \A k \in 1 .. n : t[k] = Translate(p + k - 1)
  BY <1>1 DEF Meant
<1>4. p + (n + 1) - 1 = p + n
  BY <1>1
<1>5. ASSUME NEW k \in 1 .. n + 1 PROVE Append(t, x)[k] = m[k]
  <2>1. CASE k = n + 1
    BY <1>1, <1>2, <1>4, <2>1
  <2>2. CASE k # n + 1
    <3>1. k \in 1 .. n
      BY <1>1, <2>2
    <3>. QED BY <1>1, <1>2, <1>3, <3>1
  <2>. QED BY <2>1, <2>2
<1>6. m = [k \in 1 .. n + 1 |-> m[k]] /\ Append(t, x) = [k \in 1 .. n + 1 |-> Append(t, x)[k]]
  BY <1>1 DEF Meant
<1>. HIDE DEF m, n
<1>7. Append(t, x) = m
  BY <1>5, <1>6
<1>. QED BY <1>1, <1>7 DEF m, n

\* No bytes.
LEMMA NoBytes ==
    /\ \A p : Meant(p, 0) = <<>>
    /\ <<>> \in Seq(Nat) /\ <<>> \in Seq(SliceSet) /\ Len(<<>>) = 0
    /\ AtFirst \in [buffer : Nat, idx : Nat] /\ AtFirst.buffer = 1 /\ AtFirst.idx = 0
BY DEF Meant, AtFirst

----------------------------------------------------------------------------
\* The steps.

\* A call that will slice a buffer or read a string.
LEMMA BeginStep ==
    ASSUME IInv, NEW op \in {"buffer", "first", "string"}, NEW ptr \in Nat, NEW len \in Nat,
           NEW to, to = (IF op = "string" THEN "string" ELSE "slicing"), Begin(op, ptr, len, to),
           op = "first" => len \in Structs /\ \E p \in 0 .. (Pages * PageSize) \div Word : ptr = p * Word
    PROVE  IInv'
<1>1. /\ phase' = to /\ call' = [op |-> op, ptr |-> ptr, len |-> len] /\ start' = ptr
      /\ slices' = <<>> /\ current' = AtFirst /\ touched' = <<>> /\ pt' = pt
  BY DEF Begin
<1>2. call'.op = op /\ call'.ptr = ptr /\ call'.len = len /\ End' = ptr + len
  BY <1>1 DEF End
<1>3. TypeInv'
  BY <1>1, NoBytes DEF IInv, TypeInv
<1>4. CallOK'
  BY <1>1, <1>2, NoBytes DEF CallOK, NoCall
<1>5. Tiled' /\ Walked'
  BY <1>1, <1>2, NoBytes DEF Tiled, Walked
<1>6. BufferExact'
  <2>1. Meant(call.ptr, Len(touched))' = <<>>
    BY <1>1, NoBytes DEF Meant
  <2>. QED BY <1>1, <2>1 DEF BufferExact
<1>. QED BY <1>3, <1>4, <1>5, <1>6 DEF IInv

\* A pointer to a structure is used at once.
LEMMA RefStep ==
    ASSUME IInv, NEW p \in 0 .. (Pages * PageSize) \div Word, NEW len \in Structs, RefCall(p * Word, len)
    PROVE  IInv'
<1>. DEFINE ptr == p * Word
<1>1. p \in Nat /\ len \in Nat /\ Word \in Nat
  BY Sizes
<1>2. ptr \in Nat
  BY <1>1, Z3
<1>3. /\ call' = [op |-> "ref", ptr |-> ptr, len |-> len] /\ start' = ptr /\ slices' = <<>>
      /\ current' = AtFirst /\ pt' = pt /\ phase' \in {"user", "panic"}
      /\ \/ Mapped(ptr) /\ touched' = Run(Translate(ptr), len)
         \/ touched' = <<>>
  BY DEF RefCall
<1>4. ptr = p * Word
  OBVIOUS
<1>. HIDE DEF ptr
<1>5. call'.op = "ref" /\ call'.ptr = ptr /\ call'.len = len
  BY <1>3
<1>6. touched' \in Seq(Nat)
  <2>1. CASE touched' = <<>>
    BY <2>1, NoBytes
  <2>2. CASE Mapped(ptr) /\ touched' = Run(Translate(ptr), len)
    <3>1. PICK t \in Nat : t = Translate(ptr)
      BY <1>2, <2>2, FrameType DEF IInv
    <3>2. touched' = [k \in 1 .. len |-> t + k - 1]
      BY <2>2, <3>1 DEF Run
    <3>3. touched' \in [1 .. len -> Nat]
      BY <1>1, <3>2
    <3>. QED BY <1>1, <3>3
  <2>. QED BY <1>3, <2>1, <2>2
<1>7. TypeInv'
  BY <1>1, <1>2, <1>3, <1>6, NoBytes DEF IInv, TypeInv
<1>8. CallOK'
  BY <1>3, <1>4, <1>5 DEF CallOK, Mapped, Translate
<1>9. Tiled' /\ Walked' /\ BufferExact'
  BY <1>3, <1>5 DEF Tiled, Walked, BufferExact
<1>. QED BY <1>7, <1>8, <1>9 DEF IInv

\* Where the next slice begins and ends.
LEMMA NextSlice ==
    ASSUME IInv, phase = "slicing", start < End, NEW n, n = Len(slices),
           NEW b, b = Base(call.ptr, n + 1)
    PROVE  /\ n \in Nat /\ b \in Nat /\ b <= start /\ start < b + PageSize /\ start = From(call.ptr, n + 1)
           /\ Base(call.ptr, n + 2) = b + PageSize /\ (Floor(start) + 1) * PageSize = b + PageSize
           /\ Floor(start) = Floor(call.ptr) + n /\ PageOffset(start) = start - b
           /\ \A end \in Nat : b < end /\ end <= b + PageSize => SliceEnd(end) = end - b
           /\ n > 0 => start - Base(call.ptr, n) = PageSize
<1>. DEFINE p == call.ptr
<1>1. p \in Nat /\ start \in Nat /\ slices \in Seq(SliceSet) /\ n \in Nat /\ PageSize \in Nat \ {0}
      /\ End \in Nat
  BY Sizes DEF IInv, TypeInv, End
<1>2. /\ slices = <<>> => start = p
      /\ slices # <<>> => start = IF Base(p, n + 1) < End THEN Base(p, n + 1) ELSE End
  BY DEF IInv, Tiled
<1>3. n = 0 <=> slices = <<>>
  BY <1>1
<1>. HIDE DEF p
<1>4. /\ b \in Nat /\ Base(p, (n + 1) + 1) = b + PageSize /\ Base(p, 1) <= p /\ p < Base(p, 2)
      /\ \A k \in 0 .. PageSize - 1 :
            Floor(b + k) = Floor(p) + (n + 1) - 1 /\ PageOffset(b + k) = k
  <2>1. PICK i \in Nat \ {0} : i = n + 1
    BY <1>1
  <2>2. b = Base(p, i)
    BY <2>1 DEF p
  <2>3. /\ Base(p, i) \in Nat /\ Base(p, i + 1) = Base(p, i) + PageSize
        /\ Base(p, 1) <= p /\ p < Base(p, 2)
        /\ \A k \in 0 .. PageSize - 1 :
              Floor(Base(p, i) + k) = Floor(p) + i - 1 /\ PageOffset(Base(p, i) + k) = k
    BY <1>1, Bases
  <2>. QED BY <2>1, <2>2, <2>3
<1>5. Base(p, n + 2) = b + PageSize /\ PageOffset(b + PageSize) = 0
  <2>1. (n + 1) + 1 = n + 2 /\ n + 2 \in Nat \ {0} /\ 0 \in 0 .. PageSize - 1
    BY <1>1
  <2>2. Base(p, n + 2) = b + PageSize
    BY <1>4, <2>1
  <2>3. PageOffset(Base(p, n + 2) + 0) = 0
    BY <1>1, <2>1, Bases
  <2>4. Base(p, n + 2) + 0 = b + PageSize
    BY <1>1, <1>4, <2>2
  <2>. QED BY <2>2, <2>3, <2>4
<1>6. start = From(p, n + 1) /\ b <= start /\ start < b + PageSize
  <2>1. CASE n = 0
    <3>1. start = p /\ n + 1 = 1 /\ n + 2 = 2
      BY <1>2, <1>3, <2>1
    <3>2. b = Base(p, 1) /\ b + PageSize = Base(p, 2)
      BY <1>5, <3>1 DEF p
    <3>. QED BY <1>4, <3>1, <3>2 DEF From
  <2>2. CASE n # 0
    <3>1. start = b /\ n + 1 # 1
      BY <1>1, <1>2, <1>3, <2>2 DEF p
    <3>. QED BY <1>1, <1>4, <3>1 DEF From, p
  <2>. QED BY <2>1, <2>2
<1>7. PICK k \in 0 .. PageSize - 1 : start = b + k
  <2>1. start - b \in 0 .. PageSize - 1 /\ start = b + (start - b)
    BY <1>1, <1>4, <1>6
  <2>. QED BY <2>1
<1>8. Floor(p) \in Nat
  BY <1>1, DivMod
<1>9. Floor(start) = Floor(p) + n /\ PageOffset(start) = start - b
  <2>1. Floor(start) = Floor(p) + (n + 1) - 1 /\ PageOffset(start) = k
    BY <1>4, <1>7
  <2>. QED BY <1>1, <1>4, <1>7, <1>8, <2>1
<1>10. (Floor(start) + 1) * PageSize = b + PageSize
  <2>1. Floor(start) + 1 = Floor(p) + (n + 2) - 1
    BY <1>1, <1>8, <1>9
  <2>. QED BY <1>5, <2>1 DEF Base
<1>11. ASSUME NEW end \in Nat, b < end, end <= b + PageSize PROVE SliceEnd(end) = end - b
  <2>1. CASE end = b + PageSize
    BY <1>1, <1>4, <1>5, <2>1 DEF SliceEnd
  <2>2. CASE end # b + PageSize
    <3>1. end - b \in 0 .. PageSize - 1 /\ end = b + (end - b) /\ end - b # 0
      BY <1>1, <1>4, <1>11, <2>2
    <3>2. PageOffset(end) = end - b
      BY <1>4, <3>1
    <3>. QED BY <3>1, <3>2 DEF SliceEnd
  <2>. QED BY <2>1, <2>2
<1>12. ASSUME n > 0 PROVE start - Base(p, n) = PageSize
  <2>1. start = b /\ n \in Nat \ {0}
    BY <1>1, <1>2, <1>3, <1>12 DEF p
  <2>2. Base(p, n) \in Nat /\ Base(p, n + 1) = Base(p, n) + PageSize
    BY <1>1, <2>1, Bases
  <2>. QED BY <1>1, <2>1, <2>2 DEF p
<1>. QED BY <1>1, <1>4, <1>5, <1>6, <1>9, <1>10, <1>11, <1>12 DEF p

\* translated_byte_buffers cuts off a slice, or meets a page that is not there
LEMMA SliceStep ==
    ASSUME IInv, Slice
    PROVE  IInv'
<1>. DEFINE p == call.ptr
            n == Len(slices)
            b == Base(p, n + 1)
            next == (Floor(start) + 1) * PageSize
            end == IF next < End THEN next ELSE End
            e == [frame |-> pt[Floor(start)], from |-> PageOffset(start), to |-> SliceEnd(end)]
<1>1. phase = "slicing" /\ start < End /\ UNCHANGED <<pt, current>>
  BY DEF Slice
<1>2. /\ p \in Nat /\ start \in Nat /\ slices \in Seq(SliceSet) /\ PageSize \in Nat \ {0} /\ End \in Nat
      /\ call \in [op : {"none", "buffer", "first", "ref", "string"}, ptr : Nat, len : Nat]
  BY Sizes DEF IInv, TypeInv, End
<1>3. CASE ~Mapped(start)
  <2>1. phase' = "panic" /\ UNCHANGED <<call, start, slices, touched, pt, current>>
    BY <1>1, <1>3 DEF Slice, Panics
  <2>2. TypeInv'
    BY <2>1 DEF IInv, TypeInv
  <2>3. CallOK'
    BY <1>1, <2>1 DEF IInv, CallOK, Mapped, Translate
  <2>4. Tiled' /\ Walked'
    BY <2>1 DEF Tiled, Walked
  <2>5. BufferExact'
    BY <1>3, <2>1 DEF IInv, BufferExact, Mapped, Meant, Translate
  <2>. QED BY <2>2, <2>3, <2>4, <2>5 DEF IInv
<1>4. CASE Mapped(start)
  <2>1. slices' = Append(slices, e) /\ start' = end /\ UNCHANGED <<phase, call, touched, pt, current>>
    BY <1>1, <1>4 DEF Slice
  <2>2. /\ n \in Nat /\ b \in Nat /\ b <= start /\ start < b + PageSize /\ start = From(p, n + 1)
        /\ Base(p, n + 2) = b + PageSize /\ next = b + PageSize
        /\ Floor(start) = Floor(p) + n /\ PageOffset(start) = start - b
        /\ \A x \in Nat : b < x /\ x <= b + PageSize => SliceEnd(x) = x - b
        /\ n > 0 => start - Base(p, n) = PageSize
    BY <1>1, NextSlice
  <2>3. pt[Floor(start)] \in Nat /\ Floor(start) < Pages /\ pt[Floor(start)] # 0
    BY <1>2, <1>4, FrameType DEF IInv, Mapped
  <2>. HIDE DEF next, b
  <2>4. /\ end \in Nat /\ start < end /\ end <= End /\ end <= b + PageSize
        /\ end = IF Base(p, n + 2) < End THEN Base(p, n + 2) ELSE End
    BY <1>1, <1>2, <2>2
  <2>. HIDE DEF end
  <2>5. SliceEnd(end) = end - b
    BY <1>2, <2>2, <2>4
  <2>6. e \in SliceSet /\ e.frame = pt[Floor(p) + n] /\ e.from = From(p, n + 1) - b /\ e.to = end - b
    <3>1. PageOffset(start) \in Nat /\ SliceEnd(end) \in Nat
      <4>1. PICK c \in Nat : c = b /\ c <= start /\ c <= end
        BY <1>2, <2>2, <2>4
      <4>2. start - c \in Nat /\ end - c \in Nat
        BY <1>2, <2>4, <4>1
      <4>. QED BY <2>2, <2>5, <4>1, <4>2
    <3>. QED BY <2>2, <2>3, <2>5, <3>1 DEF SliceSet
  <2>. HIDE DEF e
  <2>7. /\ slices' \in Seq(SliceSet) /\ Len(slices') = n + 1 /\ slices'[n + 1] = e /\ slices' # <<>>
        /\ \A i \in 1 .. n : slices'[i] = slices[i]
    BY <1>2, <2>1, <2>6
  <2>8. TypeInv'
    BY <2>1, <2>4, <2>7 DEF IInv, TypeInv
  <2>9. CallOK' /\ Walked' /\ BufferExact'
    BY <1>1, <2>1 DEF IInv, CallOK, Walked, BufferExact, Mapped, Meant, Translate, Run
  <2>10. Tiled'
    <3>1. n = 0 => slices = <<>>
      BY <1>2
    <3>2. ASSUME NEW i \in 1 .. n + 1
          PROVE  /\ Floor(p) + i - 1 < Pages /\ pt[Floor(p) + i - 1] # 0
                 /\ slices'[i].frame = pt[Floor(p) + i - 1]
                 /\ slices'[i].from = From(p, i) - Base(p, i)
                 /\ slices'[i].to = IF i = n + 1 THEN end - Base(p, i) ELSE PageSize
      <4>1. CASE i = n + 1
        <5>1. Floor(p) + i - 1 = Floor(p) + n /\ Base(p, i) = b /\ From(p, i) = From(p, n + 1)
          <6>1. Floor(p) \in Nat
            BY <1>2, DivMod
          <6>. QED BY <2>2, <4>1, <6>1 DEF b
        <5>. QED BY <2>2, <2>3, <2>6, <2>7, <4>1, <5>1
      <4>2. CASE i # n + 1
        <5>1. i \in 1 .. n /\ n > 0
          BY <2>2, <4>2
        <5>2. /\ Floor(p) + i - 1 < Pages /\ pt[Floor(p) + i - 1] # 0
              /\ slices[i].frame = pt[Floor(p) + i - 1] /\ slices[i].from = From(p, i) - Base(p, i)
              /\ slices[i].to = IF i = n THEN start - Base(p, i) ELSE PageSize
          BY <1>1, <5>1 DEF IInv, Tiled
        <5>. QED BY <2>2, <2>7, <4>2, <5>1, <5>2
      <4>. QED BY <4>1, <4>2
    <3>3. call'.ptr = p /\ End' = End /\ p <= end /\ Len(slices') + 1 = n + 2
      <4>1. call'.ptr = p /\ End' = End
        BY <2>1 DEF End
      <4>2. p <= start
        BY <1>1 DEF IInv, Tiled
      <4>3. p <= end
        BY <1>2, <2>4, <4>2
      <4>4. Len(slices') + 1 = n + 2
        BY <2>2, <2>7
      <4>. QED BY <4>1, <4>3, <4>4
    <3>4. From(p, n + 1) < end
      BY <2>2, <2>4
    <3>. QED BY <1>1, <2>1, <2>4, <2>7, <3>2, <3>3, <3>4 DEF Tiled
  <2>. QED BY <2>8, <2>9, <2>10 DEF IInv
<1>. QED BY <1>3, <1>4

\* Slice s is part i of the buffer at p: its bytes are those of the buffer, and the next
\* part follows.
PartOf(p, i, s) ==
    /\ s.from \in Nat /\ s.to \in Nat /\ s.frame \in Nat /\ s.from < s.to /\ From(p, i) \in Nat
    /\ \A k \in Nat : s.from + k < s.to =>
         /\ Mapped(From(p, i) + k)
         /\ Translate(From(p, i) + k) = s.frame * PageSize + s.from + k
    /\ From(p, i) + (s.to - s.from) = IF i = Len(slices) THEN start ELSE From(p, i + 1)

\* The bytes of a slice are those of the buffer.
LEMMA SliceFacts ==
    ASSUME IInv, phase \in {"slicing", "moving"}, NEW i \in 1 .. Len(slices), NEW p, p = call.ptr,
           NEW s, s = slices[i]
    PROVE  PartOf(p, i, s)
<1>1. /\ p \in Nat /\ start \in Nat /\ slices \in Seq(SliceSet) /\ PageSize \in Nat \ {0} /\ End \in Nat
      /\ s \in SliceSet /\ Len(slices) \in Nat /\ i \in Nat \ {0} /\ slices # <<>>
  BY Sizes DEF IInv, TypeInv, End
<1>2. s.from \in Nat /\ s.to \in Nat /\ s.frame \in Nat
  BY <1>1 DEF SliceSet
<1>3. PICK b : b = Base(p, i)
  OBVIOUS
<1>4. /\ b \in Nat /\ Base(p, i + 1) = b + PageSize /\ Base(p, 1) <= p /\ p < Base(p, 2)
      /\ \A k \in 0 .. PageSize - 1 : Floor(b + k) = Floor(p) + i - 1 /\ PageOffset(b + k) = k
  BY <1>1, <1>3, Bases
<1>5. /\ Floor(p) + i - 1 < Pages /\ pt[Floor(p) + i - 1] # 0 /\ s.frame = pt[Floor(p) + i - 1]
      /\ s.from = From(p, i) - b /\ s.to = IF i = Len(slices) THEN start - b ELSE PageSize
      /\ From(p, Len(slices)) < start
      /\ start = IF Base(p, Len(slices) + 1) < End THEN Base(p, Len(slices) + 1) ELSE End
  BY <1>1, <1>3 DEF IInv, Tiled
<1>6. From(p, i) \in Nat /\ From(p, i) = b + s.from /\ From(p, i) < b + PageSize
  <2>1. CASE i = 1
    <3>1. From(p, i) = p /\ i + 1 = 2
      BY <2>1 DEF From
    <3>. QED BY <1>1, <1>2, <1>4, <1>5, <3>1
  <2>2. CASE i # 1
    <3>1. From(p, i) = b
      BY <1>3, <2>2 DEF From
    <3>. QED BY <1>1, <1>2, <1>4, <1>5, <3>1
  <2>. QED BY <2>1, <2>2
<1>7. s.from < s.to /\ s.to <= PageSize
  <2>1. CASE i = Len(slices)
    <3>1. From(p, Len(slices)) = b + s.from /\ Base(p, Len(slices) + 1) = b + PageSize
      BY <1>4, <1>6, <2>1
    <3>2. PICK c \in Nat : c = b + PageSize
      BY <1>1, <1>4
    <3>3. start <= c
      BY <1>1, <1>5, <3>1, <3>2
    <3>4. b + s.from < start /\ s.to = start - b
      BY <1>5, <2>1, <3>1
    <3>. QED BY <1>1, <1>2, <1>4, <3>2, <3>3, <3>4
  <2>2. CASE i # Len(slices)
    BY <1>1, <1>2, <1>4, <1>5, <1>6, <2>2
  <2>. QED BY <2>1, <2>2
<1>8. ASSUME NEW k \in Nat, s.from + k < s.to
      PROVE  Mapped(From(p, i) + k) /\ Translate(From(p, i) + k) = s.frame * PageSize + s.from + k
  <2>. DEFINE y == s.from
              z == s.to
  <2>1. y \in Nat /\ z \in Nat /\ y + k < z /\ z <= PageSize /\ b \in Nat /\ PageSize \in Nat
        /\ From(p, i) = b + y
    BY <1>1, <1>2, <1>4, <1>6, <1>7, <1>8
  <2>. HIDE DEF y, z
  <2>2. y + k \in 0 .. PageSize - 1 /\ (b + y) + k = b + (y + k)
    BY <2>1
  <2>3. s.from + k \in 0 .. PageSize - 1 /\ From(p, i) + k = b + (s.from + k)
    BY <2>1, <2>2 DEF y
  <2>4. Floor(From(p, i) + k) = Floor(p) + i - 1 /\ PageOffset(From(p, i) + k) = s.from + k
    BY <1>4, <2>3
  <2>5. Mapped(From(p, i) + k) /\ Translate(From(p, i) + k) = s.frame * PageSize + (s.from + k)
    BY <1>5, <2>4 DEF Mapped, Translate
  <2>. DEFINE x == s.frame * PageSize
  <2>6. x \in Nat
    BY <1>1, <1>2, Z3
  <2>. HIDE DEF x
  <2>7. x + (s.from + k) = x + s.from + k
    BY <1>2, <2>6
  <2>. QED BY <2>5, <2>7 DEF x
<1>9. From(p, i) + (s.to - s.from) = IF i = Len(slices) THEN start ELSE From(p, i + 1)
  <2>1. CASE i = Len(slices)
    <3>1. PICK u \in Nat, v \in Nat : u = s.from /\ v = s.to
      BY <1>2
    <3>2. v = start - b /\ From(p, i) = b + u
      BY <1>5, <1>6, <2>1, <3>1
    <3>3. (b + u) + (v - u) = start
      BY <1>1, <1>4, <3>2
    <3>. QED BY <2>1, <3>1, <3>2, <3>3
  <2>2. CASE i # Len(slices)
    <3>1. From(p, i + 1) = b + PageSize
      BY <1>1, <1>4 DEF From
    <3>. QED BY <1>1, <1>2, <1>4, <1>5, <1>6, <2>2, <3>1
  <2>. QED BY <2>1, <2>2
<1>. QED BY <1>2, <1>6, <1>7, <1>8, <1>9 DEF PartOf

\* The slices are complete.
LEMMA SlicedStep ==
    ASSUME IInv, Sliced
    PROVE  IInv'
<1>. DEFINE p == call.ptr
<1>1. phase = "slicing" /\ start >= End /\ UNCHANGED <<pt, call, start, slices, current>>
  BY DEF Sliced
<1>2. /\ p \in Nat /\ call.len \in Nat /\ start \in Nat /\ slices \in Seq(SliceSet) /\ End = p + call.len
      /\ call.op \in {"buffer", "first"} /\ touched = <<>> /\ current = AtFirst /\ Len(slices) \in Nat
  BY <1>1 DEF IInv, TypeInv, CallOK, End
<1>3. start = End /\ (slices = <<>> => call.len = 0)
  BY <1>1, <1>2 DEF IInv, Tiled
<1>4. ASSUME slices # <<>>
      PROVE  /\ slices[1].from < slices[1].to /\ From(p, 1) = p /\ slices[1].from \in Nat
             /\ Mapped(p) /\ Translate(p) = FirstByte /\ 1 \in 1 .. Len(slices)
  <2>1. 1 \in 1 .. Len(slices)
    BY <1>2, <1>4
  <2>2. PICK s, a : s = slices[1] /\ a = call.ptr
    OBVIOUS
  <2>3. /\ s.from \in Nat /\ s.to \in Nat /\ s.frame \in Nat /\ s.from < s.to
        /\ \A k \in Nat : s.from + k < s.to =>
             /\ Mapped(From(p, 1) + k)
             /\ Translate(From(p, 1) + k) = s.frame * PageSize + s.from + k
    <3>1. phase \in {"slicing", "moving"} /\ s = slices[1] /\ a = call.ptr
      BY <1>1, <2>2
    <3>2. PartOf(a, 1, s)
      BY <2>1, <3>1, SliceFacts
    <3>. QED BY <3>1, <3>2 DEF PartOf
  <2>4. From(p, 1) = p
    BY DEF From
  <2>. DEFINE x == s.frame * PageSize
  <2>5. x \in Nat
    BY <2>3, Sizes, Z3
  <2>. HIDE DEF x
  <2>6. s.from + 0 < s.to /\ p + 0 = p /\ x + s.from + 0 = x + s.from /\ 0 \in Nat
    BY <1>2, <2>3, <2>5
  <2>7. Mapped(p + 0) /\ Translate(p + 0) = x + s.from + 0
    BY <2>3, <2>4, <2>6 DEF x
  <2>. QED BY <2>1, <2>2, <2>3, <2>4, <2>6, <2>7 DEF FirstByte, x
<1>5. Tiled'
  <2>1. phase' \in {"slicing", "moving"} => Tiled'
    BY <1>1 DEF IInv, Tiled, End
  <2>. QED BY <2>1 DEF Tiled
<1>6. CASE call.op = "buffer"
  <2>1. phase' = "moving" /\ touched' = touched
    BY <1>6 DEF Sliced
  <2>2. TypeInv'
    BY <1>1, <2>1 DEF IInv, TypeInv
  <2>3. CallOK' /\ BufferExact'
    <3>1. CallOK'
      BY <1>1, <1>3, <1>6, <2>1 DEF CallOK, End
    <3>2. Meant(call.ptr, Len(touched))' = Meant(call.ptr, Len(touched))
      BY <1>1, <2>1 DEF Meant, Translate
    <3>3. touched = Meant(call.ptr, Len(touched))
      BY <1>6 DEF IInv, BufferExact
    <3>4. current.buffer > Len(slices) => Len(touched) = call.len
      <4>1. current.buffer = 1 /\ Len(touched) = 0
        BY <1>2, NoBytes
      <4>2. 1 > Len(slices) => slices = <<>>
        BY <1>2
      <4>. QED BY <1>3, <4>1, <4>2
    <3>. QED BY <1>1, <2>1, <3>1, <3>2, <3>3, <3>4 DEF BufferExact
  <2>4. Walked'
    <3>1. current.buffer = 1 /\ current.idx = 0 /\ Len(touched) = 0 /\ p + 0 = p
      BY <1>2, NoBytes
    <3>2. CASE slices = <<>>
      <4>1. Len(slices) = 0
        BY <3>2
      <4>. QED BY <1>1, <1>3, <2>1, <3>1, <3>2, <4>1 DEF Walked
    <3>3. CASE slices # <<>>
      <4>1. slices[1].from + 0 = slices[1].from /\ 1 <= Len(slices) /\ ~(1 > Len(slices))
            /\ 1 \in 1 .. Len(slices) + 1
        BY <1>2, <1>4, <3>3
      <4>. QED BY <1>1, <1>4, <2>1, <3>1, <3>3, <4>1 DEF Walked
    <3>. QED BY <3>2, <3>3
  <2>. QED BY <1>5, <2>2, <2>3, <2>4 DEF IInv
<1>7. CASE call.op = "first"
  <2>1. phase' = "user" /\ touched' \in {<<>>, Run(FirstByte, call.len)}
    BY <1>7 DEF Sliced
  <2>2. slices # <<>> /\ call.len \in Structs
    BY <1>3, <1>7, Sizes DEF IInv, CallOK
  <2>3. Mapped(p) /\ FirstByte = Translate(p) /\ Translate(p) \in Nat
    BY <1>2, <1>4, <2>2, FrameType DEF IInv
  <2>4. touched' \in Seq(Nat)
    <3>1. PICK t \in Nat, len \in Nat : t = FirstByte /\ len = call.len
      BY <1>2, <2>3
    <3>2. CASE touched' = <<>>
      BY <3>2, NoBytes
    <3>3. CASE touched' = Run(FirstByte, call.len)
      <4>1. touched' = [k \in 1 .. len |-> t + k - 1]
        BY <3>1, <3>3 DEF Run
      <4>2. touched' \in [1 .. len -> Nat]
        BY <4>1
      <4>. QED BY <4>2
    <3>. QED BY <2>1, <3>2, <3>3
  <2>5. TypeInv'
    BY <1>1, <2>1, <2>4 DEF IInv, TypeInv
  <2>6. CallOK'
    <3>1. Mapped(call.ptr)' /\ Translate(call.ptr)' = Translate(call.ptr)
      BY <1>1, <2>3 DEF Mapped, Translate
    <3>2. touched' # <<>> => touched' = Run(Translate(call.ptr)', call.len')
      BY <1>1, <2>1, <2>3, <3>1
    <3>. QED BY <1>1, <1>7, <2>1, <3>1, <3>2 DEF IInv, CallOK, Run
  <2>7. Walked' /\ BufferExact'
    BY <1>1, <1>7, <2>1 DEF Walked, BufferExact
  <2>. QED BY <1>5, <2>5, <2>6, <2>7 DEF IInv
<1>. QED BY <1>2, <1>6, <1>7

\* The iterator yields a byte; it never finds its index behind the slice.
LEMMA MoveByteStep ==
    ASSUME IInv, MoveByte
    PROVE  IInv'
<1>1. phase = "moving" /\ current.buffer <= Len(slices) /\ UNCHANGED pt
  BY DEF MoveByte
<1>2. /\ call.ptr \in Nat /\ call.len \in Nat /\ start \in Nat /\ slices \in Seq(SliceSet)
      /\ current \in [buffer : Nat, idx : Nat] /\ touched \in Seq(Nat) /\ PageSize \in Nat
      /\ End = call.ptr + call.len /\ start = End /\ call.op = "buffer"
  BY <1>1, Sizes DEF IInv, TypeInv, CallOK, End
<1>3. PICK p \in Nat, i \in Nat, j \in Nat, n \in Nat, m \in Nat :
         p = call.ptr /\ i = current.buffer /\ j = current.idx /\ n = Len(touched) /\ m = Len(slices)
  BY <1>2
<1>4. PICK s : s = slices[i]
  OBVIOUS
<1>5. i \in 1 .. m /\ s.from + j < s.to /\ p + n = From(p, i) + j
  BY <1>1, <1>3, <1>4 DEF IInv, Walked
<1>6. /\ s.from \in Nat /\ s.to \in Nat /\ s.frame \in Nat /\ From(p, i) \in Nat
      /\ \A k \in Nat : s.from + k < s.to =>
           /\ Mapped(From(p, i) + k)
           /\ Translate(From(p, i) + k) = s.frame * PageSize + s.from + k
      /\ From(p, i) + (s.to - s.from) = IF i = m THEN start ELSE From(p, i + 1)
  <2>1. i \in 1 .. Len(slices) /\ phase \in {"slicing", "moving"}
    BY <1>1, <1>3, <1>5
  <2>2. p = call.ptr /\ m = Len(slices)
    BY <1>3
  <2>3. PartOf(p, i, s)
    BY <1>4, <2>1, <2>2, SliceFacts
  <2>. QED BY <2>2, <2>3 DEF PartOf
<1>7. PICK x \in Nat : x = s.frame * PageSize + s.from + j /\ x = Translate(p + n)
  <2>1. Mapped(p + n) /\ Translate(p + n) = s.frame * PageSize + s.from + j
    BY <1>3, <1>5, <1>6
  <2>2. p + n \in Nat
    BY <1>3
  <2>3. Translate(p + n) \in Nat
    BY <2>1, <2>2, FrameType DEF IInv
  <2>. QED BY <2>1, <2>3
<1>8. /\ touched' = Append(touched, x) /\ current' = Advance(s.to - s.from)
      /\ UNCHANGED <<phase, call, start, slices, pt>>
  BY <1>1, <1>3, <1>4, <1>5, <1>7 DEF MoveByte
<1>9. /\ touched' \in Seq(Nat) /\ Len(touched') = n + 1 /\ touched' = Meant(p, n + 1)
  <2>1. touched = Meant(p, Len(touched)) /\ x = Translate(p + Len(touched))
    BY <1>2, <1>3, <1>7 DEF IInv, BufferExact
  <2>2. PICK t \in Seq(Nat) : t = touched
    BY <1>2
  <2>3. Append(t, x) \in Seq(Nat) /\ Len(Append(t, x)) = Len(t) + 1 /\ Append(t, x) = Meant(p, Len(t) + 1)
    <3>1. t = Meant(p, Len(t)) /\ x = Translate(p + Len(t))
      BY <2>1, <2>2
    <3>. QED BY <3>1, NextByte
  <2>. QED BY <1>3, <1>8, <2>2, <2>3
<1>10. \/ j + 1 = s.to - s.from /\ current'.buffer = i + 1 /\ current'.idx = 0
       \/ j + 1 # s.to - s.from /\ current'.buffer = i /\ current'.idx = j + 1
  BY <1>2, <1>3, <1>8 DEF Advance
<1>11. current' \in [buffer : Nat, idx : Nat]
  <2>1. current' \in {[buffer |-> i + 1, idx |-> 0], [current EXCEPT !.idx = j + 1]}
    BY <1>3, <1>8 DEF Advance
  <2>. QED BY <1>2, <1>3, <2>1
<1>12. TypeInv'
  BY <1>8, <1>9, <1>11 DEF IInv, TypeInv
<1>13. CallOK'
  BY <1>1, <1>2, <1>8 DEF CallOK, End
<1>14. Tiled'
  BY <1>8 DEF IInv, Tiled, End
<1>15. Walked'
  <2>1. SUFFICES /\ current'.buffer \in 1 .. m + 1
                 /\ current'.buffer <= m =>
                      /\ slices[current'.buffer].from + current'.idx < slices[current'.buffer].to
                      /\ p + (n + 1) = From(p, current'.buffer) + current'.idx
                 /\ current'.buffer > m => n + 1 = call.len
    BY <1>3, <1>8, <1>9 DEF Walked
  <2>2. CASE j + 1 = s.to - s.from
    <3>1. current'.buffer = i + 1 /\ current'.idx = 0
      BY <1>10, <2>2
    <3>2. p + (n + 1) = From(p, i) + (s.to - s.from)
      <4>1. PICK g \in Nat : g = From(p, i)
        BY <1>6
      <4>2. p + n = g + j
        BY <1>5, <4>1
      <4>3. p + (n + 1) = g + (j + 1)
        BY <4>2
      <4>. QED BY <2>2, <4>1, <4>3
    <3>3. CASE i = m
      <4>1. p + (n + 1) = start /\ start = p + call.len
        BY <1>2, <1>3, <1>6, <3>2, <3>3
      <4>2. PICK len \in Nat : len = call.len
        BY <1>2
      <4>3. n + 1 = len
        <5>1. p + (n + 1) = p + len
          BY <4>1, <4>2
        <5>. QED BY <5>1
      <4>4. m + 1 \in 1 .. m + 1 /\ ~(m + 1 <= m)
        OBVIOUS
      <4>5. current'.buffer = m + 1
        BY <3>1, <3>3
      <4>. QED BY <4>2, <4>3, <4>4, <4>5
    <3>4. CASE i # m
      <4>1. PICK l \in Nat : l = i + 1
        BY <1>3
      <4>2. l \in 1 .. m /\ p + (n + 1) = From(p, l)
        <5>1. l \in 1 .. m
          BY <1>3, <1>5, <3>4, <4>1
        <5>2. From(p, i) + (s.to - s.from) = From(p, l)
          BY <1>6, <3>4, <4>1
        <5>. QED BY <3>2, <5>1, <5>2
      <4>3. PICK t : t = slices[l]
        OBVIOUS
      <4>4. t.from \in Nat /\ t.to \in Nat /\ t.from < t.to /\ From(p, l) \in Nat
        <5>1. phase \in {"slicing", "moving"} /\ p = call.ptr /\ l \in 1 .. Len(slices)
          BY <1>1, <1>3, <4>2
        <5>2. PartOf(p, l, t)
          BY <4>3, <5>1, SliceFacts
        <5>. QED BY <5>2 DEF PartOf
      <4>5. t.from + 0 < t.to /\ From(p, l) + 0 = From(p, l)
        BY <4>4
      <4>. QED BY <1>3, <3>1, <4>1, <4>2, <4>3, <4>5
    <3>. QED BY <3>3, <3>4
  <2>3. CASE j + 1 # s.to - s.from
    <3>1. current'.buffer = i /\ current'.idx = j + 1
      BY <1>10, <2>3
    <3>2. s.from + (j + 1) < s.to /\ p + (n + 1) = From(p, i) + (j + 1)
      <4>1. PICK g \in Nat, u \in Nat, v \in Nat : g = From(p, i) /\ u = s.from /\ v = s.to
        BY <1>6
      <4>2. u + j < v /\ j + 1 # v - u /\ p + n = g + j
        BY <1>5, <2>3, <4>1
      <4>3. u + (j + 1) < v /\ p + (n + 1) = g + (j + 1)
        BY <4>2
      <4>. QED BY <4>1, <4>3
    <3>. QED BY <1>3, <1>4, <1>5, <3>1, <3>2
  <2>. QED BY <2>2, <2>3
<1>16. BufferExact'
  <2>1. Meant(p, n + 1)' = Meant(p, n + 1)
    BY <1>8 DEF Meant, Translate
  <2>2. touched' = Meant(call.ptr, Len(touched))'
    <3>1. call'.ptr = p /\ Len(touched)' = n + 1
      BY <1>3, <1>8, <1>9
    <3>. QED BY <1>8, <1>9, <3>1 DEF Meant, Translate
  <2>3. phase' = "moving"
    BY <1>1, <1>8
  <2>. QED BY <1>15, <2>2, <2>3 DEF BufferExact, Walked
<1>. QED BY <1>12, <1>13, <1>14, <1>15, <1>16 DEF IInv

\* The file has moved what it could.
LEMMA ReturnStep ==
    ASSUME IInv, ReturnBuffer
    PROVE  IInv'
<1>1. phase = "moving" /\ phase' = "user" /\ UNCHANGED <<pt, call, start, slices, current, touched>>
  BY DEF ReturnBuffer
<1>2. TypeInv' /\ Tiled' /\ Walked'
  BY <1>1 DEF IInv, TypeInv, Tiled, Walked
<1>3. CallOK'
  BY <1>1 DEF IInv, CallOK, Mapped, Translate
<1>4. BufferExact'
  BY <1>1 DEF IInv, BufferExact, Meant, Translate
<1>. QED BY <1>2, <1>3, <1>4 DEF IInv

\* translated_str takes a byte, or meets a page that is not there.
LEMMA StringStep ==
    ASSUME IInv, StringByte
    PROVE  IInv'
<1>1. phase = "string" /\ UNCHANGED <<pt, current, slices, call>>
  BY DEF StringByte, Panics
<1>2. /\ call.ptr \in Nat /\ start \in Nat /\ touched \in Seq(Nat) /\ call.op = "string"
      /\ start = call.ptr + Len(touched) /\ touched = Meant(call.ptr, Len(touched))
  BY <1>1 DEF IInv, TypeInv, CallOK, BufferExact
<1>3. CASE ~Mapped(start)
  <2>1. phase' = "panic" /\ UNCHANGED <<start, touched>>
    BY <1>3 DEF StringByte, Panics
  <2>2. TypeInv' /\ Tiled' /\ Walked'
    BY <1>1, <2>1 DEF IInv, TypeInv, Tiled, Walked
  <2>3. CallOK'
    BY <1>1, <1>2, <2>1 DEF CallOK
  <2>4. BufferExact'
    BY <1>1, <1>2, <1>3, <2>1 DEF BufferExact, Meant, Mapped, Translate
  <2>. QED BY <2>2, <2>3, <2>4 DEF IInv
<1>4. CASE Mapped(start)
  <2>1. PICK p \in Nat, t \in Seq(Nat), x \in Nat, n \in Nat :
           p = call.ptr /\ t = touched /\ x = Translate(start) /\ n = Len(touched)
    <3>1. Translate(start) \in Nat /\ Len(touched) \in Nat
      BY <1>2, <1>4, FrameType DEF IInv
    <3>. QED BY <1>2, <3>1
  <2>2. touched' = Append(t, x) /\ ((phase' = "user" /\ start' = start) \/ (phase' = "string" /\ start' = start + 1))
    BY <1>1, <1>4, <2>1 DEF StringByte
  <2>3. Append(t, x) \in Seq(Nat) /\ Len(Append(t, x)) = n + 1 /\ Append(t, x) = Meant(p, n + 1)
    <3>1. t = Meant(p, Len(t)) /\ x = Translate(p + Len(t))
      BY <1>2, <2>1
    <3>2. Append(t, x) \in Seq(Nat) /\ Len(Append(t, x)) = Len(t) + 1 /\ Append(t, x) = Meant(p, Len(t) + 1)
      BY <3>1, NextByte
    <3>. QED BY <2>1, <3>2
  <2>4. TypeInv' /\ Tiled' /\ Walked'
    <3>1. start' \in Nat /\ phase' \in {"user", "string"}
      BY <1>2, <2>2
    <3>2. TypeInv'
      BY <1>1, <2>2, <2>3, <3>1 DEF IInv, TypeInv
    <3>. QED BY <3>1, <3>2 DEF Tiled, Walked
  <2>5. CallOK'
    <3>1. start = p + n
      BY <1>2, <2>1
    <3>2. start + 1 = p + (n + 1)
      BY <3>1
    <3>3. phase' \in {"user", "string"} /\ call' = call /\ call'.op = "string" /\ call'.ptr = p
      BY <1>1, <1>2, <2>1, <2>2
    <3>4. phase' = "string" => start' = p + Len(touched')
      BY <2>2, <2>3, <3>2
    <3>. QED BY <3>3, <3>4 DEF CallOK
  <2>6. BufferExact'
    <3>1. call'.ptr = p /\ Len(touched)' = n + 1 /\ phase' \in {"user", "string"}
      BY <1>1, <2>1, <2>2, <2>3
    <3>2. touched' = Meant(call.ptr, Len(touched))'
      BY <1>1, <2>2, <2>3, <3>1 DEF Meant, Translate
    <3>. QED BY <3>1, <3>2 DEF BufferExact
  <2>. QED BY <2>4, <2>5, <2>6 DEF IInv
<1>. QED BY <1>3, <1>4

\* exec replaces the program: no call is left.
LEMMA ExecStep ==
    ASSUME IInv, NEW args \in ArgLists, Exec(args)
    PROVE  IInv'
<1>1. /\ call' = NoCall /\ touched' = <<>> /\ slices' = <<>> /\ start' = 0 /\ current' = AtFirst
      /\ pt' = pt /\ phase' \in {"panic", "pushing"}
  BY DEF Exec
<1>2. call'.op = "none" /\ NoCall \in [op : {"none", "buffer", "first", "ref", "string"}, ptr : Nat, len : Nat]
  BY <1>1 DEF NoCall
<1>3. TypeInv'
  BY <1>1, <1>2, NoBytes DEF IInv, TypeInv
<1>4. CallOK' /\ Tiled' /\ Walked' /\ BufferExact'
  BY <1>1, <1>2 DEF CallOK, Tiled, Walked, BufferExact
<1>. QED BY <1>3, <1>4 DEF IInv

\* The rest of exec, _start and main: the memory set is new, and no call refers to the
\* old one.
LEMMA MainStep ==
    ASSUME IInv, PushArg \/ Enter \/ Start \/ Main
    PROVE  IInv'
<1>1. /\ UNCHANGED <<call, start, slices, current, touched>> /\ pt' \in PageTables
      /\ phase \in {"pushing", "started", "main"}
      /\ phase' \in {"panic", "pushing", "started", "main", "user"}
  BY DEF IInv, TypeInv, PushArg, Enter, Start, Main
<1>2. call' = NoCall /\ call'.op = "none"
  BY <1>1 DEF IInv, CallOK, NoCall
<1>3. TypeInv'
  BY <1>1 DEF IInv, TypeInv
<1>4. CallOK' /\ Tiled' /\ Walked' /\ BufferExact'
  BY <1>1, <1>2 DEF CallOK, Tiled, Walked, BufferExact
<1>. QED BY <1>3, <1>4 DEF IInv

LEMMA InitStep == Init => IInv
<1>. SUFFICES ASSUME Init PROVE IInv
  OBVIOUS
<1>1. /\ pt \in PageTables /\ phase = "user" /\ call = NoCall /\ start = 0 /\ slices = <<>>
      /\ current = AtFirst /\ touched = <<>>
  BY DEF Init
<1>2. call.op = "none" /\ NoCall \in [op : {"none", "buffer", "first", "ref", "string"}, ptr : Nat, len : Nat]
  BY <1>1 DEF NoCall
<1>3. TypeInv
  BY <1>1, <1>2, NoBytes DEF TypeInv
<1>4. CallOK /\ Tiled /\ Walked /\ BufferExact
  BY <1>1, <1>2 DEF CallOK, Tiled, Walked, BufferExact
<1>. QED BY <1>3, <1>4 DEF IInv

\* The inductive invariant survives every step.
LEMMA Step == IInv /\ [Next]_vars => IInv'
<1>. SUFFICES ASSUME IInv, [Next]_vars PROVE IInv'
  OBVIOUS
<1>0. Pages * PageSize \in Nat /\ 0 \in Nat /\ Word \in Nat
  BY Sizes, Z3
<1>1. ASSUME NEW ptr \in 0 .. Pages * PageSize, NEW len \in 0 .. MaxLen, SliceCall("buffer", ptr, len)
      PROVE  IInv'
  <2>1. ptr \in Nat /\ len \in Nat /\ Begin("buffer", ptr, len, "slicing")
    BY <1>0, <1>1, Sizes DEF SliceCall
  <2>. QED BY <2>1, BeginStep
<1>2. ASSUME NEW p \in 0 .. (Pages * PageSize) \div Word, NEW len \in Structs, SliceCall("first", p * Word, len)
      PROVE  IInv'
  <2>1. p \in Nat /\ len \in Nat
    BY Sizes
  <2>2. PICK ptr \in Nat : ptr = p * Word
    BY <1>0, <2>1, Z3
  <2>3. Begin("first", ptr, len, "slicing")
    BY <1>2, <2>2 DEF SliceCall
  <2>. QED BY <2>1, <2>2, <2>3, BeginStep
<1>3. ASSUME NEW p \in 0 .. (Pages * PageSize) \div Word, NEW len \in Structs, RefCall(p * Word, len)
      PROVE  IInv'
  BY <1>3, RefStep
<1>4. ASSUME NEW ptr \in 0 .. Pages * PageSize, StringCall(ptr) PROVE IInv'
  <2>1. ptr \in Nat /\ Begin("string", ptr, 0, "string")
    BY <1>0, <1>4 DEF StringCall
  <2>. QED BY <1>0, <2>1, BeginStep
<1>5. ASSUME NEW args \in ArgLists, Exec(args) PROVE IInv'
  BY <1>5, ExecStep
<1>6. ASSUME UNCHANGED vars PROVE IInv'
  <2>1. UNCHANGED <<pt, phase, call, start, slices, current, touched>>
    BY <1>6 DEF vars
  <2>2. TypeInv' /\ Tiled' /\ Walked'
    BY <2>1 DEF IInv, TypeInv, Tiled, Walked, End
  <2>3. CallOK' /\ BufferExact'
    BY <2>1 DEF IInv, CallOK, BufferExact, End, Mapped, Meant, Translate
  <2>. QED BY <2>2, <2>3 DEF IInv
<1>. QED BY <1>1, <1>2, <1>3, <1>4, <1>5, <1>6, SliceStep, SlicedStep, MoveByteStep, ReturnStep,
            StringStep, MainStep DEF Next

----------------------------------------------------------------------------
\* Results.

\* The inductive invariant holds in every reachable state.
THEOREM Invariance == Spec => []IInv
BY InitStep, Step, PTL DEF Spec

\* For every page size, page table, pointer and length: the bytes that sys_read, sys_write
\* and the strings of system calls touch are the bytes of the program's buffer, in order;
\* a buffer walked to the end is complete; the iterator never leaves its slices, so that the
\* kernel panics only at a page that is not mapped.
THEOREM BufferSafety == Spec => []BufferExact
BY Invariance, PTL DEF IInv

\* Within a page, an address and the bytes behind it have one frame.
LEMMA InPage ==
    ASSUME NEW a \in Nat, Mapped(a), NEW k \in Nat, PageOffset(a) + k < PageSize,
           pt[Floor(a)] \in Nat
    PROVE  Mapped(a + k) /\ Translate(a + k) = Translate(a) + k
<1>. DEFINE f == Floor(a)
            o == PageOffset(a)
<1>1. f \in Nat /\ o \in 0 .. PageSize - 1 /\ a = f * PageSize + o /\ PageSize \in Nat \ {0}
  BY DivMod, Sizes
<1>2. o + k < PageSize
  OBVIOUS
<1>. HIDE DEF f, o
<1>3. f * PageSize \in Nat
  BY <1>1, Z3
<1>4. PICK c \in Nat : c = f * PageSize
  BY <1>3
<1>5. a + k = c + (o + k) /\ o + k \in 0 .. PageSize - 1
  BY <1>1, <1>2, <1>4
<1>6. PICK r \in 0 .. PageSize - 1, d \in Nat : r = o + k /\ d = a + k
  BY <1>5
<1>7. d = f * PageSize + r
  BY <1>4, <1>5, <1>6
<1>8. Floor(d) = f /\ PageOffset(d) = r
  BY <1>1, <1>6, <1>7, OneWay
<1>9. Mapped(d)
  BY <1>8 DEF Mapped, f
<1>10. Translate(d) = Translate(a) + k
  <2>1. PICK g \in Nat : g = pt[Floor(a)]
    OBVIOUS
  <2>2. PICK h \in Nat : h = g * PageSize
    <3>1. g * PageSize \in Nat
      BY <1>1, Z3
    <3>. QED BY <3>1
  <2>3. Translate(d) = h + r /\ Translate(a) = h + o
    BY <1>8, <2>1, <2>2 DEF Translate, f, o
  <2>4. h + (o + k) = (h + o) + k
    BY <1>1
  <2>. QED BY <1>6, <2>3, <2>4
<1>. QED BY <1>6, <1>9, <1>10

\* An aligned address leaves a word free up to the end of its page.
LEMMA WordFits ==
    ASSUME NEW p \in Nat, NEW a \in Nat, a = p * Word
    PROVE  PageOffset(a) + Word <= PageSize
<1>1. Word \in Nat \ {0} /\ PageSize \in Nat \ {0} /\ PageSize % Word = 0
  BY UserMemoryAssumption
<1>2. PICK m \in Int : PageSize = m * Word
  <2>1. PageSize = (PageSize \div Word) * Word + (PageSize % Word) /\ PageSize \div Word \in Int
    BY <1>1, Z3
  <2>2. PageSize = (PageSize \div Word) * Word
    <3>1. PICK y \in Int : y = (PageSize \div Word) * Word
      BY <1>1, <2>1
    <3>. QED BY <1>1, <2>1, <3>1
  <2>. QED BY <2>1, <2>2
<1>3. PICK f \in Nat, o \in Nat : f = Floor(a) /\ o = PageOffset(a) /\ o < PageSize /\ a = f * PageSize + o
  <2>1. Floor(a) \in Nat /\ PageOffset(a) \in 0 .. PageSize - 1 /\ a = Floor(a) * PageSize + PageOffset(a)
    BY DivMod
  <2>2. PageOffset(a) \in Nat /\ PageOffset(a) < PageSize
    BY <1>1, <2>1
  <2>. QED BY <2>1, <2>2, Zenon
<1>4. PICK c \in Int : c = p - f * m
  BY <1>2
<1>5. o = c * Word
  <2>1. f * PageSize = (f * m) * Word
    BY <1>1, <1>2, Z3
  <2>2. (p - f * m) * Word = p * Word - (f * m) * Word
    BY <1>1, <1>2, Z3
  <2>. QED BY <1>1, <1>3, <1>4, <2>1, <2>2, Z3
<1>6. c <= m - 1
  <2>1. ASSUME c >= m PROVE FALSE
    <3>1. c * Word >= m * Word
      BY <1>1, <2>1, Z3
    <3>. QED BY <1>2, <1>3, <1>5, <3>1, Z3
  <2>. QED BY <2>1
<1>7. c * Word <= (m - 1) * Word
  BY <1>1, <1>6, Z3
<1>8. (m - 1) * Word = m * Word - Word
  BY <1>1, Z3
<1>9. o <= PageSize - Word
  BY <1>1, <1>2, <1>5, <1>7, <1>8, Z3
<1>10. o + Word <= PageSize
  BY <1>1, <1>9
<1>. QED BY <1>3, <1>10

\* What the invariant says of structures.
LEMMA StructFacts == IInv => StructExact
<1>. SUFFICES ASSUME IInv, call.op \in {"first", "ref"}, touched # <<>>
              PROVE  /\ ~Torn => touched = Meant(call.ptr, call.len)
                     /\ Torn => PageOffset(call.ptr) + call.len > PageSize /\ call.len > Word
  BY DEF StructExact
<1>1. /\ call.len \in Structs /\ (\E p \in 0 .. (Pages * PageSize) \div Word : call.ptr = p * Word)
      /\ Mapped(call.ptr) /\ touched = Run(Translate(call.ptr), call.len)
  BY DEF IInv, CallOK
<1>2. PICK a \in Nat, len \in Nat \ {0} : a = call.ptr /\ len = call.len
  BY <1>1, Sizes DEF IInv, TypeInv
<1>3. Mapped(a) /\ pt[Floor(a)] \in Nat /\ Translate(a) \in Nat
  BY <1>1, <1>2, FrameType DEF IInv
<1>4. PICK t \in Nat : t = Translate(a)
  BY <1>3
<1>5. PICK o \in Nat : o = PageOffset(a) /\ PageSize \in Nat \ {0}
  <2>1. PageOffset(a) \in 0 .. PageSize - 1 /\ PageSize \in Nat \ {0}
    BY DivMod, Sizes
  <2>2. PageOffset(a) \in Nat
    BY <2>1
  <2>. QED BY <2>1, <2>2
<1>6. ASSUME ~Torn PROVE touched = Meant(call.ptr, call.len)
  <2>1. ASSUME NEW k \in 1 .. len PROVE t + k - 1 = Translate(a + k - 1)
    <3>1. CASE k = 1
      <4>1. t + k - 1 = t /\ a + k - 1 = a
        BY <3>1
      <4>. QED BY <1>4, <4>1
    <3>2. CASE k # 1
      <4>1. PICK l \in 1 .. len - 1 : l = k - 1
        BY <3>2
      <4>2. Translate(a + l) = t + l
        BY <1>2, <1>4, <1>6 DEF Torn
      <4>3. a + l = a + k - 1 /\ t + l = t + k - 1
        BY <4>1
      <4>. QED BY <4>2, <4>3
    <3>. QED BY <3>1, <3>2
  <2>2. [k \in 1 .. len |-> t + k - 1] = [k \in 1 .. len |-> Translate(a + k - 1)]
    BY <2>1
  <2>. QED BY <1>1, <1>2, <1>4, <2>2 DEF Run, Meant
<1>7. ASSUME Torn PROVE o + len > PageSize
  <2>1. PICK k \in 1 .. len - 1 : ~Mapped(a + k) \/ Translate(a + k) # Translate(a) + k
    BY <1>2, <1>7 DEF Torn
  <2>2. ASSUME o + len <= PageSize PROVE FALSE
    <3>1. k \in Nat /\ o + k < PageSize
      BY <1>5, <2>2
    <3>2. Mapped(a + k) /\ Translate(a + k) = Translate(a) + k
      BY <1>3, <1>5, <3>1, InPage
    <3>. QED BY <2>1, <3>2
  <2>. QED BY <1>5, <2>2
<1>8. o + Word <= PageSize /\ Word \in Nat
  <2>1. PICK p \in 0 .. (Pages * PageSize) \div Word : a = p * Word
    BY <1>1, <1>2
  <2>2. p \in Nat
    OBVIOUS
  <2>. QED BY <1>5, <2>1, <2>2, WordFits, Sizes
<1>9. ASSUME Torn PROVE len > Word
  BY <1>5, <1>7, <1>8, <1>9
<1>. QED BY <1>2, <1>5, <1>6, <1>7, <1>9

\* For every page size that is a multiple of the word: a structure behind a pointer of a
\* system call (sys_get_time, sys_fstat, sys_waitpid, sys_sigaction, sys_pipe) is touched
\* where it is, byte for byte, unless it crosses into a frame that is not the next one, and
\* an aligned usize never does.
THEOREM StructSafety == Spec => []StructExact
BY Invariance, StructFacts, PTL

----------------------------------------------------------------------------
\* The arguments of exec.  No fact about a call is needed, so that they have an
\* invariant of their own.

Cells == [kind : {"zero", "word", "byte"}, val : Nat, part : Nat]
Bytes == [0 .. StackSize - 1 -> Cells]

WordThere(m, a, v) == \A j \in 0 .. Word - 1 : m[a + j] = Cell("word", v, j)
StringThere(m, a, s) ==
    /\ \A j \in 1 .. Len(s) : m[a + j - 1] = Cell("byte", s[j], 0)
    /\ m[a + Len(s)] = Cell("byte", 0, 0)

\* String s is in memory m between sp and the vector at b, and slot k of the vector
\* holds its address.
Placed(m, sp, b, s, k) ==
    \E a \in sp .. b - 1 :
       a + Len(s) < b /\ WordThere(m, b + (k - 1) * Word, a) /\ StringThere(m, a, s)

\* What exec has done so far: nothing below the stack pointer, and all that it has
\* pushed above.
Filled ==
    phase \in {"pushing", "started"} =>
       /\ stack \in [mem : Bytes, sp : Nat, args : Seq(Seq(Char)),
                     pushed : Nat]
       /\ stack.pushed <= Len(stack.args) /\ Argv \in Nat /\ stack.sp <= Argv
       /\ phase = "started" => stack.pushed = Len(stack.args)
       /\ \A k \in 1 .. stack.pushed : Placed(stack.mem, stack.sp, Argv, stack.args[k], k)
       /\ \A a \in 0 .. stack.sp - 1 : stack.mem[a] = Untouched

StackInv == Filled /\ ArgumentsArrive

\* The stack holds whole words.
LEMMA StackSizes == StackSize \in Nat /\ Word \in Nat \ {0} /\ ArgLists \subseteq Seq(Seq(Char))
BY UserMemoryAssumption

\* The slots of the vector do not overlap.
LEMMA Slots ==
    ASSUME NEW k \in Nat, NEW n \in Nat, k < n
    PROVE  k * Word \in Nat /\ n * Word \in Nat /\ k * Word + Word <= n * Word
<1>1. Word \in Nat
  BY StackSizes
<1>2. (k + 1) * Word <= n * Word /\ (k + 1) * Word = k * Word + Word
  BY <1>1, Z3
<1>3. k * Word \in Nat /\ n * Word \in Nat
  BY <1>1, Z3
<1>. QED BY <1>1, <1>2, <1>3

\* Cells of the three kinds.
LEMMA CellFacts ==
    /\ Untouched \in Cells
    /\ \A v \in Nat, k \in Nat : Cell("word", v, k) \in Cells /\ Cell("word", v, k).val = v
    /\ \A v \in Nat : /\ Cell("byte", v, 0) \in Cells /\ Cell("byte", v, 0).val = v
                      /\ v # 0 => Cell("byte", v, 0) # Cell("byte", 0, 0)
BY DEF Untouched, Cell, Cells

\* r is memory m with something else in the n bytes from a on.
Written(m, r, a, n) ==
    r \in Bytes /\ \A x \in 0 .. StackSize - 1 : x < a \/ x >= a + n => r[x] = m[x]

\* A word in memory.
LEMMA PutWordFacts ==
    ASSUME NEW m \in Bytes, NEW a \in Nat, NEW v \in Nat
    PROVE  /\ Written(m, PutWord(m, a, v), a, Word)
           /\ a + Word <= StackSize => WordThere(PutWord(m, a, v), a, v)
<1>0. PICK r : r = PutWord(m, a, v)
  OBVIOUS
<1>1. StackSize \in Nat /\ Word \in Nat \ {0}
  BY StackSizes
<1>2. /\ DOMAIN r = 0 .. StackSize - 1
      /\ r = [x \in 0 .. StackSize - 1 |-> IF x \in a .. a + Word - 1 THEN Cell("word", v, x - a) ELSE m[x]]
      /\ \A x \in 0 .. StackSize - 1 :
            r[x] = IF x \in a .. a + Word - 1 THEN Cell("word", v, x - a) ELSE m[x]
  BY <1>0 DEF PutWord, Bytes
<1>3. ASSUME NEW x \in 0 .. StackSize - 1 PROVE r[x] \in Cells
  <2>1. CASE x \in a .. a + Word - 1
    <3>1. x - a \in Nat
      BY <1>1, <2>1
    <3>2. Cell("word", v, x - a) \in Cells
      BY <3>1, CellFacts
    <3>. QED BY <1>2, <2>1, <3>2
  <2>2. CASE x \notin a .. a + Word - 1
    BY <1>2, <2>2 DEF Bytes
  <2>. QED BY <2>1, <2>2
<1>4. ASSUME NEW x \in 0 .. StackSize - 1, x < a \/ x >= a + Word PROVE r[x] = m[x]
  <2>1. x \notin a .. a + Word - 1
    BY <1>1, <1>4
  <2>. QED BY <1>2, <2>1
<1>5. ASSUME a + Word <= StackSize, NEW j \in 0 .. Word - 1 PROVE r[a + j] = Cell("word", v, j)
  <2>1. a + j \in 0 .. StackSize - 1 /\ a + j \in a .. a + Word - 1 /\ (a + j) - a = j
    BY <1>1, <1>5
  <2>. QED BY <1>2, <2>1
<1>6. r \in Bytes
  BY <1>2, <1>3 DEF Bytes
<1>. QED BY <1>0, <1>4, <1>5, <1>6 DEF WordThere, Written

\* A string in memory.
LEMMA PutStringFacts ==
    ASSUME NEW m \in Bytes, NEW a \in Nat, NEW s \in Seq(Char)
    PROVE  /\ Written(m, PutString(m, a, s), a, Len(s) + 1)
           /\ a + Len(s) < StackSize => StringThere(PutString(m, a, s), a, s)
<1>0. PICK r : r = PutString(m, a, s)
  OBVIOUS
<1>1. StackSize \in Nat
  BY StackSizes
<1>2. PICK n \in Nat : n = Len(s)
  OBVIOUS
<1>3. /\ DOMAIN r = 0 .. StackSize - 1
      /\ r = [x \in 0 .. StackSize - 1 |->
                IF x \in a .. a + n - 1 THEN Cell("byte", s[x - a + 1], 0)
                ELSE IF x = a + n THEN Cell("byte", 0, 0) ELSE m[x]]
  BY <1>0, <1>2 DEF PutString, Bytes
<1>4. \A x \in 0 .. StackSize - 1 :
         r[x] = IF x \in a .. a + n - 1 THEN Cell("byte", s[x - a + 1], 0)
                ELSE IF x = a + n THEN Cell("byte", 0, 0) ELSE m[x]
  BY <1>3
<1>5. \A j \in 1 .. n : s[j] \in Nat
  BY <1>2 DEF Char
<1>6. ASSUME NEW x \in 0 .. StackSize - 1 PROVE r[x] \in Cells
  <2>1. CASE x \in a .. a + n - 1
    <3>1. x - a + 1 \in 1 .. n
      BY <1>1, <2>1
    <3>2. Cell("byte", s[x - a + 1], 0) \in Cells
      BY <1>5, <3>1, CellFacts
    <3>. QED BY <1>4, <2>1, <3>2
  <2>2. CASE x \notin a .. a + n - 1
    <3>1. Cell("byte", 0, 0) \in Cells
      BY CellFacts
    <3>. QED BY <1>4, <2>2, <3>1 DEF Bytes
  <2>. QED BY <2>1, <2>2
<1>7. ASSUME NEW x \in 0 .. StackSize - 1, x < a \/ x >= a + n + 1 PROVE r[x] = m[x]
  <2>1. x \notin a .. a + n - 1 /\ x # a + n
    BY <1>1, <1>7
  <2>. QED BY <1>4, <2>1
<1>8. ASSUME a + n < StackSize PROVE StringThere(r, a, s)
  <2>1. ASSUME NEW j \in 1 .. n PROVE r[a + j - 1] = Cell("byte", s[j], 0)
    <3>1. a + j - 1 \in 0 .. StackSize - 1 /\ a + j - 1 \in a .. a + n - 1 /\ (a + j - 1) - a + 1 = j
      BY <1>1, <1>8
    <3>. QED BY <1>4, <3>1
  <2>2. r[a + n] = Cell("byte", 0, 0)
    <3>1. a + n \in 0 .. StackSize - 1 /\ a + n \notin a .. a + n - 1
      BY <1>1, <1>8
    <3>. QED BY <1>4, <3>1
  <2>. QED BY <1>2, <2>1, <2>2 DEF StringThere
<1>9. r \in Bytes
  BY <1>3, <1>6 DEF Bytes
<1>10. \A x \in 0 .. StackSize - 1 : x < a \/ x >= a + (n + 1) => r[x] = m[x]
  <2>1. a + (n + 1) = a + n + 1
    OBVIOUS
  <2>. QED BY <1>7, <2>1
<1>. QED BY <1>0, <1>2, <1>8, <1>9, <1>10 DEF Written

\* Memory between sp and b, and slot k, stay.
Kept(m, r, sp, b, k) ==
    /\ \A x \in Nat : sp <= x /\ x < b => r[x] = m[x]
    /\ \A j \in 0 .. Word - 1 : r[b + (k - 1) * Word + j] = m[b + (k - 1) * Word + j]

\* Then what is placed stays.
LEMMA StaysPlaced ==
    ASSUME NEW m, NEW r, NEW sp \in Nat, NEW q \in Nat, q <= sp, NEW b \in Nat, NEW s \in Seq(Char),
           NEW k \in Nat \ {0}, Placed(m, sp, b, s, k),
           Kept(m, r, sp, b, k)
    PROVE  Placed(r, q, b, s, k)
<1>1. PICK a \in sp .. b - 1 :
         a + Len(s) < b /\ WordThere(m, b + (k - 1) * Word, a) /\ StringThere(m, a, s)
  BY DEF Placed
<1>2. a \in q .. b - 1 /\ a \in Nat /\ Len(s) \in Nat
  BY <1>1
<1>3. WordThere(r, b + (k - 1) * Word, a)
  BY <1>1 DEF WordThere, Kept
<1>4. StringThere(r, a, s)
  <2>1. ASSUME NEW j \in 1 .. Len(s) PROVE r[a + j - 1] = Cell("byte", s[j], 0)
    <3>1. a + j - 1 \in Nat /\ sp <= a + j - 1 /\ a + j - 1 < b
      BY <1>1, <1>2
    <3>2. r[a + j - 1] = m[a + j - 1]
      BY <3>1 DEF Kept
    <3>. QED BY <1>1, <3>2 DEF StringThere
  <2>2. a + Len(s) \in Nat /\ sp <= a + Len(s) /\ a + Len(s) < b
    BY <1>1, <1>2
  <2>3. r[a + Len(s)] = m[a + Len(s)]
    BY <2>2 DEF Kept
  <2>. QED BY <1>1, <2>1, <2>3 DEF StringThere
<1>. QED BY <1>1, <1>2, <1>3, <1>4 DEF Placed

\* exec makes room for the vector.
LEMMA StackExec ==
    ASSUME StackInv, NEW args \in ArgLists, Exec(args)
    PROVE  StackInv'
<1>1. CASE phase' = "panic"
  BY <1>1 DEF StackInv, Filled, ArgumentsArrive
<1>2. CASE phase' # "panic"
  <2>1. args \in Seq(Seq(Char)) /\ StackSize \in Nat /\ Word \in Nat \ {0}
    BY StackSizes
  <2>2. PICK l \in Nat, w \in Nat : l = Len(args) /\ w = (l + 1) * Word /\ w >= Word
    <3>1. Len(args) \in Nat
      BY <2>1
    <3>2. PICK l \in Nat : l = Len(args)
      BY <3>1
    <3>3. 0 * Word + Word <= (l + 1) * Word /\ (l + 1) * Word \in Nat /\ 0 * Word \in Nat
      BY Slots
    <3>4. (l + 1) * Word >= Word
      BY <2>1, <3>3
    <3>. QED BY <3>2, <3>3, <3>4
  <2>3. PICK zero : zero = [x \in 0 .. StackSize - 1 |-> Untouched]
    OBVIOUS
  <2>4. PICK m : m = PutWord(zero, StackSize - Word, 0)
    OBVIOUS
  <2>5. /\ w <= StackSize /\ phase' = "pushing"
        /\ stack' = [mem |-> m, sp |-> StackSize - w, args |-> args, pushed |-> 0]
    BY <1>2, <2>1, <2>2, <2>3, <2>4 DEF Exec
  <2>6. zero \in Bytes /\ \A x \in 0 .. StackSize - 1 : zero[x] = Untouched
    BY <2>3, CellFacts DEF Bytes
  <2>7. PICK t \in Nat : t = StackSize - Word
    BY <2>1, <2>2, <2>5
  <2>8. /\ m \in Bytes
        /\ \A x \in 0 .. StackSize - 1 : x < t => m[x] = zero[x]
    <3>1. m = PutWord(zero, t, 0) /\ 0 \in Nat /\ zero \in Bytes
      BY <2>4, <2>6, <2>7
    <3>2. Written(zero, PutWord(zero, t, 0), t, Word)
      BY <3>1, PutWordFacts
    <3>. QED BY <3>1, <3>2 DEF Written
  <2>9. Argv' = StackSize - w /\ StackSize - w \in Nat
    BY <2>1, <2>2, <2>5 DEF Argv
  <2>10. /\ stack'.mem = m /\ stack'.sp = StackSize - w /\ stack'.args = args /\ stack'.pushed = 0
         /\ stack' \in [mem : Bytes, sp : Nat, args : Seq(Seq(Char)), pushed : Nat]
    BY <2>1, <2>5, <2>8, <2>9
  <2>11. ASSUME NEW a \in 0 .. (StackSize - w) - 1 PROVE m[a] = Untouched
    <3>1. a \in 0 .. StackSize - 1 /\ a < t
      BY <2>1, <2>2, <2>7
    <3>. QED BY <2>6, <2>8, <3>1
  <2>12. Filled'
    <3>1. 0 <= Len(args) /\ StackSize - w <= StackSize - w /\ 1 .. 0 = {}
      BY <2>2, <2>9
    <3>. QED BY <2>5, <2>9, <2>10, <2>11, <3>1 DEF Filled
  <2>. QED BY <2>5, <2>12 DEF StackInv, ArgumentsArrive
<1>. QED BY <1>1, <1>2

\* exec pushes an argument.
LEMMA StackPush ==
    ASSUME StackInv, PushArg
    PROVE  StackInv'
<1>1. CASE phase' = "panic"
  BY <1>1 DEF StackInv, Filled, ArgumentsArrive
<1>2. CASE phase' # "panic"
  <2>1. phase = "pushing" /\ phase' = "pushing"
    BY <1>2 DEF PushArg
  <2>2. /\ stack \in [mem : Bytes, sp : Nat, args : Seq(Seq(Char)), pushed : Nat]
        /\ stack.pushed < Len(stack.args) /\ Argv \in Nat /\ stack.sp <= Argv
        /\ \A k \in 1 .. stack.pushed : Placed(stack.mem, stack.sp, Argv, stack.args[k], k)
        /\ \A a \in 0 .. stack.sp - 1 : stack.mem[a] = Untouched
    BY <2>1 DEF StackInv, Filled, PushArg
  <2>3. PICK m \in Bytes, sp \in Nat, args \in Seq(Seq(Char)), n \in Nat, b \in Nat :
           m = stack.mem /\ sp = stack.sp /\ args = stack.args /\ n = stack.pushed /\ b = Argv
    BY <2>2
  <2>4. /\ n < Len(args) /\ sp <= b /\ Len(args) \in Nat
        /\ \A k \in 1 .. n : Placed(m, sp, b, args[k], k)
        /\ \A a \in 0 .. sp - 1 : m[a] = Untouched
    BY <2>2, <2>3
  <2>5. PICK s \in Seq(Char) : s = args[n + 1] /\ \A k \in 1 .. n : args[k] \in Seq(Char)
    <3>1. n + 1 \in 1 .. Len(args) /\ \A k \in 1 .. n : k \in 1 .. Len(args)
      BY <2>4
    <3>2. \A k \in 1 .. Len(args) : args[k] \in Seq(Char)
      OBVIOUS
    <3>. QED BY <3>1, <3>2
  <2>6. PICK r, u : u = PutWord(m, b + n * Word, sp - Room(s)) /\ r = PutString(u, sp - Room(s), s)
    OBVIOUS
  <2>7. /\ Room(s) <= sp
        /\ stack' = [stack EXCEPT !.sp = sp - Room(s), !.pushed = n + 1, !.mem = r]
    BY <1>2, <2>3, <2>5, <2>6 DEF PushArg, Room
  <2>8. PICK q \in Nat : q = sp - Room(s) /\ sp = q + Len(s) + 1
    <3>1. Len(s) \in Nat /\ Room(s) = Len(s) + 1
      BY DEF Room
    <3>2. PICK g \in Nat, l \in Nat : g = Room(s) /\ l = Len(s) /\ g = l + 1
      BY <3>1
    <3>3. g <= sp
      BY <2>7, <3>2
    <3>4. sp - g \in Nat /\ sp = (sp - g) + l + 1
      BY <3>2, <3>3
    <3>. QED BY <3>2, <3>4
  <2>9. PICK d \in Nat : d = n * Word
    BY <2>4, Slots
  <2>10. PICK w \in Nat : w = b + d /\ w + Word <= StackSize /\ b <= w /\ Word \in Nat \ {0} /\ StackSize \in Nat
    <3>1. n * Word \in Nat /\ Len(args) * Word \in Nat /\ n * Word + Word <= Len(args) * Word
      BY <2>4, Slots
    <3>2. (Len(args) + 1) * Word = Len(args) * Word + Word /\ Word \in Nat /\ StackSize \in Nat
      BY <2>4, StackSizes, Z3
    <3>3. b = StackSize - (Len(args) + 1) * Word
      BY <2>3 DEF Argv
    <3>4. b + n * Word + Word <= StackSize
      BY <3>1, <3>2, <3>3
    <3>5. b + d + Word <= StackSize /\ Word \in Nat \ {0} /\ StackSize \in Nat
      BY <2>9, <3>4, StackSizes
    <3>6. b + d \in Nat /\ b <= b + d
      OBVIOUS
    <3>. QED BY <3>5, <3>6
  <2>11. /\ u \in Bytes /\ WordThere(u, w, q)
         /\ \A x \in 0 .. StackSize - 1 : x < w \/ x >= w + Word => u[x] = m[x]
    <3>1. u = PutWord(m, w, q)
      BY <2>6, <2>8, <2>9, <2>10
    <3>2. /\ Written(m, PutWord(m, w, q), w, Word)
          /\ w + Word <= StackSize => WordThere(PutWord(m, w, q), w, q)
      BY PutWordFacts
    <3>. QED BY <2>10, <3>1, <3>2 DEF Written
  <2>12. /\ r \in Bytes /\ StringThere(r, q, s)
         /\ \A x \in 0 .. StackSize - 1 : x < q \/ x >= sp => r[x] = u[x]
    <3>1. r = PutString(u, q, s) /\ q + Len(s) < StackSize /\ Len(s) \in Nat
      BY <2>4, <2>6, <2>8, <2>10
    <3>2. /\ Written(u, PutString(u, q, s), q, Len(s) + 1)
          /\ q + Len(s) < StackSize => StringThere(PutString(u, q, s), q, s)
      BY <2>11, PutStringFacts
    <3>3. q + (Len(s) + 1) = sp
      BY <2>8, <3>1
    <3>. QED BY <3>1, <3>2, <3>3 DEF Written
  <2>13. Placed(r, q, b, s, n + 1)
    <3>1. q \in q .. b - 1 /\ q + Len(s) < b
      BY <2>4, <2>8
    <3>2. WordThere(r, w, q)
      <4>1. ASSUME NEW j \in 0 .. Word - 1 PROVE r[w + j] = u[w + j]
        <5>1. w + j \in 0 .. StackSize - 1 /\ w + j >= sp
          BY <2>4, <2>10
        <5>. QED BY <2>12, <5>1
      <4>. QED BY <2>11, <4>1 DEF WordThere
    <3>3. w = b + ((n + 1) - 1) * Word
      <4>1. (n + 1) - 1 = n
        OBVIOUS
      <4>. QED BY <2>9, <2>10, <4>1
    <3>. QED BY <2>12, <3>1, <3>2, <3>3 DEF Placed
  <2>14. ASSUME NEW k \in 1 .. n PROVE Placed(r, q, b, args[k], k)
    <3>1. k \in Nat \ {0} /\ Placed(m, sp, b, args[k], k) /\ args[k] \in Seq(Char) /\ q <= sp
      BY <2>4, <2>5, <2>8
    <3>2. ASSUME NEW x \in Nat, sp <= x, x < b PROVE r[x] = m[x]
      <4>1. x \in 0 .. StackSize - 1 /\ x < w /\ x >= sp
        BY <2>10, <3>2
      <4>. QED BY <2>11, <2>12, <4>1
    <3>3. (k - 1) * Word \in Nat /\ (k - 1) * Word + Word <= d
      <4>1. k - 1 \in Nat /\ k - 1 < n
        BY <3>1
      <4>2. (k - 1) * Word \in Nat /\ (k - 1) * Word + Word <= n * Word
        BY <4>1, Slots
      <4>. QED BY <2>9, <4>2
    <3>4. PICK c \in Nat : c = (k - 1) * Word
      BY <3>3
    <3>5. c + Word <= d
      BY <3>3, <3>4
    <3>6. ASSUME NEW j \in 0 .. Word - 1 PROVE r[b + c + j] = m[b + c + j]
      <4>1. PICK x \in Nat : x = b + c + j
        OBVIOUS
      <4>2. x < w
        BY <2>10, <3>5, <4>1
      <4>3. x \in 0 .. StackSize - 1 /\ x >= sp
        BY <2>4, <2>10, <4>1, <4>2
      <4>. QED BY <2>11, <2>12, <4>1, <4>2, <4>3
    <3>7. \A j \in 0 .. Word - 1 : r[b + (k - 1) * Word + j] = m[b + (k - 1) * Word + j]
      BY <3>4, <3>6
    <3>8. Kept(m, r, sp, b, k)
      BY <3>2, <3>7 DEF Kept
    <3>. QED BY <3>1, <3>8, StaysPlaced
  <2>15. ASSUME NEW a \in 0 .. q - 1 PROVE r[a] = Untouched
    <3>0. q <= sp /\ sp <= b /\ b <= w /\ w <= StackSize /\ StackSize \in Nat
      <4>1. Len(s) \in Nat /\ sp = q + Len(s) + 1
        BY <2>8
      <4>2. q <= sp
        BY <4>1
      <4>. QED BY <2>4, <2>10, <4>2
    <3>1. a \in 0 .. StackSize - 1 /\ a < q /\ a < w /\ a \in 0 .. sp - 1
      BY <3>0
    <3>. QED BY <2>4, <2>11, <2>12, <3>1
  <2>16. /\ stack' \in [mem : Bytes, sp : Nat, args : Seq(Seq(Char)), pushed : Nat]
         /\ stack'.mem = r /\ stack'.sp = q /\ stack'.args = args /\ stack'.pushed = n + 1
    <3>1. stack' = [stack EXCEPT !.sp = q, !.pushed = n + 1, !.mem = r]
      BY <2>7, <2>8
    <3>2. stack' = [mem |-> r, sp |-> q, args |-> args, pushed |-> n + 1]
      BY <2>2, <2>3, <3>1
    <3>3. n + 1 \in Nat /\ r \in Bytes
      BY <2>12
    <3>. QED BY <3>2, <3>3
  <2>17. Argv' = b
    BY <2>3, <2>16 DEF Argv
  <2>18. n + 1 <= Len(args) /\ q <= b
    BY <2>4, <2>8
  <2>19. ASSUME NEW k \in 1 .. n + 1 PROVE Placed(r, q, b, args[k], k)
    BY <2>5, <2>13, <2>14
  <2>20. Filled'
    BY <2>1, <2>15, <2>16, <2>17, <2>18, <2>19 DEF Filled
  <2>. QED BY <2>1, <2>20 DEF StackInv, ArgumentsArrive
<1>. QED BY <1>1, <1>2

\* exec aligns the stack pointer.
LEMMA StackEnter ==
    ASSUME StackInv, Enter
    PROVE  StackInv'
<1>1. phase = "pushing" /\ phase' = "started" /\ stack' = [stack EXCEPT !.sp = @ - (@ % Word)]
      /\ stack.pushed >= Len(stack.args)
  BY DEF Enter
<1>2. /\ stack \in [mem : Bytes, sp : Nat, args : Seq(Seq(Char)), pushed : Nat]
      /\ stack.pushed <= Len(stack.args) /\ Argv \in Nat /\ stack.sp <= Argv
      /\ \A k \in 1 .. stack.pushed : Placed(stack.mem, stack.sp, Argv, stack.args[k], k)
      /\ \A a \in 0 .. stack.sp - 1 : stack.mem[a] = Untouched
  BY <1>1 DEF StackInv, Filled
<1>3. PICK sp \in Nat, q \in Nat : sp = stack.sp /\ q = sp - (sp % Word) /\ q <= sp
  <2>1. PICK sp \in Nat : sp = stack.sp
    BY <1>2
  <2>2. sp % Word \in Nat /\ sp % Word <= sp
    <3>1. Word \in Nat \ {0}
      BY StackSizes
    <3>. QED BY <3>1, Z3
  <2>3. sp - (sp % Word) \in Nat /\ sp - (sp % Word) <= sp
    BY <2>2
  <2>. QED BY <2>1, <2>3
<1>4. /\ stack' \in [mem : Bytes, sp : Nat, args : Seq(Seq(Char)), pushed : Nat]
      /\ stack'.sp = q /\ stack'.mem = stack.mem /\ stack'.args = stack.args /\ stack'.pushed = stack.pushed
      /\ Argv' = Argv
  <2>1. stack' = [stack EXCEPT !.sp = q]
    BY <1>1, <1>3
  <2>. QED BY <1>2, <2>1 DEF Argv
<1>5. PICK args \in Seq(Seq(Char)), n \in Nat, b \in Nat, m \in Bytes :
         args = stack.args /\ n = stack.pushed /\ b = Argv /\ m = stack.mem
  BY <1>2
<1>6. ASSUME NEW k \in 1 .. n PROVE Placed(m, q, b, args[k], k)
  <2>1. k \in 1 .. Len(args) /\ k \in Nat \ {0}
    BY <1>2, <1>5
  <2>2. args[k] \in Seq(Char) /\ Placed(m, sp, b, args[k], k)
    BY <1>2, <1>3, <1>5, <2>1
  <2>3. Kept(m, m, sp, b, k)
    BY DEF Kept
  <2>. QED BY <1>3, <2>1, <2>2, <2>3, StaysPlaced
<1>7. n = Len(args) /\ q <= b
  BY <1>1, <1>2, <1>3, <1>5
<1>8. \A a \in 0 .. q - 1 : a \in 0 .. sp - 1
  BY <1>3
<1>9. Filled'
  BY <1>1, <1>2, <1>3, <1>4, <1>5, <1>6, <1>7, <1>8 DEF Filled
<1>. QED BY <1>1, <1>9 DEF StackInv, ArgumentsArrive

\* _start finds a string that is placed.
LEMMA Found ==
    ASSUME NEW a \in Nat, NEW s \in Seq(Char), a + Len(s) < StackSize, StringThere(stack.mem, a, s)
    PROVE  StringAt(a) = s
<1>1. PICK n \in Nat : n = Len(s)
  OBVIOUS
<1>2. StackSize \in Nat
  BY StackSizes
<1>. DEFINE zero(x) == stack.mem[a + x] = Cell("byte", 0, 0)
            P(x) == zero(x) /\ \A y \in 0 .. x - 1 : ~zero(y)
<1>3. zero(n)
  BY <1>1 DEF StringThere
<1>4. ASSUME NEW y \in 0 .. n - 1 PROVE ~zero(y)
  <2>1. y + 1 \in 1 .. n /\ a + (y + 1) - 1 = a + y
    OBVIOUS
  <2>2. s[y + 1] \in Nat \ {0}
    BY <1>1, <2>1 DEF Char
  <2>3. stack.mem[a + y] = Cell("byte", s[y + 1], 0)
    BY <1>1, <2>1 DEF StringThere
  <2>. QED BY <2>2, <2>3, CellFacts
<1>5. n \in 0 .. StackSize - a - 1 /\ P(n)
  <2>1. a + n < StackSize
    BY <1>1
  <2>2. n \in 0 .. StackSize - a - 1
    <3>. HIDE DEF P, zero
    <3>. QED BY <1>2, <2>1
  <2>. QED BY <1>3, <1>4, <2>2
<1>6. ASSUME NEW x \in 0 .. StackSize - a - 1, P(x) PROVE x = n
  <2>1. CASE x < n
    <3>1. x \in 0 .. n - 1
      BY <2>1
    <3>. QED BY <1>4, <1>6, <3>1
  <2>2. CASE x > n
    <3>1. n \in 0 .. x - 1
      BY <2>2
    <3>. QED BY <1>3, <1>6, <3>1
  <2>. QED BY <2>1, <2>2, <1>2
<1>7. (CHOOSE x \in 0 .. StackSize - a - 1 : P(x)) = n
  <2>. HIDE DEF P
  <2>. QED BY <1>5, <1>6
<1>8. StringAt(a) = [k \in 1 .. n |-> stack.mem[a + k - 1].val]
  BY <1>7 DEF StringAt
<1>9. ASSUME NEW k \in 1 .. n PROVE stack.mem[a + k - 1].val = s[k]
  <2>1. s[k] \in Nat /\ stack.mem[a + k - 1] = Cell("byte", s[k], 0)
    BY <1>1 DEF StringThere, Char
  <2>. QED BY <2>1, CellFacts
<1>10. s = [k \in 1 .. n |-> s[k]]
  BY <1>1
<1>. QED BY <1>8, <1>9, <1>10

\* _start finds the arguments of exec.
LEMMA StackStart ==
    ASSUME StackInv, Start
    PROVE  StackInv'
<1>1. /\ phase = "started" /\ phase' = "main" /\ stack' = stack
      /\ seen' = [i \in 1 .. Len(stack.args) |-> StringAt(WordAt(Argv + (i - 1) * Word))]
  BY DEF Start
<1>2. /\ stack \in [mem : Bytes, sp : Nat, args : Seq(Seq(Char)), pushed : Nat]
      /\ stack.pushed = Len(stack.args) /\ Argv \in Nat
      /\ \A k \in 1 .. stack.pushed : Placed(stack.mem, stack.sp, Argv, stack.args[k], k)
      /\ \A a \in 0 .. stack.sp - 1 : stack.mem[a] = Untouched
  BY <1>1 DEF StackInv, Filled
<1>3. PICK args \in Seq(Seq(Char)), b \in Nat, sp \in Nat : args = stack.args /\ b = Argv /\ sp = stack.sp
  BY <1>2
<1>4. Len(args) \in Nat /\ StackSize \in Nat /\ Word \in Nat \ {0} /\ b <= StackSize
  <2>1. Len(args) \in Nat /\ StackSize \in Nat /\ Word \in Nat \ {0}
    BY StackSizes
  <2>2. (Len(args) + 1) * Word \in Nat
    BY <2>1, Z3
  <2>3. b = StackSize - (Len(args) + 1) * Word
    BY <1>3 DEF Argv
  <2>. QED BY <2>1, <2>2, <2>3
<1>5. ASSUME NEW k \in 1 .. Len(args) PROVE StringAt(WordAt(b + (k - 1) * Word)) = args[k]
  <2>1. Placed(stack.mem, sp, b, args[k], k) /\ args[k] \in Seq(Char) /\ Len(args[k]) \in Nat
    BY <1>2, <1>3
  <2>2. PICK a \in sp .. b - 1 : /\ a + Len(args[k]) < b /\ StringThere(stack.mem, a, args[k])
                                 /\ WordThere(stack.mem, b + (k - 1) * Word, a)
    BY <2>1 DEF Placed
  <2>3. a \in Nat /\ a + Len(args[k]) < StackSize
    BY <1>4, <2>1, <2>2
  <2>4. PICK w \in Nat : w = b + (k - 1) * Word
    <3>1. (k - 1) * Word \in Nat
      <4>1. k - 1 \in Nat /\ k - 1 < k /\ k \in Nat
        OBVIOUS
      <4>. QED BY <4>1, Slots
    <3>. QED BY <3>1
  <2>5. WordAt(w) = a
    <3>1. \A j \in 0 .. Word - 1 : stack.mem[w + j] = Cell("word", a, j)
      BY <2>2, <2>4 DEF WordThere
    <3>2. 0 \in 0 .. Word - 1 /\ w + 0 = w
      BY <1>4
    <3>3. stack.mem[w] = Cell("word", a, 0)
      BY <3>1, <3>2
    <3>4. stack.mem[w].val = a
      BY <2>3, <3>3, CellFacts
    <3>. QED BY <3>1, <3>4 DEF WordAt
  <2>6. StringAt(a) = args[k]
    BY <2>1, <2>2, <2>3, Found
  <2>. QED BY <2>4, <2>5, <2>6
<1>6. seen' = args
  <2>1. args = [k \in 1 .. Len(args) |-> args[k]]
    OBVIOUS
  <2>2. seen' = [k \in 1 .. Len(args) |-> StringAt(WordAt(b + (k - 1) * Word))]
    BY <1>1, <1>3
  <2>. QED BY <1>5, <2>1, <2>2
<1>. QED BY <1>1, <1>2, <1>3, <1>6 DEF StackInv, Filled, ArgumentsArrive

\* The invariant of the stack survives every step.
LEMMA StackStep == StackInv /\ [Next]_vars => StackInv'
<1>. SUFFICES ASSUME StackInv, [Next]_vars PROVE StackInv'
  OBVIOUS
<1>1. ASSUME phase' \notin {"pushing", "started", "main"} PROVE StackInv'
  BY <1>1 DEF StackInv, Filled, ArgumentsArrive
<1>2. ASSUME UNCHANGED vars PROVE StackInv'
  <2>1. phase' = phase /\ stack' = stack /\ seen' = seen /\ Argv' = Argv
    BY <1>2 DEF vars, Argv
  <2>. QED BY <2>1 DEF StackInv, Filled, ArgumentsArrive
<1>3. ASSUME \/ \E ptr \in 0 .. Pages * PageSize : \E len \in 0 .. MaxLen : SliceCall("buffer", ptr, len)
             \/ \E p \in 0 .. (Pages * PageSize) \div Word : \E len \in Structs :
                   SliceCall("first", p * Word, len) \/ RefCall(p * Word, len)
             \/ \E ptr \in 0 .. Pages * PageSize : StringCall(ptr)
             \/ Slice \/ Sliced \/ MoveByte \/ ReturnBuffer \/ StringByte \/ Main
      PROVE  phase' \notin {"pushing", "started", "main"}
  BY <1>3 DEF SliceCall, StringCall, Begin, RefCall, Slice, Sliced, MoveByte, ReturnBuffer,
              StringByte, Main, Panics
<1>. QED BY <1>1, <1>2, <1>3, StackExec, StackPush, StackEnter, StackStart DEF Next

\* For every stack size, word size and list of arguments: what _start hands to main is
\* what the caller of exec has passed, and nothing that exec has written is below the
\* stack pointer that the program begins with.
THEOREM ArgumentSafety == Spec => []ArgumentsArrive
<1>1. Init => StackInv
  BY DEF Init, StackInv, Filled, ArgumentsArrive
<1>2. StackInv => ArgumentsArrive
  BY DEF StackInv
<1>. QED BY <1>1, <1>2, StackStep, PTL DEF Spec
=============================================================================
