----------------------------- MODULE PipeProofs -----------------------------
(***************************************************************************)
(* Proofs about module Pipe for any ring size, any set of processes and    *)
(* any length of user buffers: the ring invariants, the finality of the    *)
(* end of file, and that the pipe implements a first-in first-out channel. *)
(***************************************************************************)
EXTENDS Pipe, SequenceTheorems, TLAPS

\* Before sys_pipe no descriptor exists and the ring is untouched.
NotMade == ~made => status = "EMPTY" /\ \A p \in Proc : rfd[p] = 0 /\ wfd[p] = 0

\* The process on the processor is live.
CurrentLive == current # None => state[current] = "live"

IInv == /\ TypeOK /\ StatusTellsApart /\ BudgetCovered /\ CallHoldsEnd
        /\ EofFinal /\ NotMade /\ CurrentLive

----------------------------------------------------------------------------
\* Indices advance by at most one turn around the ring.
LEMMA ModWrap ==
    ASSUME NEW n \in Nat \ {0}, NEW i \in 0 .. 2 * n - 1
    PROVE  i % n = IF i < n THEN i ELSE i - n
<1>1. CASE i < n
  BY <1>1, Z3
<1>2. CASE i >= n
  BY <1>2, Z3
<1>. QED BY <1>1, <1>2

\* The successor of an index, without the modulo of the code.
LEMMA IncIs ==
    ASSUME NEW i \in Index
    PROVE  /\ Inc(i) = IF i + 1 = Size THEN 0 ELSE i + 1
           /\ Inc(i) \in Index
<1>. DEFINE j == i + 1
<1>1. j \in 0 .. 2 * Size - 1 /\ Size \in Nat \ {0}
  BY PipeAssumption DEF Index
<1>2. j % Size = IF j < Size THEN j ELSE j - Size
  <2>. HIDE DEF j
  <2>. QED BY <1>1, ModWrap, Zenon
<1>. QED BY <1>1, <1>2 DEF Inc, Index

\* The slot k places after an index, without the modulo.
LEMMA SlotIs ==
    ASSUME NEW h \in Index, NEW k \in 0 .. Size - 1
    PROVE  /\ (h + k) % Size = IF h + k < Size THEN h + k ELSE h + k - Size
           /\ (h + k) % Size \in Index
<1>. DEFINE j == h + k
<1>1. j \in 0 .. 2 * Size - 1 /\ Size \in Nat \ {0}
  BY PipeAssumption DEF Index
<1>2. j % Size = IF j < Size THEN j ELSE j - Size
  <2>. HIDE DEF j
  <2>. QED BY <1>1, ModWrap, Zenon
<1>. QED BY <1>1, <1>2 DEF Index

\* The counts are within the ring and add up to its size.
LEMMA Counts ==
    ASSUME TypeOK, StatusTellsApart
    PROVE  /\ AvailableRead \in 0 .. Size
           /\ AvailableWrite = Size - AvailableRead
           /\ AvailableRead = 0 <=> status = "EMPTY"
BY PipeAssumption DEF TypeOK, StatusTellsApart, AvailableRead, AvailableWrite, Index

----------------------------------------------------------------------------
\* read_byte on a ring that is not empty takes one byte off.
LEMMA TakeRing ==
    ASSUME TypeOK, StatusTellsApart, AvailableRead > 0, TakeByte
    PROVE  /\ head' \in Index /\ tail' = tail /\ arr' = arr /\ got' \in Byte
           /\ status' \in {"EMPTY", "FULL", "NORMAL"}
           /\ StatusTellsApart'
           /\ AvailableRead' = AvailableRead - 1
<1>1. head \in Index /\ tail \in Index /\ Size \in Nat \ {0} /\ arr \in [Index -> Byte]
  BY PipeAssumption DEF TypeOK
<1>2. /\ head' = IF head + 1 = Size THEN 0 ELSE head + 1
      /\ head' \in Index
      /\ tail' = tail /\ arr' = arr /\ got' = arr[head]
      /\ status' = IF head' = tail THEN "EMPTY" ELSE "NORMAL"
  BY <1>1, IncIs DEF TakeByte
<1>3. got' \in Byte
  BY <1>1, <1>2
<1>4. StatusTellsApart'
  BY <1>2 DEF StatusTellsApart
<1>5. AvailableRead' = AvailableRead - 1
  BY <1>1, <1>2 DEF AvailableRead, StatusTellsApart, Index, TypeOK
<1>. QED BY <1>2, <1>3, <1>4, <1>5

\* write_byte on a ring that is not full adds one byte.
LEMMA PutRing ==
    ASSUME TypeOK, StatusTellsApart, AvailableWrite > 0, NEW b \in Byte, PutByte(b)
    PROVE  /\ tail' \in Index /\ head' = head /\ arr' \in [Index -> Byte]
           /\ status' \in {"EMPTY", "FULL", "NORMAL"}
           /\ StatusTellsApart'
           /\ AvailableRead' = AvailableRead + 1
           /\ AvailableWrite' = AvailableWrite - 1
           /\ status # "FULL"
<1>1. head \in Index /\ tail \in Index /\ Size \in Nat \ {0} /\ arr \in [Index -> Byte]
  BY PipeAssumption DEF TypeOK
<1>2. /\ tail' = IF tail + 1 = Size THEN 0 ELSE tail + 1
      /\ tail' \in Index
      /\ head' = head /\ arr' = [arr EXCEPT ![tail] = b]
      /\ status' = IF tail' = head THEN "FULL" ELSE "NORMAL"
  BY <1>1, IncIs DEF PutByte
<1>3. arr' \in [Index -> Byte]
  BY <1>1, <1>2
<1>4. StatusTellsApart'
  BY <1>2 DEF StatusTellsApart
<1>5. status # "FULL"
  BY DEF AvailableWrite
<1>6. AvailableRead' = AvailableRead + 1
  BY <1>1, <1>2, <1>5 DEF AvailableRead, StatusTellsApart, Index, TypeOK
<1>7. AvailableWrite' = AvailableWrite - 1
  BY <1>1, <1>2, <1>5 DEF AvailableRead, AvailableWrite, StatusTellsApart, Index, TypeOK
<1>. QED BY <1>2, <1>3, <1>4, <1>5, <1>6, <1>7

----------------------------------------------------------------------------
\* Initially nothing is in the ring, no descriptor and no call exists.
LEMMA InitInv == Init => IInv
<1>. SUFFICES ASSUME Init PROVE IInv
  OBVIOUS
<1>1. TypeOK
  <2>1. /\ arr \in [Index -> Byte] /\ head \in Index /\ tail \in Index
        /\ status \in {"EMPTY", "FULL", "NORMAL"} /\ got \in Byte
    BY PipeAssumption DEF Init, Index
  <2>2. /\ rfd \in [Proc -> 0 .. MaxFds] /\ wfd \in [Proc -> 0 .. MaxFds]
        /\ left \in [Proc -> 0 .. MaxLen] /\ loop \in [Proc -> 0 .. Size]
    BY PipeAssumption DEF Init
  <2>3. /\ op \in [Proc -> {"user", "read", "write"}]
        /\ current \in Proc \cup {None}
    BY DEF Init
  <2>4. made \in BOOLEAN /\ eof \in BOOLEAN
    BY DEF Init
  <2>5. /\ state \in [Proc -> {"absent", "live", "zombie"}]
        /\ parentOf \in [Proc -> Proc \cup {None}]
    BY DEF Init, AInit
  <2>. QED BY <2>1, <2>2, <2>3, <2>4, <2>5 DEF TypeOK
<1>2. /\ StatusTellsApart /\ BudgetCovered /\ CallHoldsEnd
      /\ EofFinal /\ NotMade /\ CurrentLive
  BY PipeAssumption DEF Init, StatusTellsApart, BudgetCovered, CallHoldsEnd,
                        EofFinal, NotMade, CurrentLive
<1>. QED BY <1>1, <1>2 DEF IInv

\* The unread bytes after read_byte are the old ones without the first, which
\* is the byte it returns.
LEMMA TakeContents ==
    ASSUME TypeOK, StatusTellsApart, AvailableRead > 0, TakeByte
    PROVE  Contents # <<>> /\ got' = Head(Contents) /\ Contents' = Tail(Contents)
<1>. DEFINE n == AvailableRead
<1>1. /\ head \in Index /\ head' \in Index /\ arr' = arr /\ arr \in [Index -> Byte]
      /\ head' = IF head + 1 = Size THEN 0 ELSE head + 1
      /\ got' = arr[head] /\ AvailableRead' = n - 1
      /\ n \in 1 .. Size /\ Size \in Nat \ {0}
  <2>1. head' = Inc(head) /\ got' = arr[head] /\ head \in Index
    BY DEF TakeByte, TypeOK
  <2>2. n \in 1 .. Size
    BY Counts, PipeAssumption
  <2>. QED BY <2>1, <2>2, IncIs, TakeRing, PipeAssumption DEF TypeOK
<1>. HIDE DEF n
<1>2. \A k \in 1 .. n : arr[Slot(k - 1)] \in Byte
  <2>1. SUFFICES ASSUME NEW k \in 1 .. n PROVE Slot(k - 1) \in Index
    BY <1>1
  <2>2. k - 1 \in 0 .. Size - 1
    BY <1>1
  <2>. QED BY <1>1, <2>2, SlotIs DEF Slot
<1>3. Contents = [k \in 1 .. n |-> arr[Slot(k - 1)]]
  BY DEF Contents, n
<1>4. Contents \in Seq(Byte) /\ Len(Contents) = n
  <2>1. Contents \in [1 .. n -> Byte] /\ n \in Nat
    BY <1>1, <1>2, <1>3
  <2>. QED BY <2>1
<1>5. Contents # <<>>
  BY <1>1, <1>4
<1>6. got' = Head(Contents)
  <2>1. Slot(0) = head
    <3>1. 0 \in 0 .. Size - 1
      BY <1>1
    <3>2. (head + 0) % Size = IF head + 0 < Size THEN head + 0 ELSE head + 0 - Size
      BY <1>1, <3>1, SlotIs
    <3>. QED BY <1>1, <3>2 DEF Slot, Index
  <2>2. Contents[1] = arr[Slot(0)]
    BY <1>1, <1>3
  <2>. QED BY <1>1, <1>4, <1>5, <2>1, <2>2
<1>7. Contents' = Tail(Contents)
  <2>1. Tail(Contents) = [k \in 1 .. n - 1 |-> Contents[k + 1]]
    <3>1. /\ Tail(Contents) \in Seq(Byte) /\ Len(Tail(Contents)) = n - 1
          /\ \A k \in 1 .. Len(Tail(Contents)) : Tail(Contents)[k] = Contents[k + 1]
      BY <1>4, <1>5, HeadTailProperties
    <3>2. Tail(Contents) \in [1 .. n - 1 -> Byte]
      BY <3>1, LenProperties
    <3>. QED BY <3>1, <3>2
  <2>2. ASSUME NEW k \in 1 .. n - 1
        PROVE  (head' + (k - 1)) % Size = (head + k) % Size
    <3>1. k - 1 \in 0 .. Size - 1 /\ k \in 0 .. Size - 1
      BY <1>1
    <3>2. (head' + (k - 1)) % Size
            = IF head' + (k - 1) < Size THEN head' + (k - 1) ELSE head' + (k - 1) - Size
      BY <1>1, <3>1, SlotIs
    <3>3. (head + k) % Size = IF head + k < Size THEN head + k ELSE head + k - Size
      BY <1>1, <3>1, SlotIs
    <3>. QED BY <1>1, <3>1, <3>2, <3>3 DEF Index
  <2>3. Contents' = [k \in 1 .. n - 1 |-> arr[(head' + (k - 1)) % Size]]
    BY <1>1 DEF Contents, Slot
  <2>4. ASSUME NEW k \in 1 .. n - 1
        PROVE  Contents[k + 1] = arr[(head + k) % Size]
    <3>1. k + 1 \in 1 .. n /\ (k + 1) - 1 = k
      BY <1>1
    <3>. QED BY <1>3, <3>1 DEF Slot
  <2>. QED BY <2>1, <2>2, <2>3, <2>4
<1>. QED BY <1>5, <1>6, <1>7

\* The unread bytes after write_byte are the old ones and the new one.
LEMMA PutContents ==
    ASSUME TypeOK, StatusTellsApart, AvailableWrite > 0, NEW b \in Byte, PutByte(b)
    PROVE  Len(Contents) < Size /\ Contents' = Append(Contents, b)
<1>. DEFINE n == AvailableRead
<1>1. /\ head \in Index /\ tail \in Index /\ head' = head
      /\ arr \in [Index -> Byte] /\ arr' = [arr EXCEPT ![tail] = b]
      /\ AvailableRead' = n + 1
      /\ n \in 0 .. Size - 1 /\ Size \in Nat \ {0}
      /\ tail = IF head + n < Size THEN head + n ELSE head + n - Size
  <2>1. head \in Index /\ tail \in Index /\ arr \in [Index -> Byte] /\ Size \in Nat \ {0}
    BY PipeAssumption DEF TypeOK
  <2>2. head' = head /\ arr' = [arr EXCEPT ![tail] = b]
    BY DEF PutByte
  <2>3. AvailableRead' = n + 1 /\ status # "FULL"
    BY PutRing
  <2>4. n \in 0 .. Size - 1
    BY Counts, PipeAssumption
  <2>5. tail = IF head + n < Size THEN head + n ELSE head + n - Size
    BY <2>1, <2>3 DEF AvailableRead, StatusTellsApart, Index, TypeOK
  <2>. QED BY <2>1, <2>2, <2>3, <2>4, <2>5
<1>. HIDE DEF n
<1>2. \A k \in 1 .. n : arr[Slot(k - 1)] \in Byte
  <2>1. SUFFICES ASSUME NEW k \in 1 .. n PROVE Slot(k - 1) \in Index
    BY <1>1
  <2>2. k - 1 \in 0 .. Size - 1
    BY <1>1
  <2>. QED BY <1>1, <2>2, SlotIs DEF Slot
<1>3. Contents = [k \in 1 .. n |-> arr[Slot(k - 1)]]
  BY DEF Contents, n
<1>4. Contents \in Seq(Byte) /\ Len(Contents) = n
  <2>1. Contents \in [1 .. n -> Byte] /\ n \in Nat
    BY <1>1, <1>2, <1>3
  <2>. QED BY <2>1
<1>5. Append(Contents, b) = [k \in 1 .. n + 1 |-> IF k = n + 1 THEN b ELSE Contents[k]]
  <2>1. /\ Append(Contents, b) \in Seq(Byte) /\ Len(Append(Contents, b)) = n + 1
        /\ \A k \in 1 .. n : Append(Contents, b)[k] = Contents[k]
        /\ Append(Contents, b)[n + 1] = b
    BY <1>4, AppendProperties
  <2>2. Append(Contents, b) \in [1 .. n + 1 -> Byte]
    BY <2>1, LenProperties
  <2>3. \A k \in 1 .. n + 1 : k = n + 1 \/ k \in 1 .. n
    BY <1>1
  <2>. QED BY <2>1, <2>2, <2>3
<1>6. Contents' = [k \in 1 .. n + 1 |-> arr'[(head + (k - 1)) % Size]]
  BY <1>1 DEF Contents, Slot
<1>7. ASSUME NEW k \in 1 .. n + 1
      PROVE  arr'[(head + (k - 1)) % Size] = IF k = n + 1 THEN b ELSE Contents[k]
  <2>1. k - 1 \in 0 .. Size - 1
    BY <1>1
  <2>2. /\ (head + (k - 1)) % Size
             = IF head + (k - 1) < Size THEN head + (k - 1) ELSE head + (k - 1) - Size
        /\ (head + (k - 1)) % Size \in Index
    BY <1>1, <2>1, SlotIs
  <2>3. CASE k = n + 1
    <3>1. (head + (k - 1)) % Size = tail
      BY <1>1, <2>2, <2>3
    <3>. QED BY <1>1, <2>3, <3>1
  <2>4. CASE k # n + 1
    <3>1. (head + (k - 1)) % Size # tail
      BY <1>1, <2>1, <2>2, <2>4 DEF Index
    <3>2. k \in 1 .. n
      BY <1>1, <2>4
    <3>3. Contents[k] = arr[(head + (k - 1)) % Size]
      BY <1>3, <3>2 DEF Slot
    <3>. QED BY <1>1, <2>2, <2>4, <3>1, <3>3
  <2>. QED BY <2>3, <2>4
<1>8. Contents' = Append(Contents, b)
  BY <1>5, <1>6, <1>7
<1>9. Len(Contents) < Size
  BY <1>1, <1>4
<1>. QED BY <1>8, <1>9

----------------------------------------------------------------------------
\* A step that leaves the ring alone leaves its counts and contents alone.
LEMMA RingKept ==
    ASSUME UNCHANGED ring
    PROVE  /\ AvailableRead' = AvailableRead /\ AvailableWrite' = AvailableWrite
           /\ Contents' = Contents /\ (StatusTellsApart => StatusTellsApart')
BY DEF ring, AvailableRead, AvailableWrite, Contents, Slot, StatusTellsApart

\* No process is inside a for loop unless it is the current one.
LEMMA OthersOutside ==
    ASSUME TypeOK, BudgetCovered, NEW p \in Proc, current # p
    PROVE  loop[p] = 0
BY DEF TypeOK, BudgetCovered

\* The scheduler's two steps keep the invariant: between calls no budget is held.
LEMMA SwitchInv ==
    ASSUME IInv, NEW p \in Proc, Dispatch(p) \/ Yield(p)
    PROVE  IInv'
<1>1. /\ UNCHANGED <<ring, fds, calls, got, eof, avars>>
      /\ current' \in Proc \cup {None}
      /\ \A q \in Proc : loop[q] = 0
  <2>1. CASE Dispatch(p)
    BY <2>1, OthersOutside, ProcAssumption DEF Dispatch, IInv
  <2>2. CASE Yield(p)
    <3>1. loop[p] = 0
      BY <2>2 DEF Yield, InUser, IInv, TypeOK, BudgetCovered
    <3>. QED BY <2>2, <3>1, OthersOutside DEF Yield, InUser, IInv
  <2>. QED BY <2>1, <2>2
<1>2. TypeOK'
  BY <1>1 DEF IInv, TypeOK, ring, fds, calls, avars
<1>3. BudgetCovered'
  BY <1>1 DEF BudgetCovered, calls
<1>4. StatusTellsApart'
  BY <1>1, RingKept DEF IInv
<1>5. CallHoldsEnd' /\ EofFinal' /\ NotMade'
  BY <1>1 DEF IInv, CallHoldsEnd, EofFinal, NotMade, AllWriteEndsClosed,
              ring, fds, calls, avars
<1>6. CurrentLive'
  BY <1>1, ProcAssumption DEF IInv, CurrentLive, Dispatch, Yield, avars
<1>. QED BY <1>2, <1>3, <1>4, <1>5, <1>6 DEF IInv

\* Entering a call keeps the invariant; a write call needs an open write end, so
\* the end of file has not been reported.
LEMMA EnterInv ==
    ASSUME IInv, NEW p \in Proc, NEW n \in 0 .. MaxLen,
           ReadCall(p, n) \/ WriteCall(p, n)
    PROVE  IInv'
<1>1. PICK call \in {"read", "write"} :
         /\ Enter(p, call, n)
         /\ IF call = "read" THEN rfd[p] > 0 ELSE wfd[p] > 0
  BY DEF ReadCall, WriteCall
<1>2. /\ UNCHANGED <<ring, fds, current, loop, got, eof, avars>>
      /\ op' = [op EXCEPT ![p] = call] /\ left' = [left EXCEPT ![p] = n]
      /\ current = p /\ op[p] = "user"
  BY <1>1 DEF Enter, InUser
<1>3. TypeOK'
  BY <1>2 DEF IInv, TypeOK, ring, fds, avars
<1>4. StatusTellsApart' /\ AvailableRead' = AvailableRead /\ AvailableWrite' = AvailableWrite
  BY <1>2, RingKept DEF IInv
<1>5. BudgetCovered'
  BY <1>2, <1>4 DEF IInv, TypeOK, BudgetCovered
<1>6. CallHoldsEnd'
  <2>1. state[p] = "live"
    BY <1>2, ProcAssumption DEF IInv, CurrentLive
  <2>. QED BY <1>1, <1>2, <2>1 DEF IInv, TypeOK, CallHoldsEnd, fds, avars
<1>7. EofFinal' /\ NotMade'
  BY <1>1, <1>2 DEF IInv, TypeOK, EofFinal, NotMade, AllWriteEndsClosed, ring, fds
<1>8. CurrentLive'
  BY <1>2 DEF IInv, CurrentLive, avars
<1>. QED BY <1>3, <1>4, <1>5, <1>6, <1>7, <1>8 DEF IInv

\* Returning from a call keeps the invariant, whatever it reports.
LEMMA ReturnInv ==
    ASSUME IInv, NEW p \in Proc,
           ReadEof(p) \/ Done(p, "read") \/ Done(p, "write")
    PROVE  IInv'
<1>1. /\ UNCHANGED <<ring, fds, current, got, avars>>
      /\ op' = [op EXCEPT ![p] = "user"]
      /\ left' = [left EXCEPT ![p] = 0] /\ loop' = [loop EXCEPT ![p] = 0]
      /\ op[p] # "user"
  BY DEF ReadEof, Done, Return, AtTop, InLoop
<1>2. eof' \in BOOLEAN /\ (eof' => eof \/ (AvailableRead = 0 /\ AllWriteEndsClosed))
  <2>1. eof \in BOOLEAN
    BY DEF IInv, TypeOK
  <2>2. CASE ReadEof(p)
    <3>1. eof' = TRUE /\ AvailableRead = 0 /\ AllWriteEndsClosed
      BY <2>2 DEF ReadEof
    <3>. QED BY <3>1
  <2>3. CASE Done(p, "read") \/ Done(p, "write")
    <3>1. eof' = eof
      BY <2>3 DEF Done
    <3>. QED BY <2>1, <3>1
  <2>. QED BY <2>2, <2>3
<1>3. TypeOK'
  BY <1>1, <1>2, PipeAssumption DEF IInv, TypeOK, ring, fds, avars
<1>4. StatusTellsApart' /\ AvailableRead' = AvailableRead /\ AvailableWrite' = AvailableWrite
  BY <1>1, RingKept DEF IInv
<1>5. BudgetCovered'
  BY <1>1, <1>4 DEF IInv, TypeOK, BudgetCovered
<1>6. CallHoldsEnd'
  BY <1>1 DEF IInv, TypeOK, CallHoldsEnd, fds, avars
<1>7. EofFinal'
  <2>1. SUFFICES ASSUME eof'
                 PROVE  made /\ status = "EMPTY" /\ \A q \in Proc : wfd[q] = 0 /\ op[q] # "write"
    BY <1>1 DEF EofFinal, AllWriteEndsClosed, IInv, TypeOK, ring, fds
  <2>2. CASE eof
    BY <2>2 DEF IInv, EofFinal, AllWriteEndsClosed
  <2>3. CASE ~eof
    <3>1. AvailableRead = 0 /\ AllWriteEndsClosed
      BY <1>2, <2>1, <2>3
    <3>2. status = "EMPTY"
      BY <3>1, Counts DEF IInv
    <3>3. made
      BY <1>1, <3>1 DEF IInv, TypeOK, NotMade, CallHoldsEnd, AllWriteEndsClosed
    <3>. QED BY <3>1, <3>2, <3>3 DEF AllWriteEndsClosed
  <2>. QED BY <2>2, <2>3
<1>8. NotMade' /\ CurrentLive'
  BY <1>1 DEF IInv, NotMade, CurrentLive, ring, fds, avars
<1>. QED BY <1>3, <1>4, <1>5, <1>6, <1>7, <1>8 DEF IInv

\* The top of the loop: suspend with no budget, or take what the ring offers.
LEMMA TopInv ==
    ASSUME IInv, NEW p \in Proc,
           ReadWait(p) \/ WriteWait(p) \/ ReadChunk(p) \/ WriteChunk(p)
    PROVE  IInv'
<1>1. /\ UNCHANGED <<ring, fds, op, left, got, eof, avars>>
      /\ current = p /\ loop[p] = 0 /\ op[p] # "user"
  BY DEF ReadWait, WriteWait, ReadChunk, WriteChunk, Wait, Chunk, AtTop, calls
<1>2. StatusTellsApart' /\ AvailableRead' = AvailableRead /\ AvailableWrite' = AvailableWrite
  BY <1>1, RingKept DEF IInv
<1>3. AvailableRead \in 0 .. Size /\ AvailableWrite \in 0 .. Size
  BY Counts, PipeAssumption DEF IInv
<1>4. CASE ReadWait(p) \/ WriteWait(p)
  <2>1. current' = None /\ UNCHANGED loop
    BY <1>4 DEF ReadWait, WriteWait, Wait, calls
  <2>2. \A q \in Proc : loop[q] = 0
    BY <1>1, OthersOutside DEF IInv
  <2>3. TypeOK'
    BY <1>1, <2>1 DEF IInv, TypeOK, ring, fds, avars
  <2>4. BudgetCovered'
    BY <2>1, <2>2 DEF BudgetCovered
  <2>5. CallHoldsEnd' /\ EofFinal' /\ NotMade' /\ CurrentLive'
    BY <1>1, <2>1 DEF IInv, CallHoldsEnd, EofFinal, NotMade, CurrentLive,
                      AllWriteEndsClosed, ring, fds, avars
  <2>. QED BY <1>2, <2>3, <2>4, <2>5 DEF IInv
<1>5. CASE ReadChunk(p) \/ WriteChunk(p)
  <2>1. /\ UNCHANGED current
        /\ \/ op[p] = "read" /\ loop' = [loop EXCEPT ![p] = AvailableRead]
           \/ op[p] = "write" /\ loop' = [loop EXCEPT ![p] = AvailableWrite]
    BY <1>5 DEF ReadChunk, WriteChunk, Chunk, AtTop
  <2>2. TypeOK'
    BY <1>1, <1>3, <2>1 DEF IInv, TypeOK, ring, fds, avars
  <2>3. BudgetCovered'
    BY <1>1, <1>2, <1>3, <2>1 DEF IInv, TypeOK, BudgetCovered
  <2>4. CallHoldsEnd' /\ EofFinal' /\ NotMade' /\ CurrentLive'
    BY <1>1, <2>1 DEF IInv, CallHoldsEnd, EofFinal, NotMade, CurrentLive,
                      AllWriteEndsClosed, ring, fds, avars
  <2>. QED BY <1>2, <2>2, <2>3, <2>4 DEF IInv
<1>. QED BY <1>4, <1>5

\* Moving one byte uses one unit of the budget and one unread or free slot.
LEMMA ByteInv ==
    ASSUME IInv, NEW p \in Proc, NEW b \in Byte,
           ReadByte(p) \/ WriteByte(p, b)
    PROVE  IInv'
<1>1. /\ UNCHANGED <<op, fds, current, eof, avars>>
      /\ left' = [left EXCEPT ![p] = @ - 1] /\ loop' = [loop EXCEPT ![p] = @ - 1]
      /\ left[p] > 0 /\ loop[p] > 0 /\ current = p
  BY DEF ReadByte, WriteByte, NextByte, InLoop
<1>2. loop[p] \in 1 .. Size /\ left[p] \in 1 .. MaxLen /\ Size \in Nat /\ MaxLen \in Nat
  BY <1>1, PipeAssumption DEF IInv, TypeOK
<1>3. /\ \A q \in Proc \ {p} : loop[q] = 0
      /\ \A q \in Proc \ {p} : loop'[q] = 0
      /\ loop'[p] = loop[p] - 1 /\ loop'[p] \in 0 .. Size
  BY <1>1, <1>2, OthersOutside DEF IInv, TypeOK
<1>4. /\ AvailableRead \in 0 .. Size /\ AvailableWrite = Size - AvailableRead
      /\ (AvailableRead = 0 <=> status = "EMPTY")
  BY Counts DEF IInv
<1>5. CASE ReadByte(p)
  <2>1. op[p] = "read" /\ TakeByte
    BY <1>5 DEF ReadByte, InLoop
  <2>2. loop[p] <= AvailableRead
    BY <1>1, <2>1 DEF IInv, BudgetCovered
  <2>3. /\ head' \in Index /\ tail' = tail /\ arr' = arr /\ got' \in Byte
        /\ status' \in {"EMPTY", "FULL", "NORMAL"}
        /\ StatusTellsApart' /\ AvailableRead' = AvailableRead - 1
    BY <1>2, <1>4, <2>1, <2>2, TakeRing DEF IInv
  <2>4. TypeOK'
    BY <1>1, <1>2, <2>3 DEF IInv, TypeOK, fds, avars
  <2>5. BudgetCovered'
    <3>1. loop'[p] <= AvailableRead'
      BY <1>2, <1>3, <1>4, <2>2, <2>3
    <3>. QED BY <1>1, <1>3, <2>1, <3>1 DEF BudgetCovered
  <2>6. CallHoldsEnd' /\ CurrentLive'
    BY <1>1 DEF IInv, CallHoldsEnd, CurrentLive, fds, avars
  <2>7. status # "EMPTY"
    BY <1>2, <1>4, <2>2
  <2>8. ~eof /\ made
    BY <2>7 DEF IInv, EofFinal, NotMade
  <2>9. EofFinal' /\ NotMade'
    BY <1>1, <2>8 DEF EofFinal, NotMade, fds
  <2>. QED BY <2>3, <2>4, <2>5, <2>6, <2>9 DEF IInv
<1>6. CASE WriteByte(p, b)
  <2>1. op[p] = "write" /\ PutByte(b) /\ got' = got
    BY <1>6 DEF WriteByte, InLoop
  <2>2. loop[p] <= AvailableWrite
    BY <1>1, <2>1 DEF IInv, BudgetCovered
  <2>3. /\ tail' \in Index /\ head' = head /\ arr' \in [Index -> Byte]
        /\ status' \in {"EMPTY", "FULL", "NORMAL"}
        /\ StatusTellsApart' /\ AvailableWrite' = AvailableWrite - 1
    BY <1>2, <1>4, <2>1, <2>2, PutRing DEF IInv
  <2>4. TypeOK'
    BY <1>1, <1>2, <2>1, <2>3 DEF IInv, TypeOK, fds, avars
  <2>5. BudgetCovered'
    <3>1. loop'[p] <= AvailableWrite'
      BY <1>2, <1>3, <1>4, <2>2, <2>3
    <3>. QED BY <1>1, <1>3, <2>1, <3>1 DEF BudgetCovered
  <2>6. CallHoldsEnd' /\ CurrentLive'
    BY <1>1 DEF IInv, CallHoldsEnd, CurrentLive, fds, avars
  <2>7. ~eof /\ made
    BY <2>1 DEF IInv, TypeOK, EofFinal, AllWriteEndsClosed, NotMade, CallHoldsEnd
  <2>8. EofFinal' /\ NotMade'
    BY <1>1, <2>7 DEF EofFinal, NotMade, fds
  <2>. QED BY <2>3, <2>4, <2>5, <2>6, <2>8 DEF IInv
<1>. QED BY <1>5, <1>6

\* Descriptors are made, copied and dropped by processes outside read and write.
\* None of these steps gives a write end to anyone when nobody has one.
LEMMA FdInv ==
    ASSUME IInv, NEW p \in Proc, NEW c \in Proc,
           \/ MakePipe(p) \/ Dup(p) \/ Close(p) \/ Fork(p, c) \/ Exit(p) \/ Reap(p, c)
    PROVE  IInv'
<1>1. /\ UNCHANGED <<ring, calls, got, eof>>
      /\ current = p /\ op[p] = "user"
      /\ current' = p \/ current' = None
  BY DEF MakePipe, Dup, Close, Fork, Exit, Reap, InUser
<1>2. StatusTellsApart' /\ AvailableRead' = AvailableRead /\ AvailableWrite' = AvailableWrite
  BY <1>1, RingKept DEF IInv
<1>3. \A q \in Proc : loop[q] = 0
  BY <1>1, OthersOutside DEF IInv, TypeOK, BudgetCovered
<1>4. BudgetCovered'
  BY <1>1, <1>3 DEF BudgetCovered, calls
<1>5. state[p] = "live"
  BY <1>1, ProcAssumption DEF IInv, CurrentLive
<1>6. MaxFds \in Nat \ {0}
  BY PipeAssumption
<1>7. CASE MakePipe(p)
  <2>1. /\ UNCHANGED <<current, avars>> /\ ~made /\ made' = TRUE
        /\ rfd' = [rfd EXCEPT ![p] = 1] /\ wfd' = [wfd EXCEPT ![p] = 1]
    BY <1>7 DEF MakePipe
  <2>2. TypeOK'
    BY <1>1, <1>6, <2>1 DEF IInv, TypeOK, ring, calls, avars
  <2>3. CallHoldsEnd' /\ CurrentLive'
    BY <1>1, <2>1 DEF IInv, TypeOK, CallHoldsEnd, CurrentLive, calls, avars
  <2>4. ~eof /\ made'
    BY <2>1 DEF IInv, EofFinal
  <2>5. EofFinal' /\ NotMade'
    BY <1>1, <2>4 DEF EofFinal, NotMade
  <2>. QED BY <1>2, <1>4, <2>2, <2>3, <2>5 DEF IInv
<1>8. CASE Dup(p) \/ Close(p)
  <2>1. /\ UNCHANGED <<made, current, avars>>
        /\ \/ /\ rfd[p] > 0 /\ wfd' = wfd
              /\ \E n \in 0 .. MaxFds : rfd' = [rfd EXCEPT ![p] = n]
           \/ /\ wfd[p] > 0 /\ rfd' = rfd
              /\ \E n \in 0 .. MaxFds : wfd' = [wfd EXCEPT ![p] = n]
    BY <1>6, <1>8 DEF Dup, Close, IInv, TypeOK
  <2>2. TypeOK'
    BY <1>1, <2>1 DEF IInv, TypeOK, ring, calls, avars
  <2>3. CallHoldsEnd' /\ CurrentLive'
    BY <1>1, <2>1 DEF IInv, TypeOK, CallHoldsEnd, CurrentLive, calls, avars
  <2>4. made
    BY <2>1 DEF IInv, TypeOK, NotMade
  <2>5. EofFinal' /\ NotMade'
    BY <1>1, <2>1, <2>4 DEF IInv, TypeOK, EofFinal, NotMade, AllWriteEndsClosed, ring, calls
  <2>. QED BY <1>2, <1>4, <2>2, <2>3, <2>5 DEF IInv
<1>9. CASE Fork(p, c)
  <2>1. /\ UNCHANGED <<made, current>>
        /\ state[c] = "absent" /\ state' = [state EXCEPT ![c] = "live"]
        /\ parentOf' = [parentOf EXCEPT ![c] = p]
        /\ rfd' = [rfd EXCEPT ![c] = rfd[p]] /\ wfd' = [wfd EXCEPT ![c] = wfd[p]]
    BY <1>9 DEF Fork, Spawn
  <2>2. TypeOK'
    BY <1>1, <2>1 DEF IInv, TypeOK, ring, calls
  <2>3. op[c] = "user"
    BY <2>1 DEF IInv, CallHoldsEnd
  <2>4. CallHoldsEnd' /\ CurrentLive'
    BY <1>1, <1>5, <2>1, <2>3 DEF IInv, TypeOK, CallHoldsEnd, CurrentLive, calls
  <2>5. EofFinal' /\ NotMade'
    BY <1>1, <2>1 DEF IInv, TypeOK, EofFinal, NotMade, AllWriteEndsClosed, ring, calls
  <2>. QED BY <1>2, <1>4, <2>2, <2>4, <2>5 DEF IInv
<1>10. CASE Exit(p)
  <2>1. /\ UNCHANGED fds /\ current' = None
        /\ state' = [state EXCEPT ![p] = "zombie"]
        /\ parentOf' = [q \in Proc |-> IF parentOf[q] = p THEN First ELSE parentOf[q]]
    BY <1>10 DEF Exit, Die
  <2>2. TypeOK'
    BY <1>1, <2>1, ProcAssumption DEF IInv, TypeOK, ring, calls, fds
  <2>3. CallHoldsEnd' /\ CurrentLive'
    BY <1>1, <2>1 DEF IInv, TypeOK, CallHoldsEnd, CurrentLive, calls, fds
  <2>4. EofFinal' /\ NotMade'
    BY <1>1, <2>1 DEF IInv, EofFinal, NotMade, AllWriteEndsClosed, ring, calls, fds
  <2>. QED BY <1>2, <1>4, <2>2, <2>3, <2>4 DEF IInv
<1>11. CASE Reap(p, c)
  <2>1. /\ UNCHANGED <<made, current>>
        /\ state[c] = "zombie" /\ state' = [state EXCEPT ![c] = "absent"]
        /\ parentOf' = [parentOf EXCEPT ![c] = None]
        /\ rfd' = [rfd EXCEPT ![c] = 0] /\ wfd' = [wfd EXCEPT ![c] = 0]
    BY <1>11 DEF Reap, Collect
  <2>2. TypeOK'
    BY <1>1, <1>6, <2>1 DEF IInv, TypeOK, ring, calls
  <2>3. op[c] = "user" /\ c # p
    BY <1>5, <2>1 DEF IInv, CallHoldsEnd
  <2>4. CallHoldsEnd' /\ CurrentLive'
    BY <1>1, <1>5, <2>1, <2>3 DEF IInv, TypeOK, CallHoldsEnd, CurrentLive, calls
  <2>5. EofFinal' /\ NotMade'
    BY <1>1, <2>1 DEF IInv, TypeOK, EofFinal, NotMade, AllWriteEndsClosed, ring, calls
  <2>. QED BY <1>2, <1>4, <2>2, <2>4, <2>5 DEF IInv
<1>. QED BY <1>7, <1>8, <1>9, <1>10, <1>11

\* Every step keeps the invariant.
LEMMA NextInv == IInv /\ [Next]_vars => IInv'
<1>. SUFFICES ASSUME IInv, [Next]_vars PROVE IInv'
  OBVIOUS
<1>1. CASE UNCHANGED vars
  BY <1>1 DEF vars, IInv, TypeOK, StatusTellsApart, BudgetCovered, CallHoldsEnd,
              EofFinal, NotMade, CurrentLive, AllWriteEndsClosed, AvailableRead,
              AvailableWrite
<1>2. CASE Next
  <2>1. PICK p \in Proc : Dispatch(p) \/ Yield(p) \/ Kernel(p) \/ User(p)
    BY <1>2 DEF Next
  <2>2. CASE Dispatch(p) \/ Yield(p)
    BY <2>2, SwitchInv
  <2>3. CASE Kernel(p)
    BY <2>3, ReturnInv, TopInv, ByteInv, PipeAssumption DEF Kernel
  <2>4. CASE User(p)
    BY <2>4, EnterInv, FdInv DEF User
  <2>. QED BY <2>1, <2>2, <2>3, <2>4
<1>. QED BY <1>1, <1>2

\* The inductive invariant of the pipe.
THEOREM Invariance == Spec => []IInv
BY InitInv, NextInv, PTL DEF Spec

\* Every variable of the pipe keeps its type.
THEOREM TypeCorrect == Spec => []TypeOK
<1>1. IInv => TypeOK
  BY DEF IInv
<1>. QED BY <1>1, Invariance, PTL

\* For every ring size the status tells a full ring from an empty one, so
\* available_read is exact.
THEOREM StatusSafety == Spec => []StatusTellsApart
<1>1. IInv => StatusTellsApart
  BY DEF IInv
<1>. QED BY <1>1, Invariance, PTL

\* read_byte never underruns and write_byte never overruns the ring.
THEOREM BudgetSafety == Spec => []BudgetCovered
<1>1. IInv => BudgetCovered
  BY DEF IInv
<1>. QED BY <1>1, Invariance, PTL

\* A process inside a call is live and keeps the end it uses open.
THEOREM CallSafety == Spec => []CallHoldsEnd
<1>1. IInv => CallHoldsEnd
  BY DEF IInv
<1>. QED BY <1>1, Invariance, PTL

\* Once reported, the end of file is never taken back.
THEOREM EofSafety == Spec => []EofFinal
<1>1. IInv => EofFinal
  BY DEF IInv
<1>. QED BY <1>1, Invariance, PTL

----------------------------------------------------------------------------
Phase == IF ~made THEN "new" ELSE IF AllWriteEndsClosed THEN "shut" ELSE "open"

\* A step of the pipe is a step of the channel or leaves it unchanged.
LEMMA RefinesNext == IInv /\ IInv' /\ [Next]_vars => [Chan!CNext]_(Chan!cvars)
<1>. SUFFICES ASSUME IInv, IInv', [Next]_vars PROVE [Chan!CNext]_(Chan!cvars)
  OBVIOUS
<1>. USE DEF Chan!CNext, Chan!cvars
<1>1. ASSUME UNCHANGED <<ring, got, eof>>, Phase' = Phase
      PROVE  UNCHANGED Chan!cvars
  BY <1>1, RingKept DEF Phase
<1>2. ASSUME UNCHANGED <<ring, got, eof>>, Phase = "new", Phase' = "open"
      PROVE  Chan!Open
  BY <1>2, RingKept DEF Phase, Chan!Open
<1>3. ASSUME UNCHANGED <<ring, got, eof>>, Phase = "open", Phase' = "shut"
      PROVE  Chan!Shut
  BY <1>3, RingKept DEF Phase, Chan!Shut
<1>4. ASSUME UNCHANGED vars PROVE UNCHANGED Chan!cvars
  BY <1>1, <1>4 DEF vars, ring, Phase, AllWriteEndsClosed
<1>5. ASSUME NEW p \in Proc, Dispatch(p) \/ Yield(p) \/ ReadWait(p) \/ WriteWait(p)
      PROVE  UNCHANGED Chan!cvars
  <2>1. UNCHANGED <<ring, fds, calls, got, eof>>
    BY <1>5 DEF Dispatch, Yield, ReadWait, WriteWait, Wait
  <2>. QED BY <1>1, <2>1 DEF Phase, AllWriteEndsClosed, fds, calls
<1>6. ASSUME NEW p \in Proc, ReadChunk(p) \/ WriteChunk(p)
      PROVE  UNCHANGED Chan!cvars
  <2>1. UNCHANGED <<ring, fds, op, got, eof>>
    BY <1>6 DEF ReadChunk, WriteChunk, Chunk
  <2>. QED BY <1>1, <2>1 DEF Phase, AllWriteEndsClosed, fds
<1>7. ASSUME NEW p \in Proc, NEW n \in 0 .. MaxLen, ReadCall(p, n) \/ WriteCall(p, n)
      PROVE  UNCHANGED Chan!cvars
  <2>1. /\ UNCHANGED <<ring, fds, got, eof>> /\ op[p] = "user"
        /\ \/ op' = [op EXCEPT ![p] = "read"]
           \/ op' = [op EXCEPT ![p] = "write"] /\ wfd[p] > 0
    BY <1>7 DEF ReadCall, WriteCall, Enter, InUser
  <2>2. AllWriteEndsClosed' <=> AllWriteEndsClosed
    BY <2>1 DEF IInv, TypeOK, AllWriteEndsClosed, fds
  <2>. QED BY <1>1, <2>1, <2>2 DEF Phase, fds
<1>8. ASSUME NEW p \in Proc, Done(p, "read") \/ Done(p, "write")
      PROVE  UNCHANGED Chan!cvars
  <2>1. /\ UNCHANGED <<ring, fds, got, eof>> /\ op' = [op EXCEPT ![p] = "user"]
        /\ op[p] # "user"
    BY <1>8 DEF Done, Return, InLoop
  <2>2. AllWriteEndsClosed' <=> AllWriteEndsClosed
    BY <2>1 DEF IInv, TypeOK, CallHoldsEnd, AllWriteEndsClosed, fds
  <2>. QED BY <1>1, <2>1, <2>2 DEF Phase, fds
<1>9. ASSUME NEW p \in Proc, ReadEof(p) PROVE Chan!EndOfFile
  <2>1. /\ UNCHANGED <<ring, fds, got>> /\ eof' = TRUE
        /\ op' = [op EXCEPT ![p] = "user"] /\ op[p] = "read"
        /\ AvailableRead = 0 /\ AllWriteEndsClosed
    BY <1>9 DEF ReadEof, Return, AtTop
  <2>2. AllWriteEndsClosed'
    BY <2>1 DEF IInv, TypeOK, AllWriteEndsClosed, fds
  <2>3. made
    BY <2>1 DEF IInv, TypeOK, NotMade, CallHoldsEnd, AllWriteEndsClosed
  <2>4. Contents = <<>>
    BY <2>1 DEF Contents
  <2>. QED BY <2>1, <2>2, <2>3, <2>4, RingKept DEF Chan!EndOfFile, fds
<1>10. ASSUME NEW p \in Proc, ReadByte(p) PROVE Chan!Receive
  <2>1. TakeByte /\ UNCHANGED <<op, fds, eof>> /\ op[p] = "read" /\ loop[p] > 0
    BY <1>10 DEF ReadByte, NextByte, InLoop
  <2>2. AvailableRead > 0
    <3>1. AvailableRead \in 0 .. Size /\ loop[p] \in 0 .. Size /\ loop[p] <= AvailableRead
      BY <2>1, Counts DEF IInv, TypeOK, BudgetCovered
    <3>. QED BY <2>1, <3>1, PipeAssumption
  <2>3. Contents # <<>> /\ got' = Head(Contents) /\ Contents' = Tail(Contents)
    BY <2>1, <2>2, TakeContents DEF IInv
  <2>. QED BY <2>1, <2>3 DEF Chan!Receive, AllWriteEndsClosed, fds
<1>11. ASSUME NEW p \in Proc, NEW b \in Byte, WriteByte(p, b) PROVE Chan!Send(b)
  <2>1. PutByte(b) /\ UNCHANGED <<op, fds, eof, got>> /\ op[p] = "write" /\ loop[p] > 0
    BY <1>11 DEF WriteByte, NextByte, InLoop
  <2>2. AvailableWrite > 0
    <3>1. /\ AvailableRead \in 0 .. Size /\ AvailableWrite = Size - AvailableRead
          /\ loop[p] \in 0 .. Size /\ loop[p] <= AvailableWrite
      BY <2>1, Counts DEF IInv, TypeOK, BudgetCovered
    <3>. QED BY <2>1, <3>1, PipeAssumption
  <2>3. Len(Contents) < Size /\ Contents' = Append(Contents, b)
    BY <2>1, <2>2, PutContents DEF IInv
  <2>4. made /\ ~AllWriteEndsClosed
    BY <2>1 DEF IInv, TypeOK, NotMade, CallHoldsEnd, AllWriteEndsClosed
  <2>. QED BY <2>1, <2>3, <2>4 DEF Chan!Send, AllWriteEndsClosed, fds
<1>12. ASSUME NEW p \in Proc, MakePipe(p) PROVE Chan!Open
  <2>1. /\ UNCHANGED <<ring, got, eof>> /\ ~made /\ made'
        /\ wfd' = [wfd EXCEPT ![p] = 1]
    BY <1>12 DEF MakePipe
  <2>2. ~AllWriteEndsClosed'
    BY <2>1 DEF IInv, TypeOK, AllWriteEndsClosed
  <2>. QED BY <1>2, <2>1, <2>2 DEF Phase
<1>13. ASSUME NEW p \in Proc, NEW c \in Proc,
              Dup(p) \/ Close(p) \/ Fork(p, c) \/ Exit(p) \/ Reap(p, c)
       PROVE  Chan!Shut \/ UNCHANGED Chan!cvars
  <2>1. UNCHANGED <<ring, made, got, eof, op>>
    BY <1>13 DEF Dup, Close, Fork, Exit, Reap, fds, calls
  <2>2. AllWriteEndsClosed => AllWriteEndsClosed'
    BY <1>13, <2>1 DEF Dup, Close, Fork, Exit, Reap, IInv, TypeOK,
                       AllWriteEndsClosed, fds
  <2>3. ~made => AllWriteEndsClosed
    BY DEF IInv, TypeOK, NotMade, CallHoldsEnd, AllWriteEndsClosed
  <2>. QED BY <1>1, <1>3, <2>1, <2>2, <2>3 DEF Phase
<1>14. CASE Next
  <2>1. PICK p \in Proc : Dispatch(p) \/ Yield(p) \/ Kernel(p) \/ User(p)
    BY <1>14 DEF Next
  <2>2. CASE Dispatch(p) \/ Yield(p)
    BY <1>5, <2>2
  <2>3. CASE Kernel(p)
    BY <1>5, <1>6, <1>8, <1>9, <1>10, <1>11, <2>3 DEF Kernel
  <2>4. CASE User(p)
    BY <1>7, <1>12, <1>13, <2>4 DEF User
  <2>. QED BY <2>1, <2>2, <2>3, <2>4
<1>. QED BY <1>4, <1>14

\* The pipe implements the channel: bytes come out once, whole and in the order
\* in which they went in, however readers and writers interleave, and the end
\* of file is reported only when the channel is shut and drained.
THEOREM Refinement == Spec => ChannelSpec
<1>1. Init => Chan!CInit
  <2>. SUFFICES ASSUME Init PROVE Chan!CInit
    OBVIOUS
  <2>1. Contents = <<>>
    BY DEF Init, Contents, AvailableRead
  <2>. QED BY <2>1, PipeAssumption DEF Init, Chan!CInit
<1>. QED BY <1>1, RefinesNext, Invariance, PTL DEF Spec, ChannelSpec, Chan!CSpec
=============================================================================
