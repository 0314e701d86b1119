----------------------------- MODULE UserMemory -----------------------------
(***************************************************************************)
(* How the kernel reaches the memory of a process: byte buffers cut into   *)
(* slices at page boundaries and walked by an iterator, structures behind  *)
(* a pointer, strings, and the arguments that exec puts on the new user    *)
(* stack and _start takes from it (os/src/mm/page_table.rs, address.rs,    *)
(* the system calls that use them, task.rs, user/src/lib.rs).              *)
(*                                                                         *)
(* Addresses count bytes, a usize has Word of them and a page PageSize.    *)
(* What matters is which physical bytes a call touches, in which order;    *)
(* buffers do not hold data.  The program passes pointers to its own       *)
(* variables: a structure is aligned to a word.                            *)
(***************************************************************************)
EXTENDS Naturals, Sequences

CONSTANTS PageSize,   \* PAGE_SIZE
          Word,       \* size_of::<usize>()
          Pages,      \* virtual pages 0 .. Pages - 1
          Frames,     \* physical frames, above 0
          Structs,    \* sizes of the structures passed by pointer
          MaxLen,     \* bound on the length of a buffer or string
          StackSize,  \* USER_STACK_SIZE
          ArgLists    \* argument lists: sequences of strings over Char

Char == 1 .. 2   \* bytes of a string other than 0

ASSUME UserMemoryAssumption ==
    /\ Word \in Nat \ {0} /\ PageSize \in Nat \ {0} /\ PageSize % Word = 0
    /\ Pages \in Nat /\ Frames \subseteq Nat \ {0} /\ MaxLen \in Nat
    /\ Structs \subseteq {n \in Nat \ {0} : n % Word = 0}
    /\ StackSize \in Nat /\ StackSize % Word = 0
    /\ ArgLists \subseteq Seq(Seq(Char))

VARIABLES
    pt,       \* the page table: the frame of each page, 0 where there is none
    phase,    \* "user", "slicing", "moving", "string", "panic", "pushing" (exec),
              \* "started" (exec has returned) or "main" (_start has)
    call,     \* the call: "buffer", "first", "ref" or "string", its pointer and length
    start,    \* translated_byte_buffers: where the next slice begins
    slices,   \* UserBuffer.buffers: frame and range of bytes
    current,  \* UserBufferIterator: current_buffer and current_idx
    touched,  \* history: physical bytes the call has touched, in order
    stack,    \* the user stack that exec fills: its bytes, the pointer, the arguments
              \* and how many of them it has pushed
    seen      \* the arguments that _start has found

vars == <<pt, phase, call, start, slices, current, touched, stack, seen>>

NoCall == [op |-> "none", ptr |-> 0, len |-> 0]
NoStack == [mem |-> <<>>, sp |-> 0, args |-> <<>>, pushed |-> 0]
AtFirst == [buffer |-> 1, idx |-> 0]

\* Any pages in any frames, which no two pages share (module Memory).
PageTables == {t \in [0 .. Pages - 1 -> Frames \cup {0}] :
                 \A p, q \in 0 .. Pages - 1 : t[p] = t[q] /\ t[p] # 0 => p = q}

Init ==
    /\ pt \in PageTables
    /\ phase = "user" /\ call = NoCall
    /\ start = 0 /\ slices = <<>> /\ current = AtFirst /\ touched = <<>>
    /\ stack = NoStack /\ seen = <<>>

----------------------------------------------------------------------------
\* Addresses and the page table.

Floor(va)      == va \div PageSize
PageOffset(va) == va % PageSize

\* translate of the page of va is Some.
Mapped(va) == Floor(va) < Pages /\ pt[Floor(va)] # 0

\* translate_va
Translate(va) == pt[Floor(va)] * PageSize + PageOffset(va)

\* The n physical bytes from pa on.
Run(pa, n) == [k \in 1 .. n |-> pa + k - 1]

----------------------------------------------------------------------------
\* The calls.

Begin(op, ptr, len, to) ==
    /\ phase = "user"
    /\ phase' = to
    /\ call' = [op |-> op, ptr |-> ptr, len |-> len]
    /\ start' = ptr /\ slices' = <<>> /\ current' = AtFirst /\ touched' = <<>>
    /\ UNCHANGED <<pt, stack, seen>>

\* sys_read and sys_write ("buffer"); sys_get_time and sys_fstat ("first"), which
\* cut the structure into slices and use the first as a pointer to all of it
SliceCall(op, ptr, len) == Begin(op, ptr, len, "slicing")

\* translated_ref and translated_refmut of one structure: sys_pipe, sys_waitpid,
\* sys_sigaction and the pointers of sys_exec
RefCall(ptr, len) ==
    /\ phase = "user"
    /\ call' = [op |-> "ref", ptr |-> ptr, len |-> len]
    /\ IF Mapped(ptr) THEN touched' = Run(Translate(ptr), len) /\ UNCHANGED phase
       ELSE touched' = <<>> /\ phase' = "panic"
    /\ start' = ptr /\ slices' = <<>> /\ current' = AtFirst
    /\ UNCHANGED <<pt, stack, seen>>

StringCall(ptr) == Begin("string", ptr, 0, "string")

Panics == phase' = "panic" /\ UNCHANGED <<call, start, slices, touched>>

End == call.ptr + call.len

\* Where the slice that ends at virtual address end stops in its page.
SliceEnd(end) == IF PageOffset(end) = 0 THEN PageSize ELSE PageOffset(end)

\* One iteration of translated_byte_buffers.
Slice ==
    /\ phase = "slicing" /\ start < End
    /\ LET next == (Floor(start) + 1) * PageSize
           end  == IF next < End THEN next ELSE End
       IN  IF Mapped(start)
           THEN /\ slices' = Append(slices, [frame |-> pt[Floor(start)],
                                             from |-> PageOffset(start),
                                             to |-> SliceEnd(end)])
                /\ start' = end
                /\ UNCHANGED <<phase, call, touched>>
           ELSE Panics
    /\ UNCHANGED <<pt, current, stack, seen>>

\* Faulty variant: the offset in the page is forgotten.
FirstByte_PageStart == slices[1].frame * PageSize

\* Where the first slice begins: the pointer to the structure.
FirstByte == slices[1].frame * PageSize + slices[1].from

\* The slices are complete; a structure is written at once, or not at all when
\* sys_fstat finds its descriptor closed.
Sliced ==
    /\ phase = "slicing" /\ start >= End
    /\ IF call.op = "buffer" THEN phase' = "moving" /\ UNCHANGED touched
       ELSE /\ phase' = "user"
            /\ touched' \in {<<>>, Run(FirstByte, call.len)}
    /\ UNCHANGED <<pt, call, start, slices, current, stack, seen>>

\* Faulty variant: the index goes on into the next slice.
Advance_KeepsIndex(size) ==
    IF current.idx + 1 = size THEN [buffer |-> current.buffer + 1, idx |-> current.idx]
    ELSE [current EXCEPT !.idx = @ + 1]

Advance(size) ==
    IF current.idx + 1 = size THEN [buffer |-> current.buffer + 1, idx |-> 0]
    ELSE [current EXCEPT !.idx = @ + 1]

\* UserBufferIterator::next, and the byte it yields is moved.
MoveByte ==
    /\ phase = "moving" /\ current.buffer <= Len(slices)
    /\ LET s == slices[current.buffer]
       IN  IF s.from + current.idx < s.to
           THEN /\ touched' = Append(touched, s.frame * PageSize + s.from + current.idx)
                /\ current' = Advance(s.to - s.from)
                /\ UNCHANGED <<phase, call, start, slices>>
           ELSE Panics /\ UNCHANGED current
    /\ UNCHANGED <<pt, stack, seen>>

\* The file has moved what it could, at most the whole buffer.
ReturnBuffer ==
    /\ phase = "moving" /\ phase' = "user"
    /\ UNCHANGED <<pt, call, start, slices, current, touched, stack, seen>>

\* translated_str: one byte, which may be the 0 at the end.
StringByte ==
    /\ phase = "string" /\ Len(touched) < MaxLen
    /\ IF Mapped(start)
       THEN /\ touched' = Append(touched, Translate(start))
            /\ \/ start' = start + 1 /\ UNCHANGED phase
               \/ phase' = "user" /\ UNCHANGED start
            /\ UNCHANGED <<call, slices>>
       ELSE Panics
    /\ UNCHANGED <<pt, current, stack, seen>>

----------------------------------------------------------------------------
\* The arguments of exec.

\* A byte of the stack: a byte of a string, or part k of the usize v.
Cell(kind, v, k) == [kind |-> kind, val |-> v, part |-> k]
Untouched == Cell("zero", 0, 0)

PutWord(m, a, v) ==
    [x \in DOMAIN m |-> IF x \in a .. a + Word - 1 THEN Cell("word", v, x - a) ELSE m[x]]
PutString(m, a, s) ==
    [x \in DOMAIN m |-> IF x \in a .. a + Len(s) - 1 THEN Cell("byte", s[x - a + 1], 0)
                        ELSE IF x = a + Len(s) THEN Cell("byte", 0, 0) ELSE m[x]]

\* Faulty variant: no room for the 0 behind a string.
Room_NoZero(s) == Len(s)

\* Bytes of string s on the stack.
Room(s) == Len(s) + 1

\* argv_base, the second argument of _start: the vector is at the top of the stack
Argv == StackSize - (Len(stack.args) + 1) * Word

\* TaskControlBlock::exec makes room for the vector and ends it with a null pointer;
\* without room the guard page below the stack is hit.
Exec(args) ==
    /\ phase = "user"
    /\ LET size == (Len(args) + 1) * Word
           zero == [x \in 0 .. StackSize - 1 |-> Untouched]
       IN  IF size > StackSize THEN phase' = "panic" /\ UNCHANGED stack
           ELSE /\ stack' = [mem |-> PutWord(zero, StackSize - Word, 0),
                             sp |-> StackSize - size, args |-> args, pushed |-> 0]
                /\ phase' = "pushing"
    /\ call' = NoCall /\ touched' = <<>> /\ slices' = <<>> /\ start' = 0
    /\ current' = AtFirst
    /\ UNCHANGED <<pt, seen>>

\* One iteration over the arguments: the string goes below those before it, and
\* its address into the vector.
PushArg ==
    /\ phase = "pushing" /\ stack.pushed < Len(stack.args)
    /\ LET s  == stack.args[stack.pushed + 1]
           sp == stack.sp - Room(s)
       IN  IF Room(s) > stack.sp THEN phase' = "panic" /\ UNCHANGED stack
           ELSE /\ stack' = [stack EXCEPT !.sp = sp, !.pushed = @ + 1,
                                !.mem = PutString(PutWord(@, Argv + stack.pushed * Word, sp), sp, s)]
                /\ UNCHANGED phase
    /\ UNCHANGED <<pt, call, start, slices, current, touched, seen>>

\* The rest of exec: the stack pointer is aligned and the program begins.
Enter ==
    /\ phase = "pushing" /\ stack.pushed >= Len(stack.args)
    /\ phase' = "started"
    /\ stack' = [stack EXCEPT !.sp = @ - (@ % Word)]
    /\ UNCHANGED <<pt, call, start, slices, current, touched, seen>>

\* The usize at address a, as far as it is one.
WordAt(a) ==
    IF \A k \in 0 .. Word - 1 : stack.mem[a + k] = Cell("word", stack.mem[a].val, k)
    THEN stack.mem[a].val ELSE 0

\* The bytes from address a to the first 0.
StringAt(a) ==
    LET zero(n) == stack.mem[a + n] = Cell("byte", 0, 0)
        len == CHOOSE n \in 0 .. StackSize - a - 1 :
                  zero(n) /\ \A m \in 0 .. n - 1 : ~zero(m)
    IN  [k \in 1 .. len |-> stack.mem[a + k - 1].val]

\* _start collects the arguments.
Start ==
    /\ phase = "started" /\ phase' = "main"
    /\ seen' = [i \in 1 .. Len(stack.args) |-> StringAt(WordAt(Argv + (i - 1) * Word))]
    /\ UNCHANGED <<pt, call, start, slices, current, touched, stack>>

\* main runs, in the memory set that exec has made.
Main ==
    /\ phase = "main" /\ phase' = "user"
    /\ pt' \in PageTables
    /\ stack' = NoStack /\ seen' = <<>>
    /\ UNCHANGED <<call, start, slices, current, touched>>

Next ==
    \/ \E ptr \in 0 .. Pages * PageSize : \E len \in 0 .. MaxLen : SliceCall("buffer", ptr, len)
    \/ \E p \in 0 .. (Pages * PageSize) \div Word : \E len \in Structs :
          SliceCall("first", p * Word, len) \/ RefCall(p * Word, len)
    \/ \E ptr \in 0 .. Pages * PageSize : StringCall(ptr)
    \/ Slice \/ Sliced \/ MoveByte \/ ReturnBuffer \/ StringByte
    \/ \E args \in ArgLists : Exec(args)
    \/ PushArg \/ Enter \/ Start \/ Main

Spec == Init /\ [][Next]_vars

----------------------------------------------------------------------------
\* The physical bytes that the n bytes at va are, page by page.
Meant(va, n) == [k \in 1 .. n |-> Translate(va + k - 1)]

\* The bytes a buffer or a string yields are those of the program, in order and
\* without a gap or a repetition, however pages and frames cut it; a buffer that
\* has been walked to the end has all of them; and the kernel panics on the way
\* only at a page that is not there.
BufferExact ==
    call.op \in {"buffer", "string"} =>
       /\ touched = Meant(call.ptr, Len(touched))
       /\ phase = "moving" /\ current.buffer > Len(slices) => Len(touched) = call.len
       /\ phase = "panic" => ~Mapped(start)

\* The structure crosses into a page whose frame is not the next one in memory.
Torn == \E k \in 1 .. call.len - 1 :
           ~Mapped(call.ptr + k) \/ Translate(call.ptr + k) # Translate(call.ptr) + k

\* A structure behind a pointer is written where it is, unless it crosses a page:
\* the kernel goes on in the physically next frame, whoever owns it.  One usize
\* (sys_pipe, the pointers of exec) never does.
StructExact ==
    call.op \in {"first", "ref"} /\ touched # <<>> =>
       /\ ~Torn => touched = Meant(call.ptr, call.len)
       /\ Torn => PageOffset(call.ptr) + call.len > PageSize /\ call.len > Word

\* main gets the arguments that the caller of exec has passed: the strings and the
\* vector of pointers do not overlap, each string ends with its own 0, and the
\* stack pointer is below all of them.
ArgumentsArrive ==
    phase = "main" =>
       /\ seen = stack.args
       /\ \A a \in 0 .. stack.sp - 1 : stack.mem[a] = Untouched
============================================================================
