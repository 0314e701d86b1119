----------------------------- MODULE ShellProofs -----------------------------
(***************************************************************************)
(* Proofs about module Shell for lines of any length and any commands: the *)
(* descriptors that each program of a line starts with, and what a line    *)
(* leaves behind.                                                          *)
(***************************************************************************)
EXTENDS Shell, Integers, FiniteSetTheorems, SequenceTheorems, TLAPS

CallSet == [op : {"open", "close", "dup", "read", "write", "exec", "exit"}, fd : Nat, n : Int]
CloseOf(fd) == Call("close", fd, 0)

\* The end of a pipe that the shell has at descriptor fd: pipe k at 2k + 1 and 2k + 2.
EndOf(fd) == IF fd % 2 = 1 THEN ReadEnd((fd - 1) \div 2) ELSE WriteEnd((fd - 2) \div 2)

\* What is at descriptor fd: a, b and the console at 0, 1 and 2, nothing up to lo, then
\* ends of pipes up to hi, then x.
FileAt(fd, a, b, x, lo, hi) ==
    IF fd = 0 THEN a ELSE IF fd = 1 THEN b ELSE IF fd = 2 THEN Stdout
    ELSE IF fd <= lo THEN NoFile ELSE IF fd <= hi THEN EndOf(fd)
    ELSE IF fd = hi + 1 THEN x ELSE NoFile

\* A table of that form, with NoFile in the rest of the vector.
Table(t, a, b, x, lo, hi) ==
    \E m \in Nat : /\ hi <= m /\ (x # NoFile => hi < m)
                   /\ t = [fd \in 0 .. m |-> FileAt(fd, a, b, x, lo, hi)]

----------------------------------------------------------------------------
\* The calls that are left of Setup(s): from end j of the pipes on, and from each of the
\* statements before them on.
Rest(j) == [k \in 1 .. 2 * Len(pipes) + 2 - j |->
              IF j + k - 1 <= 2 * Len(pipes) THEN CloseOf(EndFd(j + k - 1)) ELSE Exec]
RightOn(s) == IF s < Len(line)
              THEN <<Write(0)>> \o (<<CloseOf(1)>> \o (<<DupTo(2 * s + 2, 1)>> \o Rest(1))) ELSE Rest(1)
LeftOn(s)  == IF s > 1 THEN <<CloseOf(0)>> \o (<<DupTo(2 * s - 1, 0)>> \o RightOn(s)) ELSE RightOn(s)
OutOn(s)   == IF line[s].output # "" THEN <<OpenFor(1)>> \o LeftOn(s) ELSE LeftOn(s)
InOn(s)    == IF line[s].input # "" THEN <<OpenFor(0)>> \o OutOn(s) ELSE OutOn(s)

Input  == File("input", 0)
Output == File("output", 0)
InFile(s)  == IF line[s].input = "" THEN Stdin ELSE Input
OutFile(s) == IF line[s].output = "" THEN Stdout ELSE Output

Top == 2 * Len(line)
New == Top + 1

\* What the child of stage s has still to do, q, and its table t go together, before it
\* has redirected its input, its output, and so on.
Has(t, a, b, x) == Table(t, a, b, x, 2, Top)

InPlace(s, q, t) ==
    /\ line[s].input # ""
    /\ \/ q = <<OpenFor(0)>> \o OutOn(s) /\ Has(t, Stdin, Stdout, NoFile)
       \/ q = <<CloseOf(0)>> \o (<<DupTo(New, 0)>> \o (<<CloseOf(New)>> \o OutOn(s)))
          /\ Has(t, Stdin, Stdout, Input)
       \/ q = <<DupTo(New, 0)>> \o (<<CloseOf(New)>> \o OutOn(s)) /\ Has(t, NoFile, Stdout, Input)
       \/ q = <<CloseOf(New)>> \o OutOn(s) /\ Has(t, Input, Stdout, Input)

OutPlace(s, q, t) ==
    /\ line[s].output # ""
    /\ \/ q = <<OpenFor(1)>> \o LeftOn(s) /\ Has(t, InFile(s), Stdout, NoFile)
       \/ q = <<Write(0)>> \o (<<CloseOf(1)>> \o (<<DupTo(New, 1)>> \o (<<CloseOf(New)>> \o LeftOn(s))))
          /\ Has(t, InFile(s), Stdout, Output)
       \/ q = <<CloseOf(1)>> \o (<<DupTo(New, 1)>> \o (<<CloseOf(New)>> \o LeftOn(s)))
          /\ Has(t, InFile(s), Stdout, Output)
       \/ q = <<DupTo(New, 1)>> \o (<<CloseOf(New)>> \o LeftOn(s)) /\ Has(t, InFile(s), NoFile, Output)
       \/ q = <<CloseOf(New)>> \o LeftOn(s) /\ Has(t, InFile(s), Output, Output)

LeftPlace(s, q, t) ==
    /\ s > 1
    /\ \/ q = <<CloseOf(0)>> \o (<<DupTo(2 * s - 1, 0)>> \o RightOn(s)) /\ Has(t, Stdin, OutFile(s), NoFile)
       \/ q = <<DupTo(2 * s - 1, 0)>> \o RightOn(s) /\ Has(t, NoFile, OutFile(s), NoFile)

RightPlace(s, q, t) ==
    /\ s < Len(line)
    /\ \/ q = <<Write(0)>> \o (<<CloseOf(1)>> \o (<<DupTo(2 * s + 2, 1)>> \o Rest(1)))
          /\ Has(t, Source(s), Stdout, NoFile)
       \/ q = <<CloseOf(1)>> \o (<<DupTo(2 * s + 2, 1)>> \o Rest(1)) /\ Has(t, Source(s), Stdout, NoFile)
       \/ q = <<DupTo(2 * s + 2, 1)>> \o Rest(1) /\ Has(t, Source(s), NoFile, NoFile)

EndsPlace(s, q, t) ==
    \E j \in 1 .. Top - 1 :
       q = Rest(j) /\ Table(t, Source(s), Target(s), NoFile, j + 1, Top)

Place(s, q, t) ==
    InPlace(s, q, t) \/ OutPlace(s, q, t) \/ LeftPlace(s, q, t) \/ RightPlace(s, q, t) \/ EndsPlace(s, q, t)

\* Calls that leave the table alone, and exit, if there is one, is the last.
Harmless(q) ==
    \A j \in 1 .. Len(q) : /\ q[j].op \in {"read", "write", "exit"}
                           /\ q[j].op = "exit" => j = Len(q)

----------------------------------------------------------------------------
\* The inductive invariant.

ShellType ==
    /\ line \in Seq(Command) /\ at \in {"prompt", "pipe", "fork", "close", "wait"}
    /\ i \in Nat \ {0} /\ pipes \in Seq(Seq(Nat))
    /\ DOMAIN table = Proc /\ table = [p \in Proc |-> table[p]]
    /\ status \in [Stage -> {"absent", "setup", "running", "zombie"}]
    /\ todo \in [Stage -> Seq(CallSet)]

\* The loops of the shell.
Loops ==
    /\ at = "prompt" <=> line = <<>>
    /\ line # <<>> => line \in Lines /\ Valid(line)
    /\ at = "prompt" => i = 1 /\ pipes = <<>>
    /\ at = "pipe" => i <= Len(line) /\ Len(pipes) = i - 1
    /\ at \in {"fork", "close", "wait"} => Len(pipes) = Len(line) - 1
    /\ at \in {"fork", "wait"} => i <= Len(line) + 1
    /\ at = "close" => i <= Top - 1

\* Where the ends of the pipes are; none is at 0, 1 or 2.
PipesAbove == \A k \in 1 .. Len(pipes) : pipes[k] = <<2 * k + 1, 2 * k + 2>>

\* The table of the shell.
ShellTable ==
    /\ at \in {"prompt", "wait"} => Table(table[0], Stdin, Stdout, NoFile, 2, 2)
    /\ at = "pipe"  => Table(table[0], Stdin, Stdout, NoFile, 2, 2 * i)
    /\ at = "fork"  => Table(table[0], Stdin, Stdout, NoFile, 2, Top)
    /\ at = "close" => Table(table[0], Stdin, Stdout, NoFile, i + 1, Top)

\* The stages that there are.
Present(s) ==
    CASE at \in {"prompt", "pipe"} -> FALSE
      [] at = "fork"  -> s < i
      [] at = "close" -> s <= Len(line)
      [] at = "wait"  -> i <= s /\ s <= Len(line)

StageOK(s) ==
    /\ status[s] = "absent" <=> ~Present(s)
    /\ status[s] = "absent" => table[s] = NoTable
    /\ status[s] \in {"absent", "zombie"} => todo[s] = <<>>
    /\ status[s] = "setup" => Place(s, todo[s], table[s]) \/ Harmless(todo[s])
    /\ status[s] = "running" =>
         Harmless(todo[s]) /\ Table(table[s], Source(s), Target(s), NoFile, 2, 2)

ShellInv ==
    /\ ShellType /\ Loops /\ PipesAbove /\ ShellTable /\ failed = {}
    /\ \A s \in Stage : StageOK(s)

----------------------------------------------------------------------------
\* Tables

LEMMA FileFacts ==
    /\ Stdin # NoFile /\ Stdout # NoFile /\ Input # NoFile /\ Output # NoFile
    /\ \A fd \in Nat : EndOf(fd) # NoFile
    /\ \A k \in Nat : /\ ReadEnd(k) # NoFile /\ WriteEnd(k) # NoFile
                      /\ EndOf(2 * k + 1) = ReadEnd(k) /\ EndOf(2 * k + 2) = WriteEnd(k)
  <1>1. /\ Stdin # NoFile /\ Stdout # NoFile /\ Input # NoFile /\ Output # NoFile
        /\ \A k : ReadEnd(k) # NoFile /\ WriteEnd(k) # NoFile
    BY DEF Stdin, Stdout, Input, Output, ReadEnd, WriteEnd, NoFile, File
  <1>2. ASSUME NEW fd \in Nat PROVE EndOf(fd) # NoFile
    BY <1>1 DEF EndOf
  <1>3. ASSUME NEW k \in Nat
        PROVE EndOf(2 * k + 1) = ReadEnd(k) /\ EndOf(2 * k + 2) = WriteEnd(k)
    <2>1. /\ (2 * k + 1) % 2 = 1 /\ ((2 * k + 1) - 1) \div 2 = k
          /\ (2 * k + 2) % 2 = 0 /\ ((2 * k + 2) - 2) \div 2 = k
      OBVIOUS
    <2> QED BY <2>1 DEF EndOf
  <1> QED BY <1>1, <1>2, <1>3

\* alloc_fd returns the first slot of the vector that holds no file, or its length.
LEMMA AllocAt ==
  ASSUME NEW t, NEW m \in Nat, DOMAIN t = 0 .. m, NEW n \in 0 .. m + 1,
         n \in 0 .. m => t[n] = NoFile,
         \A fd \in 0 .. m : fd < n => t[fd] # NoFile
  PROVE  AllocFd(t) = n
  <1>1. Cardinality(0 .. m) = m + 1
    BY FS_Interval
  <1>2. Free(t) = {fd \in 0 .. m : t[fd] = NoFile}
    BY DEF Free, Open
  <1>3. CASE n \in 0 .. m
    <2> DEFINE P(x) == x \in Free(t) /\ \A y \in Free(t) : x =< y
    <2>1. P(n)
      BY <1>2, <1>3
    <2>2. ASSUME NEW x, P(x) PROVE x = n
      BY <1>2, <2>1, <2>2
    <2>3. AllocFd(t) = CHOOSE x \in Free(t) : \A y \in Free(t) : x =< y
      BY <2>1 DEF AllocFd, Min
    <2>4. AllocFd(t) = CHOOSE x : P(x)
      BY <2>3
    <2> HIDE DEF P
    <2>5. P(CHOOSE x : P(x))
      BY <2>1
    <2> QED BY <2>2, <2>4, <2>5
  <1>4. CASE n = m + 1
    <2>1. Free(t) = {}
      BY <1>2, <1>4
    <2> QED BY <1>1, <1>4, <2>1 DEF AllocFd, Len_
  <1> QED BY <1>3, <1>4

LEMMA InstallAt ==
  ASSUME NEW t, NEW m \in Nat, DOMAIN t = 0 .. m, NEW n \in 0 .. m + 1, AllocFd(t) = n, NEW f
  PROVE  Install(t, f) = [fd \in 0 .. (IF n <= m THEN m ELSE n) |-> IF fd = n THEN f ELSE t[fd]]
  <1>1. (0 .. m) \cup {n} = 0 .. (IF n <= m THEN m ELSE n)
    OBVIOUS
  <1> QED BY <1>1 DEF Install

\* A file takes the place of the console at 0 or at 1, or comes behind the others.
LEMMA FillFirst ==
  ASSUME NEW t, NEW b, NEW x, NEW hi \in Nat, Table(t, NoFile, b, x, 2, hi), NEW f
  PROVE  AllocFd(t) = 0 /\ Table(Install(t, f), f, b, x, 2, hi)
  <1>1. PICK m \in Nat : /\ hi <= m /\ (x # NoFile => hi < m)
                         /\ t = [fd \in 0 .. m |-> FileAt(fd, NoFile, b, x, 2, hi)]
    BY DEF Table
  <1>2. t[0] = NoFile /\ DOMAIN t = 0 .. m
    BY <1>1 DEF FileAt
  <1>3. AllocFd(t) = 0
    BY <1>2, AllocAt
  <1>4. Install(t, f) = [fd \in 0 .. m |-> IF fd = 0 THEN f ELSE t[fd]]
    BY <1>2, <1>3, InstallAt
  <1>5. Install(t, f) = [fd \in 0 .. m |-> FileAt(fd, f, b, x, 2, hi)]
    BY <1>1, <1>4 DEF FileAt
  <1> QED BY <1>1, <1>3, <1>5 DEF Table

LEMMA FillSecond ==
  ASSUME NEW t, NEW a, a # NoFile, NEW x, NEW hi \in Nat, hi >= 2, Table(t, a, NoFile, x, 2, hi),
         NEW f
  PROVE  AllocFd(t) = 1 /\ Table(Install(t, f), a, f, x, 2, hi)
  <1>1. PICK m \in Nat : /\ hi <= m /\ (x # NoFile => hi < m)
                         /\ t = [fd \in 0 .. m |-> FileAt(fd, a, NoFile, x, 2, hi)]
    BY DEF Table
  <1>2. t[0] # NoFile /\ t[1] = NoFile /\ DOMAIN t = 0 .. m
    BY <1>1 DEF FileAt
  <1>3. AllocFd(t) = 1
    BY <1>1, <1>2, AllocAt
  <1>4. Install(t, f) = [fd \in 0 .. m |-> IF fd = 1 THEN f ELSE t[fd]]
    BY <1>1, <1>2, <1>3, InstallAt
  <1>5. Install(t, f) = [fd \in 0 .. m |-> FileAt(fd, a, f, x, 2, hi)]
    BY <1>1, <1>4 DEF FileAt
  <1> QED BY <1>1, <1>3, <1>5 DEF Table

LEMMA FillNew ==
  ASSUME NEW t, NEW a, NEW b, a # NoFile, b # NoFile, NEW hi \in Nat, hi >= 2,
         Table(t, a, b, NoFile, 2, hi), NEW f
  PROVE  AllocFd(t) = hi + 1 /\ Table(Install(t, f), a, b, f, 2, hi)
  <1>1. PICK m \in Nat : /\ hi <= m
                         /\ t = [fd \in 0 .. m |-> FileAt(fd, a, b, NoFile, 2, hi)]
    BY DEF Table
  <1>2. /\ DOMAIN t = 0 .. m /\ (hi + 1 \in 0 .. m => t[hi + 1] = NoFile)
        /\ \A fd \in 0 .. m : fd < hi + 1 => t[fd] # NoFile
    <2>1. DOMAIN t = 0 .. m /\ (hi + 1 \in 0 .. m => t[hi + 1] = NoFile)
      BY <1>1 DEF FileAt
    <2>2. ASSUME NEW fd \in 0 .. m, fd < hi + 1 PROVE t[fd] # NoFile
      BY <1>1, <2>2, FileFacts DEF FileAt
    <2> QED BY <2>1, <2>2
  <1>3. AllocFd(t) = hi + 1
    BY <1>1, <1>2, AllocAt
  <1> DEFINE n == IF hi + 1 <= m THEN m ELSE hi + 1
  <1>4. Install(t, f) = [fd \in 0 .. n |-> IF fd = hi + 1 THEN f ELSE t[fd]]
    BY <1>1, <1>2, <1>3, InstallAt
  <1>5. n \in Nat /\ hi < n
    BY <1>1
  <1>6. ASSUME NEW fd \in 0 .. n
        PROVE (IF fd = hi + 1 THEN f ELSE t[fd]) = FileAt(fd, a, b, f, 2, hi)
    BY <1>1 DEF FileAt
  <1>7. Install(t, f) = [fd \in 0 .. n |-> FileAt(fd, a, b, f, 2, hi)]
    BY <1>4, <1>6
  <1> HIDE DEF n
  <1> QED BY <1>3, <1>5, <1>7 DEF Table

\* Behind the last end comes the next one.
LEMMA Grow ==
  ASSUME NEW t, NEW a, NEW b, NEW hi \in Nat, hi >= 2, Table(t, a, b, EndOf(hi + 1), 2, hi)
  PROVE  Table(t, a, b, NoFile, 2, hi + 1)
  <1>1. PICK m \in Nat : /\ hi < m
                         /\ t = [fd \in 0 .. m |-> FileAt(fd, a, b, EndOf(hi + 1), 2, hi)]
    BY FileFacts DEF Table
  <1>2. t = [fd \in 0 .. m |-> FileAt(fd, a, b, NoFile, 2, hi + 1)]
    BY <1>1 DEF FileAt
  <1> QED BY <1>1, <1>2 DEF Table

\* close, of a descriptor that is open or not
LEMMA CloseAt ==
  ASSUME NEW t, NEW m \in Nat, DOMAIN t = 0 .. m, t = [fd \in 0 .. m |-> t[fd]], NEW c \in Nat
  PROVE  CloseFd(t, c) = [fd \in 0 .. m |-> IF fd = c THEN NoFile ELSE t[fd]]
  BY DEF CloseFd, Open

LEMMA CloseFirst ==
  ASSUME NEW t, NEW a, NEW b, NEW x, NEW hi \in Nat, Table(t, a, b, x, 2, hi)
  PROVE  Table(CloseFd(t, 0), NoFile, b, x, 2, hi)
  <1>1. PICK m \in Nat : /\ hi <= m /\ (x # NoFile => hi < m)
                         /\ t = [fd \in 0 .. m |-> FileAt(fd, a, b, x, 2, hi)]
    BY DEF Table
  <1>2. CloseFd(t, 0) = [fd \in 0 .. m |-> IF fd = 0 THEN NoFile ELSE t[fd]]
    BY <1>1, CloseAt
  <1>3. CloseFd(t, 0) = [fd \in 0 .. m |-> FileAt(fd, NoFile, b, x, 2, hi)]
    BY <1>1, <1>2 DEF FileAt
  <1> QED BY <1>1, <1>3 DEF Table

LEMMA CloseSecond ==
  ASSUME NEW t, NEW a, NEW b, NEW x, NEW hi \in Nat, Table(t, a, b, x, 2, hi)
  PROVE  Table(CloseFd(t, 1), a, NoFile, x, 2, hi)
  <1>1. PICK m \in Nat : /\ hi <= m /\ (x # NoFile => hi < m)
                         /\ t = [fd \in 0 .. m |-> FileAt(fd, a, b, x, 2, hi)]
    BY DEF Table
  <1>2. CloseFd(t, 1) = [fd \in 0 .. m |-> IF fd = 1 THEN NoFile ELSE t[fd]]
    BY <1>1, CloseAt
  <1>3. CloseFd(t, 1) = [fd \in 0 .. m |-> FileAt(fd, a, NoFile, x, 2, hi)]
    BY <1>1, <1>2 DEF FileAt
  <1> QED BY <1>1, <1>3 DEF Table

LEMMA CloseNew ==
  ASSUME NEW t, NEW a, NEW b, NEW x, NEW hi \in Nat, hi >= 2, Table(t, a, b, x, 2, hi)
  PROVE  Table(CloseFd(t, hi + 1), a, b, NoFile, 2, hi)
  <1>1. PICK m \in Nat : /\ hi <= m /\ (x # NoFile => hi < m)
                         /\ t = [fd \in 0 .. m |-> FileAt(fd, a, b, x, 2, hi)]
    BY DEF Table
  <1>2. CloseFd(t, hi + 1) = [fd \in 0 .. m |-> IF fd = hi + 1 THEN NoFile ELSE t[fd]]
    <2>1. DOMAIN t = 0 .. m /\ t = [fd \in 0 .. m |-> t[fd]]
      BY <1>1
    <2>2. \A c \in Nat : CloseFd(t, c) = [fd \in 0 .. m |-> IF fd = c THEN NoFile ELSE t[fd]]
      BY <2>1, CloseAt
    <2>3. hi + 1 \in Nat
      OBVIOUS
    <2> QED BY <2>2, <2>3, Zenon
  <1>3. CloseFd(t, hi + 1) = [fd \in 0 .. m |-> FileAt(fd, a, b, NoFile, 2, hi)]
    BY <1>1, <1>2 DEF FileAt
  <1> QED BY <1>1, <1>3 DEF Table

LEMMA CloseEnd ==
  ASSUME NEW t, NEW a, NEW b, NEW lo \in Nat, NEW hi \in Nat, lo >= 2, lo < hi,
         Table(t, a, b, NoFile, lo, hi)
  PROVE  Table(CloseFd(t, lo + 1), a, b, NoFile, lo + 1, hi)
  <1>1. PICK m \in Nat : /\ hi <= m
                         /\ t = [fd \in 0 .. m |-> FileAt(fd, a, b, NoFile, lo, hi)]
    BY DEF Table
  <1>2. CloseFd(t, lo + 1) = [fd \in 0 .. m |-> IF fd = lo + 1 THEN NoFile ELSE t[fd]]
    <2>1. DOMAIN t = 0 .. m /\ t = [fd \in 0 .. m |-> t[fd]]
      BY <1>1
    <2>2. \A c \in Nat : CloseFd(t, c) = [fd \in 0 .. m |-> IF fd = c THEN NoFile ELSE t[fd]]
      BY <2>1, CloseAt
    <2>3. lo + 1 \in Nat
      OBVIOUS
    <2> QED BY <2>2, <2>3, Zenon
  <1>3. CloseFd(t, lo + 1) = [fd \in 0 .. m |-> FileAt(fd, a, b, NoFile, lo + 1, hi)]
    BY <1>1, <1>2 DEF FileAt
  <1> QED BY <1>1, <1>3 DEF Table

\* With every end closed nothing is left behind the console.
LEMMA AllClosed ==
  ASSUME NEW t, NEW a, NEW b, NEW hi \in Nat, hi >= 2, Table(t, a, b, NoFile, hi, hi)
  PROVE  Table(t, a, b, NoFile, 2, 2)
  <1>1. PICK m \in Nat : /\ hi <= m
                         /\ t = [fd \in 0 .. m |-> FileAt(fd, a, b, NoFile, hi, hi)]
    BY DEF Table
  <1>2. t = [fd \in 0 .. m |-> FileAt(fd, a, b, NoFile, 2, 2)]
    BY <1>1 DEF FileAt
  <1> QED BY <1>1, <1>2 DEF Table

LEMMA ThreeOpen ==
  ASSUME NEW t, NEW a, NEW b, a # NoFile, b # NoFile, Table(t, a, b, NoFile, 2, 2)
  PROVE  Open(t) = 0 .. 2 /\ t[0] = a /\ t[1] = b /\ t[2] = Stdout
  <1>1. PICK m \in Nat : /\ 2 <= m
                         /\ t = [fd \in 0 .. m |-> FileAt(fd, a, b, NoFile, 2, 2)]
    BY DEF Table
  <1>2. t[0] = a /\ t[1] = b /\ t[2] = Stdout
    BY <1>1 DEF FileAt
  <1>3. \A fd \in 0 .. m : fd > 2 => t[fd] = NoFile
    BY <1>1 DEF FileAt
  <1>4. DOMAIN t = 0 .. m
    BY <1>1
  <1>5. ASSUME NEW fd PROVE fd \in Open(t) <=> fd \in 0 .. 2
    <2>1. CASE fd \in 0 .. 2
      <3>1. fd \in 0 .. m /\ (fd = 0 \/ fd = 1 \/ fd = 2)
        BY <1>1, <2>1
      <3>2. t[fd] # NoFile
        BY <1>2, <3>1, FileFacts
      <3> QED BY <1>4, <2>1, <3>1, <3>2 DEF Open
    <2>2. CASE fd \notin 0 .. 2
      BY <1>3, <1>4, <2>2 DEF Open
    <2> QED BY <2>1, <2>2
  <1> QED BY <1>2, <1>5

\* The files behind the console.
LEMMA EndsOpen ==
  ASSUME NEW t, NEW a, NEW b, NEW x, NEW hi \in Nat, hi >= 2, Table(t, a, b, x, 2, hi)
  PROVE  /\ \A fd \in 3 .. hi : fd \in Open(t) /\ t[fd] = EndOf(fd)
         /\ x # NoFile => hi + 1 \in Open(t) /\ t[hi + 1] = x
  <1>1. PICK m \in Nat : /\ hi <= m /\ (x # NoFile => hi < m)
                         /\ t = [fd \in 0 .. m |-> FileAt(fd, a, b, x, 2, hi)]
    BY DEF Table
  <1>2. ASSUME NEW fd \in 3 .. hi PROVE fd \in Open(t) /\ t[fd] = EndOf(fd)
    <2>1. fd \in 0 .. m /\ t[fd] = EndOf(fd)
      BY <1>1 DEF FileAt
    <2> QED BY <1>1, <2>1, FileFacts DEF Open
  <1>3. ASSUME x # NoFile PROVE hi + 1 \in Open(t) /\ t[hi + 1] = x
    <2>1. hi + 1 \in 0 .. m /\ t[hi + 1] = x
      BY <1>1, <1>3 DEF FileAt
    <2> QED BY <1>1, <1>3, <2>1 DEF Open
  <1> QED BY <1>2, <1>3

LEMMA InitialThree == Table(InitialTable, Stdin, Stdout, NoFile, 2, 2)
  <1>1. InitialTable = [fd \in 0 .. 2 |-> FileAt(fd, Stdin, Stdout, NoFile, 2, 2)]
    BY DEF InitialTable, FileAt
  <1> QED BY <1>1 DEF Table

----------------------------------------------------------------------------
\* Sequences of calls

LEMMA CallTypes ==
    /\ \A fd \in Nat, n \in Nat :
          /\ CloseOf(fd) \in CallSet /\ DupTo(fd, n) \in CallSet /\ OpenFor(fd) \in CallSet
          /\ Read(n) \in CallSet /\ Write(n) \in CallSet
          /\ CloseOf(fd).op = "close" /\ CloseOf(fd).fd = fd
          /\ DupTo(fd, n).op = "dup" /\ DupTo(fd, n).fd = fd /\ DupTo(fd, n).n = n
          /\ OpenFor(fd).op = "open" /\ OpenFor(fd).fd = fd
          /\ Write(n).op = "write" /\ Write(n).n = n /\ Read(n).op = "read"
    /\ Exec \in CallSet /\ Exec.op = "exec" /\ SysExit \in CallSet /\ SysExit.op = "exit"
  BY DEF CallSet, CloseOf, DupTo, OpenFor, Read, Write, Exec, SysExit, Call

LEMMA ConsOne ==
  ASSUME NEW c \in CallSet, NEW q \in Seq(CallSet)
  PROVE  /\ <<c>> \o q \in Seq(CallSet) /\ <<c>> \o q # <<>>
         /\ Head(<<c>> \o q) = c /\ Tail(<<c>> \o q) = q
  <1> DEFINE r == <<c>> \o q
  <1>1. r \in Seq(CallSet) /\ Len(r) = 1 + Len(q)
    OBVIOUS
  <1>2. r[1] = c /\ \A j \in 1 .. Len(q) : r[j + 1] = q[j]
    OBVIOUS
  <1>3. r # <<>>
    BY <1>1
  <1> HIDE DEF r
  <1>4. Tail(r) \in Seq(CallSet) /\ Len(Tail(r)) = Len(q)
    BY <1>1, <1>3
  <1>5. \A j \in 1 .. Len(q) : Tail(r)[j] = q[j]
    BY <1>1, <1>2, <1>3
  <1>6. Tail(r) = q
    BY <1>4, <1>5, SeqEqual
  <1>7. Head(r) = c
    BY <1>2
  <1> QED BY <1>1, <1>3, <1>6, <1>7 DEF r

LEMMA Concat ==
    /\ \A p, q \in Seq(CallSet) : p \o q \in Seq(CallSet)
    /\ \A p, q, r \in Seq(CallSet) : (p \o q) \o r = p \o (q \o r)
    /\ \A p \in Seq(CallSet) : <<>> \o p = p
    /\ \A c, d \in CallSet : <<c>> \in Seq(CallSet) /\ <<c, d>> \in Seq(CallSet)
  <1>4. ASSUME NEW c \in CallSet, NEW d \in CallSet
        PROVE <<c>> \in Seq(CallSet) /\ <<c, d>> \in Seq(CallSet)
    OBVIOUS
  <1>1. ASSUME NEW p \in Seq(CallSet), NEW q \in Seq(CallSet) PROVE p \o q \in Seq(CallSet)
    OBVIOUS
  <1>2. ASSUME NEW p \in Seq(CallSet), NEW q \in Seq(CallSet), NEW r \in Seq(CallSet)
        PROVE (p \o q) \o r = p \o (q \o r)
    BY ConcatAssociative
  <1>3. ASSUME NEW p \in Seq(CallSet) PROVE <<>> \o p = p
    BY ConcatEmptySeq
  <1> QED BY <1>1, <1>2, <1>3, <1>4

LEMMA ConsTwo ==
  ASSUME NEW c \in CallSet, NEW d \in CallSet, NEW q \in Seq(CallSet)
  PROVE  <<c, d>> \o q = <<c>> \o (<<d>> \o q)
  <1>1. <<c, d>> = <<c>> \o <<d>>
    <2>1. <<c, d>> \in Seq(CallSet) /\ Len(<<c, d>>) = 2
      OBVIOUS
    <2>2. <<c>> \o <<d>> \in Seq(CallSet) /\ Len(<<c>> \o <<d>>) = 2
      OBVIOUS
    <2>3. (<<c>> \o <<d>>)[1] = c /\ (<<c>> \o <<d>>)[2] = d
      OBVIOUS
    <2>4. <<c, d>>[1] = c /\ <<c, d>>[2] = d
      OBVIOUS
    <2>5. ASSUME NEW j \in 1 .. 2 PROVE <<c, d>>[j] = (<<c>> \o <<d>>)[j]
      <3>1. j = 1 \/ j = 2
        OBVIOUS
      <3> QED BY <2>3, <2>4, <3>1
    <2> QED BY <2>1, <2>2, <2>5, SeqEqual
  <1> QED BY <1>1, ConcatAssociative

LEMMA WhenConcat ==
  ASSUME NEW cond \in BOOLEAN, NEW p \in Seq(CallSet), NEW q \in Seq(CallSet)
  PROVE  When(cond, p) \o q = IF cond THEN p \o q ELSE q
  BY ConcatEmptySeq DEF When

----------------------------------------------------------------------------
\* The line under way: the shell is past its pipe calls and stage s is one of the line.

UnderWay(s) ==
    /\ line \in Seq(Command) /\ s \in 1 .. Len(line) /\ Valid(line)
    /\ pipes \in Seq(Seq(Nat)) /\ Len(pipes) = Len(line) - 1 /\ PipesAbove

LEMMA Ends ==
  ASSUME NEW s, UnderWay(s), NEW j \in 1 .. 2 * Len(pipes)
  PROVE  EndFd(j) = j + 2
  <1> DEFINE k == (j + 1) \div 2
  <1>1. k \in 1 .. Len(pipes)
    BY DEF UnderWay
  <1>2. pipes[k] = <<2 * k + 1, 2 * k + 2>>
    BY <1>1 DEF UnderWay, PipesAbove
  <1>3. j % 2 = 1 => j = 2 * k - 1
    OBVIOUS
  <1>4. j % 2 # 1 => j = 2 * k
    OBVIOUS
  <1>5. k \in Int /\ EndFd(j) = pipes[k][IF j % 2 = 1 THEN 1 ELSE 2]
    BY DEF EndFd
  <1> HIDE DEF k
  <1>6. CASE j % 2 = 1
    BY <1>2, <1>3, <1>5, <1>6
  <1>7. CASE j % 2 # 1
    BY <1>2, <1>4, <1>5, <1>7
  <1> QED BY <1>6, <1>7

LEMMA RestFacts ==
  ASSUME NEW s, UnderWay(s), NEW j \in 1 .. Top - 1
  PROVE  /\ Rest(j) \in Seq(CallSet)
         /\ j < Top - 1 => Rest(j) = <<CloseOf(j + 2)>> \o Rest(j + 1)
         /\ j = Top - 1 => Rest(j) = <<Exec>>
  <1> DEFINE E == 2 * Len(pipes)
  <1>1. E \in Nat /\ E + 1 = Top - 1
    BY DEF UnderWay, Top
  <1>2. ASSUME NEW h \in 1 .. E + 1
        PROVE  /\ Rest(h) \in Seq(CallSet) /\ Len(Rest(h)) = E + 2 - h
               /\ \A k \in 1 .. E + 2 - h : Rest(h)[k] = IF h + k - 1 <= E THEN CloseOf(h + k + 1) ELSE Exec
    <2>1. Rest(h) = [k \in 1 .. E + 2 - h |-> IF h + k - 1 <= E THEN CloseOf(EndFd(h + k - 1)) ELSE Exec]
      BY DEF Rest
    <2>2. ASSUME NEW k \in 1 .. E + 2 - h, h + k - 1 <= E PROVE EndFd(h + k - 1) = h + k + 1
      <3>1. h + k - 1 \in 1 .. E
        BY <1>1, <2>2
      <3>2. \A l \in 1 .. E : EndFd(l) = l + 2
        BY Ends
      <3>3. EndFd(h + k - 1) = (h + k - 1) + 2
        BY <3>1, <3>2, Zenon
      <3> QED BY <1>1, <3>3
    <2>3. ASSUME NEW k \in 1 .. E + 2 - h
          PROVE  /\ (IF h + k - 1 <= E THEN CloseOf(EndFd(h + k - 1)) ELSE Exec)
                      = (IF h + k - 1 <= E THEN CloseOf(h + k + 1) ELSE Exec)
                 /\ (IF h + k - 1 <= E THEN CloseOf(h + k + 1) ELSE Exec) \in CallSet
      <3>1. h + k + 1 \in Nat
        BY <1>1
      <3>2. CloseOf(h + k + 1) \in CallSet
        BY <3>1, CallTypes
      <3> QED BY <2>2, <3>2, CallTypes
    <2>4. Rest(h) = [k \in 1 .. E + 2 - h |-> IF h + k - 1 <= E THEN CloseOf(h + k + 1) ELSE Exec]
      BY <2>1, <2>3
    <2>5. E + 2 - h \in Nat
      BY <1>1
    <2> HIDE DEF E
    <2> QED BY <2>3, <2>4, <2>5
  <1> HIDE DEF E
  <1>3. CASE j = Top - 1
    <2>1. /\ Rest(j) \in Seq(CallSet) /\ Len(Rest(j)) = E + 2 - j
          /\ \A k \in 1 .. E + 2 - j : Rest(j)[k] = IF j + k - 1 <= E THEN CloseOf(j + k + 1) ELSE Exec
      BY <1>1, <1>2, <1>3
    <2>2. Len(Rest(j)) = 1 /\ Rest(j)[1] = Exec
      <3>1. E \in Int /\ j \in Int /\ j = E + 1
        BY <1>1, <1>3
      <3>2. E + 2 - j = 1 /\ ~(j + 1 - 1 <= E)
        BY <3>1
      <3> QED BY <2>1, <3>2
    <2>3. Rest(j) = <<Exec>>
      <3>1. <<Exec>> \in Seq(CallSet) /\ Len(<<Exec>>) = 1 /\ <<Exec>>[1] = Exec
        BY CallTypes
      <3>2. \A k \in 1 .. 1 : Rest(j)[k] = <<Exec>>[k]
        BY <2>2, <3>1
      <3> QED BY <2>1, <2>2, <3>1, <3>2, SeqEqual
    <2> QED BY <1>3, <2>1, <2>3
  <1>4. CASE j < Top - 1
    <2>1. j \in 1 .. E + 1 /\ j + 1 \in 1 .. E + 1 /\ j + 2 \in Nat
      BY <1>1, <1>4
    <2>2. /\ Rest(j) \in Seq(CallSet) /\ Len(Rest(j)) = E + 2 - j
          /\ \A k \in 1 .. E + 2 - j : Rest(j)[k] = IF j + k - 1 <= E THEN CloseOf(j + k + 1) ELSE Exec
      BY <1>2, <2>1
    <2>3. /\ Rest(j + 1) \in Seq(CallSet) /\ Len(Rest(j + 1)) = E + 2 - (j + 1)
          /\ \A k \in 1 .. E + 2 - (j + 1) :
                Rest(j + 1)[k] = IF (j + 1) + k - 1 <= E THEN CloseOf((j + 1) + k + 1) ELSE Exec
      <3>1. PICK h : h = j + 1
        OBVIOUS
      <3> QED BY <1>2, <2>1, <3>1
    <2>4. CloseOf(j + 2) \in CallSet
      BY <2>1, CallTypes
    <2> DEFINE r == <<CloseOf(j + 2)>> \o Rest(j + 1)
    <2>5. /\ r \in Seq(CallSet) /\ Len(r) = Len(Rest(j + 1)) + 1 /\ r[1] = CloseOf(j + 2)
          /\ \A k \in 1 .. Len(Rest(j + 1)) : r[k + 1] = Rest(j + 1)[k]
      BY <2>3, <2>4
    <2>6. Len(r) = Len(Rest(j))
      <3>1. E \in Int /\ j \in Int
        BY <1>1
      <3>2. (E + 2 - (j + 1)) + 1 = E + 2 - j
        BY <3>1
      <3> HIDE DEF r
      <3> QED BY <2>2, <2>3, <2>5, <3>2
    <2> HIDE DEF r
    <2>7. ASSUME NEW k \in 1 .. Len(r) PROVE r[k] = Rest(j)[k]
      <3>1. CASE k = 1
        <4>1. Rest(j)[1] = IF j + 1 - 1 <= E THEN CloseOf(j + 1 + 1) ELSE Exec
          BY <1>1, <2>1, <2>2
        <4>2. j + 1 - 1 <= E /\ j + 1 + 1 = j + 2
          BY <1>1, <1>4
        <4> QED BY <2>5, <3>1, <4>1, <4>2
      <3>2. CASE k > 1
        <4>1. PICK l \in 1 .. Len(Rest(j + 1)) : k = l + 1
          <5>1. k - 1 \in 1 .. Len(Rest(j + 1)) /\ k = (k - 1) + 1
            BY <2>5, <3>2
          <5> QED BY <5>1
        <4>2. r[k] = Rest(j + 1)[l]
          BY <2>5, <4>1
        <4>3. Rest(j + 1)[l] = IF (j + 1) + l - 1 <= E THEN CloseOf((j + 1) + l + 1) ELSE Exec
          BY <2>3
        <4>4. Rest(j)[k] = IF j + k - 1 <= E THEN CloseOf(j + k + 1) ELSE Exec
          BY <2>2, <2>6
        <4>5. (j + 1) + l - 1 = j + k - 1 /\ (j + 1) + l + 1 = j + k + 1
          BY <4>1
        <4> QED BY <4>2, <4>3, <4>4, <4>5
      <3> QED BY <3>1, <3>2
    <2>8. r = Rest(j)
      BY <2>2, <2>5, <2>6, <2>7, SeqEqual
    <2> QED BY <1>4, <2>2, <2>8 DEF r
  <1>5. j < Top - 1 \/ j = Top - 1
    BY <1>1
  <1> QED BY <1>3, <1>4, <1>5

LEMMA OnTypes ==
  ASSUME NEW s, UnderWay(s)
  PROVE  /\ 2 * s + 2 \in Nat /\ 2 * s - 1 \in Nat /\ New \in Nat /\ Top \in Nat /\ Top >= 2
         /\ Rest(1) \in Seq(CallSet) /\ RightOn(s) \in Seq(CallSet) /\ LeftOn(s) \in Seq(CallSet)
         /\ OutOn(s) \in Seq(CallSet) /\ InOn(s) \in Seq(CallSet)
  <1>1. 2 * s + 2 \in Nat /\ 2 * s - 1 \in Nat /\ New \in Nat /\ Top \in Nat /\ Top >= 2
    BY DEF UnderWay, New, Top
  <1>2. /\ DupTo(2 * s + 2, 1) \in CallSet /\ DupTo(2 * s - 1, 0) \in CallSet
        /\ Write(0) \in CallSet /\ CloseOf(1) \in CallSet /\ CloseOf(0) \in CallSet
        /\ OpenFor(0) \in CallSet /\ OpenFor(1) \in CallSet
    BY <1>1, CallTypes
  <1>3. Rest(1) \in Seq(CallSet)
    <2>1. 1 \in 1 .. Top - 1
      BY <1>1
    <2> QED BY <2>1, RestFacts
  <1>4. RightOn(s) \in Seq(CallSet)
    BY <1>2, <1>3, ConsOne DEF RightOn
  <1>5. LeftOn(s) \in Seq(CallSet)
    BY <1>2, <1>4, ConsOne DEF LeftOn
  <1>6. OutOn(s) \in Seq(CallSet)
    BY <1>2, <1>5, ConsOne DEF OutOn
  <1>7. InOn(s) \in Seq(CallSet)
    BY <1>2, <1>6, ConsOne DEF InOn
  <1> QED BY <1>1, <1>3, <1>4, <1>5, <1>6, <1>7

LEMMA RestIsClosing ==
  ASSUME NEW s, UnderWay(s)
  PROVE  CloseEnds \in Seq(CallSet) /\ CloseEnds \o <<Exec>> = Rest(1)
  <1> DEFINE E == 2 * Len(pipes)
  <1>1. E \in Nat /\ CloseEnds = [j \in 1 .. E |-> CloseOf(EndFd(j))]
    BY DEF UnderWay, CloseEnds, CloseOf
  <1>2. ASSUME NEW j \in 1 .. E PROVE CloseOf(EndFd(j)) \in CallSet
    <2>1. EndFd(j) = j + 2
      BY Ends
    <2>2. EndFd(j) \in Nat
      BY <1>1, <2>1
    <2> QED BY <2>2, CallTypes
  <1>3. Rest(1) = [k \in 1 .. E + 2 - 1 |-> IF 1 + k - 1 <= E THEN CloseOf(EndFd(1 + k - 1)) ELSE Exec]
    BY DEF Rest
  <1>4. Rest(1) \in Seq(CallSet)
    BY OnTypes
  <1> HIDE DEF E
  <1>5. CloseEnds \in Seq(CallSet) /\ Len(CloseEnds) = E
    BY <1>1, <1>2
  <1>6. /\ CloseEnds \o <<Exec>> \in Seq(CallSet) /\ Len(CloseEnds \o <<Exec>>) = E + 1
        /\ \A k \in 1 .. E : (CloseEnds \o <<Exec>>)[k] = CloseEnds[k]
        /\ (CloseEnds \o <<Exec>>)[E + 1] = Exec
    BY <1>1, <1>5, CallTypes
  <1>7. E + 2 - 1 = E + 1
    BY <1>1
  <1>8. DOMAIN Rest(1) = 1 .. E + 1
    BY <1>3, <1>7
  <1>9. Len(Rest(1)) = E + 1
    BY <1>1, <1>4, <1>8
  <1>10. ASSUME NEW k \in 1 .. E + 1 PROVE (CloseEnds \o <<Exec>>)[k] = Rest(1)[k]
    <2>1. 1 + k - 1 = k
      BY <1>1
    <2>2. Rest(1)[k] = IF k <= E THEN CloseOf(EndFd(k)) ELSE Exec
      BY <1>3, <1>7, <2>1
    <2>3. CASE k \in 1 .. E
      BY <1>1, <1>6, <2>2, <2>3
    <2>4. CASE k = E + 1
      BY <1>1, <1>6, <2>2, <2>4
    <2> QED BY <1>1, <2>3, <2>4
  <1> QED BY <1>4, <1>5, <1>6, <1>9, <1>10, SeqEqual

Assoc(p, q, r) == (p \o q) \o r = p \o (q \o r)

LEMMA AssocHolds == \A p, q, r \in Seq(CallSet) : Assoc(p, q, r)
  BY Concat DEF Assoc

Assoc6(a, b, c, d, e, f) == a \o b \o c \o d \o e \o f = a \o (b \o (c \o (d \o (e \o f))))

LEMMA SixParts ==
  ASSUME NEW a \in Seq(CallSet), NEW b \in Seq(CallSet), NEW c \in Seq(CallSet), NEW d \in Seq(CallSet),
         NEW e \in Seq(CallSet), NEW f \in Seq(CallSet)
  PROVE  Assoc6(a, b, c, d, e, f)
  <1>1. PICK u \in Seq(CallSet) : u = a \o b
    BY Concat
  <1>2. PICK v \in Seq(CallSet) : v = u \o c
    BY Concat
  <1>3. PICK w \in Seq(CallSet) : w = v \o d
    BY Concat
  <1>4. PICK x \in Seq(CallSet) : x = e \o f
    BY Concat
  <1>5. PICK y \in Seq(CallSet) : y = d \o x
    BY Concat
  <1>6. PICK z \in Seq(CallSet) : z = c \o y
    BY Concat
  <1>7. Assoc(w, e, f) /\ Assoc(v, d, x) /\ Assoc(u, c, y) /\ Assoc(a, b, z)
    BY AssocHolds
  <1> QED BY <1>1, <1>2, <1>3, <1>4, <1>5, <1>6, <1>7, Zenon DEF Assoc, Assoc6

\* Setup, statement by statement.
LEMMA SetupFromInput ==
  ASSUME NEW s, UnderWay(s)
  PROVE  Setup(s) = InOn(s)
  <1> DEFINE A == When(line[s].input # "", <<OpenFor(0)>>)
             B == When(line[s].output # "", <<OpenFor(1)>>)
             C == When(s > 1, Close(0) \o <<DupTo(pipes[s - 1][1], 0)>>)
             D == When(s < Len(line), Close(1) \o <<DupTo(pipes[s][2], 1)>>)
  <1>1. /\ s > 1 => pipes[s - 1][1] = 2 * s - 1
        /\ s < Len(line) => pipes[s][2] = 2 * s + 2
    <2>1. ASSUME s > 1 PROVE pipes[s - 1][1] = 2 * s - 1
      <3>1. s - 1 \in 1 .. Len(pipes)
        BY <2>1 DEF UnderWay
      <3>2. pipes[s - 1] = <<2 * (s - 1) + 1, 2 * (s - 1) + 2>>
        BY <3>1 DEF UnderWay, PipesAbove
      <3>3. 2 * (s - 1) + 1 = 2 * s - 1
        BY DEF UnderWay
      <3> QED BY <3>2, <3>3
    <2>2. ASSUME s < Len(line) PROVE pipes[s][2] = 2 * s + 2
      <3>1. s \in 1 .. Len(pipes)
        BY <2>2 DEF UnderWay
      <3> QED BY <3>1 DEF UnderWay, PipesAbove
    <2> QED BY <2>1, <2>2
  <1>2. /\ OpenFor(0) \in CallSet /\ OpenFor(1) \in CallSet /\ Write(0) \in CallSet
        /\ CloseOf(0) \in CallSet /\ CloseOf(1) \in CallSet
        /\ DupTo(2 * s - 1, 0) \in CallSet /\ DupTo(2 * s + 2, 1) \in CallSet
    BY OnTypes, CallTypes
  <1>3. Close(0) = <<CloseOf(0)>> /\ Close(1) = <<Write(0), CloseOf(1)>>
    BY DEF Close, CloseOf
  <1>4. /\ Close(0) \o <<DupTo(2 * s - 1, 0)>> \in Seq(CallSet)
        /\ Close(1) \o <<DupTo(2 * s + 2, 1)>> \in Seq(CallSet)
    <2>1. /\ Close(0) \in Seq(CallSet) /\ Close(1) \in Seq(CallSet)
          /\ <<DupTo(2 * s - 1, 0)>> \in Seq(CallSet) /\ <<DupTo(2 * s + 2, 1)>> \in Seq(CallSet)
      BY <1>2, <1>3, Concat, Zenon
    <2> QED BY <2>1, Concat, Zenon
  <1>5. A \in Seq(CallSet) /\ B \in Seq(CallSet) /\ C \in Seq(CallSet) /\ D \in Seq(CallSet)
    <2>1. \A cond, p : p \in Seq(CallSet) => When(cond, p) \in Seq(CallSet)
      BY DEF When
    <2>2. A \in Seq(CallSet) /\ B \in Seq(CallSet)
      BY <1>2, <2>1, Concat, Zenon
    <2>3. s > 1 => C \in Seq(CallSet)
      BY <1>1, <1>4, <2>1, Zenon
    <2>4. s < Len(line) => D \in Seq(CallSet)
      BY <1>1, <1>4, <2>1, Zenon
    <2>5. <<>> \in Seq(CallSet)
      OBVIOUS
    <2> QED BY <2>2, <2>3, <2>4, <2>5 DEF When
  <1>6. D \o Rest(1) = RightOn(s)
    <2>1. CASE s < Len(line)
      <3>1. D = <<Write(0), CloseOf(1)>> \o <<DupTo(2 * s + 2, 1)>>
        BY <1>1, <1>3, <2>1 DEF When
      <3>2. D \o Rest(1) = <<Write(0), CloseOf(1)>> \o (<<DupTo(2 * s + 2, 1)>> \o Rest(1))
        <4>1. /\ <<Write(0), CloseOf(1)>> \in Seq(CallSet) /\ <<DupTo(2 * s + 2, 1)>> \in Seq(CallSet)
              /\ Rest(1) \in Seq(CallSet)
          BY <1>2, OnTypes, Concat, Zenon
        <4>2. \A p, q, r \in Seq(CallSet) : (p \o q) \o r = p \o (q \o r)
          BY Concat, Zenon
        <4> HIDE DEF D
        <4> QED BY <3>1, <4>1, <4>2, Zenon
      <3>3. <<DupTo(2 * s + 2, 1)>> \o Rest(1) \in Seq(CallSet)
        BY <1>2, OnTypes, ConsOne
      <3> QED BY <1>2, <2>1, <3>2, <3>3, ConsTwo DEF RightOn
    <2>2. CASE ~(s < Len(line))
      <3>1. D = <<>>
        BY <2>2 DEF When
      <3> QED BY <2>2, <3>1, OnTypes, ConcatEmptySeq DEF RightOn
    <2> QED BY <2>1, <2>2
  <1>7. C \o RightOn(s) = LeftOn(s)
    <2>1. CASE s > 1
      <3>1. C = <<CloseOf(0)>> \o <<DupTo(2 * s - 1, 0)>>
        BY <1>1, <1>3, <2>1 DEF When
      <3>2. /\ <<CloseOf(0)>> \in Seq(CallSet) /\ <<DupTo(2 * s - 1, 0)>> \in Seq(CallSet)
            /\ RightOn(s) \in Seq(CallSet)
        BY <1>2, OnTypes, Concat, Zenon
      <3>3. C \o RightOn(s) = <<CloseOf(0)>> \o (<<DupTo(2 * s - 1, 0)>> \o RightOn(s))
        <4>1. \A p, q, r \in Seq(CallSet) : (p \o q) \o r = p \o (q \o r)
          BY Concat, Zenon
        <4> HIDE DEF C
        <4> QED BY <3>1, <3>2, <4>1, Zenon
      <3> QED BY <2>1, <3>3 DEF LeftOn
    <2>2. CASE ~(s > 1)
      <3>1. C = <<>>
        BY <2>2 DEF When
      <3> QED BY <2>2, <3>1, OnTypes, ConcatEmptySeq DEF LeftOn
    <2> QED BY <2>1, <2>2
  <1>8. B \o LeftOn(s) = OutOn(s)
    BY OnTypes, ConcatEmptySeq DEF When, OutOn
  <1>9. A \o OutOn(s) = InOn(s)
    BY OnTypes, ConcatEmptySeq DEF When, InOn
  <1>10. Setup(s) = A \o B \o C \o D \o CloseEnds \o <<Exec>>
    BY DEF Setup
  <1> HIDE DEF A, B, C, D
  <1>11. Setup(s) = A \o (B \o (C \o (D \o (CloseEnds \o <<Exec>>))))
    <2>1. CloseEnds \in Seq(CallSet) /\ <<Exec>> \in Seq(CallSet)
      BY RestIsClosing, CallTypes
    <2>2. Assoc6(A, B, C, D, CloseEnds, <<Exec>>)
      BY <1>5, <2>1, SixParts
    <2> QED BY <1>10, <2>2, Zenon DEF Assoc6
  <1> QED BY <1>6, <1>7, <1>8, <1>9, <1>11, RestIsClosing

----------------------------------------------------------------------------
\* What stage s has at 0 and 1 on the way to its program

LEMMA Wiring ==
  ASSUME NEW s, UnderWay(s)
  PROVE  /\ InFile(s) # NoFile /\ OutFile(s) # NoFile /\ Source(s) # NoFile /\ Target(s) # NoFile
         /\ s > 1 => /\ InFile(s) = Stdin /\ Source(s) = EndOf(2 * s - 1) /\ 2 * s - 1 \in 3 .. Top
                     /\ line[s].input = ""
         /\ ~(s > 1) => Source(s) = InFile(s)
         /\ s < Len(line) => /\ OutFile(s) = Stdout /\ Target(s) = EndOf(2 * s + 2)
                             /\ 2 * s + 2 \in 3 .. Top
         /\ ~(s < Len(line)) => Target(s) = OutFile(s)
  <1>1. InFile(s) # NoFile /\ OutFile(s) # NoFile
    BY FileFacts DEF InFile, OutFile
  <1>2. s \in Nat /\ s >= 1 /\ s <= Len(line) /\ Len(line) \in Nat
    BY DEF UnderWay
  <1>3. ASSUME s > 1
        PROVE  /\ line[s].input = "" /\ InFile(s) = Stdin /\ Source(s) = EndOf(2 * s - 1) /\ 2 * s - 1 \in 3 .. Top
               /\ Source(s) # NoFile
    <2>1. line[s].input = ""
      <3>1. s # 1
        BY <1>2, <1>3
      <3>3. PICK n \in Nat : n = Len(line) /\ n # 1
        BY <1>2, <1>3
      <3>4. Len(line) # 1
        BY <3>3, Zenon
      <3>2. s \in 1 .. Len(line)
        BY DEF UnderWay
      <3> QED BY <3>1, <3>2, <3>4, Zenon DEF UnderWay, Valid
    <2>2. PICK k \in Nat : k = s - 1
      BY <1>2, <1>3
    <2>3. EndOf(2 * k + 1) = ReadEnd(k) /\ ReadEnd(k) # NoFile
      BY FileFacts
    <2>4. 2 * k + 1 = 2 * s - 1 /\ 2 * s - 1 \in 3 .. Top
      BY <1>2, <1>3, <2>2 DEF Top
    <2> QED BY <1>3, <2>1, <2>2, <2>3, <2>4 DEF InFile, Source
  <1>4. ASSUME s < Len(line)
        PROVE  OutFile(s) = Stdout /\ Target(s) = EndOf(2 * s + 2) /\ 2 * s + 2 \in 3 .. Top /\ Target(s) # NoFile
    <2>1. line[s].output = ""
      <3>1. s # Len(line)
        BY <1>2, <1>4
      <3>3. PICK n \in Nat : n = Len(line) /\ n # 1
        BY <1>2, <1>4
      <3>4. Len(line) # 1
        BY <3>3, Zenon
      <3>2. s \in 1 .. Len(line)
        BY DEF UnderWay
      <3> QED BY <3>1, <3>2, <3>4, Zenon DEF UnderWay, Valid
    <2>2. EndOf(2 * s + 2) = WriteEnd(s) /\ WriteEnd(s) # NoFile
      BY <1>2, FileFacts
    <2>3. 2 * s + 2 \in 3 .. Top
      BY <1>2, <1>4 DEF Top
    <2> QED BY <1>4, <2>1, <2>2, <2>3 DEF OutFile, Target
  <1>5. ~(s > 1) => Source(s) = InFile(s)
    BY DEF Source, InFile, Input
  <1>6. ~(s < Len(line)) => Target(s) = OutFile(s)
    BY DEF Target, OutFile, Output
  <1> QED BY <1>1, <1>3, <1>4, <1>5, <1>6

\* A stage that comes to a statement with the table that goes with it is in its place,
\* also where the statement has nothing to do.
LEMMA AtEnds ==
  ASSUME NEW s, UnderWay(s), NEW t, Has(t, Source(s), Target(s), NoFile)
  PROVE  Place(s, Rest(1), t)
  <1>1. 1 \in 1 .. Top - 1 /\ 1 + 1 = 2
    BY OnTypes
  <1>2. EndsPlace(s, Rest(1), t)
    BY <1>1 DEF EndsPlace, Has
  <1> QED BY <1>2 DEF Place

LEMMA AtRight ==
  ASSUME NEW s, UnderWay(s), NEW t, Has(t, Source(s), OutFile(s), NoFile)
  PROVE  Place(s, RightOn(s), t)
  <1>1. CASE s < Len(line)
    <2>1. Has(t, Source(s), Stdout, NoFile)
      BY <1>1, Wiring
    <2>2. RightPlace(s, RightOn(s), t)
      BY <1>1, <2>1 DEF RightPlace, RightOn
    <2> QED BY <2>2 DEF Place
  <1>2. CASE ~(s < Len(line))
    <2>1. Has(t, Source(s), Target(s), NoFile)
      BY <1>2, Wiring
    <2>2. Place(s, Rest(1), t)
      BY <2>1, AtEnds
    <2> QED BY <1>2, <2>2 DEF RightOn
  <1> QED BY <1>1, <1>2

LEMMA AtLeft ==
  ASSUME NEW s, UnderWay(s), NEW t, Has(t, InFile(s), OutFile(s), NoFile)
  PROVE  Place(s, LeftOn(s), t)
  <1>1. CASE s > 1
    <2>1. Has(t, Stdin, OutFile(s), NoFile)
      BY <1>1, Wiring
    <2>2. LeftPlace(s, LeftOn(s), t)
      BY <1>1, <2>1 DEF LeftPlace, LeftOn
    <2> QED BY <2>2 DEF Place
  <1>2. CASE ~(s > 1)
    <2>1. Has(t, Source(s), OutFile(s), NoFile)
      BY <1>2, Wiring
    <2>2. Place(s, RightOn(s), t)
      BY <2>1, AtRight
    <2> QED BY <1>2, <2>2 DEF LeftOn
  <1> QED BY <1>1, <1>2

LEMMA AtOut ==
  ASSUME NEW s, UnderWay(s), NEW t, Has(t, InFile(s), Stdout, NoFile)
  PROVE  Place(s, OutOn(s), t)
  <1>1. CASE line[s].output # ""
    <2>1. OutPlace(s, OutOn(s), t)
      BY <1>1 DEF OutPlace, OutOn
    <2> QED BY <2>1 DEF Place
  <1>2. CASE line[s].output = ""
    <2>1. Has(t, InFile(s), OutFile(s), NoFile)
      BY <1>2 DEF OutFile
    <2>2. Place(s, LeftOn(s), t)
      BY <2>1, AtLeft
    <2> QED BY <1>2, <2>2 DEF OutOn
  <1> QED BY <1>1, <1>2

LEMMA AtIn ==
  ASSUME NEW s, UnderWay(s), NEW t, Has(t, Stdin, Stdout, NoFile)
  PROVE  Place(s, InOn(s), t)
  <1>1. CASE line[s].input # ""
    <2>1. InPlace(s, InOn(s), t)
      BY <1>1 DEF InPlace, InOn
    <2> QED BY <2>1 DEF Place
  <1>2. CASE line[s].input = ""
    <2>1. Has(t, InFile(s), Stdout, NoFile)
      BY <1>2 DEF InFile
    <2>2. Place(s, OutOn(s), t)
      BY <2>1, AtOut
    <2> QED BY <1>2, <2>2 DEF InOn
  <1> QED BY <1>1, <1>2

Assoc4(a, b, c, d) == (a \o b \o c) \o d = a \o (b \o (c \o d))

\* The calls that move an opened file to its place.
LEMMA Moves ==
  ASSUME NEW n \in Nat, n > 1, NEW q \in Seq(CallSet)
  PROVE  /\ (Close(0) \o <<DupTo(n, 0)>> \o Close(n)) \o q
              = <<CloseOf(0)>> \o (<<DupTo(n, 0)>> \o (<<CloseOf(n)>> \o q))
         /\ (Close(1) \o <<DupTo(n, 1)>> \o Close(n)) \o q
              = <<Write(0)>> \o (<<CloseOf(1)>> \o (<<DupTo(n, 1)>> \o (<<CloseOf(n)>> \o q)))
  <1>1. Close(0) = <<CloseOf(0)>> /\ Close(1) = <<Write(0), CloseOf(1)>> /\ Close(n) = <<CloseOf(n)>>
    BY DEF Close, CloseOf
  <1>2. /\ CloseOf(0) \in CallSet /\ CloseOf(1) \in CallSet /\ CloseOf(n) \in CallSet
        /\ DupTo(n, 0) \in CallSet /\ DupTo(n, 1) \in CallSet /\ Write(0) \in CallSet
    BY CallTypes
  <1>3. ASSUME NEW a \in Seq(CallSet), NEW b \in Seq(CallSet), NEW c \in Seq(CallSet)
        PROVE  Assoc4(a, b, c, q)
    <2>1. PICK d \in Seq(CallSet) : d = a \o b
      BY Concat
    <2>2. PICK e \in Seq(CallSet) : e = c \o q
      BY Concat
    <2>3. Assoc(d, c, q) /\ Assoc(a, b, e)
      BY AssocHolds
    <2> QED BY <2>1, <2>2, <2>3, Zenon DEF Assoc, Assoc4
  <1>4. (Close(0) \o <<DupTo(n, 0)>> \o Close(n)) \o q
          = <<CloseOf(0)>> \o (<<DupTo(n, 0)>> \o (<<CloseOf(n)>> \o q))
    <2>1. /\ <<CloseOf(0)>> \in Seq(CallSet) /\ <<DupTo(n, 0)>> \in Seq(CallSet)
          /\ <<CloseOf(n)>> \in Seq(CallSet)
      BY <1>2, Concat, Zenon
    <2>2. Assoc4(<<CloseOf(0)>>, <<DupTo(n, 0)>>, <<CloseOf(n)>>, q)
      BY <1>3, <2>1
    <2> QED BY <1>1, <2>2, Zenon DEF Assoc4
  <1>5. (Close(1) \o <<DupTo(n, 1)>> \o Close(n)) \o q
          = <<Write(0), CloseOf(1)>> \o (<<DupTo(n, 1)>> \o (<<CloseOf(n)>> \o q))
    <2>1. /\ <<Write(0), CloseOf(1)>> \in Seq(CallSet) /\ <<DupTo(n, 1)>> \in Seq(CallSet)
          /\ <<CloseOf(n)>> \in Seq(CallSet)
      BY <1>2, Concat, Zenon
    <2>2. Assoc4(<<Write(0), CloseOf(1)>>, <<DupTo(n, 1)>>, <<CloseOf(n)>>, q)
      BY <1>3, <2>1
    <2> QED BY <1>1, <2>2, Zenon DEF Assoc4
  <1>6. <<CloseOf(n)>> \o q \in Seq(CallSet)
    BY <1>2, ConsOne
  <1>7. <<DupTo(n, 1)>> \o (<<CloseOf(n)>> \o q) \in Seq(CallSet)
    BY <1>2, <1>6, ConsOne
  <1>8. <<Write(0), CloseOf(1)>> \o (<<DupTo(n, 1)>> \o (<<CloseOf(n)>> \o q))
          = <<Write(0)>> \o (<<CloseOf(1)>> \o (<<DupTo(n, 1)>> \o (<<CloseOf(n)>> \o q)))
    BY <1>2, <1>7, ConsTwo
  <1> QED BY <1>4, <1>5, <1>8

\* What close, dup and the installation of a file make of such a table.
Behaves(t, a, b, x) ==
    /\ Has(CloseFd(t, 0), NoFile, b, x) /\ Has(CloseFd(t, 1), a, NoFile, x)
    /\ Has(CloseFd(t, New), a, b, NoFile)
    /\ \A fd \in 3 .. Top : fd \in Open(t) /\ t[fd] = EndOf(fd)
    /\ x # NoFile => New \in Open(t) /\ t[New] = x
    /\ a = NoFile => AllocFd(t) = 0 /\ \A f : Has(Install(t, f), f, b, x)
    /\ a # NoFile /\ b = NoFile => AllocFd(t) = 1 /\ \A f : Has(Install(t, f), a, f, x)
    /\ a # NoFile /\ b # NoFile /\ x = NoFile
         => AllocFd(t) = New /\ \A f : Has(Install(t, f), a, b, f)
    /\ \A fd \in Open(t) : Dup(t, fd) = Install(t, t[fd])

LEMMA HasFacts ==
  ASSUME NEW s, UnderWay(s), NEW t, NEW a, NEW b, NEW x, Has(t, a, b, x)
  PROVE  Behaves(t, a, b, x)
  <1>1. Top \in Nat /\ Top >= 2 /\ New = Top + 1 /\ Table(t, a, b, x, 2, Top)
    BY OnTypes DEF New, Has
  <1>2. /\ Has(CloseFd(t, 0), NoFile, b, x) /\ Has(CloseFd(t, 1), a, NoFile, x)
        /\ Has(CloseFd(t, New), a, b, NoFile)
    BY <1>1, CloseFirst, CloseSecond, CloseNew DEF Has
  <1>3. /\ \A fd \in 3 .. Top : fd \in Open(t) /\ t[fd] = EndOf(fd)
        /\ x # NoFile => New \in Open(t) /\ t[New] = x
    BY <1>1, EndsOpen
  <1>4. ASSUME a = NoFile PROVE AllocFd(t) = 0 /\ \A f : Has(Install(t, f), f, b, x)
    <2>1. Table(t, NoFile, b, x, 2, Top)
      BY <1>1, <1>4
    <2>2. \A f : AllocFd(t) = 0 /\ Table(Install(t, f), f, b, x, 2, Top)
      BY <1>1, <2>1, FillFirst
    <2> QED BY <2>2 DEF Has
  <1>5. ASSUME a # NoFile, b = NoFile PROVE AllocFd(t) = 1 /\ \A f : Has(Install(t, f), a, f, x)
    <2>1. Table(t, a, NoFile, x, 2, Top)
      BY <1>1, <1>5
    <2>2. \A f : AllocFd(t) = 1 /\ Table(Install(t, f), a, f, x, 2, Top)
      BY <1>1, <1>5, <2>1, FillSecond
    <2> QED BY <2>2 DEF Has
  <1>6. ASSUME a # NoFile, b # NoFile, x = NoFile
        PROVE AllocFd(t) = New /\ \A f : Has(Install(t, f), a, b, f)
    <2>1. Table(t, a, b, NoFile, 2, Top)
      BY <1>1, <1>6
    <2>2. \A f : AllocFd(t) = Top + 1 /\ Table(Install(t, f), a, b, f, 2, Top)
      BY <1>1, <1>6, <2>1, FillNew
    <2> QED BY <1>1, <2>2 DEF Has
  <1>7. \A fd \in Open(t) : Dup(t, fd) = Install(t, t[fd])
    BY DEF Dup
  <1> QED BY <1>2, <1>3, <1>4, <1>5, <1>6, <1>7, Zenon DEF Behaves

----------------------------------------------------------------------------
\* What the next call of a child that is setting up does: a child in its place stays in
\* its place, or starts its program with the descriptors the line asks for.

GoesClose(s, q, t) == Head(q).op = "close" /\ Place(s, Tail(q), CloseFd(t, Head(q).fd))
GoesWrite(s, q, t) == Head(q).op = "write" /\ Head(q).n = 0 /\ Place(s, Tail(q), t)
GoesDup(s, q, t) ==
    /\ Head(q).op = "dup" /\ Head(q).fd \in Open(t) /\ AllocFd(t) = Head(q).n
    /\ Place(s, Tail(q), Dup(t, Head(q).fd))
GoesOpen(s, q, t) ==
    LET c == Head(q).fd
    IN  /\ Head(q).op = "open" /\ c \in {0, 1} /\ AllocFd(t) \in Nat
        /\ Place(s, (Close(c) \o <<DupTo(AllocFd(t), c)>> \o Close(AllocFd(t))) \o Tail(q),
                 Install(t, IF c = 0 THEN Input ELSE Output))
GoesExec(s, q, t) == q = <<Exec>> /\ Table(t, Source(s), Target(s), NoFile, 2, 2)

Goes(s, q, t) ==
    q # <<>> /\ (\/ GoesClose(s, q, t) \/ GoesWrite(s, q, t) \/ GoesDup(s, q, t)
                 \/ GoesOpen(s, q, t) \/ GoesExec(s, q, t))


LEMMA InGoes ==
  ASSUME NEW s, UnderWay(s), NEW q, NEW t, InPlace(s, q, t)
  PROVE  Goes(s, q, t)
  <1> DEFINE r2 == <<CloseOf(New)>> \o OutOn(s)
             r1 == <<DupTo(New, 0)>> \o r2
  <1>1. /\ line[s].input # "" /\ OutOn(s) \in Seq(CallSet) /\ r2 \in Seq(CallSet) /\ r1 \in Seq(CallSet)
        /\ OpenFor(0) \in CallSet /\ CloseOf(0) \in CallSet /\ DupTo(New, 0) \in CallSet
        /\ CloseOf(New) \in CallSet /\ InFile(s) = Input
    <2>1. New \in Nat /\ OutOn(s) \in Seq(CallSet)
      BY OnTypes
    <2>2. /\ OpenFor(0) \in CallSet /\ CloseOf(0) \in CallSet /\ DupTo(New, 0) \in CallSet
          /\ CloseOf(New) \in CallSet
      BY <2>1, CallTypes
    <2>3. r2 \in Seq(CallSet)
      BY <2>1, <2>2, ConsOne
    <2>4. r1 \in Seq(CallSet)
      BY <2>2, <2>3, ConsOne
    <2> QED BY <2>1, <2>2, <2>3, <2>4 DEF InPlace, InFile
  <1>2. CASE q = <<OpenFor(0)>> \o OutOn(s) /\ Has(t, Stdin, Stdout, NoFile)
    <2>1. q # <<>> /\ Head(q) = OpenFor(0) /\ Tail(q) = OutOn(s)
      BY <1>1, <1>2, ConsOne
    <2>0. Behaves(t, Stdin, Stdout, NoFile)
      BY <1>2, HasFacts
    <2>2. AllocFd(t) = New /\ Has(Install(t, Input), Stdin, Stdout, Input)
      BY <2>0, FileFacts, Wiring, Zenon DEF Behaves
    <2>3. Head(q).op = "open" /\ Head(q).fd = 0
      BY <2>1 DEF OpenFor, Call
    <2>4. (Close(0) \o <<DupTo(New, 0)>> \o Close(New)) \o OutOn(s)
            = <<CloseOf(0)>> \o r1
      <3>1. New \in Nat /\ New > 1
        BY OnTypes DEF New
      <3> QED BY <1>1, <3>1, Moves
    <2>5. Place(s, (Close(0) \o <<DupTo(New, 0)>> \o Close(New)) \o OutOn(s), Install(t, Input))
      BY <1>1, <2>2, <2>4, Zenon DEF InPlace, Place
    <2>6. New \in Nat /\ 0 \in {0, 1} /\ (IF 0 = 0 THEN Input ELSE Output) = Input
      BY OnTypes
    <2> QED BY <2>1, <2>2, <2>3, <2>5, <2>6 DEF Goes, GoesOpen
  <1>3. CASE q = <<CloseOf(0)>> \o r1 /\ Has(t, Stdin, Stdout, Input)
    <2>1. q # <<>> /\ Head(q) = CloseOf(0) /\ Tail(q) = r1
      BY <1>1, <1>3, ConsOne
    <2>0. Behaves(t, Stdin, Stdout, Input)
      BY <1>3, HasFacts
    <2>2. Has(CloseFd(t, 0), NoFile, Stdout, Input)
      BY <1>1, <2>0, Zenon DEF Behaves
    <2>3. Head(q).op = "close" /\ Head(q).fd = 0
      BY <2>1 DEF CloseOf, Call
    <2>4. Place(s, Tail(q), CloseFd(t, 0))
      BY <1>1, <2>1, <2>2, Zenon DEF InPlace, Place
    <2> QED BY <2>1, <2>2, <2>3, <2>4 DEF Goes, GoesClose
  <1>4. CASE q = <<DupTo(New, 0)>> \o r2 /\ Has(t, NoFile, Stdout, Input)
    <2>1. q # <<>> /\ Head(q) = DupTo(New, 0) /\ Tail(q) = r2
      BY <1>1, <1>4, ConsOne
    <2>0. Behaves(t, NoFile, Stdout, Input)
      BY <1>4, HasFacts
    <2>2. /\ New \in Open(t) /\ AllocFd(t) = 0
          /\ Has(Dup(t, New), Input, Stdout, Input)
      BY <1>1, <2>0, FileFacts, Wiring, Zenon DEF Behaves
    <2>3. Head(q).op = "dup" /\ Head(q).fd = New /\ Head(q).n = 0
      BY <2>1 DEF DupTo, Call
    <2>4. Place(s, Tail(q), Dup(t, New))
      BY <1>1, <2>1, <2>2, Zenon DEF InPlace, Place
    <2> QED BY <2>1, <2>2, <2>3, <2>4 DEF Goes, GoesDup
  <1>5. CASE q = <<CloseOf(New)>> \o OutOn(s) /\ Has(t, Input, Stdout, Input)
    <2>1. q # <<>> /\ Head(q) = CloseOf(New) /\ Tail(q) = OutOn(s)
      BY <1>1, <1>5, ConsOne
    <2>0. Behaves(t, Input, Stdout, Input)
      BY <1>5, HasFacts
    <2>2. Has(CloseFd(t, New), InFile(s), Stdout, NoFile)
      BY <1>1, <2>0, Zenon DEF Behaves
    <2>3. Head(q).op = "close" /\ Head(q).fd = New
      BY <2>1 DEF CloseOf, Call
    <2>4. Place(s, Tail(q), CloseFd(t, New))
      BY <1>1, <2>1, <2>2, AtOut
    <2> QED BY <2>1, <2>2, <2>3, <2>4 DEF Goes, GoesClose
  <1> QED BY <1>2, <1>3, <1>4, <1>5 DEF InPlace


LEMMA OutGoes ==
  ASSUME NEW s, UnderWay(s), NEW q, NEW t, OutPlace(s, q, t)
  PROVE  Goes(s, q, t)
  <1> DEFINE r3 == <<CloseOf(New)>> \o LeftOn(s)
             r2 == <<DupTo(New, 1)>> \o r3
             r1 == <<CloseOf(1)>> \o r2
  <1>1. /\ line[s].output # "" /\ LeftOn(s) \in Seq(CallSet) /\ r3 \in Seq(CallSet)
        /\ r2 \in Seq(CallSet) /\ r1 \in Seq(CallSet)
        /\ OpenFor(1) \in CallSet /\ Write(0) \in CallSet /\ CloseOf(1) \in CallSet
        /\ DupTo(New, 1) \in CallSet /\ CloseOf(New) \in CallSet /\ OutFile(s) = Output
    <2>1. New \in Nat /\ LeftOn(s) \in Seq(CallSet)
      BY OnTypes
    <2>2. /\ OpenFor(1) \in CallSet /\ Write(0) \in CallSet /\ CloseOf(1) \in CallSet
          /\ DupTo(New, 1) \in CallSet /\ CloseOf(New) \in CallSet
      BY <2>1, CallTypes
    <2>3. r3 \in Seq(CallSet)
      BY <2>1, <2>2, ConsOne
    <2>4. r2 \in Seq(CallSet)
      BY <2>2, <2>3, ConsOne
    <2>5. r1 \in Seq(CallSet)
      BY <2>2, <2>4, ConsOne
    <2> QED BY <2>1, <2>2, <2>3, <2>4, <2>5 DEF OutPlace, OutFile
  <1>2. CASE q = <<OpenFor(1)>> \o LeftOn(s) /\ Has(t, InFile(s), Stdout, NoFile)
    <2>1. q # <<>> /\ Head(q) = OpenFor(1) /\ Tail(q) = LeftOn(s)
      BY <1>1, <1>2, ConsOne
    <2>0. Behaves(t, InFile(s), Stdout, NoFile)
      BY <1>2, HasFacts
    <2>2. AllocFd(t) = New /\ Has(Install(t, Output), InFile(s), Stdout, Output)
      BY <2>0, FileFacts, Wiring, Zenon DEF Behaves
    <2>3. Head(q).op = "open" /\ Head(q).fd = 1
      BY <2>1 DEF OpenFor, Call
    <2>4. (Close(1) \o <<DupTo(New, 1)>> \o Close(New)) \o LeftOn(s)
            = <<Write(0)>> \o r1
      <3>1. New \in Nat /\ New > 1
        BY OnTypes DEF New
      <3> QED BY <1>1, <3>1, Moves
    <2>5. Place(s, (Close(1) \o <<DupTo(New, 1)>> \o Close(New)) \o LeftOn(s), Install(t, Output))
      BY <1>1, <2>2, <2>4, Zenon DEF OutPlace, Place
    <2>6. New \in Nat /\ 1 \in {0, 1} /\ (IF 1 = 0 THEN Input ELSE Output) = Output
      BY OnTypes
    <2> QED BY <2>1, <2>2, <2>3, <2>5, <2>6 DEF Goes, GoesOpen
  <1>3. CASE q = <<Write(0)>> \o r1 /\ Has(t, InFile(s), Stdout, Output)
    <2>1. q # <<>> /\ Head(q) = Write(0) /\ Tail(q) = r1
      BY <1>1, <1>3, ConsOne
    <2>2. Has(t, InFile(s), Stdout, Output)
      BY <1>3
    <2>3. Head(q).op = "write" /\ Head(q).n = 0
      BY <2>1 DEF Write, Call
    <2>4. Place(s, Tail(q), t)
      BY <1>1, <2>1, <2>2, Zenon DEF OutPlace, Place
    <2> QED BY <2>1, <2>2, <2>3, <2>4 DEF Goes, GoesWrite
  <1>4. CASE q = <<CloseOf(1)>> \o r2 /\ Has(t, InFile(s), Stdout, Output)
    <2>1. q # <<>> /\ Head(q) = CloseOf(1) /\ Tail(q) = r2
      BY <1>1, <1>4, ConsOne
    <2>0. Behaves(t, InFile(s), Stdout, Output)
      BY <1>4, HasFacts
    <2>2. Has(CloseFd(t, 1), InFile(s), NoFile, Output)
      BY <1>1, <2>0, Zenon DEF Behaves
    <2>3. Head(q).op = "close" /\ Head(q).fd = 1
      BY <2>1 DEF CloseOf, Call
    <2>4. Place(s, Tail(q), CloseFd(t, 1))
      BY <1>1, <2>1, <2>2, Zenon DEF OutPlace, Place
    <2> QED BY <2>1, <2>2, <2>3, <2>4 DEF Goes, GoesClose
  <1>5. CASE q = <<DupTo(New, 1)>> \o r3 /\ Has(t, InFile(s), NoFile, Output)
    <2>1. q # <<>> /\ Head(q) = DupTo(New, 1) /\ Tail(q) = r3
      BY <1>1, <1>5, ConsOne
    <2>0. Behaves(t, InFile(s), NoFile, Output)
      BY <1>5, HasFacts
    <2>2. /\ New \in Open(t) /\ AllocFd(t) = 1
          /\ Has(Dup(t, New), InFile(s), Output, Output)
      BY <1>1, <2>0, FileFacts, Wiring, Zenon DEF Behaves
    <2>3. Head(q).op = "dup" /\ Head(q).fd = New /\ Head(q).n = 1
      BY <2>1 DEF DupTo, Call
    <2>4. Place(s, Tail(q), Dup(t, New))
      BY <1>1, <2>1, <2>2, Zenon DEF OutPlace, Place
    <2> QED BY <2>1, <2>2, <2>3, <2>4 DEF Goes, GoesDup
  <1>6. CASE q = <<CloseOf(New)>> \o LeftOn(s) /\ Has(t, InFile(s), Output, Output)
    <2>1. q # <<>> /\ Head(q) = CloseOf(New) /\ Tail(q) = LeftOn(s)
      BY <1>1, <1>6, ConsOne
    <2>0. Behaves(t, InFile(s), Output, Output)
      BY <1>6, HasFacts
    <2>2. Has(CloseFd(t, New), InFile(s), OutFile(s), NoFile)
      BY <1>1, <2>0, Zenon DEF Behaves
    <2>3. Head(q).op = "close" /\ Head(q).fd = New
      BY <2>1 DEF CloseOf, Call
    <2>4. Place(s, Tail(q), CloseFd(t, New))
      BY <1>1, <2>1, <2>2, AtLeft
    <2> QED BY <2>1, <2>2, <2>3, <2>4 DEF Goes, GoesClose
  <1> QED BY <1>2, <1>3, <1>4, <1>5, <1>6 DEF OutPlace


LEMMA LeftGoes ==
  ASSUME NEW s, UnderWay(s), NEW q, NEW t, LeftPlace(s, q, t)
  PROVE  Goes(s, q, t)
  <1> DEFINE r1 == <<DupTo(2 * s - 1, 0)>> \o RightOn(s)
  <1>1. /\ s > 1 /\ RightOn(s) \in Seq(CallSet) /\ r1 \in Seq(CallSet)
        /\ CloseOf(0) \in CallSet /\ DupTo(2 * s - 1, 0) \in CallSet
    <2>1. RightOn(s) \in Seq(CallSet) /\ CloseOf(0) \in CallSet /\ DupTo(2 * s - 1, 0) \in CallSet
      BY OnTypes, CallTypes
    <2> QED BY <2>1, ConsOne DEF LeftPlace
  <1>2. CASE q = <<CloseOf(0)>> \o r1 /\ Has(t, Stdin, OutFile(s), NoFile)
    <2>1. q # <<>> /\ Head(q) = CloseOf(0) /\ Tail(q) = r1
      BY <1>1, <1>2, ConsOne
    <2>0. Behaves(t, Stdin, OutFile(s), NoFile)
      BY <1>2, HasFacts
    <2>2. Has(CloseFd(t, 0), NoFile, OutFile(s), NoFile)
      BY <1>1, <2>0, Zenon DEF Behaves
    <2>3. Head(q).op = "close" /\ Head(q).fd = 0
      BY <2>1 DEF CloseOf, Call
    <2>4. Place(s, Tail(q), CloseFd(t, 0))
      BY <1>1, <2>1, <2>2, Zenon DEF LeftPlace, Place
    <2> QED BY <2>1, <2>2, <2>3, <2>4 DEF Goes, GoesClose
  <1>3. CASE q = <<DupTo(2 * s - 1, 0)>> \o RightOn(s) /\ Has(t, NoFile, OutFile(s), NoFile)
    <2>1. q # <<>> /\ Head(q) = DupTo(2 * s - 1, 0) /\ Tail(q) = RightOn(s)
      BY <1>1, <1>3, ConsOne
    <2>0. Behaves(t, NoFile, OutFile(s), NoFile)
      BY <1>3, HasFacts
    <2>2. /\ 2 * s - 1 \in Open(t) /\ AllocFd(t) = 0
          /\ Has(Dup(t, 2 * s - 1), Source(s), OutFile(s), NoFile)
      <3>1. 2 * s - 1 \in 3 .. Top /\ Source(s) = EndOf(2 * s - 1)
        BY <1>1, Wiring
      <3>2. 2 * s - 1 \in Open(t) /\ t[2 * s - 1] = Source(s)
        BY <2>0, <3>1, Zenon DEF Behaves
      <3>3. AllocFd(t) = 0 /\ \A f : Has(Install(t, f), f, OutFile(s), NoFile)
        BY <2>0, <3>1, Zenon DEF Behaves
      <3>4. Dup(t, 2 * s - 1) = Install(t, Source(s))
        BY <2>0, <3>2, Zenon DEF Behaves
      <3> QED BY <3>2, <3>3, <3>4, Zenon
    <2>3. Head(q).op = "dup" /\ Head(q).fd = 2 * s - 1 /\ Head(q).n = 0
      BY <2>1 DEF DupTo, Call
    <2>4. Place(s, Tail(q), Dup(t, 2 * s - 1))
      BY <1>1, <2>1, <2>2, AtRight
    <2> QED BY <2>1, <2>2, <2>3, <2>4 DEF Goes, GoesDup
  <1> QED BY <1>2, <1>3 DEF LeftPlace


LEMMA RightGoes ==
  ASSUME NEW s, UnderWay(s), NEW q, NEW t, RightPlace(s, q, t)
  PROVE  Goes(s, q, t)
  <1> DEFINE r2 == <<DupTo(2 * s + 2, 1)>> \o Rest(1)
             r1 == <<CloseOf(1)>> \o r2
  <1>1. /\ s < Len(line) /\ Rest(1) \in Seq(CallSet) /\ r2 \in Seq(CallSet) /\ r1 \in Seq(CallSet)
        /\ Write(0) \in CallSet /\ CloseOf(1) \in CallSet /\ DupTo(2 * s + 2, 1) \in CallSet
    <2>1. /\ Rest(1) \in Seq(CallSet) /\ Write(0) \in CallSet /\ CloseOf(1) \in CallSet
          /\ DupTo(2 * s + 2, 1) \in CallSet
      BY OnTypes, CallTypes
    <2>2. r2 \in Seq(CallSet)
      BY <2>1, ConsOne
    <2>3. r1 \in Seq(CallSet)
      BY <2>1, <2>2, ConsOne
    <2> QED BY <2>1, <2>2, <2>3 DEF RightPlace
  <1>2. CASE q = <<Write(0)>> \o r1 /\ Has(t, Source(s), Stdout, NoFile)
    <2>1. q # <<>> /\ Head(q) = Write(0) /\ Tail(q) = r1
      BY <1>1, <1>2, ConsOne
    <2>2. Has(t, Source(s), Stdout, NoFile)
      BY <1>2
    <2>3. Head(q).op = "write" /\ Head(q).n = 0
      BY <2>1 DEF Write, Call
    <2>4. Place(s, Tail(q), t)
      BY <1>1, <2>1, <2>2, Zenon DEF RightPlace, Place
    <2> QED BY <2>1, <2>2, <2>3, <2>4 DEF Goes, GoesWrite
  <1>3. CASE q = <<CloseOf(1)>> \o r2 /\ Has(t, Source(s), Stdout, NoFile)
    <2>1. q # <<>> /\ Head(q) = CloseOf(1) /\ Tail(q) = r2
      BY <1>1, <1>3, ConsOne
    <2>0. Behaves(t, Source(s), Stdout, NoFile)
      BY <1>3, HasFacts
    <2>2. Has(CloseFd(t, 1), Source(s), NoFile, NoFile)
      BY <1>1, <2>0, Zenon DEF Behaves
    <2>3. Head(q).op = "close" /\ Head(q).fd = 1
      BY <2>1 DEF CloseOf, Call
    <2>4. Place(s, Tail(q), CloseFd(t, 1))
      BY <1>1, <2>1, <2>2, Zenon DEF RightPlace, Place
    <2> QED BY <2>1, <2>2, <2>3, <2>4 DEF Goes, GoesClose
  <1>4. CASE q = <<DupTo(2 * s + 2, 1)>> \o Rest(1) /\ Has(t, Source(s), NoFile, NoFile)
    <2>1. q # <<>> /\ Head(q) = DupTo(2 * s + 2, 1) /\ Tail(q) = Rest(1)
      BY <1>1, <1>4, ConsOne
    <2>0. Behaves(t, Source(s), NoFile, NoFile)
      BY <1>4, HasFacts
    <2>2. /\ 2 * s + 2 \in Open(t) /\ AllocFd(t) = 1
          /\ Has(Dup(t, 2 * s + 2), Source(s), Target(s), NoFile)
      <3>1. 2 * s + 2 \in 3 .. Top /\ Target(s) = EndOf(2 * s + 2) /\ Source(s) # NoFile
        BY <1>1, Wiring
      <3>2. 2 * s + 2 \in Open(t) /\ t[2 * s + 2] = Target(s)
        BY <2>0, <3>1, Zenon DEF Behaves
      <3>3. AllocFd(t) = 1 /\ \A f : Has(Install(t, f), Source(s), f, NoFile)
        BY <2>0, <3>1, Zenon DEF Behaves
      <3>4. Dup(t, 2 * s + 2) = Install(t, Target(s))
        BY <2>0, <3>2, Zenon DEF Behaves
      <3> QED BY <3>2, <3>3, <3>4, Zenon
    <2>3. Head(q).op = "dup" /\ Head(q).fd = 2 * s + 2 /\ Head(q).n = 1
      BY <2>1 DEF DupTo, Call
    <2>4. Place(s, Tail(q), Dup(t, 2 * s + 2))
      BY <1>1, <2>1, <2>2, AtEnds
    <2> QED BY <2>1, <2>2, <2>3, <2>4 DEF Goes, GoesDup
  <1> QED BY <1>2, <1>3, <1>4 DEF RightPlace


LEMMA EndsGo ==
  ASSUME NEW s, UnderWay(s), NEW q, NEW t, EndsPlace(s, q, t)
  PROVE  Goes(s, q, t)
  <1>1. PICK j \in 1 .. Top - 1 : q = Rest(j) /\ Table(t, Source(s), Target(s), NoFile, j + 1, Top)
    BY DEF EndsPlace
  <1>2. Top \in Nat /\ Top >= 2
    BY OnTypes
  <1>3. CASE j < Top - 1
    <2>1. j + 1 \in 1 .. Top - 1 /\ j + 2 \in Nat /\ (j + 1) + 1 = j + 2
      BY <1>2, <1>3
    <2>2. Rest(j + 1) \in Seq(CallSet) /\ Rest(j) = <<CloseOf(j + 2)>> \o Rest(j + 1)
      BY <1>3, <2>1, RestFacts
    <2>3. CloseOf(j + 2) \in CallSet
      BY <2>1, CallTypes
    <2>4. q # <<>> /\ Head(q) = CloseOf(j + 2) /\ Tail(q) = Rest(j + 1)
      BY <1>1, <2>2, <2>3, ConsOne
    <2>5. Head(q).op = "close" /\ Head(q).fd = j + 2
      BY <2>4 DEF CloseOf, Call
    <2>6. Table(CloseFd(t, j + 2), Source(s), Target(s), NoFile, j + 2, Top)
      <3>1. PICK lo \in Nat : lo = j + 1
        BY <1>2
      <3>2. lo >= 2 /\ lo < Top /\ lo + 1 = j + 2
        BY <1>2, <1>3, <3>1
      <3>3. Table(CloseFd(t, lo + 1), Source(s), Target(s), NoFile, lo + 1, Top)
        BY <1>1, <1>2, <3>1, <3>2, CloseEnd
      <3> QED BY <3>2, <3>3
    <2>7. EndsPlace(s, Tail(q), CloseFd(t, Head(q).fd))
      BY <2>1, <2>4, <2>5, <2>6 DEF EndsPlace
    <2> QED BY <2>4, <2>5, <2>7 DEF Goes, GoesClose, Place
  <1>4. CASE j = Top - 1
    <2>1. j + 1 = Top
      BY <1>2, <1>4
    <2>2. q = <<Exec>> /\ Table(t, Source(s), Target(s), NoFile, Top, Top)
      BY <1>1, <1>4, <2>1, RestFacts
    <2>3. Table(t, Source(s), Target(s), NoFile, 2, 2)
      BY <1>2, <2>2, AllClosed
    <2> QED BY <2>2, <2>3 DEF Goes, GoesExec
  <1> QED BY <1>2, <1>3, <1>4

LEMMA SetupGoesOn ==
  ASSUME NEW s, UnderWay(s), NEW q, NEW t, Place(s, q, t)
  PROVE  Goes(s, q, t)
  BY InGoes, OutGoes, LeftGoes, RightGoes, EndsGo DEF Place

----------------------------------------------------------------------------
\* Calls that change no table

LEMMA HarmlessCalls ==
  ASSUME NEW n \in Nat
  PROVE  /\ <<Read(n)>> \in Seq(CallSet) /\ Harmless(<<Read(n)>>)
         /\ <<Write(n)>> \in Seq(CallSet) /\ Harmless(<<Write(n)>>)
         /\ Exit \in Seq(CallSet) /\ Harmless(Exit)
         /\ Complain(n) \in Seq(CallSet) /\ Harmless(Complain(n))
  <1>1. /\ Read(n) \in CallSet /\ Write(n) \in CallSet /\ Write(0) \in CallSet /\ SysExit \in CallSet
        /\ Read(n).op = "read" /\ Write(n).op = "write" /\ Write(0).op = "write" /\ SysExit.op = "exit"
    BY CallTypes
  <1>2. ASSUME NEW c \in CallSet, c.op \in {"read", "write"}
        PROVE <<c>> \in Seq(CallSet) /\ Harmless(<<c>>)
    BY <1>2 DEF Harmless
  <1>3. ASSUME NEW c \in CallSet, NEW d \in CallSet, c.op = "write", d.op = "exit"
        PROVE <<c, d>> \in Seq(CallSet) /\ Harmless(<<c, d>>)
    <2>1. <<c, d>> \in Seq(CallSet) /\ Len(<<c, d>>) = 2 /\ <<c, d>>[1] = c /\ <<c, d>>[2] = d
      OBVIOUS
    <2>2. ASSUME NEW j \in 1 .. 2
          PROVE <<c, d>>[j].op \in {"read", "write", "exit"} /\ (<<c, d>>[j].op = "exit" => j = 2)
      <3>1. j = 1 \/ j = 2
        OBVIOUS
      <3> QED BY <1>3, <2>1, <3>1
    <2> QED BY <2>1, <2>2 DEF Harmless
  <1>4. ASSUME NEW c \in CallSet, c.op = "write", NEW q \in Seq(CallSet), Harmless(q)
        PROVE <<c>> \o q \in Seq(CallSet) /\ Harmless(<<c>> \o q)
    <2> DEFINE r == <<c>> \o q
    <2>1. /\ r \in Seq(CallSet) /\ Len(r) = Len(q) + 1 /\ r[1] = c
          /\ \A j \in 1 .. Len(q) : r[j + 1] = q[j]
      OBVIOUS
    <2> HIDE DEF r
    <2>2. ASSUME NEW j \in 1 .. Len(r)
          PROVE r[j].op \in {"read", "write", "exit"} /\ (r[j].op = "exit" => j = Len(r))
      <3>1. CASE j = 1
        BY <1>4, <2>1, <3>1
      <3>2. CASE j > 1
        <4>1. PICK k \in 1 .. Len(q) : j = k + 1
          <5>1. j - 1 \in 1 .. Len(q) /\ j = (j - 1) + 1
            BY <2>1, <3>2
          <5> QED BY <5>1
        <4>2. r[j] = q[k]
          BY <2>1, <4>1
        <4>3. q[k].op \in {"read", "write", "exit"} /\ (q[k].op = "exit" => k = Len(q))
          BY <1>4 DEF Harmless
        <4> QED BY <2>1, <4>1, <4>2, <4>3
      <3> QED BY <3>1, <3>2
    <2>3. Harmless(r)
      BY <2>2 DEF Harmless
    <2> QED BY <2>1, <2>3 DEF r
  <1>5. Exit \in Seq(CallSet) /\ Harmless(Exit)
    BY <1>1, <1>3 DEF Exit
  <1>6. <<Write(0)>> \o Exit \in Seq(CallSet) /\ Harmless(<<Write(0)>> \o Exit)
    BY <1>1, <1>4, <1>5
  <1>7. <<Write(n)>> \o (<<Write(0)>> \o Exit) \in Seq(CallSet) /\ Harmless(<<Write(n)>> \o (<<Write(0)>> \o Exit))
    BY <1>1, <1>4, <1>6
  <1>8. Complain(n) = <<Write(n)>> \o (<<Write(0)>> \o Exit)
    BY <1>1, <1>5, ConsTwo DEF Complain
  <1> QED BY <1>1, <1>2, <1>5, <1>7, <1>8

LEMMA HarmlessTail ==
  ASSUME NEW q \in Seq(CallSet), q # <<>>, Harmless(q)
  PROVE  /\ Tail(q) \in Seq(CallSet) /\ Harmless(Tail(q))
         /\ Head(q).op \in {"read", "write", "exit"}
         /\ Head(q).op = "exit" => Tail(q) = <<>>
  <1>1. PICK m \in Nat : m = Len(q) /\ m >= 1
    OBVIOUS
  <1>2. PICK r \in Seq(CallSet) : r = Tail(q)
    <2>1. Tail(q) \in Seq(CallSet)
      OBVIOUS
    <2> QED BY <2>1
  <1>3. Len(r) = m - 1 /\ \A j \in 1 .. m - 1 : r[j] = q[j + 1]
    BY <1>1, <1>2
  <1>4. \A k \in 1 .. m : q[k].op \in {"read", "write", "exit"} /\ (q[k].op = "exit" => k = m)
    BY <1>1, Zenon DEF Harmless
  <1>5. ASSUME NEW j \in 1 .. Len(r)
        PROVE r[j].op \in {"read", "write", "exit"} /\ (r[j].op = "exit" => j = Len(r))
    <2>1. PICK k \in 1 .. m : k = j + 1
      BY <1>1, <1>3
    <2>2. r[j] = q[k]
      BY <1>3, <2>1
    <2>3. k = m => j = Len(r)
      BY <1>1, <1>3, <2>1
    <2> QED BY <1>4, <2>2, <2>3, Zenon
  <1>6. Harmless(r)
    BY <1>5, Zenon DEF Harmless
  <1>7. 1 \in 1 .. m /\ Head(q) = q[1]
    BY <1>1
  <1>8. Head(q).op \in {"read", "write", "exit"} /\ (Head(q).op = "exit" => 1 = m)
    BY <1>4, <1>7, Zenon
  <1>9. 1 = m => Len(r) = 0
    BY <1>3
  <1>10. Len(r) = 0 => r = <<>>
    BY EmptySeq
  <1> QED BY <1>2, <1>6, <1>8, <1>9, <1>10, Zenon

LEMMA HarmlessSlice ==
  ASSUME NEW q \in Seq(CallSet), q # <<>>, Harmless(q), NEW n \in Int
  PROVE  LET r == [q EXCEPT ![1].n = @ - n] IN r \in Seq(CallSet) /\ Harmless(r)
  <1> DEFINE r == [q EXCEPT ![1].n = @ - n]
  <1>1. 1 \in 1 .. Len(q) /\ Len(q) \in Nat /\ q \in [1 .. Len(q) -> CallSet] /\ q[1] \in CallSet
    OBVIOUS
  <1>2. PICK c \in CallSet : c = [q[1] EXCEPT !.n = @ - n] /\ c.op = q[1].op
    <2>1. [q[1] EXCEPT !.n = @ - n] = [op |-> q[1].op, fd |-> q[1].fd, n |-> q[1].n - n]
      BY <1>1 DEF CallSet
    <2>2. q[1].n - n \in Int
      BY <1>1 DEF CallSet
    <2>3. [op |-> q[1].op, fd |-> q[1].fd, n |-> q[1].n - n] \in CallSet
      BY <1>1, <2>2 DEF CallSet
    <2> QED BY <2>1, <2>3
  <1>3. r = [q EXCEPT ![1] = c]
    BY <1>2
  <1> HIDE DEF r
  <1>4. r \in Seq(CallSet) /\ Len(r) = Len(q)
    BY <1>1, <1>3
  <1>5. \A j \in 1 .. Len(q) : r[j].op = q[j].op
    BY <1>1, <1>2, <1>3
  <1>6. Harmless(r)
    BY <1>4, <1>5 DEF Harmless
  <1> QED BY <1>4, <1>6 DEF r

----------------------------------------------------------------------------
\* A stage moves, the shell and the others do not

Step(s, st, q, t) ==
    /\ UNCHANGED <<shell, failed>>
    /\ status' = [status EXCEPT ![s] = st] /\ todo' = [todo EXCEPT ![s] = q]
    /\ table' = [table EXCEPT ![s] = t]

Fine(s, st, q, t) ==
    /\ st \in {"setup", "running", "zombie"} /\ q \in Seq(CallSet)
    /\ st = "zombie" => q = <<>>
    /\ st = "setup" => Place(s, q, t) \/ Harmless(q)
    /\ st = "running" => Harmless(q) /\ Table(t, Source(s), Target(s), NoFile, 2, 2)

LEMMA StageNumbers ==
    /\ MaxStages \in Nat /\ Message \in Nat /\ Report \in Nat
    /\ Stage \subseteq Nat /\ 0 \notin Stage /\ Stage \subseteq Proc /\ 0 \in Proc
  BY ShellAssumption DEF Stage, Proc

LEMMA LineLength ==
  ASSUME line # <<>>, Loops
  PROVE  Len(line) \in 1 .. MaxStages /\ line \in Seq(Command) /\ Valid(line)
  BY ShellAssumption DEF Loops

LEMMA Here ==
  ASSUME ShellInv, NEW s \in Stage, status[s] # "absent"
  PROVE  UnderWay(s) /\ line # <<>>
  <1>1. Present(s)
    BY DEF ShellInv, StageOK
  <1>2. /\ at \in {"fork", "close", "wait"}
        /\ at = "fork" => s < i
        /\ at = "close" => s <= Len(line)
        /\ at = "wait" => s <= Len(line)
    BY <1>1 DEF Present, ShellInv, ShellType
  <1>3. line # <<>> /\ Len(pipes) = Len(line) - 1 /\ (at = "fork" => i <= Len(line) + 1) /\ Loops
    BY <1>2 DEF ShellInv, Loops
  <1>4. Len(line) \in Nat /\ line \in Seq(Command) /\ Valid(line)
    BY <1>3, LineLength
  <1>5. s \in Nat /\ s >= 1 /\ i \in Nat
    BY StageNumbers DEF ShellInv, ShellType, Stage
  <1>6. s \in 1 .. Len(line)
    BY <1>2, <1>3, <1>4, <1>5
  <1> QED BY <1>3, <1>4, <1>6 DEF UnderWay, ShellInv, ShellType

\* The places depend on the line and on its pipes alone.
LEMMA PlaceKept ==
  ASSUME line' = line, pipes' = pipes, NEW s, NEW q, NEW t
  PROVE  /\ Place(s, q, t)' <=> Place(s, q, t)
         /\ Source(s)' = Source(s) /\ Target(s)' = Target(s) /\ Top' = Top
  <1>1. ASSUME NEW j PROVE Rest(j)' = Rest(j)
    BY DEF Rest, EndFd
  <1>2. /\ Source(s)' = Source(s) /\ Target(s)' = Target(s) /\ Top' = Top /\ New' = New
        /\ InFile(s)' = InFile(s) /\ OutFile(s)' = OutFile(s)
    BY DEF Source, Target, Top, New, InFile, OutFile
  <1>3. RightOn(s)' = RightOn(s)
    BY <1>1 DEF RightOn
  <1>4. LeftOn(s)' = LeftOn(s)
    BY <1>3 DEF LeftOn
  <1>5. OutOn(s)' = OutOn(s)
    BY <1>4 DEF OutOn
  <1>6. \A a, b, x : Has(t, a, b, x)' <=> Has(t, a, b, x)
    BY <1>2 DEF Has
  <1>7. InPlace(s, q, t)' <=> InPlace(s, q, t)
    BY <1>2, <1>5, <1>6 DEF InPlace
  <1>8. OutPlace(s, q, t)' <=> OutPlace(s, q, t)
    BY <1>2, <1>4, <1>6 DEF OutPlace
  <1>9. LeftPlace(s, q, t)' <=> LeftPlace(s, q, t)
    BY <1>2, <1>3, <1>6 DEF LeftPlace
  <1>10. RightPlace(s, q, t)' <=> RightPlace(s, q, t)
    BY <1>1, <1>2, <1>6 DEF RightPlace
  <1>11. EndsPlace(s, q, t)' <=> EndsPlace(s, q, t)
    BY <1>1, <1>2 DEF EndsPlace
  <1> QED BY <1>2, <1>7, <1>8, <1>9, <1>10, <1>11 DEF Place

LEMMA StageKept ==
  ASSUME line' = line, pipes' = pipes, NEW s, Present(s)' <=> Present(s),
         status'[s] = status[s], todo'[s] = todo[s], table'[s] = table[s], StageOK(s)
  PROVE  StageOK(s)'
  <1>1. PICK q : q = todo[s] /\ q = todo'[s]
    OBVIOUS
  <1>2. PICK t : t = table[s] /\ t = table'[s]
    OBVIOUS
  <1>3. /\ Place(s, q, t)' <=> Place(s, q, t)
        /\ Source(s)' = Source(s) /\ Target(s)' = Target(s)
    BY PlaceKept
  <1>4. /\ status[s] = "setup" => Place(s, q, t) \/ Harmless(q)
        /\ status[s] = "running" => Harmless(q) /\ Table(t, Source(s), Target(s), NoFile, 2, 2)
    BY <1>1, <1>2, Zenon DEF StageOK
  <1>5. status'[s] = "setup" => Place(s, q, t)' \/ Harmless(q)
    BY <1>3, <1>4
  <1>6. status'[s] = "running" => Harmless(q) /\ Table(t, Source(s)', Target(s)', NoFile, 2, 2)
    BY <1>3, <1>4
  <1>7. Place(s, todo[s], table[s])' <=> Place(s, q, t)'
    BY <1>1, <1>2, Zenon
  <1>8. /\ (status[s] = "absent")' <=> ~Present(s)'
        /\ (status[s] = "absent" => table[s] = NoTable)'
        /\ (status[s] \in {"absent", "zombie"} => todo[s] = <<>>)'
    BY DEF StageOK, NoTable
  <1> QED BY <1>1, <1>2, <1>5, <1>6, <1>7, <1>8, Zenon DEF StageOK

LEMMA StepKeeps ==
  ASSUME ShellInv, NEW s \in Stage, status[s] # "absent", NEW st, NEW q, NEW t,
         Step(s, st, q, t), Fine(s, st, q, t)
  PROVE  ShellInv'
  <1>1. /\ line' = line /\ at' = at /\ i' = i /\ pipes' = pipes /\ failed' = failed
        /\ status' = [status EXCEPT ![s] = st] /\ todo' = [todo EXCEPT ![s] = q]
        /\ table' = [table EXCEPT ![s] = t]
    BY DEF Step, shell
  <1>2. st \in {"setup", "running", "zombie"} /\ q \in Seq(CallSet)
    BY DEF Fine
  <1>3. /\ line \in Seq(Command) /\ at \in {"prompt", "pipe", "fork", "close", "wait"}
        /\ i \in Nat \ {0} /\ pipes \in Seq(Seq(Nat))
        /\ DOMAIN table = Proc /\ table = [p \in Proc |-> table[p]]
        /\ status \in [Stage -> {"absent", "setup", "running", "zombie"}]
        /\ todo \in [Stage -> Seq(CallSet)]
    BY DEF ShellInv, ShellType
  <1>4. s \in Proc /\ 0 \in Proc /\ 0 # s
    BY StageNumbers
  <1>5. /\ table'[0] = table[0] /\ table'[s] = t /\ status'[s] = st /\ todo'[s] = q
        /\ \A r \in Stage \ {s} : status'[r] = status[r] /\ todo'[r] = todo[r] /\ table'[r] = table[r]
    BY <1>1, <1>3, <1>4, StageNumbers
  <1>6. ShellType'
    <2>1. DOMAIN table' = Proc /\ table' = [p \in Proc |-> table'[p]]
      BY <1>1, <1>3
    <2>2. status' \in [Stage -> {"absent", "setup", "running", "zombie"}]
      BY <1>1, <1>2, <1>3
    <2>3. todo' \in [Stage -> Seq(CallSet)]
      BY <1>1, <1>2, <1>3
    <2> QED BY <1>1, <1>3, <2>1, <2>2, <2>3 DEF ShellType
  <1>7. Loops'
    BY <1>1 DEF ShellInv, Loops, Top, Valid
  <1>8. PipesAbove'
    BY <1>1 DEF ShellInv, PipesAbove
  <1>9. ShellTable'
    BY <1>1, <1>5 DEF ShellInv, ShellTable, Top
  <1>10. failed' = {}
    BY <1>1 DEF ShellInv
  <1>11. \A r \in Stage : Present(r)' <=> Present(r)
    BY <1>1 DEF Present
  <1>12. ASSUME NEW r \in Stage PROVE StageOK(r)'
    <2>1. CASE r # s
      <3>1. StageOK(r) /\ status'[r] = status[r] /\ todo'[r] = todo[r] /\ table'[r] = table[r]
        BY <1>5, <2>1 DEF ShellInv
      <3> QED BY <1>1, <1>11, <3>1, StageKept
    <2>2. CASE r = s
      <3>1. Present(s)' /\ status'[s] # "absent"
        BY <1>2, <1>5, <1>11 DEF ShellInv, StageOK
      <3>2. /\ Place(s, q, t)' <=> Place(s, q, t)
            /\ Source(s)' = Source(s) /\ Target(s)' = Target(s)
        BY <1>1, PlaceKept
      <3>3. /\ st = "setup" => Place(s, q, t)' \/ Harmless(q)
            /\ st = "running" => Harmless(q) /\ Table(t, Source(s)', Target(s)', NoFile, 2, 2)
            /\ st = "zombie" => q = <<>>
        BY <3>2 DEF Fine
      <3>4. Place(s, todo[s], table[s])' <=> Place(s, q, t)'
        BY <1>5, Zenon
      <3>5. StageOK(s)'
        BY <1>5, <3>1, <3>3, <3>4, Zenon DEF StageOK
      <3> QED BY <2>2, <3>5
    <2> QED BY <2>1, <2>2
  <1> QED BY <1>6, <1>7, <1>8, <1>9, <1>10, <1>12 DEF ShellInv

\* The stage that is about to make a call is setting up or running.
LEMMA Caller ==
  ASSUME ShellInv, NEW s \in Stage, todo[s] # <<>>
  PROVE  /\ status[s] \in {"setup", "running"} /\ status[s] # "absent" /\ UnderWay(s)
         /\ todo[s] \in Seq(CallSet) /\ Tail(todo[s]) \in Seq(CallSet) /\ Head(todo[s]) \in CallSet
         /\ \/ status[s] = "setup" /\ Place(s, todo[s], table[s]) /\ Goes(s, todo[s], table[s])
            \/ Harmless(todo[s])
         /\ status[s] = "running" =>
              Harmless(todo[s]) /\ Table(table[s], Source(s), Target(s), NoFile, 2, 2)
  <1>1. todo[s] \in Seq(CallSet) /\ status[s] \in {"absent", "setup", "running", "zombie"} /\ StageOK(s)
    BY DEF ShellInv, ShellType
  <1>2. status[s] \in {"setup", "running"} /\ status[s] # "absent"
    BY <1>1 DEF StageOK
  <1>3. UnderWay(s)
    BY <1>2, Here
  <1>4. /\ status[s] = "setup" => Place(s, todo[s], table[s]) \/ Harmless(todo[s])
        /\ status[s] = "running" =>
             Harmless(todo[s]) /\ Table(table[s], Source(s), Target(s), NoFile, 2, 2)
    BY <1>1 DEF StageOK
  <1>5. Place(s, todo[s], table[s]) => Goes(s, todo[s], table[s])
    BY <1>3, SetupGoesOn
  <1>6. Tail(todo[s]) \in Seq(CallSet) /\ Head(todo[s]) \in CallSet
    <2>1. PICK q \in Seq(CallSet) : q = todo[s] /\ q # <<>>
      BY <1>1
    <2>2. Tail(q) \in Seq(CallSet) /\ Head(q) \in CallSet
      BY <2>1
    <2> QED BY <2>1, <2>2
  <1> QED BY <1>1, <1>2, <1>3, <1>4, <1>5, <1>6

\* In the words of Step, for the actions that leave some of the variables alone.
LEMMA SameEntry ==
  ASSUME ShellType, NEW s \in Stage
  PROVE  /\ status = [status EXCEPT ![s] = status[s]] /\ table = [table EXCEPT ![s] = table[s]]
         /\ todo = [todo EXCEPT ![s] = todo[s]]
  <1>1. s \in Proc
    BY StageNumbers
  <1>2. PICK f : f = table
    OBVIOUS
  <1>3. DOMAIN f = Proc /\ f = [p \in Proc |-> f[p]]
    BY <1>2 DEF ShellType
  <1>4. f = [f EXCEPT ![s] = f[s]]
    BY <1>1, <1>3
  <1> QED BY <1>2, <1>4 DEF ShellType

LEMMA SetupCall ==
  ASSUME ShellInv, NEW s \in Stage, NEW op \in {"open", "close", "dup", "exec"}, Makes(s, op)
  PROVE  /\ status[s] = "setup"
         /\ op = "open"  => GoesOpen(s, todo[s], table[s])
         /\ op = "close" => GoesClose(s, todo[s], table[s])
         /\ op = "dup"   => GoesDup(s, todo[s], table[s])
         /\ op = "exec"  => GoesExec(s, todo[s], table[s])
  <1>1. todo[s] # <<>> /\ Head(todo[s]).op = op
    BY DEF Makes
  <1>2. PICK q \in Seq(CallSet) : q = todo[s]
    BY <1>1, Caller
  <1>3. ~Harmless(q)
    <2>1. Harmless(q) => Head(q).op \in {"read", "write", "exit"}
      BY <1>1, <1>2, HarmlessTail
    <2> QED BY <1>1, <1>2, <2>1
  <1>4. status[s] = "setup" /\ Goes(s, q, table[s])
    BY <1>1, <1>2, <1>3, Caller
  <1>5. q = <<Exec>> => Head(q).op = "exec"
    <2>1. Head(<<Exec>>) = Exec
      OBVIOUS
    <2> QED BY <2>1, CallTypes
  <1>6. /\ GoesOpen(s, q, table[s]) => Head(q).op = "open"
        /\ GoesClose(s, q, table[s]) => Head(q).op = "close"
        /\ GoesDup(s, q, table[s]) => Head(q).op = "dup"
        /\ GoesWrite(s, q, table[s]) => Head(q).op = "write"
        /\ GoesExec(s, q, table[s]) => Head(q).op = "exec"
    BY <1>5 DEF GoesOpen, GoesClose, GoesDup, GoesWrite, GoesExec
  <1>7. \/ GoesOpen(s, q, table[s]) \/ GoesClose(s, q, table[s]) \/ GoesDup(s, q, table[s])
        \/ GoesWrite(s, q, table[s]) \/ GoesExec(s, q, table[s])
    BY <1>4 DEF Goes
  <1> QED BY <1>1, <1>2, <1>4, <1>6, <1>7

LEMMA ReturnNothing ==
  ASSUME ShellInv, NEW s \in Stage, todo[s] # <<>>, Return(s, <<>>)
  PROVE  todo' = [todo EXCEPT ![s] = Tail(todo[s])] /\ Tail(todo[s]) \in Seq(CallSet)
  <1>1. PICK r \in Seq(CallSet) : r = Tail(todo[s])
    BY Caller
  <1>2. <<>> \o r = r
    BY Concat
  <1> QED BY <1>1, <1>2 DEF Return

LEMMA CloseCallStep ==
  ASSUME ShellInv, NEW s \in Stage, CloseCall(s)
  PROVE  ShellInv'
  <1>1. todo[s] # <<>> /\ Makes(s, "close")
    BY DEF CloseCall, Makes
  <1>2. status[s] = "setup" /\ GoesClose(s, todo[s], table[s])
    BY <1>1, SetupCall
  <1>3. todo' = [todo EXCEPT ![s] = Tail(todo[s])] /\ Tail(todo[s]) \in Seq(CallSet)
    BY <1>1, ReturnNothing DEF CloseCall
  <1> DEFINE q == Tail(todo[s])
             t == CloseFd(table[s], Head(todo[s]).fd)
  <1>4. Step(s, status[s], q, t)
    BY <1>3, SameEntry DEF CloseCall, Step, shell, ShellInv
  <1>5. Fine(s, status[s], q, t)
    BY <1>2, <1>3 DEF Fine, GoesClose
  <1> HIDE DEF q, t
  <1> QED BY <1>2, <1>4, <1>5, StepKeeps

LEMMA DupCallStep ==
  ASSUME ShellInv, NEW s \in Stage, DupCall(s)
  PROVE  ShellInv'
  <1>1. todo[s] # <<>> /\ Makes(s, "dup")
    BY DEF DupCall, Makes
  <1>2. status[s] = "setup" /\ GoesDup(s, todo[s], table[s])
    BY <1>1, SetupCall
  <1> DEFINE q == Tail(todo[s])
             t == Dup(table[s], Head(todo[s]).fd)
  <1>3. Return(s, <<>>) /\ UNCHANGED failed /\ table' = [table EXCEPT ![s] = t]
    BY <1>2 DEF DupCall, GoesDup
  <1>4. todo' = [todo EXCEPT ![s] = q] /\ q \in Seq(CallSet)
    BY <1>1, <1>3, ReturnNothing
  <1>5. Step(s, status[s], q, t)
    BY <1>3, <1>4, SameEntry DEF DupCall, Step, shell, ShellInv
  <1>6. Fine(s, status[s], q, t)
    BY <1>2, <1>4 DEF Fine, GoesDup
  <1> HIDE DEF q, t
  <1> QED BY <1>2, <1>5, <1>6, StepKeeps

LEMMA OpenCallStep ==
  ASSUME ShellInv, NEW s \in Stage, OpenCall(s)
  PROVE  ShellInv'
  <1>1. todo[s] # <<>> /\ Makes(s, "open")
    BY DEF OpenCall, Makes
  <1>2. status[s] = "setup" /\ GoesOpen(s, todo[s], table[s]) /\ Tail(todo[s]) \in Seq(CallSet)
    BY <1>1, SetupCall, Caller
  <1>3. PICK want \in {0, 1}, fd \in Nat : want = Head(todo[s]).fd /\ fd = AllocFd(table[s])
    BY <1>2 DEF GoesOpen
  <1>4. CASE want = 0 /\ line[s].input = "missing"
    <2>1. GiveUp(s, Complain(Message)) /\ UNCHANGED table
      BY <1>3, <1>4 DEF OpenCall
    <2>2. Complain(Message) \in Seq(CallSet) /\ Harmless(Complain(Message))
      BY HarmlessCalls, StageNumbers
    <2>3. Step(s, status[s], Complain(Message), table[s])
      BY <2>1, SameEntry DEF OpenCall, Step, shell, ShellInv, GiveUp
    <2>4. Fine(s, status[s], Complain(Message), table[s])
      BY <1>2, <2>2 DEF Fine
    <2> QED BY <1>2, <2>3, <2>4, StepKeeps
  <1>5. CASE ~(want = 0 /\ line[s].input = "missing")
    <2> DEFINE q == (Close(want) \o <<DupTo(fd, want)>> \o Close(fd)) \o Tail(todo[s])
               t == Install(table[s], IF want = 0 THEN Input ELSE Output)
    <2>1. File(IF want = 0 THEN "input" ELSE "output", 0) = (IF want = 0 THEN Input ELSE Output)
      BY DEF Input, Output
    <2>2. todo' = [todo EXCEPT ![s] = q] /\ table' = [table EXCEPT ![s] = t]
      BY <1>3, <1>5, <2>1 DEF OpenCall, Return
    <2>3. q \in Seq(CallSet)
      <3>1. Close(want) \in Seq(CallSet) /\ Close(fd) \in Seq(CallSet) /\ <<DupTo(fd, want)>> \in Seq(CallSet)
        <4>1. /\ want \in Nat /\ CloseOf(want) \in CallSet /\ CloseOf(fd) \in CallSet /\ DupTo(fd, want) \in CallSet
              /\ Write(0) \in CallSet /\ CloseOf(1) \in CallSet
          BY CallTypes
        <4>2. /\ <<CloseOf(want)>> \in Seq(CallSet) /\ <<CloseOf(fd)>> \in Seq(CallSet)
              /\ <<DupTo(fd, want)>> \in Seq(CallSet) /\ <<Write(0), CloseOf(1)>> \in Seq(CallSet)
          BY <4>1, Concat, Zenon
        <4> QED BY <4>2 DEF Close, CloseOf
      <3> QED BY <1>2, <3>1, Concat
    <2>4. Place(s, q, t)
      BY <1>2, <1>3 DEF GoesOpen
    <2> HIDE DEF q, t
    <2>5. Step(s, status[s], q, t)
      BY <2>2, SameEntry DEF OpenCall, Step, shell, ShellInv
    <2>6. Fine(s, status[s], q, t)
      BY <1>2, <2>3, <2>4 DEF Fine
    <2> QED BY <1>2, <2>5, <2>6, StepKeeps
  <1> QED BY <1>4, <1>5

LEMMA ExecCallStep ==
  ASSUME ShellInv, NEW s \in Stage, ExecCall(s)
  PROVE  ShellInv'
  <1>1. todo[s] # <<>> /\ Makes(s, "exec")
    BY DEF ExecCall, Makes
  <1>2. status[s] = "setup" /\ GoesExec(s, todo[s], table[s])
    BY <1>1, SetupCall
  <1>3. CASE line[s].program = "found"
    <2>1. Return(s, <<>>) /\ status' = [status EXCEPT ![s] = "running"]
      BY <1>3 DEF ExecCall
    <2>2. todo' = [todo EXCEPT ![s] = Tail(todo[s])]
      BY <1>1, <2>1, ReturnNothing
    <2>3. Tail(todo[s]) = <<>>
      BY <1>2 DEF GoesExec
    <2>4. Step(s, "running", <<>>, table[s])
      BY <2>1, <2>2, <2>3, SameEntry DEF ExecCall, Step, shell, ShellInv
    <2>5. Fine(s, "running", <<>>, table[s])
      BY <1>2 DEF Fine, GoesExec, Harmless
    <2> QED BY <1>2, <2>4, <2>5, StepKeeps
  <1>4. CASE line[s].program # "found"
    <2>1. PICK q : /\ q = (IF line[s].program = "empty" THEN Panicked ELSE Complain(Message))
                   /\ GiveUp(s, q) /\ UNCHANGED status
      BY <1>4 DEF ExecCall
    <2>2. q \in Seq(CallSet) /\ Harmless(q)
      BY <2>1, HarmlessCalls, StageNumbers DEF Panicked
    <2>3. Step(s, status[s], q, table[s])
      BY <2>1, SameEntry DEF ExecCall, Step, shell, ShellInv, GiveUp
    <2>4. Fine(s, status[s], q, table[s])
      BY <1>2, <2>2 DEF Fine
    <2> QED BY <1>2, <2>3, <2>4, StepKeeps
  <1> QED BY <1>3, <1>4

\* A running stage, or one that has given up, keeps its table.
LEMMA HarmlessFine ==
  ASSUME ShellInv, NEW s \in Stage, status[s] \in {"setup", "running"}, NEW q \in Seq(CallSet), Harmless(q)
  PROVE  Fine(s, status[s], q, table[s])
  BY DEF Fine, ShellInv, StageOK

LEMMA ProgramStep ==
  ASSUME ShellInv, NEW s \in Stage, Program(s)
  PROVE  ShellInv'
  <1>1. PICK q : q \in Seq(CallSet) /\ Harmless(q) /\ todo' = [todo EXCEPT ![s] = q]
    <2>1. CASE \E n \in 0 .. MaxLen : \/ todo' = [todo EXCEPT ![s] = <<Read(n)>>]
                                      \/ todo' = [todo EXCEPT ![s] = <<Write(n)>>]
      <3>1. PICK n \in 0 .. MaxLen : \/ todo' = [todo EXCEPT ![s] = <<Read(n)>>]
                                     \/ todo' = [todo EXCEPT ![s] = <<Write(n)>>]
        BY <2>1
      <3>2. n \in Nat
        BY ShellAssumption
      <3> QED BY <3>1, <3>2, HarmlessCalls
    <2>2. CASE todo' = [todo EXCEPT ![s] = Exit]
      <3>1. Exit \in Seq(CallSet) /\ Harmless(Exit)
        BY HarmlessCalls
      <3> QED BY <2>2, <3>1
    <2> QED BY <2>1, <2>2 DEF Program
  <1>2. status[s] = "running" /\ status[s] # "absent"
    BY DEF Program
  <1>3. Step(s, status[s], q, table[s])
    BY <1>1, SameEntry DEF Program, Step, shell, ShellInv
  <1>4. Fine(s, status[s], q, table[s])
    BY <1>1, <1>2, HarmlessFine
  <1> QED BY <1>2, <1>3, <1>4, StepKeeps

LEMMA ExitCallStep ==
  ASSUME ShellInv, NEW s \in Stage, ExitCall(s)
  PROVE  ShellInv'
  <1>1. todo[s] # <<>> /\ Head(todo[s]).op = "exit" /\ Return(s, <<>>)
    BY DEF ExitCall, Makes
  <1>2. PICK q \in Seq(CallSet) : q = todo[s]
    BY <1>1, Caller
  <1>3. ~Goes(s, q, table[s])
    <2>1. q = <<Exec>> => Head(q).op = "exec"
      <3>1. Head(<<Exec>>) = Exec
        OBVIOUS
      <3> QED BY <3>1, CallTypes
    <2> QED BY <1>1, <1>2, <2>1 DEF Goes, GoesOpen, GoesClose, GoesDup, GoesWrite, GoesExec
  <1>4. Harmless(q) /\ status[s] # "absent"
    BY <1>1, <1>2, <1>3, Caller
  <1>5. Tail(q) = <<>>
    BY <1>1, <1>2, <1>4, HarmlessTail
  <1>6. todo' = [todo EXCEPT ![s] = <<>>]
    BY <1>1, <1>2, <1>5, ReturnNothing
  <1>7. Step(s, "zombie", <<>>, table[s])
    BY <1>6, SameEntry DEF ExitCall, Step, shell, ShellInv
  <1>8. Fine(s, "zombie", <<>>, table[s])
    BY DEF Fine
  <1> QED BY <1>4, <1>7, <1>8, StepKeeps

LEMMA TransferStep ==
  ASSUME ShellInv, NEW s \in Stage, Transfer(s)
  PROVE  ShellInv'
  <1>1. todo[s] # <<>> /\ (Head(todo[s]).op = "read" \/ Head(todo[s]).op = "write")
    BY DEF Transfer, Makes
  <1>2. PICK q \in Seq(CallSet) : q = todo[s] /\ q # <<>>
    BY <1>1, Caller
  <1>3. \/ Return(s, <<>>)
        \/ \E n : n \in 1 .. Head(q).n /\ Slice(s, n)
    BY <1>2 DEF Transfer, ReadPipe, WritePipe
  <1>4. status[s] \in {"setup", "running"} /\ status[s] # "absent"
    BY <1>1, Caller
  <1>5. CASE Harmless(q)
    <2>1. PICK r : r \in Seq(CallSet) /\ Harmless(r) /\ todo' = [todo EXCEPT ![s] = r]
      <3>1. CASE Return(s, <<>>)
        BY <1>1, <1>2, <1>5, <3>1, ReturnNothing, HarmlessTail
      <3>2. CASE \E n : n \in 1 .. Head(q).n /\ Slice(s, n)
        <4>1. PICK n : n \in 1 .. Head(q).n /\ Slice(s, n)
          BY <3>2
        <4>2. Head(q).n \in Int /\ n \in Int
          <5>1. Head(q) \in CallSet
            BY <1>1, <1>2, Caller
          <5> QED BY <4>1, <5>1 DEF CallSet
        <4>3. PICK r : r = [q EXCEPT ![1].n = @ - n] /\ r \in Seq(CallSet) /\ Harmless(r)
          BY <1>2, <1>5, <4>2, HarmlessSlice
        <4>4. todo' = [todo EXCEPT ![s] = r]
          BY <1>2, <4>1, <4>3 DEF Slice
        <4> QED BY <4>3, <4>4
      <3> QED BY <1>3, <3>1, <3>2
    <2>2. Step(s, status[s], r, table[s])
      BY <2>1, SameEntry DEF Transfer, Step, shell, ShellInv
    <2>3. Fine(s, status[s], r, table[s])
      BY <1>4, <2>1, HarmlessFine
    <2> QED BY <1>4, <2>2, <2>3, StepKeeps
  <1>6. CASE ~Harmless(q)
    <2>1. status[s] = "setup" /\ Goes(s, q, table[s])
      BY <1>1, <1>2, <1>6, Caller
    <2>2. q = <<Exec>> => Head(q).op = "exec"
      <3>1. Head(<<Exec>>) = Exec
        OBVIOUS
      <3> QED BY <3>1, CallTypes
    <2>3. GoesWrite(s, q, table[s])
      BY <1>1, <1>2, <2>1, <2>2 DEF Goes, GoesOpen, GoesClose, GoesDup, GoesExec
    <2>4. Return(s, <<>>)
      BY <1>3, <2>3 DEF GoesWrite
    <2>5. todo' = [todo EXCEPT ![s] = Tail(q)] /\ Tail(q) \in Seq(CallSet)
      BY <1>1, <1>2, <2>4, ReturnNothing
    <2>6. Step(s, status[s], Tail(q), table[s])
      BY <2>5, SameEntry DEF Transfer, Step, shell, ShellInv
    <2>7. Fine(s, status[s], Tail(q), table[s])
      BY <2>1, <2>3, <2>5 DEF Fine, GoesWrite
    <2> QED BY <1>4, <2>6, <2>7, StepKeeps
  <1> QED BY <1>5, <1>6

----------------------------------------------------------------------------
\* The shell moves

LEMMA TypeParts ==
  ASSUME ShellInv
  PROVE  /\ line \in Seq(Command) /\ at \in {"prompt", "pipe", "fork", "close", "wait"}
         /\ i \in Nat /\ i >= 1 /\ pipes \in Seq(Seq(Nat)) /\ Len(line) \in Nat /\ Len(pipes) \in Nat
         /\ DOMAIN table = Proc /\ table = [p \in Proc |-> table[p]]
         /\ status \in [Stage -> {"absent", "setup", "running", "zombie"}]
         /\ todo \in [Stage -> Seq(CallSet)]
         /\ Loops /\ PipesAbove /\ ShellTable /\ failed = {} /\ \A s \in Stage : StageOK(s)
  BY DEF ShellInv, ShellType

\* A stage that is absent before and after the step.
LEMMA StillAbsent ==
  ASSUME NEW s \in Stage, StageOK(s), ~Present(s), ~Present(s)',
         status'[s] = status[s], todo'[s] = todo[s], table'[s] = table[s]
  PROVE  StageOK(s)'
  <1>1. status[s] = "absent" /\ table[s] = NoTable /\ todo[s] = <<>>
    BY DEF StageOK
  <1>2. NoTable' = NoTable
    BY DEF NoTable
  <1> QED BY <1>1, <1>2 DEF StageOK

LEMMA ReadLineStep ==
  ASSUME ShellInv, NEW l \in Lines, ReadLine(l)
  PROVE  ShellInv'
  <1>1. /\ at = "prompt" /\ UNCHANGED <<i, pipes, table, status, todo, made, fill, failed>>
    BY DEF ReadLine
  <1>2. i = 1 /\ pipes = <<>> /\ Table(table[0], Stdin, Stdout, NoFile, 2, 2)
    BY <1>1, TypeParts DEF Loops, ShellTable
  <1>3. CASE Valid(l)
    <2>1. line' = l /\ at' = "pipe"
      BY <1>3 DEF ReadLine
    <2>2. l \in Seq(Command) /\ Len(l) \in Nat /\ Len(l) >= 1
      BY ShellAssumption
    <2>3. l # <<>>
      BY <2>2
    <2>4. ShellType'
      BY <1>1, <2>1, <2>2, TypeParts DEF ShellInv, ShellType
    <2>5. Loops'
      <3>1. Len(pipes') = 0 /\ i' = 1
        BY <1>1, <1>2
      <3>2. i' <= Len(line') /\ Len(pipes') = i' - 1
        BY <2>1, <2>2, <3>1
      <3>3. Valid(line')
        BY <1>3, <2>1
      <3>4. line' \in Lines /\ line' # <<>> /\ at' = "pipe"
        BY <2>1, <2>3
      <3> QED BY <3>2, <3>3, <3>4 DEF Loops
    <2>6. PipesAbove'
      BY <1>1, TypeParts DEF PipesAbove
    <2>7. ShellTable'
      <3>1. 2 * i = 2
        BY <1>2
      <3> QED BY <1>1, <1>2, <2>1, <3>1 DEF ShellTable
    <2>8. \A s \in Stage : StageOK(s)'
      <3>1. ASSUME NEW s \in Stage PROVE ~Present(s) /\ ~Present(s)'
        BY <1>1, <2>1 DEF Present
      <3> QED BY <1>1, <3>1, TypeParts, StillAbsent
    <2> QED BY <1>1, <2>4, <2>5, <2>6, <2>7, <2>8, TypeParts DEF ShellInv
  <1>4. CASE ~Valid(l)
    <2>1. line' = line /\ at' = at
      BY <1>4 DEF ReadLine
    <2>2. /\ ShellType' /\ Loops' /\ PipesAbove' /\ ShellTable'
      BY <1>1, <2>1 DEF ShellInv, ShellType, Loops, Valid, PipesAbove, ShellTable, Top
    <2>3. \A s \in Stage : StageOK(s)'
      <3>1. ASSUME NEW s \in Stage PROVE ~Present(s) /\ ~Present(s)'
        BY <1>1, <2>1 DEF Present
      <3> QED BY <1>1, <3>1, TypeParts, StillAbsent
    <2> QED BY <1>1, <2>2, <2>3, TypeParts DEF ShellInv
  <1> QED BY <1>3, <1>4

\* Two more descriptors behind the others.
LEMMA TwoEnds ==
  ASSUME NEW t, NEW k \in Nat, k >= 1, Table(t, Stdin, Stdout, NoFile, 2, 2 * k)
  PROVE  LET u == Install(t, ReadEnd(k))
         IN  /\ AllocFd(t) = 2 * k + 1 /\ AllocFd(u) = 2 * k + 2
             /\ Table(Install(u, WriteEnd(k)), Stdin, Stdout, NoFile, 2, 2 * (k + 1))
  <1> DEFINE u == Install(t, ReadEnd(k))
  <1>1. PICK h \in Nat : h = 2 * k /\ h >= 2
    OBVIOUS
  <1>2. EndOf(h + 1) = ReadEnd(k) /\ EndOf((h + 1) + 1) = WriteEnd(k)
    <2>1. EndOf(2 * k + 1) = ReadEnd(k) /\ EndOf(2 * k + 2) = WriteEnd(k)
      BY FileFacts
    <2>2. h + 1 = 2 * k + 1 /\ (h + 1) + 1 = 2 * k + 2
      BY <1>1
    <2> QED BY <2>1, <2>2, Zenon
  <1>3. Stdin # NoFile /\ Stdout # NoFile
    BY FileFacts
  <1>4. AllocFd(t) = h + 1 /\ Table(u, Stdin, Stdout, EndOf(h + 1), 2, h)
    BY <1>1, <1>2, <1>3, FillNew
  <1>5. PICK g \in Nat : g = h + 1 /\ g >= 2
    BY <1>1
  <1>6. Table(u, Stdin, Stdout, NoFile, 2, g)
    BY <1>1, <1>4, <1>5, Grow
  <1> HIDE DEF u
  <1>7. AllocFd(u) = g + 1 /\ Table(Install(u, WriteEnd(k)), Stdin, Stdout, EndOf(g + 1), 2, g)
    <2>1. EndOf(g + 1) = WriteEnd(k)
      BY <1>2, <1>5
    <2> QED BY <1>3, <1>5, <1>6, <2>1, FillNew
  <1>8. PICK v : v = Install(u, WriteEnd(k))
    OBVIOUS
  <1>9. Table(v, Stdin, Stdout, NoFile, 2, g + 1)
    BY <1>5, <1>7, <1>8, Grow
  <1>10. h + 1 = 2 * k + 1 /\ g + 1 = 2 * k + 2 /\ g + 1 = 2 * (k + 1)
    BY <1>1, <1>5
  <1> QED BY <1>4, <1>7, <1>8, <1>9, <1>10 DEF u

LEMMA MakePipeStep ==
  ASSUME ShellInv, MakePipe
  PROVE  ShellInv'
  <1>1. at = "pipe" /\ UNCHANGED <<line, status, todo, made, failed>>
    BY DEF MakePipe
  <1>2. /\ line # <<>> /\ line \in Lines /\ Valid(line) /\ i <= Len(line) /\ Len(pipes) = i - 1
        /\ Table(table[0], Stdin, Stdout, NoFile, 2, 2 * i)
    BY <1>1, TypeParts DEF Loops, ShellTable
  <1>3. /\ i \in Nat /\ i >= 1 /\ Len(line) \in Nat /\ pipes \in Seq(Seq(Nat))
        /\ DOMAIN table = Proc /\ table = [p \in Proc |-> table[p]]
    BY TypeParts
  <1>4. CASE i < Len(line)
    <2> DEFINE u == Install(table[0], ReadEnd(i))
               v == Install(u, WriteEnd(i))
    <2>1. /\ table' = [table EXCEPT ![0] = v] /\ pipes' = Append(pipes, <<AllocFd(table[0]), AllocFd(u)>>)
          /\ i' = i + 1 /\ at' = at
      BY <1>1, <1>4 DEF MakePipe
    <2>2. AllocFd(table[0]) = 2 * i + 1 /\ AllocFd(u) = 2 * i + 2 /\ Table(v, Stdin, Stdout, NoFile, 2, 2 * (i + 1))
      BY <1>2, <1>3, TwoEnds
    <2> HIDE DEF u, v
    <2>3. pipes' = Append(pipes, <<2 * i + 1, 2 * i + 2>>)
      BY <2>1, <2>2
    <2>4. table'[0] = v /\ (\A r \in Stage : table'[r] = table[r])
          /\ DOMAIN table' = Proc /\ table' = [p \in Proc |-> table'[p]]
      BY <1>3, <2>1, StageNumbers
    <2>5. PICK e \in Seq(Nat) : e = <<2 * i + 1, 2 * i + 2>>
      <3>1. 2 * i + 1 \in Nat /\ 2 * i + 2 \in Nat
        BY <1>3
      <3>2. \A m, n \in Nat : <<m, n>> \in Seq(Nat)
        OBVIOUS
      <3>3. <<2 * i + 1, 2 * i + 2>> \in Seq(Nat)
        BY <3>1, <3>2, Zenon
      <3> QED BY <3>3, Zenon
    <2>6. pipes' \in Seq(Seq(Nat)) /\ Len(pipes') = i /\ pipes'[i] = e
          /\ \A k \in 1 .. i - 1 : pipes'[k] = pipes[k]
      <3>1. pipes' = Append(pipes, e)
        BY <2>3, <2>5
      <3>2. Len(pipes) + 1 = i
        BY <1>2, <1>3
      <3> QED BY <1>2, <1>3, <3>1, <3>2
    <2>7. ShellType'
      BY <1>1, <1>3, <2>1, <2>4, <2>6 DEF ShellInv, ShellType
    <2>8. Loops'
      <3>1. i' <= Len(line') /\ Len(pipes') = i' - 1
        BY <1>1, <1>3, <1>4, <2>1, <2>6
      <3>2. Valid(line') /\ line' \in Lines /\ line' # <<>> /\ at' = "pipe"
        BY <1>1, <1>2, <2>1
      <3> QED BY <3>1, <3>2 DEF Loops
    <2>9. PipesAbove'
      <3>1. ASSUME NEW k \in 1 .. i PROVE pipes'[k] = <<2 * k + 1, 2 * k + 2>>
        <4>1. CASE k = i
          BY <2>5, <2>6, <4>1
        <4>2. CASE k # i
          <5>1. k \in 1 .. i - 1 /\ k \in 1 .. Len(pipes)
            BY <1>2, <1>3, <4>2
          <5> QED BY <2>6, <5>1, TypeParts DEF PipesAbove
        <4> QED BY <4>1, <4>2
      <3> QED BY <2>6, <3>1 DEF PipesAbove
    <2>10. ShellTable'
      BY <1>1, <2>1, <2>2, <2>4 DEF ShellTable
    <2>11. \A s \in Stage : StageOK(s)'
      <3>1. ASSUME NEW s \in Stage PROVE ~Present(s) /\ ~Present(s)'
        BY <1>1, <2>1 DEF Present
      <3> QED BY <1>1, <2>4, <3>1, TypeParts, StillAbsent
    <2> QED BY <1>1, <2>7, <2>8, <2>9, <2>10, <2>11, TypeParts DEF ShellInv
  <1>5. CASE ~(i < Len(line))
    <2>1. at' = "fork" /\ i' = 1 /\ UNCHANGED <<table, pipes>>
      BY <1>5 DEF MakePipe, Proceed
    <2>2. i = Len(line)
      BY <1>2, <1>3, <1>5
    <2>3. ShellType'
      BY <1>1, <1>3, <2>1 DEF ShellInv, ShellType
    <2>4. Loops'
      <3>1. i' <= Len(line') + 1 /\ Len(pipes') = Len(line') - 1
        BY <1>1, <1>2, <1>3, <2>1, <2>2
      <3>2. Valid(line') /\ line' \in Lines /\ line' # <<>>
        BY <1>1, <1>2
      <3> QED BY <2>1, <3>1, <3>2 DEF Loops
    <2>5. PipesAbove'
      BY <2>1, TypeParts DEF PipesAbove
    <2>6. ShellTable'
      BY <1>1, <1>2, <2>1, <2>2 DEF ShellTable, Top
    <2>7. \A s \in Stage : StageOK(s)'
      <3>1. ASSUME NEW s \in Stage PROVE ~Present(s) /\ ~Present(s)'
        <4>1. ~(s < 1)
          BY StageNumbers DEF Stage
        <4> QED BY <1>1, <2>1, <4>1 DEF Present
      <3> QED BY <1>1, <2>1, <3>1, TypeParts, StillAbsent
    <2> QED BY <1>1, <2>3, <2>4, <2>5, <2>6, <2>7, TypeParts DEF ShellInv
  <1> QED BY <1>4, <1>5

LEMMA PastPipes ==
  ASSUME ShellInv, at \in {"fork", "close", "wait"}
  PROVE  /\ line # <<>> /\ line \in Lines /\ Valid(line) /\ Len(pipes) = Len(line) - 1
         /\ Len(line) \in 1 .. MaxStages /\ Top \in Nat /\ Top >= 2 /\ 2 * Len(pipes) = Top - 2
         /\ \A s \in 1 .. Len(line) : UnderWay(s)
  <1>1. line # <<>> /\ line \in Lines /\ Valid(line) /\ Len(pipes) = Len(line) - 1
    BY TypeParts DEF Loops
  <1>2. Len(line) \in 1 .. MaxStages /\ line \in Seq(Command)
    BY <1>1, TypeParts, LineLength
  <1>3. Top \in Nat /\ Top >= 2 /\ 2 * Len(pipes) = Top - 2
    BY <1>1, <1>2, StageNumbers DEF Top
  <1> QED BY <1>1, <1>2, <1>3, TypeParts DEF UnderWay

LEMMA ForkStep ==
  ASSUME ShellInv, Fork
  PROVE  ShellInv'
  <1>1. at = "fork" /\ UNCHANGED <<line, pipes, made, fill, failed>>
    BY DEF Fork
  <1>2. /\ i \in Nat /\ i >= 1 /\ Len(line) \in Nat /\ i <= Len(line) + 1
        /\ Has(table[0], Stdin, Stdout, NoFile)
        /\ DOMAIN table = Proc /\ table = [p \in Proc |-> table[p]]
        /\ status \in [Stage -> {"absent", "setup", "running", "zombie"}]
        /\ todo \in [Stage -> Seq(CallSet)]
    BY <1>1, TypeParts DEF Loops, ShellTable, Has
  <1>3. PipesAbove' /\ Top' = Top
    BY <1>1, TypeParts DEF PipesAbove, Top
  <1>4. line' # <<>> /\ line' \in Lines /\ Valid(line') /\ Len(pipes') = Len(line') - 1
    BY <1>1, PastPipes
  <1>5. CASE i <= Len(line)
    <2>1. /\ table' = [table EXCEPT ![i] = table[0]] /\ status' = [status EXCEPT ![i] = "setup"]
          /\ todo' = [todo EXCEPT ![i] = Setup(i)] /\ i' = i + 1 /\ at' = at
      BY <1>1, <1>5 DEF Fork
    <2>2. i \in Stage /\ i \in Proc /\ i # 0 /\ 0 \in Proc /\ i \in 1 .. Len(line)
      BY <1>1, <1>2, <1>5, PastPipes, StageNumbers DEF Stage
    <2>3. UnderWay(i)
      BY <1>1, <2>2, PastPipes
    <2>4. Setup(i) = InOn(i) /\ InOn(i) \in Seq(CallSet) /\ Place(i, InOn(i), table[0])
      BY <1>2, <2>3, SetupFromInput, OnTypes, AtIn
    <2>5. /\ table'[0] = table[0] /\ table'[i] = table[0] /\ status'[i] = "setup" /\ todo'[i] = InOn(i)
          /\ \A r \in Stage \ {i} : status'[r] = status[r] /\ todo'[r] = todo[r] /\ table'[r] = table[r]
      BY <1>2, <2>1, <2>2, <2>4, StageNumbers
    <2>6. ShellType'
      <3>1. DOMAIN table' = Proc /\ table' = [p \in Proc |-> table'[p]]
        BY <1>2, <2>1
      <3>2. status' \in [Stage -> {"absent", "setup", "running", "zombie"}]
        BY <1>2, <2>1
      <3>3. todo' \in [Stage -> Seq(CallSet)]
        BY <1>2, <2>1, <2>4
      <3>4. i' \in Nat \ {0}
        BY <1>2, <2>1
      <3> QED BY <1>1, <2>1, <3>1, <3>2, <3>3, <3>4 DEF ShellInv, ShellType
    <2>7. Loops'
      <3>1. i' <= Len(line') + 1
        BY <1>1, <1>2, <1>5, <2>1
      <3> QED BY <1>1, <1>4, <2>1, <3>1 DEF Loops
    <2>8. ShellTable'
      BY <1>1, <1>2, <1>3, <2>1, <2>5 DEF ShellTable, Has
    <2>9. ASSUME NEW s \in Stage PROVE StageOK(s)'
      <3>1. Present(s) <=> s < i
        BY <1>1 DEF Present
      <3>2. Present(s)' <=> s < i + 1
        BY <1>1, <2>1 DEF Present
      <3>3. s \in Nat
        BY StageNumbers
      <3>4. CASE s # i
        <4>1. Present(s)' <=> Present(s)
          BY <1>2, <3>1, <3>2, <3>3, <3>4
        <4> QED BY <1>1, <2>5, <3>4, <4>1, TypeParts, StageKept
      <3>5. CASE s = i
        <4>1. PICK r, q, t : r = i /\ q = InOn(i) /\ t = table[0]
          OBVIOUS
        <4>2. Place(r, q, t)' <=> Place(r, q, t)
          BY <1>1, PlaceKept
        <4>3. Place(s, todo[s], table[s])' <=> Place(r, q, t)'
          BY <2>5, <3>5, <4>1, Zenon
        <4>4. Place(s, todo[s], table[s])'
          BY <2>4, <4>1, <4>2, <4>3, Zenon
        <4>5. Present(s)' /\ status'[s] = "setup"
          BY <1>2, <2>5, <3>2, <3>5
        <4> QED BY <4>4, <4>5 DEF StageOK
      <3> QED BY <3>4, <3>5
    <2> QED BY <1>1, <1>3, <2>6, <2>7, <2>8, <2>9, TypeParts DEF ShellInv
  <1>6. CASE ~(i <= Len(line))
    <2>1. at' = "close" /\ i' = 1 /\ UNCHANGED <<table, status, todo>>
      BY <1>6 DEF Fork, Proceed
    <2>2. i = Len(line) + 1
      BY <1>2, <1>6
    <2>3. ShellType'
      BY <1>1, <2>1 DEF ShellInv, ShellType
    <2>4. Loops'
      <3>1. i' <= Top' - 1
        BY <1>1, <1>3, <2>1, PastPipes
      <3> QED BY <1>4, <2>1, <3>1 DEF Loops
    <2>5. ShellTable'
      <3>1. i' + 1 = 2
        BY <2>1
      <3> QED BY <1>2, <1>3, <2>1, <3>1 DEF ShellTable, Has
    <2>6. ASSUME NEW s \in Stage PROVE StageOK(s)'
      <3>1. Present(s) <=> s < i
        BY <1>1 DEF Present
      <3>2. Present(s)' <=> s <= Len(line)
        BY <1>1, <2>1 DEF Present
      <3>3. Present(s)' <=> Present(s)
        BY <1>2, <2>2, <3>1, <3>2, StageNumbers
      <3> QED BY <1>1, <2>1, <3>3, TypeParts, StageKept
    <2> QED BY <1>1, <1>3, <2>3, <2>4, <2>5, <2>6, TypeParts DEF ShellInv
  <1> QED BY <1>5, <1>6

LEMMA CloseInShellStep ==
  ASSUME ShellInv, CloseInShell
  PROVE  ShellInv'
  <1>1. at = "close" /\ UNCHANGED <<line, pipes, status, todo, made, fill, failed>>
    BY DEF CloseInShell
  <1>2. /\ i \in Nat /\ i >= 1 /\ i <= Top - 1 /\ Table(table[0], Stdin, Stdout, NoFile, i + 1, Top)
        /\ DOMAIN table = Proc /\ table = [p \in Proc |-> table[p]]
        /\ Top \in Nat /\ Top >= 2 /\ 2 * Len(pipes) = Top - 2
    BY <1>1, TypeParts, PastPipes DEF Loops, ShellTable
  <1>3. PipesAbove' /\ Top' = Top
    BY <1>1, TypeParts DEF PipesAbove, Top
  <1>4. line' # <<>> /\ line' \in Lines /\ Valid(line') /\ Len(pipes') = Len(line') - 1
    BY <1>1, PastPipes
  <1>5. CASE i <= 2 * Len(pipes)
    <2>1. table' = [table EXCEPT ![0] = CloseFd(table[0], EndFd(i))] /\ i' = i + 1 /\ at' = at
      BY <1>1, <1>5 DEF CloseInShell
    <2>2. EndFd(i) = i + 2
      <3>1. 1 \in 1 .. Len(line) /\ i \in 1 .. 2 * Len(pipes)
        BY <1>1, <1>2, <1>5, PastPipes
      <3>2. UnderWay(1)
        BY <1>1, <3>1, PastPipes
      <3> QED BY <3>1, <3>2, Ends
    <2>3. Table(CloseFd(table[0], i + 2), Stdin, Stdout, NoFile, i + 2, Top)
      <3>1. PICK lo \in Nat : lo = i + 1
        BY <1>2
      <3>2. lo >= 2 /\ lo < Top /\ lo + 1 = i + 2
        BY <1>2, <1>5, <3>1
      <3>3. Table(CloseFd(table[0], lo + 1), Stdin, Stdout, NoFile, lo + 1, Top)
        BY <1>2, <3>1, <3>2, CloseEnd
      <3> QED BY <3>2, <3>3
    <2>4. /\ table'[0] = CloseFd(table[0], i + 2) /\ \A r \in Stage : table'[r] = table[r]
      BY <1>2, <2>1, <2>2, StageNumbers
    <2>5. DOMAIN table' = Proc /\ table' = [p \in Proc |-> table'[p]]
      BY <1>2, <2>1
    <2>6. ShellType'
      BY <1>1, <1>2, <2>1, <2>5 DEF ShellInv, ShellType
    <2>7. Loops'
      <3>1. i' <= Top' - 1
        BY <1>2, <1>3, <1>5, <2>1
      <3> QED BY <1>1, <1>4, <2>1, <3>1 DEF Loops
    <2>8. ShellTable'
      <3>1. i' + 1 = i + 2
        BY <1>2, <2>1
      <3> QED BY <1>1, <1>3, <2>1, <2>3, <2>4, <3>1 DEF ShellTable
    <2>9. ASSUME NEW s \in Stage PROVE StageOK(s)'
      <3>1. Present(s)' <=> Present(s)
        BY <1>1, <2>1 DEF Present
      <3> QED BY <1>1, <2>4, <3>1, TypeParts, StageKept
    <2> QED BY <1>1, <1>3, <2>6, <2>7, <2>8, <2>9, TypeParts DEF ShellInv
  <1>6. CASE ~(i <= 2 * Len(pipes))
    <2>1. at' = "wait" /\ i' = 1 /\ UNCHANGED table
      BY <1>6 DEF CloseInShell, Proceed
    <2>2. i + 1 = Top
      BY <1>2, <1>6
    <2>3. Table(table[0], Stdin, Stdout, NoFile, 2, 2)
      BY <1>2, <2>2, AllClosed
    <2>4. ShellType'
      BY <1>1, <2>1 DEF ShellInv, ShellType
    <2>5. Loops'
      <3>1. i' <= Len(line') + 1
        BY <1>1, <2>1, TypeParts
      <3> QED BY <1>4, <2>1, <3>1 DEF Loops
    <2>6. ShellTable'
      BY <2>1, <2>3 DEF ShellTable
    <2>7. ASSUME NEW s \in Stage PROVE StageOK(s)'
      <3>1. s \in Nat /\ 1 <= s
        BY StageNumbers DEF Stage
      <3>2. Present(s)' <=> Present(s)
        BY <1>1, <2>1, <3>1 DEF Present
      <3> QED BY <1>1, <2>1, <3>2, TypeParts, StageKept
    <2> QED BY <1>1, <1>3, <2>4, <2>5, <2>6, <2>7, TypeParts DEF ShellInv
  <1> QED BY <1>5, <1>6

LEMMA WaitStep ==
  ASSUME ShellInv, Wait
  PROVE  ShellInv'
  <1>1. at = "wait" /\ UNCHANGED <<todo, fill, failed>>
    BY DEF Wait
  <1>2. /\ i \in Nat /\ i >= 1 /\ Len(line) \in Nat /\ i <= Len(line) + 1
        /\ Table(table[0], Stdin, Stdout, NoFile, 2, 2)
        /\ DOMAIN table = Proc /\ table = [p \in Proc |-> table[p]]
        /\ status \in [Stage -> {"absent", "setup", "running", "zombie"}]
        /\ todo \in [Stage -> Seq(CallSet)]
    BY <1>1, TypeParts DEF Loops, ShellTable
  <1>3. CASE i <= Len(line)
    <2>1. /\ status[i] = "zombie" /\ status' = [status EXCEPT ![i] = "absent"]
          /\ table' = [table EXCEPT ![i] = NoTable] /\ i' = i + 1 /\ UNCHANGED <<line, at, pipes>>
      BY <1>3 DEF Wait, Reap
    <2>2. i \in Stage /\ i \in Proc /\ i # 0 /\ 0 \in Proc
      BY <1>1, <1>2, <1>3, PastPipes, StageNumbers DEF Stage
    <2>3. /\ table'[0] = table[0] /\ table'[i] = NoTable /\ status'[i] = "absent"
          /\ \A r \in Stage \ {i} : status'[r] = status[r] /\ table'[r] = table[r]
      BY <1>2, <2>1, <2>2, StageNumbers
    <2>4. todo[i] = <<>>
      BY <2>1, <2>2, TypeParts DEF StageOK
    <2>5. ShellType'
      <3>1. DOMAIN table' = Proc /\ table' = [p \in Proc |-> table'[p]]
        BY <1>2, <2>1
      <3>2. status' \in [Stage -> {"absent", "setup", "running", "zombie"}]
        BY <1>2, <2>1
      <3>3. i' \in Nat \ {0}
        BY <1>2, <2>1
      <3> QED BY <1>1, <2>1, <3>1, <3>2, <3>3 DEF ShellInv, ShellType
    <2>6. Loops'
      <3>1. i' <= Len(line') + 1
        BY <1>2, <1>3, <2>1
      <3>2. line' # <<>> /\ line' \in Lines /\ Valid(line') /\ Len(pipes') = Len(line') - 1
        BY <1>1, <2>1, PastPipes
      <3> QED BY <1>1, <2>1, <3>1, <3>2 DEF Loops
    <2>7. PipesAbove'
      BY <2>1, TypeParts DEF PipesAbove
    <2>8. ShellTable'
      BY <1>1, <1>2, <2>1, <2>3 DEF ShellTable
    <2>9. ASSUME NEW s \in Stage PROVE StageOK(s)'
      <3>1. Present(s) <=> i <= s /\ s <= Len(line)
        BY <1>1 DEF Present
      <3>2. Present(s)' <=> i + 1 <= s /\ s <= Len(line)
        BY <1>1, <2>1 DEF Present
      <3>3. s \in Nat
        BY StageNumbers
      <3>4. CASE s # i
        <4>1. Present(s)' <=> Present(s)
          BY <1>2, <3>1, <3>2, <3>3, <3>4
        <4> QED BY <1>1, <2>1, <2>3, <3>4, <4>1, TypeParts, StageKept
      <3>5. CASE s = i
        <4>1. ~Present(s)'
          BY <1>2, <3>2, <3>5
        <4>2. NoTable' = NoTable
          BY DEF NoTable
        <4> QED BY <1>1, <2>3, <2>4, <3>5, <4>1, <4>2 DEF StageOK
      <3> QED BY <3>4, <3>5
    <2> QED BY <1>1, <2>5, <2>6, <2>7, <2>8, <2>9, TypeParts DEF ShellInv
  <1>4. CASE ~(i <= Len(line))
    <2>1. line' = <<>> /\ pipes' = <<>> /\ at' = "prompt" /\ i' = 1 /\ UNCHANGED <<table, status>>
      BY <1>4 DEF Wait, Prompt, Proceed
    <2>2. ShellType'
      <3>1. <<>> \in Seq(Command) /\ <<>> \in Seq(Seq(Nat))
        OBVIOUS
      <3> QED BY <1>1, <1>2, <2>1, <3>1 DEF ShellType
    <2>3. Loops'
      BY <2>1 DEF Loops
    <2>4. PipesAbove'
      <3>1. Len(pipes') = 0
        BY <2>1
      <3> QED BY <3>1 DEF PipesAbove
    <2>5. ShellTable'
      BY <1>2, <2>1 DEF ShellTable
    <2>6. ASSUME NEW s \in Stage PROVE StageOK(s)'
      <3>1. s \in Nat /\ ~Present(s)'
        BY <2>1, StageNumbers DEF Present
      <3>2. ~Present(s)
        BY <1>1, <1>2, <1>4, <3>1 DEF Present
      <3> QED BY <1>1, <2>1, <3>1, <3>2, TypeParts, StillAbsent
    <2> QED BY <1>1, <2>2, <2>3, <2>4, <2>5, <2>6, TypeParts DEF ShellInv
  <1> QED BY <1>3, <1>4

----------------------------------------------------------------------------
LEMMA ShellStart ==
  ASSUME Init
  PROVE  ShellInv
  <1>1. /\ line = <<>> /\ at = "prompt" /\ i = 1 /\ pipes = <<>> /\ failed = {}
        /\ table = [p \in Proc |-> IF p = 0 THEN InitialTable ELSE NoTable]
        /\ status = [s \in Stage |-> "absent"] /\ todo = [s \in Stage |-> <<>>]
    BY DEF Init
  <1>2. table[0] = InitialTable /\ \A s \in Stage : table[s] = NoTable
    BY <1>1, StageNumbers
  <1>3. ShellType
    <2>1. /\ <<>> \in Seq(Command) /\ <<>> \in Seq(Seq(Nat)) /\ <<>> \in Seq(CallSet)
      OBVIOUS
    <2>2. DOMAIN table = Proc /\ table = [p \in Proc |-> table[p]]
      BY <1>1
    <2>3. todo \in [Stage -> Seq(CallSet)]
      BY <1>1, <2>1
    <2> QED BY <1>1, <2>1, <2>2, <2>3 DEF ShellType
  <1>4. Loops
    BY <1>1 DEF Loops
  <1>5. PipesAbove
    <2>1. Len(pipes) = 0
      BY <1>1
    <2> QED BY <2>1 DEF PipesAbove
  <1>6. ShellTable
    BY <1>1, <1>2, InitialThree DEF ShellTable
  <1>7. ASSUME NEW s \in Stage PROVE StageOK(s)
    BY <1>1, <1>2 DEF StageOK, Present
  <1> QED BY <1>1, <1>3, <1>4, <1>5, <1>6, <1>7 DEF ShellInv

LEMMA ShellStep ==
  ASSUME ShellInv, [Next]_vars
  PROVE  ShellInv'
  <1>1. ASSUME NEW l \in Lines, ReadLine(l) PROVE ShellInv'
    BY <1>1, ReadLineStep
  <1>2. CASE MakePipe
    BY <1>2, MakePipeStep
  <1>3. CASE Fork
    BY <1>3, ForkStep
  <1>4. CASE CloseInShell
    BY <1>4, CloseInShellStep
  <1>5. CASE Wait
    BY <1>5, WaitStep
  <1>6. ASSUME NEW s \in Stage, RunStage(s) PROVE ShellInv'
    BY <1>6, OpenCallStep, CloseCallStep, DupCallStep, ExecCallStep, ProgramStep, TransferStep, ExitCallStep
       DEF RunStage
  <1>7. CASE UNCHANGED vars
    <2>1. /\ line' = line /\ at' = at /\ i' = i /\ pipes' = pipes /\ table' = table /\ status' = status
          /\ todo' = todo /\ failed' = failed
      BY <1>7 DEF vars
    <2>2. ShellType' /\ Loops' /\ PipesAbove' /\ ShellTable'
      BY <2>1 DEF ShellInv, ShellType, Loops, Valid, PipesAbove, ShellTable, Top
    <2>3. ASSUME NEW s \in Stage PROVE StageOK(s)'
      <3>1. Present(s)' <=> Present(s)
        BY <2>1 DEF Present
      <3> QED BY <2>1, <3>1, TypeParts, StageKept
    <2> QED BY <2>1, <2>2, <2>3, TypeParts DEF ShellInv
  <1> QED BY <1>1, <1>2, <1>3, <1>4, <1>5, <1>6, <1>7 DEF Next, RunShell

\* The inductive invariant holds: from fork to exec a child's table and the calls it has
\* still to make go together, and the shell's table and its loops do.
THEOREM ShellInvariance == Spec => []ShellInv
  BY ShellStart, ShellStep, PTL DEF Spec

\* Whatever line is typed, however long, every program starts with its neighbours' pipe
\* ends or its redirections at 0 and 1 and with no other end of a pipe, and the child's
\* assert_eq! on the result of dup (user_shell.rs) never fails.
THEOREM WiringSafety == Spec => []WiredRight
  <1>1. ShellInv => WiredRight
    <2>1. ASSUME ShellInv, NEW s \in Stage, status[s] = "running"
          PROVE  /\ Open(table[s]) = 0 .. 2
                 /\ table[s][0] = Source(s) /\ table[s][1] = Target(s) /\ table[s][2] = Stdout
      <3>1. Table(table[s], Source(s), Target(s), NoFile, 2, 2)
        BY <2>1 DEF ShellInv, StageOK
      <3>2. Source(s) # NoFile /\ Target(s) # NoFile
        BY <2>1, Here, Wiring
      <3> QED BY <3>1, <3>2, ThreeOpen
    <2> QED BY <2>1 DEF WiredRight, ShellInv
  <1> QED BY <1>1, ShellInvariance, PTL

\* Back at the prompt the shell has its three descriptors and no others, and every child
\* and its table is gone, however the stages of the line have ended.
THEOREM PromptSafety == Spec => []PromptIsClean
  <1>1. ShellInv => PromptIsClean
    <2>1. SUFFICES ASSUME ShellInv, at = "prompt"
                   PROVE  /\ Open(table[0]) = 0 .. 2
                          /\ \A fd \in 0 .. 2 : table[0][fd] = InitialTable[fd]
                          /\ \A s \in Stage : status[s] = "absent" /\ table[s] = NoTable
      BY DEF PromptIsClean
    <2>2. Open(table[0]) = 0 .. 2 /\ table[0][0] = Stdin /\ table[0][1] = Stdout /\ table[0][2] = Stdout
      <3>1. Table(table[0], Stdin, Stdout, NoFile, 2, 2)
        BY <2>1, TypeParts DEF ShellTable
      <3> QED BY <3>1, FileFacts, ThreeOpen
    <2>3. InitialTable[0] = Stdin /\ InitialTable[1] = Stdout /\ InitialTable[2] = Stdout
      BY DEF InitialTable
    <2>4. ASSUME NEW fd \in 0 .. 2 PROVE table[0][fd] = InitialTable[fd]
      <3>1. fd = 0 \/ fd = 1 \/ fd = 2
        OBVIOUS
      <3> QED BY <2>2, <2>3, <3>1
    <2>5. ASSUME NEW s \in Stage PROVE status[s] = "absent" /\ table[s] = NoTable
      <3>1. ~Present(s)
        BY <2>1 DEF Present
      <3> QED BY <2>1, <3>1, TypeParts DEF StageOK
    <2> QED BY <2>2, <2>4, <2>5
  <1> QED BY <1>1, ShellInvariance, PTL
==============================================================================
