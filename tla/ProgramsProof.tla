--------------------------- MODULE ProgramsProof ----------------------------
(***************************************************************************)
(* The user programs' side: the emulation on a Linux host, fish's list of  *)
(* blinking characters, and the programs that read files.                  *)
(*                                                                         *)
(* Emulation: whatever a program has open is open for Linux too, so that   *)
(* no number given away again is one of the pair's.                        *)
(*                                                                         *)
(* Blink: the links lead through exactly the slots in use, each once, so   *)
(* that they are a list, and each operation on the links is one on the     *)
(* list.                                                                   *)
(*                                                                         *)
(* FilePrograms: between two calls each program has shown what belongs to  *)
(* the part of its files that it has read.  cat and ls have shown just     *)
(* that.  grep's buffer holds a part of the file that begins at a line's   *)
(* start, all that is searched lies before it, and what is shown is what   *)
(* the references find in that.  fish has read both frames to the same     *)
(* place of the screen, or one of them to the end of its line or its text  *)
(* before it.                                                              *)
(***************************************************************************)
EXTENDS Emulation, Blink, FilePrograms, WellFoundedInduction,
        FiniteSetTheorems, SequenceTheorems, TLAPS

-----------------------------------------------------------------------------
\* The natural numbers are well ordered: the relation and what it relates.
LEMMA LessThan ==
    \E R : /\ IsWellFoundedOn(R, Nat)
           /\ \A m, n \in Nat : m < n <=> <<m, n>> \in R
<1> DEFINE R == OpToRel(<, Nat)
<1>1. IsWellFoundedOn(R, Nat)
  BY NatLessThanWellFounded
<1>2. \A m, n \in Nat : m < n <=> <<m, n>> \in R
  BY Zenon DEF OpToRel
<1> QED
  BY <1>1, <1>2

\* A set of natural numbers that is not empty has a least one.
LEMMA Least ==
    ASSUME NEW T, T \subseteq Nat, T # {}
    PROVE  \E least \in T : \A n \in T : least <= n
<1>1. PICK R : /\ IsWellFoundedOn(R, Nat)
               /\ \A m, n \in Nat : m < n <=> <<m, n>> \in R
  BY LessThan
<1>2. IsWellFoundedOn(R, Nat)
  BY <1>1
<1>3. PICK least \in T : \A n \in T : ~ (<<n, least>> \in R)
  BY <1>2, WFMin, Zenon
<1>4. \A n \in T : ~ (n < least)
  BY <1>1, <1>3
<1> QED
  BY <1>4

\* Induction, for the set of numbers that have a property.
LEMMA UpFromZero ==
    ASSUME NEW S, 0 \in S, \A n \in Nat : n \in S => n + 1 \in S
    PROVE  \A n \in Nat : n \in S
<1> SUFFICES ASSUME Nat \ S # {} PROVE FALSE
  OBVIOUS
<1>1. PICK n \in Nat \ S : \A m \in Nat \ S : n <= m
  BY Least
<1>2. n # 0 /\ n - 1 \in Nat /\ (n - 1) + 1 = n
  BY <1>1
<1>3. n - 1 \in S
  BY <1>1, <1>2
<1> QED
  BY <1>1, <1>2, <1>3

\* Two intervals from 1 on that are one end at the same number.
LEMMA SameEnd ==
    ASSUME NEW m \in Nat, NEW n \in Nat,
           \A i \in 1 .. m : i \in 1 .. n, \A i \in 1 .. n : i \in 1 .. m
    PROVE  m = n
<1>1. m # 0 => m \in 1 .. n
  OBVIOUS
<1>2. n # 0 => n \in 1 .. m
  OBVIOUS
<1> QED
  BY <1>1, <1>2

\* A set of numbers up to some number has a greatest one.
LEMMA Greatest ==
    ASSUME NEW n \in Nat, NEW T, T \subseteq 1 .. n, T # {}
    PROVE  \E most \in T : \A i \in T : i <= most
<1> DEFINE U == {m \in 0 .. n : \E i \in T : m = n - i}
<1>1. U \subseteq Nat /\ U # {}
  <2>1. PICK i \in T : i \in 1 .. n
    OBVIOUS
  <2>2. n - i \in U
    BY <2>1
  <2> QED
    BY <2>2
<1>2. PICK least \in U : \A m \in U : least <= m
  BY <1>1, Least
<1>3. n - least \in T
  BY <1>2
<1>4. ASSUME NEW i \in T PROVE n - i \in U
  <2>1. i \in 1 .. n /\ n - i \in 0 .. n
    OBVIOUS
  <2> QED
    BY <2>1
<1> QED
  BY <1>2, <1>3, <1>4

-----------------------------------------------------------------------------
\* Sequences that are written as functions.
IsTuple(f, n) == n \in Nat /\ f = [i \in 1 .. n |-> f[i]]

\* Their length is what it seems.
LEMMA TupleLength ==
    ASSUME NEW n, NEW f, IsTuple(f, n)
    PROVE  /\ Len(f) = n /\ DOMAIN f = 1 .. n
           /\ f \in Seq({f[i] : i \in 1 .. n})
<1> DEFINE S == {f[i] : i \in 1 .. n}
<1>1. f \in [1 .. n -> S] /\ n \in Nat
  BY DEF IsTuple
<1>2. f \in Seq(S)
  BY <1>1
<1>3. Len(f) \in Nat /\ DOMAIN f = 1 .. Len(f) /\ DOMAIN f = 1 .. n
  BY <1>1, <1>2, LenProperties
<1>4. Len(f) = n
  <2>1. 1 .. Len(f) = 1 .. n
    BY <1>3
  <2> QED
    BY <1>1, <1>3, <2>1, SameEnd, Zenon
<1> QED
  BY <1>2, <1>3, <1>4

\* An element in front.
LEMMA InFront ==
    ASSUME NEW n, NEW f, IsTuple(f, n), NEW x
    PROVE  <<x>> \o f = [i \in 1 .. n + 1 |-> IF i = 1 THEN x ELSE f[i - 1]]
<1> DEFINE S == {f[i] : i \in 1 .. n} \cup {x}
<1>1. Len(f) = n /\ n \in Nat /\ DOMAIN f = 1 .. n /\ f \in Seq({f[i] : i \in 1 .. n})
  BY TupleLength DEF IsTuple
<1>2. f \in Seq(S) /\ <<x>> \in Seq(S) /\ Len(<<x>>) = 1 /\ <<x>>[1] = x
  BY <1>1, SeqMonotonic
<1> HIDE DEF S
<1>3. /\ <<x>> \o f \in Seq(S) /\ Len(<<x>> \o f) = 1 + n
      /\ \A i \in 1 .. 1 + n : (<<x>> \o f)[i] = IF i <= 1 THEN <<x>>[i] ELSE f[i - 1]
  BY <1>1, <1>2, ConcatProperties
<1>4. <<x>> \o f = [i \in 1 .. n + 1 |-> (<<x>> \o f)[i]]
  BY <1>1, <1>3, LenProperties
<1>5. \A i \in 1 .. n + 1 : (<<x>> \o f)[i] = IF i = 1 THEN x ELSE f[i - 1]
  BY <1>1, <1>2, <1>3
<1> QED
  BY <1>4, <1>5

\* An element less.
LEMMA OneLess ==
    ASSUME NEW n, NEW f, IsTuple(f, n), NEW k \in 1 .. n
    PROVE  /\ IsTuple(SubSeq(f, 1, k - 1) \o SubSeq(f, k + 1, n), n - 1)
           /\ \A i \in 1 .. n - 1 :
                (SubSeq(f, 1, k - 1) \o SubSeq(f, k + 1, n))[i]
                  = IF i < k THEN f[i] ELSE f[i + 1]
<1> DEFINE S == {f[i] : i \in 1 .. n}
           p == SubSeq(f, 1, k - 1)
           q == SubSeq(f, k + 1, n)
<1>1. n \in Nat /\ k \in Nat /\ \A i \in 1 .. n : f[i] \in S
  BY DEF IsTuple
<1> HIDE DEF S
<1>2. /\ p \in Seq(S) /\ Len(p) = k - 1 /\ \A i \in 1 .. k - 1 : p[i] = f[i]
  <2>1. \A i \in 1 .. k - 1 : f[i] \in S
    BY <1>1
  <2>2. /\ p \in Seq(S) /\ Len(p) = IF 1 <= k - 1 THEN (k - 1) - 1 + 1 ELSE 0
        /\ \A i \in 1 .. (k - 1) - 1 + 1 : p[i] = f[1 + i - 1]
    BY <1>1, <2>1, SubSeqProperties
  <2> HIDE DEF p
  <2> QED
    BY <1>1, <2>2
<1>3. /\ q \in Seq(S) /\ Len(q) = n - k /\ \A i \in 1 .. n - k : q[i] = f[k + i]
  <2>1. \A i \in k + 1 .. n : f[i] \in S
    BY <1>1
  <2>2. /\ q \in Seq(S) /\ Len(q) = IF k + 1 <= n THEN n - (k + 1) + 1 ELSE 0
        /\ \A i \in 1 .. n - (k + 1) + 1 : q[i] = f[k + 1 + i - 1]
    BY <1>1, <2>1, SubSeqProperties
  <2> HIDE DEF q
  <2> QED
    BY <1>1, <2>2
<1> HIDE DEF p, q
<1>4. /\ p \o q \in Seq(S) /\ Len(p \o q) = (k - 1) + (n - k)
      /\ \A i \in 1 .. (k - 1) + (n - k) : (p \o q)[i] =
            IF i <= k - 1 THEN p[i] ELSE q[i - (k - 1)]
  <2>1. /\ p \o q \in Seq(S) /\ Len(p \o q) = Len(p) + Len(q)
        /\ \A i \in 1 .. Len(p) + Len(q) : (p \o q)[i] =
              IF i <= Len(p) THEN p[i] ELSE q[i - Len(p)]
    BY <1>2, <1>3, ConcatProperties
  <2> QED
    BY <1>2, <1>3, <2>1
<1>5. p \o q = [i \in 1 .. n - 1 |-> (p \o q)[i]]
  <2>1. p \o q \in [1 .. Len(p \o q) -> S] /\ Len(p \o q) = n - 1
    <3>1. p \o q \in Seq(S)
      BY <1>4
    <3>2. Len(p \o q) = n - 1
      BY <1>1, <1>4
    <3> QED
      BY <3>1, <3>2, LenProperties
  <2> QED
    BY <2>1
<1>6. ASSUME NEW i \in 1 .. n - 1
      PROVE  (p \o q)[i] = IF i < k THEN f[i] ELSE f[i + 1]
  <2>1. i \in 1 .. (k - 1) + (n - k)
    BY <1>1
  <2>2. CASE i < k
    BY <1>1, <1>2, <1>4, <2>1, <2>2
  <2>3. CASE ~ (i < k)
    <3>1. (p \o q)[i] = q[i - (k - 1)]
      BY <1>1, <1>4, <2>1, <2>3
    <3>2. i - (k - 1) \in 1 .. n - k /\ k + (i - (k - 1)) = i + 1
      BY <1>1, <2>3
    <3> QED
      BY <1>3, <2>3, <3>1, <3>2
  <2> QED
    BY <2>2, <2>3
<1>7. IsTuple(p \o q, n - 1)
  BY <1>1, <1>5 DEF IsTuple
<1> QED
  BY <1>6, <1>7 DEF p, q

-----------------------------------------------------------------------------
\* Linux gives a free descriptor if there is one.
LEMMA LowestIsFree ==
    ASSUME NEW table, FreeFds(table) # {}
    PROVE  Lowest(table) \in FreeFds(table)
<1>1. FreeFds(table) \subseteq Nat
  BY NamesAssumption DEF FreeFds, Fds
<1>2. \E fd \in FreeFds(table) : \A g \in FreeFds(table) : fd <= g
  BY <1>1, Least
<1> QED
  BY <1>2 DEF Lowest

\* What a descriptor can be open on, for Linux and for the program.
OpenOn == {"free", "terminal", "stream", "/dev/null", "/dev/mem"} \cup HostFiles
Named == HostFiles \cup {"."}

\* What the table is after a descriptor has been taken, or not.
LEMMA TakenTable ==
    ASSUME NEW table \in [Fds -> OpenOn], NEW what \in OpenOn
    PROVE  \/ /\ FreeFds(table) = {} /\ Lowest(table) = NoDescriptor
              /\ Taken(table, what) = table
           \/ /\ Lowest(table) \in Fds /\ table[Lowest(table)] = "free"
              /\ FreeFds(table) # {}
              /\ Taken(table, what) = [table EXCEPT ![Lowest(table)] = what]
              /\ Taken(table, what) \in [Fds -> OpenOn]
<1>1. CASE FreeFds(table) = {}
  BY <1>1 DEF Lowest, Taken
<1>2. CASE FreeFds(table) # {}
  <2>1. Lowest(table) \in FreeFds(table)
    BY <1>2, LowestIsFree
  <2> QED
    BY <1>2, <2>1 DEF Taken, FreeFds
<1> QED
  BY <1>1, <1>2

HostTyped ==
    /\ linux \in [Fds -> OpenOn]
    /\ dir \in Seq(STRING) \cup {NULL} /\ owed \in Seq(STRING)
    /\ stream \in Fds \cup {NoDescriptor} /\ dir_fd \in Fds \cup {NoDescriptor}
    /\ mem_fd \in Fds \cup {NoDescriptor}
    /\ DOMAIN open_on \subseteq Fds
    /\ open_on \in [DOMAIN open_on -> Named]
    /\ twice \in BOOLEAN

\* Linux's table has what the program has opened, and the stream besides.
Owned ==
    \A fd \in DOMAIN open_on :
        linux[fd] = IF open_on[fd] = "." THEN "/dev/null" ELSE open_on[fd]

\* The pair is of a stream that is open and a directory that is.
PairIsOpen ==
    dir # NULL =>
        /\ stream \in Fds /\ linux[stream] = "stream"
        /\ dir_fd # NoDescriptor => dir_fd \in DOMAIN open_on /\ open_on[dir_fd] = "."

\* The one directory is that of the pair, and the stream is where it should be.
OneDirectory ==
    ~twice => \A fd \in DOMAIN open_on :
                  open_on[fd] = "." => IsDirectory(fd) /\ dir = owed

HostInv == HostTyped /\ Owned /\ PairIsOpen /\ OneDirectory

\* The program starts with nothing open.
LEMMA HostInitial == HostInit => HostInv
<1> SUFFICES ASSUME HostInit PROVE HostInv
  OBVIOUS
<1>1. linux \in [Fds -> OpenOn]
  BY DEF HostInit, OpenOn
<1>2. DOMAIN open_on = {} /\ open_on \in [DOMAIN open_on -> Named]
  BY DEF HostInit
<1>3. owed \in Seq(STRING)
  BY DEF HostInit
<1> QED
  BY <1>1, <1>2, <1>3
     DEF HostInit, HostInv, HostTyped, Owned, PairIsOpen, OneDirectory

\* A descriptor that was free is given to the program.
LEMMA OpenedKeeps ==
    ASSUME HostTyped, NEW fd \in Fds \cup {NoDescriptor}, NEW name \in Named,
           Opened(fd, name)
    PROVE  /\ DOMAIN open_on' \subseteq Fds
           /\ open_on' \in [DOMAIN open_on' -> Named]
           /\ fd = NoDescriptor => open_on' = open_on
           /\ fd # NoDescriptor =>
                /\ DOMAIN open_on' = DOMAIN open_on \cup {fd}
                /\ \A g \in DOMAIN open_on' :
                      open_on'[g] = IF g = fd THEN name ELSE open_on[g]
  BY DEF HostTyped, Opened, NoDescriptor

\* The descriptor of a file is free before it is taken.
LEMMA OpenKeeps ==
    ASSUME HostInv, NEW filename \in HostFiles, open(filename)
    PROVE  HostInv'
<1>1. filename \in OpenOn /\ filename \in Named /\ filename # "."
  BY NamesAssumption DEF OpenOn, Named
<1>2. linux \in [Fds -> OpenOn] /\ HostTyped
  BY DEF HostInv, HostTyped
<1>3. linux' = Taken(linux, filename) /\ Opened(Lowest(linux), filename)
  BY DEF open
<1>4. CASE FreeFds(linux) = {} /\ Lowest(linux) = NoDescriptor
           /\ Taken(linux, filename) = linux
  <2>1. open_on' = open_on /\ linux' = linux
    BY <1>3, <1>4 DEF Opened
  <2> QED
    BY <2>1 DEF open, HostInv, HostTyped, Owned, PairIsOpen, OneDirectory, IsDirectory
<1>5. CASE /\ Lowest(linux) \in Fds /\ linux[Lowest(linux)] = "free"
           /\ Taken(linux, filename) = [linux EXCEPT ![Lowest(linux)] = filename]
           /\ Taken(linux, filename) \in [Fds -> OpenOn]
  <2> DEFINE fd == Lowest(linux)
  <2>1. fd # NoDescriptor
    BY <1>5 DEF Fds, NoDescriptor
  <2>2. /\ DOMAIN open_on' \subseteq Fds
        /\ open_on' \in [DOMAIN open_on' -> Named]
        /\ DOMAIN open_on' = DOMAIN open_on \cup {fd}
        /\ \A g \in DOMAIN open_on' :
              open_on'[g] = IF g = fd THEN filename ELSE open_on[g]
    BY <1>1, <1>2, <1>3, <1>5, <2>1, OpenedKeeps
  <2>3. /\ linux' \in [Fds -> OpenOn] /\ linux'[fd] = filename
        /\ \A g \in Fds : g # fd => linux'[g] = linux[g]
    BY <1>2, <1>3, <1>5
  <2>4. fd \notin DOMAIN open_on
    BY <1>2, <1>5, NamesAssumption DEF HostInv, HostTyped, Owned, Named
  <2>5. HostTyped'
    BY <1>2, <2>2, <2>3 DEF open, HostTyped
  <2>6. Owned'
    <3> SUFFICES ASSUME NEW g \in DOMAIN open_on'
                 PROVE  linux'[g] = IF open_on'[g] = "." THEN "/dev/null"
                                    ELSE open_on'[g]
      BY DEF Owned
    <3>1. CASE g = fd
      BY <1>1, <2>2, <2>3, <3>1
    <3>2. CASE g # fd
      BY <2>2, <2>3, <3>2, <1>2 DEF HostInv, Owned
    <3> QED
      BY <3>1, <3>2
  <2>7. PairIsOpen' /\ OneDirectory'
    BY <1>1, <1>2, <1>5, <2>2, <2>3, <2>4
       DEF open, HostInv, HostTyped, PairIsOpen, OneDirectory, IsDirectory, NoDescriptor
  <2> QED
    BY <2>5, <2>6, <2>7 DEF HostInv
<1>6. \/ FreeFds(linux) = {} /\ Lowest(linux) = NoDescriptor
           /\ Taken(linux, filename) = linux
      \/ /\ Lowest(linux) \in Fds /\ linux[Lowest(linux)] = "free"
         /\ Taken(linux, filename) = [linux EXCEPT ![Lowest(linux)] = filename]
         /\ Taken(linux, filename) \in [Fds -> OpenOn]
  BY <1>1, <1>2, TakenTable
<1> QED
  BY <1>4, <1>5, <1>6

\* A read takes from the stream what it takes from the directory.
LEMMA ReadKeeps ==
    ASSUME HostInv, NEW fd \in DOMAIN open_on, read(fd)
    PROVE  HostInv'
<1> DEFINE Less(s) == IF s # <<>> THEN Tail(s) ELSE s
<1>0. \A s \in Seq(STRING) : Less(s) \in Seq(STRING)
  BY HeadTailProperties
<1>1. HostTyped'
  <2>1. dir' \in Seq(STRING) \cup {NULL}
    BY <1>0 DEF HostInv, HostTyped, read, IsDirectory
  <2>2. owed' \in Seq(STRING)
    BY <1>0 DEF HostInv, HostTyped, read
  <2> QED
    BY <2>1, <2>2 DEF HostInv, HostTyped, read
<1>2. Owned'
  BY DEF HostInv, Owned, read
<1>3. dir' # NULL <=> dir # NULL
  BY <1>0, NamesAssumption DEF HostInv, HostTyped, read, IsDirectory
<1>4. PairIsOpen'
  BY <1>3 DEF HostInv, PairIsOpen, read
<1>5. OneDirectory'
  <2> SUFFICES ASSUME ~twice, NEW g \in DOMAIN open_on, open_on[g] = "."
               PROVE  IsDirectory(g)' /\ dir' = owed'
    BY DEF OneDirectory, read
  <2>1. IsDirectory(g) /\ dir = owed
    BY DEF HostInv, OneDirectory
  <2>2. IsDirectory(fd) <=> open_on[fd] = "."
    BY DEF HostInv, HostTyped, OneDirectory, PairIsOpen, IsDirectory, NoDescriptor, Fds
  <2> QED
    BY <1>3, <2>1, <2>2 DEF read, IsDirectory
<1> QED
  BY <1>1, <1>2, <1>4, <1>5 DEF HostInv

\* The stream and its descriptor go together.
LEMMA CloseKeeps ==
    ASSUME HostInv, NEW fd \in DOMAIN open_on, close(fd)
    PROVE  HostInv'
<1>1. /\ fd \in Fds /\ linux \in [Fds -> OpenOn]
      /\ DOMAIN open_on' = DOMAIN open_on \ {fd}
      /\ \A g \in DOMAIN open_on' : open_on'[g] = open_on[g]
      /\ open_on' \in [DOMAIN open_on' -> Named]
      /\ UNCHANGED <<stream, mem_fd, owed, twice>>
  BY DEF HostInv, HostTyped, close, Closed
<1>2. CASE ~IsDirectory(fd)
  <2>1. /\ linux' = [linux EXCEPT ![fd] = "free"] /\ linux' \in [Fds -> OpenOn]
        /\ UNCHANGED <<dir, dir_fd>>
    BY <1>1, <1>2 DEF close, __ece391_close, OpenOn
  <2>2. HostTyped' /\ Owned'
    BY <1>1, <2>1 DEF HostInv, HostTyped, Owned
  <2>3. dir # NULL => stream # fd
    BY NamesAssumption DEF HostInv, HostTyped, PairIsOpen, Owned, Named
  <2>4. PairIsOpen'
    BY <1>1, <1>2, <2>1, <2>3 DEF HostInv, PairIsOpen, IsDirectory
  <2>5. OneDirectory'
    BY <1>1, <2>1 DEF HostInv, OneDirectory, IsDirectory
  <2> QED
    BY <2>2, <2>4, <2>5 DEF HostInv
<1>3. CASE IsDirectory(fd)
  <2>1. /\ dir # NULL /\ dir_fd = fd
        /\ stream \in Fds /\ linux[stream] = "stream" /\ open_on[fd] = "."
    BY <1>1, <1>3 DEF HostInv, PairIsOpen, IsDirectory, NoDescriptor, Fds
  <2>2. /\ linux' = [[linux EXCEPT ![stream] = "free"] EXCEPT ![fd] = "free"]
        /\ dir' = NULL /\ dir_fd' = NoDescriptor
    BY <1>1, <1>3, <2>1 DEF close, __ece391_close
  <2>3. /\ linux' \in [Fds -> OpenOn]
        /\ \A g \in Fds \ {fd, stream} : linux'[g] = linux[g]
    BY <1>1, <2>1, <2>2 DEF OpenOn
  <2>4. stream \notin DOMAIN open_on
    BY <2>1, NamesAssumption DEF HostInv, HostTyped, Owned, Named
  <2>5. HostTyped'
    BY <1>1, <2>2, <2>3 DEF HostInv, HostTyped
  <2>6. Owned'
    BY <1>1, <2>3, <2>4 DEF HostInv, HostTyped, Owned
  <2>7. PairIsOpen'
    BY <2>2 DEF PairIsOpen
  <2>8. OneDirectory'
    BY <1>1, <2>1 DEF HostInv, OneDirectory, IsDirectory
  <2> QED
    BY <2>5, <2>6, <2>7, <2>8 DEF HostInv
<1> QED
  BY <1>2, <1>3

\* Any other descriptor that Linux gives away leaves the pair alone.
LEMMA VidmapKeeps ==
    ASSUME HostInv, vidmap
    PROVE  HostInv'
<1>1. "/dev/mem" \in OpenOn /\ linux \in [Fds -> OpenOn]
  BY DEF OpenOn, HostInv, HostTyped
<1>2. CASE FreeFds(linux) = {} /\ Lowest(linux) = NoDescriptor
           /\ Taken(linux, "/dev/mem") = linux
  BY <1>2 DEF vidmap, HostInv, HostTyped, Owned, PairIsOpen, OneDirectory, IsDirectory
<1>3. CASE /\ Lowest(linux) \in Fds /\ linux[Lowest(linux)] = "free"
           /\ Taken(linux, "/dev/mem") = [linux EXCEPT ![Lowest(linux)] = "/dev/mem"]
           /\ Taken(linux, "/dev/mem") \in [Fds -> OpenOn]
  <2>1. Lowest(linux) \notin DOMAIN open_on
    BY <1>3, NamesAssumption DEF HostInv, HostTyped, Owned, Named
  <2>2. HostTyped'
    BY <1>3 DEF vidmap, HostInv, HostTyped
  <2>3. Owned'
    BY <1>1, <1>3, <2>1 DEF vidmap, HostInv, HostTyped, Owned
  <2>4. PairIsOpen' /\ OneDirectory'
    BY <1>1, <1>3 DEF vidmap, HostInv, PairIsOpen, OneDirectory, IsDirectory
  <2> QED
    BY <2>2, <2>3, <2>4 DEF HostInv
<1> QED
  BY <1>1, <1>2, <1>3, TakenTable

\* While the program had no directory open, the new pair is its directory.
LEMMA OpenDirectoryKeeps ==
    ASSUME HostInv, open_directory
    PROVE  HostInv'
<1> DEFINE with == Taken(linux, "stream")
           fd == Lowest(with)
<1>1. /\ linux \in [Fds -> OpenOn] /\ "stream" \in OpenOn /\ "/dev/null" \in OpenOn
      /\ "." \in Named /\ HostTyped
  BY DEF OpenOn, Named, HostInv, HostTyped
<1>2. /\ dir' = IF FreeFds(linux) = {} THEN NULL ELSE Entries
      /\ stream' = Lowest(linux) /\ dir_fd' = fd
      /\ linux' = Taken(with, "/dev/null")
      /\ Opened(fd, ".") /\ owed' = Entries
      /\ twice' = (twice \/ \E g \in DOMAIN open_on : open_on[g] = ".")
      /\ UNCHANGED mem_fd
  BY DEF open_directory
<1>3. \/ /\ FreeFds(linux) = {} /\ Lowest(linux) = NoDescriptor /\ with = linux
      \/ /\ Lowest(linux) \in Fds /\ linux[Lowest(linux)] = "free"
         /\ FreeFds(linux) # {}
         /\ with = [linux EXCEPT ![Lowest(linux)] = "stream"]
         /\ with \in [Fds -> OpenOn]
  BY <1>1, TakenTable
<1>4. with \in [Fds -> OpenOn]
  BY <1>1, <1>3
<1> HIDE DEF with
<1>5. \/ /\ FreeFds(with) = {} /\ fd = NoDescriptor /\ linux' = with
      \/ /\ fd \in Fds /\ with[fd] = "free" /\ FreeFds(with) # {}
         /\ linux' = [with EXCEPT ![fd] = "/dev/null"]
         /\ linux' \in [Fds -> OpenOn]
  <2>1. \/ /\ FreeFds(with) = {} /\ Lowest(with) = NoDescriptor
           /\ Taken(with, "/dev/null") = with
        \/ /\ Lowest(with) \in Fds /\ with[Lowest(with)] = "free"
           /\ FreeFds(with) # {}
           /\ Taken(with, "/dev/null") = [with EXCEPT ![Lowest(with)] = "/dev/null"]
           /\ Taken(with, "/dev/null") \in [Fds -> OpenOn]
    BY <1>1, <1>4, TakenTable
  <2> QED
    BY <1>2, <2>1
<1> HIDE DEF fd
\* no descriptor of the program's is touched
<1>6. \A g \in DOMAIN open_on : linux[g] # "free" /\ g \in Fds
  BY NamesAssumption DEF HostInv, HostTyped, Owned, Named
<1>7. \A g \in DOMAIN open_on : with[g] = linux[g]
  BY <1>1, <1>3, <1>6
<1>8. \A g \in DOMAIN open_on : linux'[g] = linux[g] /\ g # fd
  <2>1. NoDescriptor \notin Fds
    BY DEF NoDescriptor, Fds
  <2>2. \A g \in DOMAIN open_on : g # fd
    BY <1>5, <1>6, <1>7, <2>1
  <2> QED
    BY <1>4, <1>5, <1>6, <1>7, <2>2
<1>9. fd \in Fds \cup {NoDescriptor} /\ (fd \in Fds => fd # NoDescriptor)
  BY <1>5 DEF NoDescriptor, Fds
<1>10. /\ DOMAIN open_on' \subseteq Fds
       /\ open_on' \in [DOMAIN open_on' -> Named]
       /\ fd = NoDescriptor => open_on' = open_on
       /\ fd # NoDescriptor =>
            /\ DOMAIN open_on' = DOMAIN open_on \cup {fd}
            /\ \A g \in DOMAIN open_on' :
                  open_on'[g] = IF g = fd THEN "." ELSE open_on[g]
  BY <1>1, <1>2, <1>9, OpenedKeeps
<1>11. HostTyped'
  BY <1>1, <1>2, <1>3, <1>4, <1>5, <1>10, NamesAssumption DEF HostTyped
<1>12. Owned'
  <2>1. CASE fd = NoDescriptor
    BY <1>8, <1>10, <2>1 DEF HostInv, Owned
  <2>2. CASE fd # NoDescriptor
    <3>1. linux'[fd] = "/dev/null"
      BY <1>4, <1>5, <2>2
    <3> SUFFICES ASSUME NEW g \in DOMAIN open_on'
                 PROVE  linux'[g] = IF open_on'[g] = "." THEN "/dev/null"
                                    ELSE open_on'[g]
      BY DEF Owned
    <3> QED
      BY <1>8, <1>10, <2>2, <3>1 DEF HostInv, Owned
  <2> QED
    BY <2>1, <2>2
<1>13. PairIsOpen'
  <2> SUFFICES ASSUME dir' # NULL PROVE PairIsOpen'
    BY DEF PairIsOpen
  <2>1. /\ Lowest(linux) \in Fds /\ with[Lowest(linux)] = "stream"
    BY <1>1, <1>2, <1>3
  <2>2. linux'[stream'] = "stream" /\ stream' \in Fds
    BY <1>2, <1>4, <1>5, <2>1
  <2> QED
    BY <1>2, <1>10, <2>2 DEF PairIsOpen
<1>14. OneDirectory'
  <2> SUFFICES ASSUME ~twice', NEW g \in DOMAIN open_on', open_on'[g] = "."
               PROVE  IsDirectory(g)' /\ dir' = owed'
    BY DEF OneDirectory
  <2>1. \A h \in DOMAIN open_on : open_on[h] # "."
    BY <1>2
  <2>2. fd # NoDescriptor /\ g = fd
    BY <1>10, <2>1
  <2>3. FreeFds(linux) # {}
    BY <1>3, <1>5, <2>2
  <2> QED
    BY <1>2, <2>2, <2>3, NamesAssumption DEF IsDirectory
<1> QED
  BY <1>11, <1>12, <1>13, <1>14 DEF HostInv

\* Whatever the step, Linux's table and the pair stay in agreement with what
\* the program has open.
LEMMA HostStep ==
    ASSUME HostInv, [HostNext]_hostVars
    PROVE  HostInv'
<1>1. CASE open_directory
  BY <1>1, OpenDirectoryKeeps
<1>2. CASE vidmap
  BY <1>2, VidmapKeeps
<1>3. ASSUME NEW filename \in HostFiles, open(filename) PROVE HostInv'
  BY <1>3, OpenKeeps
<1>4. ASSUME NEW fd \in DOMAIN open_on, read(fd) PROVE HostInv'
  BY <1>4, ReadKeeps
<1>5. ASSUME NEW fd \in DOMAIN open_on, close(fd) PROVE HostInv'
  BY <1>5, CloseKeeps
<1>6. CASE UNCHANGED hostVars
  BY <1>6 DEF hostVars, HostInv, HostTyped, Owned, PairIsOpen, OneDirectory, IsDirectory
<1> QED
  BY <1>1, <1>2, <1>3, <1>4, <1>5, <1>6 DEF HostNext

\* A descriptor of the pair gives what the stream has, another what it is open on.
LEMMA HostInvReads == HostInv => DirectoryIsRead
<1> SUFFICES ASSUME HostInv, ~twice, NEW fd \in DOMAIN open_on
             PROVE  Gives(fd) = IF open_on[fd] # "." THEN open_on[fd]
                                ELSE IF owed = <<>> THEN "end" ELSE Head(owed)
  BY DEF DirectoryIsRead
<1>1. CASE open_on[fd] = "."
  BY <1>1 DEF HostInv, OneDirectory, Gives
<1>2. CASE open_on[fd] # "."
  <2>1. ~IsDirectory(fd)
    BY <1>2 DEF HostInv, HostTyped, PairIsOpen, IsDirectory, NoDescriptor, Fds
  <2>2. /\ fd \in Fds /\ linux[fd] = open_on[fd]
        /\ linux[fd] \notin {"free", "stream"} /\ linux[fd] # "/dev/null"
    BY <1>2, NamesAssumption DEF HostInv, HostTyped, Owned, Named
  <2> QED
    BY <1>2, <2>1, <2>2 DEF Gives, __ece391_read
<1> QED
  BY <1>1, <1>2

\* On a Linux host, as long as a program has one directory open at a time,
\* every descriptor it has open gives what was opened by its name: for every
\* number of descriptors, every directory and all files.
THEOREM DirectoryCorrect == HostSpec => []DirectoryIsRead
<1>1. HostInv /\ [HostNext]_hostVars => HostInv'
  BY HostStep
<1> QED
  BY HostInitial, <1>1, HostInvReads, PTL DEF HostSpec

-----------------------------------------------------------------------------
\* A walk is a sequence of slots.
LEMMA WalkIsSequence ==
    ASSUME NEW list \in Walks
    PROVE  /\ Len(list) \in 0 .. SLOTS /\ list \in [1 .. Len(list) -> Slots]
           /\ \A i \in 1 .. Len(list) : list[i] \in Slots /\ list[i] # 0
<1>1. PICK n \in 0 .. SLOTS : list \in [1 .. n -> Slots]
  BY DEF Walks
<1>2. list \in Seq(Slots) /\ n \in Nat
  BY <1>1, BlinksAssumption
<1>3. Len(list) = n
  BY <1>1, <1>2, LenProperties
<1> QED
  BY <1>1, <1>3 DEF Slots

\* Whatever two walks the links allow, they are one.
LEMMA OneWalk ==
    ASSUME NEW array, NEW head, NEW p \in Walks, NEW q \in Walks,
           Leads(array, head, p), Leads(array, head, q)
    PROVE  p = q
<1>1. /\ Len(p) \in Nat /\ p \in [1 .. Len(p) -> Slots]
      /\ Len(q) \in Nat /\ q \in [1 .. Len(q) -> Slots]
      /\ \A i \in 1 .. Len(p) : p[i] # 0
      /\ \A i \in 1 .. Len(q) : q[i] # 0
  BY WalkIsSequence, BlinksAssumption
<1> DEFINE S == {n \in Nat : \A i \in 1 .. n :
                    (i \in 1 .. Len(p) <=> i \in 1 .. Len(q))
                      /\ (i \in 1 .. Len(p) => p[i] = q[i])}
<1>2. 0 \in S
  OBVIOUS
<1>3. ASSUME NEW n \in Nat, n \in S PROVE n + 1 \in S
  <2>1. n + 1 \in 1 .. Len(p) \/ n + 1 \in 1 .. Len(q) => Behind(p, n) = Behind(q, n)
    <3>1. CASE n = 0
      BY <3>1 DEF Leads
    <3>2. CASE n # 0
      <4> SUFFICES ASSUME n + 1 \in 1 .. Len(p) \/ n + 1 \in 1 .. Len(q)
                   PROVE  Behind(p, n) = Behind(q, n)
        OBVIOUS
      <4>1. n \in 1 .. Len(p) /\ n \in 1 .. Len(q) /\ p[n] = q[n]
        BY <1>1, <1>3, <3>2
      <4> QED
        BY <4>1 DEF Leads
    <3> QED
      BY <3>1, <3>2
  <2>2. (n + 1 \in 1 .. Len(p) <=> n + 1 \in 1 .. Len(q))
          /\ (n + 1 \in 1 .. Len(p) => p[n + 1] = q[n + 1])
    BY <1>1, <2>1 DEF Behind
  <2> QED
    BY <1>3, <2>2
<1> HIDE DEF S
<1>4. \A n \in Nat : n \in S
  BY <1>2, <1>3, UpFromZero
<1>5. Len(p) \in S /\ Len(q) \in S
  BY <1>1, <1>4, SMTT(30)
<1>6. Len(p) = Len(q)
  <2>1. \A i \in 1 .. Len(p) : i \in 1 .. Len(q)
    BY <1>5 DEF S
  <2>2. \A i \in 1 .. Len(q) : i \in 1 .. Len(p)
    BY <1>5 DEF S
  <2> QED
    BY <1>1, <2>1, <2>2, SameEnd
<1>7. \A i \in 1 .. Len(p) : p[i] = q[i]
  BY <1>5 DEF S
<1> QED
  BY <1>1, <1>6, <1>7

\* So the list is the walk, if there is one.
LEMMA ListIs ==
    ASSUME NEW array, NEW head, NEW p \in Walks, Leads(array, head, p)
    PROVE  (CHOOSE list \in Walks : Leads(array, head, list)) = p
  BY OneWalk
-----------------------------------------------------------------------------
\* The structures, the links between them, and what they stand for.
Words == 0 .. WORD - 1
Structure == [location : Nat, on_char : STRING, off_char : STRING,
              on_length : Words, off_length : Words, countdown : Words,
              status : 0 .. 1, next : 0 .. SLOTS]

\* No slot is twice in the list, and those that are not free are in it.
Orderly(array, list) ==
    /\ \A i, j \in 1 .. Len(list) : list[i] = list[j] => i = j
    /\ \A s \in Slots : array[s].location # 0 <=> \E i \in 1 .. Len(list) : list[i] = s

\* A blink that is shown counts a time it can ask for.
Timed(b) ==
    b.countdown \in Lengths /\ b.on_length \in Lengths /\ b.off_length \in Lengths

SlotsTyped ==
    /\ blink_array \in [Slots -> Structure]
    /\ \A s \in Slots : blink_array[s].location # 0 => Timed(blink_array[s])
    /\ \A s \in Slots : blink_array[s].location # 0 => blink_array[s].location < PLACES
    /\ screen \in [0 .. PLACES - 1 -> STRING]

LinksWalk ==
    \E list \in Walks : /\ Leads(blink_array, mp1_list_head, list)
                        /\ Orderly(blink_array, list)

SlotsInv == SlotsTyped /\ LinksWalk

\* The list of blinks as the structures have it.
Seen == [i \in 1 .. Len(List) |-> BlinkOf(blink_array[List[i]])]

\* Under the invariant, the list is the walk.
LEMMA ListFacts ==
    ASSUME SlotsInv
    PROVE  /\ List \in Walks /\ Len(List) \in Nat /\ Len(List) <= SLOTS
           /\ \A i \in 1 .. Len(List) : List[i] \in Slots /\ List[i] # 0
           /\ Leads(blink_array, mp1_list_head, List)
           /\ Orderly(blink_array, List)
           /\ IsTuple(List, Len(List))
           /\ IsTuple(Seen, Len(List)) /\ Len(Seen) = Len(List)
           /\ \A i \in 1 .. Len(List) : Seen[i] = BlinkOf(blink_array[List[i]])
<1>1. PICK list \in Walks : /\ Leads(blink_array, mp1_list_head, list)
                            /\ Orderly(blink_array, list)
  BY DEF SlotsInv, LinksWalk
<1>2. List = list
  BY <1>1, ListIs DEF List
<1>3. /\ Len(List) \in 0 .. SLOTS /\ List \in [1 .. Len(List) -> Slots]
      /\ \A i \in 1 .. Len(List) : List[i] \in Slots /\ List[i] # 0
  BY <1>1, <1>2, WalkIsSequence
<1>4. Len(List) \in Nat /\ Len(List) <= SLOTS
  BY <1>3, BlinksAssumption
<1>5. IsTuple(List, Len(List))
  BY <1>3, <1>4 DEF IsTuple
<1>6. IsTuple(Seen, Len(List))
  BY <1>4 DEF IsTuple, Seen
<1>7. Len(Seen) = Len(List)
  BY <1>6, TupleLength
<1>8. \A i \in 1 .. Len(List) : Seen[i] = BlinkOf(blink_array[List[i]])
  BY DEF Seen
<1> QED
  BY <1>1, <1>2, <1>3, <1>4, <1>5, <1>6, <1>7, <1>8

\* The least of the free slots, if there is one.
LEMMA Allocated ==
    /\ mp1_malloc = 0 <=> \A s \in Slots : blink_array[s].location # 0
    /\ mp1_malloc # 0 => mp1_malloc \in Slots /\ blink_array[mp1_malloc].location = 0
<1> DEFINE free == {s \in Slots : blink_array[s].location = 0}
<1>1. CASE free = {}
  BY <1>1 DEF mp1_malloc
<1>2. CASE free # {}
  <2>1. free \subseteq Nat /\ 0 \notin free
    BY DEF Slots
  <2>2. \E s \in free : \A t \in free : s <= t
    BY <1>2, <2>1, Least
  <2>3. mp1_malloc \in free
    BY <1>2, <2>2 DEF mp1_malloc
  <2> QED
    BY <2>1, <2>3
<1> QED
  BY <1>1, <1>2

\* There is a free slot exactly when the list is not as long as it may be.
LEMMA Room ==
    ASSUME SlotsInv
    PROVE  mp1_malloc # 0 <=> Len(List) < SLOTS
<1> DEFINE n == Len(List)
<1>1. /\ n \in Nat /\ \A i \in 1 .. n : List[i] \in Slots
      /\ Orderly(blink_array, List) /\ IsTuple(List, n) /\ n <= SLOTS
  BY ListFacts
<1>2. List \in Injection(1 .. n, Slots)
  <2>1. List \in [1 .. n -> Slots]
    BY <1>1 DEF IsTuple
  <2>2. \A i, j \in 1 .. n : List[i] = List[j] => i = j
    BY <1>1 DEF Orderly
  <2> QED
    BY <2>1, <2>2 DEF Injection, IsInjective
<1>3. IsFiniteSet(Slots) /\ Cardinality(Slots) = SLOTS
  BY FS_Interval, BlinksAssumption DEF Slots
<1>4. IsFiniteSet(1 .. n) /\ Cardinality(1 .. n) = n
  BY <1>1, FS_Interval
<1>5. n = SLOTS <=> List \in Surjection(1 .. n, Slots)
  BY <1>2, <1>3, <1>4, FS_Injection
<1>6. List \in Surjection(1 .. n, Slots)
        <=> \A s \in Slots : \E i \in 1 .. n : List[i] = s
  BY <1>2 DEF Surjection, Injection
<1>7. mp1_malloc = 0 <=> n = SLOTS
  BY <1>1, <1>5, <1>6, Allocated DEF Orderly
<1> QED
  BY <1>1, <1>7, BlinksAssumption

\* A free slot can follow on every walk.
LEMMA Initially ==
    ASSUME ListInit
    PROVE  SlotsInv /\ ListOf!Init
<1>1. Free \in Structure
  BY BlinksAssumption DEF Free, Structure, Words
<1>2. SlotsTyped
  BY <1>1, BlinksAssumption DEF ListInit, SlotsTyped, Free
<1>3. <<>> \in Walks /\ Len(<<>>) = 0
  <2>1. <<>> \in [1 .. 0 -> Slots]
    OBVIOUS
  <2> QED
    BY <2>1, BlinksAssumption DEF Walks
<1>4. Leads(blink_array, mp1_list_head, <<>>)
  BY <1>3 DEF Leads, Behind, ListInit
<1>5. Orderly(blink_array, <<>>)
  BY <1>3 DEF Orderly, ListInit, Free
<1>6. List = <<>>
  BY <1>3, <1>4, ListIs DEF List
<1>7. Seen = <<>>
  BY <1>3, <1>6 DEF Seen
<1>8. ListOf!Init
  BY <1>7 DEF ListOf!Init, ListInit, Seen
<1> QED
  BY <1>2, <1>3, <1>4, <1>5, <1>8 DEF SlotsInv, LinksWalk
-----------------------------------------------------------------------------
\* Another screen, and another state of the blinks, under the same links.
LEMMA SameLinks ==
    ASSUME NEW list \in Walks, NEW array, NEW array1, NEW head,
           Leads(array, head, list), Orderly(array, list),
           \A s \in Slots : /\ array1[s].next = array[s].next
                            /\ array1[s].location = array[s].location
    PROVE  Leads(array1, head, list) /\ Orderly(array1, list)
<1>1. \A i \in 1 .. Len(list) : list[i] \in Slots
  BY WalkIsSequence
<1> QED
  BY <1>1 DEF Leads, Orderly

\* A walk that is written as a function.
LEMMA TupleIsWalk ==
    ASSUME NEW n \in 0 .. SLOTS, NEW list, IsTuple(list, n),
           \A i \in 1 .. n : list[i] \in Slots
    PROVE  list \in Walks /\ Len(list) = n
<1>1. list \in [1 .. n -> Slots]
  BY DEF IsTuple
<1> QED
  BY <1>1, TupleLength DEF Walks

\* A time that can be asked for is a word.
LEMMA LengthsAreWords == Lengths \subseteq Words
<1>1. WORD \in Nat /\ WORD # 0
  BY BlinksAssumption
<1>2. \A m \in 1 .. WORD \div 2 : m \in 0 .. WORD - 1
  BY <1>1
<1> QED
  BY <1>2 DEF Lengths, Words

\* The newest blink comes in front, in a slot that no link reaches.
LEMMA AddStep ==
    ASSUME SlotsInv, NEW b \in Blinks, mp1_ioctl_add(b)
    PROVE  SlotsInv' /\ ListOf!Add(b)
<1> DEFINE n == Len(List)
           new == mp1_malloc
           after == [i \in 1 .. n + 1 |-> IF i = 1 THEN new ELSE List[i - 1]]
           struct == [location |-> b.location, on_char |-> b.on_char,
                      off_char |-> b.off_char, on_length |-> b.on_length,
                      off_length |-> b.off_length, countdown |-> b.on_length,
                      status |-> 1, next |-> mp1_list_head]
<1>1. /\ List \in Walks /\ n \in Nat /\ n <= SLOTS
      /\ \A i \in 1 .. n : List[i] \in Slots /\ List[i] # 0
      /\ Leads(blink_array, mp1_list_head, List) /\ Orderly(blink_array, List)
      /\ IsTuple(Seen, n) /\ Len(Seen) = n
      /\ \A i \in 1 .. n : Seen[i] = BlinkOf(blink_array[List[i]])
  BY ListFacts
<1>2. blink_array \in [Slots -> Structure] /\ screen \in [0 .. PLACES - 1 -> STRING]
  BY DEF SlotsInv, SlotsTyped
<1>3. /\ b.location \in Nat /\ b.location # 0
      /\ b.on_length \in Lengths /\ b.off_length \in Lengths
      /\ b.on_length \in Words /\ b.off_length \in Words
      /\ b.on_char \in STRING /\ b.off_char \in STRING
  <2>1. /\ b.location \in Nat /\ b.location # 0
        /\ b.on_length \in Lengths /\ b.off_length \in Lengths
        /\ b.on_char \in STRING /\ b.off_char \in STRING
    BY BlinksAssumption
  <2> QED
    BY <2>1, LengthsAreWords
<1>4. b.location < PLACES /\ Len(Seen) < SLOTS <=> b.location < PLACES /\ new # 0
  BY <1>1, Room
<1>5. CASE b.location < PLACES /\ new # 0
  <2>1. /\ blink_array' = [blink_array EXCEPT ![new] = struct]
        /\ mp1_list_head' = new
        /\ screen' = [screen EXCEPT ![b.location] = b.on_char] /\ ret' = 0
    BY <1>5 DEF mp1_ioctl_add
  <2>2. new \in Slots /\ blink_array[new].location = 0
    BY <1>5, Allocated
  <2>3. \A i \in 1 .. n : List[i] # new
    BY <1>1, <2>2 DEF Orderly
  <2>4. mp1_list_head \in 0 .. SLOTS
    BY <1>1, BlinksAssumption DEF Leads, Behind, Slots
  <2>5. struct \in Structure
    BY <1>3, <2>4 DEF Structure
  <2> HIDE DEF struct, new
  <2>6. /\ blink_array' \in [Slots -> Structure]
        /\ blink_array'[new] = struct
        /\ \A s \in Slots : s # new => blink_array'[s] = blink_array[s]
    BY <1>2, <2>1, <2>2, <2>5
  <2>7. struct.location = b.location /\ struct.next = mp1_list_head /\ Timed(struct)
    BY <1>3 DEF struct, Timed
  <2>8. SlotsTyped'
    BY <1>2, <1>3, <1>5, <2>1, <2>6, <2>7 DEF SlotsInv, SlotsTyped
  <2>9. after \in Walks /\ Len(after) = n + 1
    <3>1. n + 1 \in 0 .. SLOTS
      BY <1>1, <1>4, <1>5, BlinksAssumption
    <3>2. IsTuple(after, n + 1)
      BY <1>1 DEF IsTuple
    <3>3. \A i \in 1 .. n + 1 : after[i] \in Slots
      BY <1>1, <2>2
    <3> HIDE DEF after
    <3> QED
      BY <3>1, <3>2, <3>3, TupleIsWalk
  <2>10. /\ after[1] = new
         /\ \A i \in 1 .. n : after[i + 1] = List[i]
    BY <1>1
  <2>11. \A i \in 1 .. n + 1 : i = 1 \/ (i - 1 \in 1 .. n /\ after[i] = List[i - 1])
    BY <1>1
  <2> HIDE DEF after
  <2>12. Leads(blink_array', mp1_list_head', after)
    <3>1. mp1_list_head' = Behind(after, 0)
      BY <1>1, <2>1, <2>9, <2>10 DEF Behind
    <3>2. ASSUME NEW i \in 1 .. n + 1
          PROVE  blink_array'[after[i]].next = Behind(after, i)
      <4>1. Behind(after, i) = Behind(List, i - 1)
        BY <1>1, <2>9, <2>10 DEF Behind
      <4>2. CASE i = 1
        BY <1>1, <2>6, <2>7, <2>10, <4>1, <4>2 DEF Leads
      <4>3. CASE i # 1
        <5>1. i - 1 \in 1 .. n /\ after[i] = List[i - 1]
          BY <2>11, <4>3
        <5>2. blink_array'[after[i]] = blink_array[List[i - 1]]
          BY <1>1, <2>3, <2>6, <5>1
        <5> QED
          BY <1>1, <4>1, <5>1, <5>2 DEF Leads
      <4> QED
        BY <4>2, <4>3
    <3> QED
      BY <2>9, <3>1, <3>2 DEF Leads
  <2>13. Orderly(blink_array', after)
    <3>1. ASSUME NEW i \in 1 .. n + 1, NEW j \in 1 .. n + 1, after[i] = after[j]
          PROVE  i = j
      <4>1. i = 1 <=> j = 1
        <5>1. \A k \in 1 .. n + 1 : k # 1 => after[k] # new
          BY <2>3, <2>11
        <5> QED
          BY <2>10, <3>1, <5>1
      <4>2. CASE i # 1 /\ j # 1
        <5>1. /\ i - 1 \in 1 .. n /\ j - 1 \in 1 .. n
              /\ List[i - 1] = List[j - 1]
          BY <2>11, <3>1, <4>2
        <5>2. i - 1 = j - 1
          BY <1>1, <5>1 DEF Orderly
        <5> QED
          BY <1>1, <5>2
      <4> QED
        BY <4>1, <4>2
    <3>2. ASSUME NEW s \in Slots
          PROVE  blink_array'[s].location # 0 <=> \E i \in 1 .. n + 1 : after[i] = s
      <4>1. (\E i \in 1 .. n + 1 : after[i] = s)
              <=> s = new \/ \E i \in 1 .. n : List[i] = s
        <5>1. 1 \in 1 .. n + 1 /\ \A i \in 1 .. n : i + 1 \in 1 .. n + 1
          BY <1>1
        <5> QED
          BY <2>10, <2>11, <5>1, SMTT(30)
      <4>2. CASE s = new
        BY <1>3, <2>6, <2>7, <4>1, <4>2
      <4>3. CASE s # new
        BY <1>1, <2>6, <4>1, <4>3 DEF Orderly
      <4> QED
        BY <4>2, <4>3
    <3> QED
      BY <2>9, <3>1, <3>2 DEF Orderly
  <2>14. SlotsInv'
    BY <2>8, <2>9, <2>12, <2>13 DEF SlotsInv, LinksWalk
  <2>15. List' = after
    BY <2>9, <2>12, ListIs DEF List
  <2>16. Seen' = [i \in 1 .. n + 1 |-> BlinkOf(blink_array'[after[i]])]
    BY <2>9, <2>15 DEF Seen, BlinkOf
  <2>17. Seen' = <<BlinkOf(struct)>> \o Seen
    <3>1. <<BlinkOf(struct)>> \o Seen =
            [i \in 1 .. n + 1 |-> IF i = 1 THEN BlinkOf(struct) ELSE Seen[i - 1]]
      BY <1>1, InFront
    <3>2. ASSUME NEW i \in 1 .. n + 1
          PROVE  BlinkOf(blink_array'[after[i]])
                   = IF i = 1 THEN BlinkOf(struct) ELSE Seen[i - 1]
      <4>1. CASE i = 1
        BY <2>6, <2>10, <4>1
      <4>2. CASE i # 1
        <5>1. i - 1 \in 1 .. n /\ after[i] = List[i - 1]
          BY <2>11, <4>2
        <5>2. blink_array'[after[i]] = blink_array[List[i - 1]]
          BY <1>1, <2>3, <2>6, <5>1
        <5> QED
          BY <1>1, <4>2, <5>1, <5>2
      <4> QED
        BY <4>1, <4>2
    <3> QED
      BY <2>16, <3>1, <3>2
  <2>18. BlinkOf(struct) =
           [location |-> b.location, on_char |-> b.on_char, off_char |-> b.off_char,
            on_length |-> b.on_length, off_length |-> b.off_length,
            left |-> b.on_length, on |-> TRUE]
    BY DEF BlinkOf, struct
  <2>19. ListOf!Add(b)
    BY <1>4, <1>5, <2>1, <2>17, <2>18 DEF ListOf!Add, Seen
  <2> QED
    BY <2>14, <2>19
<1>6. CASE ~(b.location < PLACES /\ new # 0)
  <2>1. ret' = -1 /\ UNCHANGED <<blink_array, mp1_list_head, screen>>
    BY <1>6 DEF mp1_ioctl_add
  <2>2. SlotsInv' /\ Seen' = Seen
    BY <2>1 DEF SlotsInv, SlotsTyped, Timed, LinksWalk, Seen, List, BlinkOf
  <2>3. ListOf!Add(b)
    BY <1>4, <1>6, <2>1, <2>2 DEF ListOf!Add, Seen
  <2> QED
    BY <2>2, <2>3
<1> QED
  BY <1>5, <1>6
-----------------------------------------------------------------------------
\* The structure found is that of the newest blink of its place.
LEMMA Finds ==
    ASSUME SlotsInv, NEW place
    PROVE  /\ ListOf!At(place) =
                {i \in 1 .. Len(List) : blink_array[List[i]].location = place}
           /\ ListOf!At(place) = {} => mp1_find_helper(place) = 0
           /\ ListOf!At(place) # {} =>
                /\ ListOf!Newest(ListOf!At(place)) \in ListOf!At(place)
                /\ mp1_find_helper(place) = List[ListOf!Newest(ListOf!At(place))]
                /\ mp1_find_helper(place) # 0
<1> DEFINE found == {i \in 1 .. Len(List) : blink_array[List[i]].location = place}
<1>1. /\ Len(Seen) = Len(List) /\ Len(List) \in Nat
      /\ \A i \in 1 .. Len(List) : /\ Seen[i] = BlinkOf(blink_array[List[i]])
                                   /\ List[i] # 0
  BY ListFacts
<1>2. ListOf!At(place) = {i \in 1 .. Len(Seen) : Seen[i].location = place}
  BY DEF ListOf!At, Seen
<1>3. ListOf!At(place) = found
  <2>1. \A i \in 1 .. Len(List) : Seen[i].location = blink_array[List[i]].location
    <3>1. \A b : BlinkOf(b).location = b.location
      BY DEF BlinkOf
    <3> QED
      BY <1>1, <3>1
  <2> QED
    BY <1>1, <1>2, <2>1
<1>4. mp1_find_helper(place) =
        IF found = {} THEN 0 ELSE List[ListOf!Newest(found)]
  BY DEF mp1_find_helper, ListOf!Newest
<1>5. ASSUME found # {} PROVE ListOf!Newest(found) \in found
  <2>1. \E i \in found : \A j \in found : i <= j
    <3>1. found \subseteq Nat
      BY <1>1
    <3> HIDE DEF found
    <3> QED
      BY <1>5, <3>1, Least
  <2> HIDE DEF found
  <2> QED
    BY <2>1 DEF ListOf!Newest
<1> QED
  BY <1>1, <1>3, <1>4, <1>5

\* Only the structure's place is given back.
LEMMA FindStep ==
    ASSUME SlotsInv, NEW place, mp1_ioctl_find(place)
    PROVE  SlotsInv' /\ ListOf!Find(place)
<1>1. UNCHANGED <<blink_array, mp1_list_head, screen>>
  BY DEF mp1_ioctl_find
<1>2. SlotsInv' /\ Seen' = Seen
  BY <1>1 DEF SlotsInv, SlotsTyped, Timed, LinksWalk, Seen, List, BlinkOf
<1>3. ret' = IF ListOf!At(place) = {} THEN -1 ELSE 0
  BY Finds DEF mp1_ioctl_find
<1> QED
  BY <1>1, <1>2, <1>3 DEF ListOf!Find, Seen

\* The link to the structure, from the head or another structure, skips it,
\* and the walk goes on behind it.
LEMMA RemoveStep ==
    ASSUME SlotsInv, NEW place, place # 0, mp1_ioctl_remove(place)
    PROVE  SlotsInv' /\ ListOf!Remove(place)
<1> DEFINE n == Len(List)
           k == ListOf!Newest(ListOf!At(place))
           s == mp1_find_helper(place)
           next == blink_array[s].next
           at(i) == IF i < k THEN i ELSE i + 1
           after == [i \in 1 .. n - 1 |-> List[at(i)]]
<1>1. /\ List \in Walks /\ n \in Nat /\ n <= SLOTS
      /\ \A i \in 1 .. n : List[i] \in Slots /\ List[i] # 0
      /\ Leads(blink_array, mp1_list_head, List) /\ Orderly(blink_array, List)
      /\ IsTuple(Seen, n) /\ Len(Seen) = n
      /\ \A i \in 1 .. n : Seen[i] = BlinkOf(blink_array[List[i]])
  BY ListFacts
<1>2. blink_array \in [Slots -> Structure] /\ screen \in [0 .. PLACES - 1 -> STRING]
  BY DEF SlotsInv, SlotsTyped
<1>3. CASE s = 0
  <2>1. ret' = -1 /\ UNCHANGED <<blink_array, mp1_list_head, screen>>
    BY <1>3 DEF mp1_ioctl_remove
  <2>2. SlotsInv' /\ Seen' = Seen
    BY <2>1 DEF SlotsInv, SlotsTyped, Timed, LinksWalk, Seen, List, BlinkOf
  <2>3. ListOf!At(place) = {}
    BY <1>3, Finds
  <2>4. ListOf!Remove(place)
    BY <2>1, <2>2, <2>3 DEF ListOf!Remove, Seen
  <2> QED
    BY <2>2, <2>4
<1>4. CASE s # 0
  <2>1. /\ ListOf!At(place) # {} /\ k \in 1 .. n /\ s = List[k]
        /\ blink_array[s].location = place
    BY <1>4, Finds
  <2>2. s \in Slots /\ k \in Nat /\ n - 1 \in Nat
    BY <1>1, <2>1
  <2>3. \A i \in 1 .. n : List[i] = s <=> i = k
    BY <1>1, <2>1 DEF Orderly
  <2>4. next = Behind(List, k)
    BY <1>1, <2>1 DEF Leads
  <2>5. mp1_list_head = List[1]
    BY <1>1, <2>1 DEF Leads, Behind
  <2>6. mp1_list_head = s <=> k = 1
    <3>1. 1 \in 1 .. n
      BY <2>1, <1>1
    <3> QED
      BY <2>3, <2>5, <3>1
  <2>7. Free \in Structure /\ Free.location = 0
    BY BlinksAssumption DEF Free, Structure, Words
  <2>8. next \in 0 .. SLOTS
    BY <1>2, <2>2 DEF Structure
  <2>9. /\ ret' = 0 /\ screen' = screen
        /\ mp1_list_head' = IF k = 1 THEN next ELSE mp1_list_head
    BY <1>4, <2>6 DEF mp1_ioctl_remove
  <2>10. /\ blink_array' \in [Slots -> Structure]
         /\ blink_array'[s] = Free
         /\ \A t \in Slots \ {s} :
                blink_array'[t] = IF k # 1 /\ t = List[k - 1]
                                    THEN [blink_array[t] EXCEPT !.next = next]
                                    ELSE blink_array[t]
    <3>1. CASE k = 1
      <4>1. blink_array' = [blink_array EXCEPT ![s] = Free]
        BY <1>4, <2>6, <3>1 DEF mp1_ioctl_remove
      <4> HIDE DEF s, k, next
      <4> QED
        BY <1>2, <2>2, <2>7, <3>1, <4>1
    <3>2. CASE k # 1
      <4> DEFINE before == CHOOSE i \in 1 .. n : blink_array[List[i]].next = s
      <4>1. blink_array' = [blink_array EXCEPT ![List[before]].next = next, ![s] = Free]
        BY <1>4, <2>6, <3>2 DEF mp1_ioctl_remove
      <4>2. k - 1 \in 1 .. n /\ (k - 1) + 1 = k
        BY <1>1, <2>1, <3>2
      <4>3. \A i \in 1 .. n : blink_array[List[i]].next = Behind(List, i)
        BY <1>1 DEF Leads
      <4>4. ASSUME NEW i \in 1 .. n
            PROVE  blink_array[List[i]].next = s <=> i = k - 1
        <5>1. Behind(List, i) = s <=> i < n /\ List[i + 1] = s
          BY <1>4 DEF Behind
        <5>2. i < n => i + 1 \in 1 .. n
          BY <1>1
        <5>3. i < n /\ List[i + 1] = s <=> i = k - 1
          BY <1>1, <2>1, <2>3, <5>2
        <5> QED
          BY <4>3, <5>1, <5>3
      <4> HIDE DEF s, k, next
      <4>5. before = k - 1
        BY <4>2, <4>4
      <4> HIDE DEF before
      <4>6. List[k - 1] \in Slots /\ List[k - 1] # s
        BY <1>1, <2>3, <4>2
      <4>7. [blink_array[List[k - 1]] EXCEPT !.next = next] \in Structure
        BY <1>2, <2>8, <4>6 DEF Structure
      <4>8. blink_array' = [[blink_array EXCEPT
                ![List[k - 1]] = [blink_array[List[k - 1]] EXCEPT !.next = next]]
                EXCEPT ![s] = Free]
        BY <4>1, <4>5
      <4> QED
        BY <1>2, <2>2, <2>7, <3>2, <4>6, <4>7, <4>8
    <3> QED
      BY <3>1, <3>2
  <2>11. \A t \in Slots \ {s} :
            /\ blink_array'[t].location = blink_array[t].location
            /\ BlinkOf(blink_array'[t]) = BlinkOf(blink_array[t])
            /\ ~(k # 1 /\ t = List[k - 1]) => blink_array'[t].next = blink_array[t].next
            /\ k # 1 /\ t = List[k - 1] => blink_array'[t].next = next
    <3> HIDE DEF s, k, next
    <3> SUFFICES ASSUME NEW t \in Slots \ {s}
                 PROVE  /\ blink_array'[t].location = blink_array[t].location
                        /\ BlinkOf(blink_array'[t]) = BlinkOf(blink_array[t])
                        /\ ~(k # 1 /\ t = List[k - 1]) =>
                              blink_array'[t].next = blink_array[t].next
                        /\ k # 1 /\ t = List[k - 1] => blink_array'[t].next = next
      OBVIOUS
    <3>1. blink_array[t] \in Structure
      BY <1>2
    <3> QED
      BY <2>10, <3>1 DEF Structure, BlinkOf
  <2>12. /\ IsTuple(after, n - 1) /\ after \in Walks /\ Len(after) = n - 1
         /\ \A i \in 1 .. n - 1 : /\ after[i] = List[at(i)] /\ at(i) \in 1 .. n \ {k}
                                  /\ after[i] \in Slots \ {s}
    <3> HIDE DEF s, k
    <3>1. \A i \in 1 .. n - 1 : at(i) \in 1 .. n /\ at(i) # k
      BY <1>1, <2>1, <2>2
    <3>2. \A i \in 1 .. n - 1 : after[i] = List[at(i)] /\ after[i] \in Slots \ {s}
      BY <1>1, <2>3, <3>1
    <3>3. IsTuple(after, n - 1)
      BY <2>2 DEF IsTuple
    <3>4. n - 1 \in 0 .. SLOTS
      BY <1>1, <2>2, BlinksAssumption
    <3> HIDE DEF after, at
    <3>5. after \in Walks /\ Len(after) = n - 1
      BY <3>2, <3>3, <3>4, TupleIsWalk
    <3> QED
      BY <3>1, <3>2, <3>3, <3>5
  <2> HIDE DEF s, k, next
  <2>13. \A j \in 1 .. n \ {k} : \E i \in 1 .. n - 1 : at(i) = j
    <3> SUFFICES ASSUME NEW j \in 1 .. n \ {k} PROVE \E i \in 1 .. n - 1 : at(i) = j
      OBVIOUS
    <3>1. CASE j < k
      <4>1. j \in 1 .. n - 1 /\ at(j) = j
        BY <1>1, <2>1, <3>1
      <4> QED
        BY <4>1
    <3>2. CASE ~(j < k)
      <4>1. j - 1 \in 1 .. n - 1 /\ at(j - 1) = j
        BY <1>1, <2>1, <2>2, <3>2
      <4> QED
        BY <4>1
    <3> QED
      BY <3>1, <3>2
  <2>14. Leads(blink_array', mp1_list_head', after)
    <3>1. mp1_list_head' = Behind(after, 0)
      <4>1. CASE k = 1
        BY <1>1, <2>1, <2>4, <2>9, <2>12, <4>1 DEF Behind
      <4>2. CASE k # 1
        BY <1>1, <2>1, <2>5, <2>9, <2>12, <4>2 DEF Behind
      <4> QED
        BY <4>1, <4>2
    <3>2. ASSUME NEW i \in 1 .. n - 1
          PROVE  blink_array'[after[i]].next = Behind(after, i)
      <4>1. /\ after[i] = List[at(i)] /\ at(i) \in 1 .. n /\ at(i) # k
            /\ after[i] \in Slots \ {s}
        BY <2>12
      <4>2. blink_array[after[i]].next = Behind(List, at(i))
        BY <1>1, <4>1 DEF Leads
      <4>3. CASE i = k - 1
        <5>1. k # 1 /\ at(i) = k - 1 /\ after[i] = List[k - 1]
          BY <1>1, <2>1, <4>1, <4>3
        <5>2. blink_array'[after[i]].next = next
          BY <2>11, <4>1, <5>1
        <5>3. Behind(after, i) = Behind(List, k)
          <6>1. CASE i < n - 1
            <7>1. i + 1 \in 1 .. n - 1 /\ at(i + 1) = k + 1 /\ k < n
              BY <1>1, <2>1, <4>3, <6>1
            <7> QED
              BY <2>12, <6>1, <7>1 DEF Behind
          <6>2. CASE ~(i < n - 1)
            BY <1>1, <2>1, <2>12, <4>3, <6>2 DEF Behind
          <6> QED
            BY <6>1, <6>2
        <5> QED
          BY <2>4, <5>2, <5>3
      <4>4. CASE i # k - 1
        <5>1. ~(k # 1 /\ after[i] = List[k - 1])
          <6>1. k # 1 => k - 1 \in 1 .. n
            BY <1>1, <2>1
          <6>2. at(i) # k - 1
            BY <1>1, <2>1, <4>4
          <6> QED
            BY <1>1, <4>1, <6>1, <6>2 DEF Orderly
        <5>2. blink_array'[after[i]].next = Behind(List, at(i))
          BY <2>11, <4>1, <4>2, <5>1
        <5>3. Behind(after, i) = Behind(List, at(i))
          <6>1. CASE i < n - 1
            <7>1. i + 1 \in 1 .. n - 1 /\ at(i + 1) = at(i) + 1 /\ at(i) < n
              BY <1>1, <2>1, <4>4, <6>1
            <7> QED
              BY <2>12, <6>1, <7>1 DEF Behind
          <6>2. CASE ~(i < n - 1)
            <7>1. at(i) = n
              BY <1>1, <2>1, <4>4, <6>2
            <7> QED
              BY <2>12, <6>2, <7>1 DEF Behind
          <6> QED
            BY <6>1, <6>2
        <5> QED
          BY <5>2, <5>3
      <4> QED
        BY <4>3, <4>4
    <3> QED
      BY <2>12, <3>1, <3>2 DEF Leads
  <2>15. Orderly(blink_array', after)
    <3>1. ASSUME NEW i \in 1 .. n - 1, NEW j \in 1 .. n - 1, after[i] = after[j]
          PROVE  i = j
      <4>1. at(i) = at(j)
        BY <1>1, <2>12, <3>1 DEF Orderly
      <4> QED
        BY <1>1, <2>1, <4>1
    <3>2. ASSUME NEW t \in Slots
          PROVE  blink_array'[t].location # 0 <=> \E i \in 1 .. n - 1 : after[i] = t
      <4>1. CASE t = s
        BY <2>7, <2>10, <2>12, <4>1
      <4>2. CASE t # s
        <5>1. blink_array'[t].location # 0 <=> \E j \in 1 .. n : List[j] = t
          BY <1>1, <2>11, <4>2 DEF Orderly
        <5>2. \A j \in 1 .. n : List[j] = t => j \in 1 .. n \ {k}
          BY <2>3, <4>2
        <5>3. (\E j \in 1 .. n : List[j] = t) <=> \E i \in 1 .. n - 1 : after[i] = t
          BY <2>12, <2>13, <5>2
        <5> QED
          BY <5>1, <5>3
      <4> QED
        BY <4>1, <4>2
    <3> QED
      BY <2>12, <3>1, <3>2 DEF Orderly
  <2>16. SlotsTyped'
    <3>1. \A t \in Slots : blink_array'[t].location # 0 => blink_array'[t].location < PLACES
      BY <2>7, <2>10, <2>11 DEF SlotsInv, SlotsTyped
    <3>2. ASSUME NEW t \in Slots, blink_array'[t].location # 0
          PROVE  Timed(blink_array'[t])
      <4>1. t # s
        BY <2>7, <2>10, <3>2
      <4>2. Timed(blink_array[t]) /\ blink_array[t] \in Structure
        BY <1>2, <2>11, <3>2, <4>1 DEF SlotsInv, SlotsTyped
      <4> QED
        BY <2>10, <4>1, <4>2 DEF Timed, Structure
    <3> QED
      BY <1>2, <2>9, <2>10, <3>1, <3>2 DEF SlotsTyped
  <2>17. SlotsInv'
    BY <2>12, <2>14, <2>15, <2>16 DEF SlotsInv, LinksWalk
  <2>18. List' = after
    BY <2>12, <2>14, ListIs DEF List
  <2>19. Seen' = [i \in 1 .. n - 1 |-> BlinkOf(blink_array'[after[i]])]
    BY <2>12, <2>18 DEF Seen, BlinkOf
  <2>20. Seen' = SubSeq(Seen, 1, k - 1) \o SubSeq(Seen, k + 1, Len(Seen))
    <3> DEFINE less == SubSeq(Seen, 1, k - 1) \o SubSeq(Seen, k + 1, n)
    <3>1. /\ less = [i \in 1 .. n - 1 |-> less[i]]
          /\ \A i \in 1 .. n - 1 : less[i] = IF i < k THEN Seen[i] ELSE Seen[i + 1]
      <4>1. IsTuple(Seen, n) /\ k \in 1 .. n
        BY <1>1, <2>1
      <4>2. /\ IsTuple(less, n - 1)
            /\ \A i \in 1 .. n - 1 : less[i] = IF i < k THEN Seen[i] ELSE Seen[i + 1]
        BY <4>1, OneLess
      <4> QED
        BY <4>2 DEF IsTuple
    <3>2. ASSUME NEW i \in 1 .. n - 1
          PROVE  BlinkOf(blink_array'[after[i]])
                   = IF i < k THEN Seen[i] ELSE Seen[i + 1]
      <4>1. BlinkOf(blink_array'[after[i]]) = Seen[at(i)]
        BY <1>1, <2>11, <2>12
      <4> QED
        BY <4>1
    <3> QED
      BY <1>1, <2>19, <3>1, <3>2, ZenonT(40)
  <2>21. ListOf!Remove(place)
    BY <2>1, <2>9, <2>20 DEF ListOf!Remove, Seen, k
  <2> QED
    BY <2>17, <2>21
<1> QED
  BY <1>3, <1>4
-----------------------------------------------------------------------------
\* One blink takes the other's times: the links and places stay.
LEMMA SyncStep ==
    ASSUME SlotsInv, NEW from, NEW to, mp1_ioctl_sync(from, to)
    PROVE  SlotsInv' /\ ListOf!Sync(from, to)
<1> DEFINE n == Len(List)
           f == ListOf!Newest(ListOf!At(from))
           t == ListOf!Newest(ListOf!At(to))
           esi == mp1_find_helper(from)
           edi == mp1_find_helper(to)
<1>1. /\ List \in Walks /\ n \in Nat
      /\ \A i \in 1 .. n : List[i] \in Slots /\ List[i] # 0
      /\ Leads(blink_array, mp1_list_head, List) /\ Orderly(blink_array, List)
      /\ IsTuple(Seen, n) /\ Len(Seen) = n
      /\ \A i \in 1 .. n : Seen[i] = BlinkOf(blink_array[List[i]])
  BY ListFacts
<1>2. blink_array \in [Slots -> Structure] /\ screen \in [0 .. PLACES - 1 -> STRING]
  BY DEF SlotsInv, SlotsTyped
<1>3. CASE esi = 0 \/ edi = 0
  <2>1. ret' = -1 /\ UNCHANGED <<blink_array, mp1_list_head, screen>>
    BY <1>3 DEF mp1_ioctl_sync
  <2>2. SlotsInv' /\ Seen' = Seen
    BY <2>1 DEF SlotsInv, SlotsTyped, Timed, LinksWalk, Seen, List, BlinkOf
  <2>3. ListOf!At(from) = {} \/ ListOf!At(to) = {}
    BY <1>3, Finds
  <2>4. ListOf!Sync(from, to)
    BY <2>1, <2>2, <2>3 DEF ListOf!Sync, Seen
  <2> QED
    BY <2>2, <2>4
<1>4. CASE esi # 0 /\ edi # 0
  <2> DEFINE struct == [blink_array[edi] EXCEPT
                          !.on_length = blink_array[esi].on_length,
                          !.off_length = blink_array[esi].off_length,
                          !.countdown = blink_array[esi].countdown,
                          !.status = blink_array[esi].status]
  <2>1. /\ ListOf!At(from) # {} /\ f \in 1 .. n /\ esi = List[f]
        /\ ListOf!At(to) # {} /\ t \in 1 .. n /\ edi = List[t]
        /\ blink_array[edi].location = to
    BY <1>4, Finds
  <2>2. /\ blink_array' = [blink_array EXCEPT ![edi] = struct]
        /\ screen' = [screen EXCEPT ![to] = blink_array[edi].off_char]
        /\ ret' = 0 /\ mp1_list_head' = mp1_list_head
    BY <1>4 DEF mp1_ioctl_sync
  <2>3. esi \in Slots /\ edi \in Slots
    BY <1>1, <2>1
  <2> HIDE DEF f, t, esi, edi
  <2>4. blink_array[esi] \in Structure /\ blink_array[edi] \in Structure
    BY <1>2, <2>3
  <2>5. /\ struct \in Structure /\ struct.location = to
        /\ struct.next = blink_array[edi].next
        /\ struct.on_char = blink_array[edi].on_char
        /\ struct.off_char = blink_array[edi].off_char
        /\ struct.on_length = blink_array[esi].on_length
        /\ struct.off_length = blink_array[esi].off_length
        /\ struct.countdown = blink_array[esi].countdown
        /\ struct.status = blink_array[esi].status
    BY <2>1, <2>4 DEF Structure
  <2> HIDE DEF struct
  <2>6. /\ blink_array' \in [Slots -> Structure] /\ blink_array'[edi] = struct
        /\ \A s \in Slots : s # edi => blink_array'[s] = blink_array[s]
    BY <1>2, <2>2, <2>3, <2>5
  <2>7. \A s \in Slots : /\ blink_array'[s].next = blink_array[s].next
                         /\ blink_array'[s].location = blink_array[s].location
    BY <2>1, <2>5, <2>6
  <2>8. Leads(blink_array', mp1_list_head', List) /\ Orderly(blink_array', List)
    BY <1>1, <2>2, <2>7, SameLinks
  <2>9. blink_array[edi].off_char \in STRING
    BY <2>4 DEF Structure
  <2>10. SlotsTyped'
    <3>1. blink_array[esi].location # 0
      BY <1>1, <2>1 DEF Orderly
    <3>2. Timed(struct)
      BY <2>3, <2>5, <3>1 DEF SlotsInv, SlotsTyped, Timed
    <3> QED
      BY <1>2, <2>2, <2>6, <2>7, <2>9, <3>2 DEF SlotsInv, SlotsTyped
  <2>11. SlotsInv'
    BY <1>1, <2>8, <2>10 DEF SlotsInv, LinksWalk
  <2>12. List' = List
    BY <1>1, <2>8, ListIs DEF List
  <2>13. Seen' = [i \in 1 .. n |-> BlinkOf(blink_array'[List[i]])]
    BY <2>12 DEF Seen, BlinkOf
  <2>14. BlinkOf(struct) = [BlinkOf(blink_array[edi]) EXCEPT
                              !.on_length = BlinkOf(blink_array[esi]).on_length,
                              !.off_length = BlinkOf(blink_array[esi]).off_length,
                              !.left = BlinkOf(blink_array[esi]).left,
                              !.on = BlinkOf(blink_array[esi]).on]
    <3>1. struct.location = blink_array[edi].location
      BY <2>1, <2>5
    <3> DEFINE x == BlinkOf(struct)
               e == BlinkOf(blink_array[edi])
               d == BlinkOf(blink_array[esi])
    <3>2. /\ x.location = e.location /\ x.on_char = e.on_char
          /\ x.off_char = e.off_char /\ x.on_length = d.on_length
          /\ x.off_length = d.off_length
      BY <2>5, <3>1 DEF BlinkOf
    <3>3. x.left = d.left
      BY <2>5 DEF BlinkOf
    <3>4. x.on = d.on
      BY <2>5 DEF BlinkOf
    <3>5. /\ x = [location |-> x.location, on_char |-> x.on_char,
                  off_char |-> x.off_char, on_length |-> x.on_length,
                  off_length |-> x.off_length, left |-> x.left, on |-> x.on]
          /\ e = [location |-> e.location, on_char |-> e.on_char,
                  off_char |-> e.off_char, on_length |-> e.on_length,
                  off_length |-> e.off_length, left |-> e.left, on |-> e.on]
      BY DEF BlinkOf
    <3> HIDE DEF x, e, d
    <3>6. x = [e EXCEPT !.on_length = d.on_length, !.off_length = d.off_length,
                        !.left = d.left, !.on = d.on]
      BY <3>2, <3>3, <3>4, <3>5
    <3> QED
      BY <3>6 DEF x, e, d
  <2>15. Seen[f] = BlinkOf(blink_array[esi]) /\ Seen[t] = BlinkOf(blink_array[edi])
    BY <1>1, <2>1
  <2>16. BlinkOf(struct) = [Seen[t] EXCEPT !.on_length = Seen[f].on_length,
                                           !.off_length = Seen[f].off_length,
                                           !.left = Seen[f].left, !.on = Seen[f].on]
    BY <2>14, <2>15
  <2>17. Seen' = [Seen EXCEPT ![t] = BlinkOf(struct)]
    <3>1. ASSUME NEW i \in 1 .. n
          PROVE  BlinkOf(blink_array'[List[i]])
                   = IF i = t THEN BlinkOf(struct) ELSE Seen[i]
      <4>1. List[i] = edi <=> i = t
        BY <1>1, <2>1 DEF Orderly
      <4> QED
        BY <1>1, <2>6, <4>1
    <3>2. Seen = [i \in 1 .. n |-> Seen[i]]
      BY <1>1 DEF IsTuple
    <3>3. [Seen EXCEPT ![t] = BlinkOf(struct)]
            = [i \in 1 .. n |-> IF i = t THEN BlinkOf(struct) ELSE Seen[i]]
      BY <3>2
    <3> QED
      BY <2>13, <3>1, <3>3
  <2>18. Seen[t].off_char = blink_array[edi].off_char
    BY <2>15 DEF BlinkOf
  <2>19. /\ Seen' = [Seen EXCEPT ![t] =
                      [@ EXCEPT !.on_length = Seen[f].on_length,
                                !.off_length = Seen[f].off_length,
                                !.left = Seen[f].left, !.on = Seen[f].on]]
         /\ screen' = [screen EXCEPT ![to] = Seen[t].off_char]
    BY <2>2, <2>16, <2>17, <2>18
  <2>20. ListOf!Sync(from, to)
    BY <2>1, <2>2, <2>19 DEF ListOf!Sync, Seen, f, t
  <2> QED
    BY <2>11, <2>20
<1> QED
  BY <1>3, <1>4

-----------------------------------------------------------------------------
\* The loop of the tasklet has a screen after each of its rounds.
LEMMA Rounds ==
    ASSUME SlotsInv
    PROVE  Drawn = [i \in 0 .. Len(List) |->
                      IF i = 0 THEN screen ELSE mp1_poke(Drawn[i - 1], List[i])]
<1> DEFINE n == Len(List)
           Loop(g, m) == g = [i \in 0 .. m |->
                               IF i = 0 THEN screen ELSE mp1_poke(g[i - 1], List[i])]
           S == {m \in Nat : \E g : Loop(g, m)}
<1>1. 0 \in S
  <2>1. Loop([i \in 0 .. 0 |-> screen], 0)
    OBVIOUS
  <2> QED
    BY <2>1
<1>2. ASSUME NEW m \in Nat, m \in S PROVE m + 1 \in S
  <2>1. PICK g : Loop(g, m)
    BY <1>2
  <2> DEFINE h == [i \in 0 .. m + 1 |->
                     IF i = m + 1 THEN mp1_poke(g[m], List[m + 1]) ELSE g[i]]
  <2>2. \A i \in 0 .. m : h[i] = g[i]
    OBVIOUS
  <2>3. ASSUME NEW i \in 0 .. m + 1
        PROVE  h[i] = IF i = 0 THEN screen ELSE mp1_poke(h[i - 1], List[i])
    <3>1. CASE i = m + 1
      <4>1. h[i] = mp1_poke(g[m], List[i]) /\ i # 0 /\ h[i - 1] = g[m]
        BY <2>2, <3>1
      <4> HIDE DEF h
      <4> QED
        BY <4>1
    <3>2. CASE i # m + 1
      <4>1. i \in 0 .. m /\ h[i] = g[i] /\ (i # 0 => h[i - 1] = g[i - 1])
        BY <2>2, <3>2
      <4> HIDE DEF h
      <4>2. g[i] = IF i = 0 THEN screen ELSE mp1_poke(g[i - 1], List[i])
        BY <2>1, <4>1
      <4> QED
        BY <4>1, <4>2
    <3> QED
      BY <3>1, <3>2
  <2>4. Loop(h, m + 1)
    <3>1. h = [i \in 0 .. m + 1 |-> h[i]]
      OBVIOUS
    <3> HIDE DEF h
    <3> QED
      BY <2>3, <3>1
  <2> HIDE DEF Loop
  <2> QED
    BY <2>4
<1> HIDE DEF S
<1>3. \A m \in Nat : m \in S
  BY <1>1, <1>2, UpFromZero
<1>4. n \in Nat
  BY ListFacts
<1>5. \E g : Loop(g, n)
  BY <1>3, <1>4 DEF S
<1> QED
  BY <1>5 DEF Drawn
\* A structure of the list that is due now, at some place.
Changes(i, place) == Expires(List[i]) /\ blink_array[List[i]].location = place

\* After each round, a place shows what the last one due there has written.
LEMMA DrawnLast ==
    ASSUME SlotsInv, NEW i \in 0 .. Len(List)
    PROVE  /\ Drawn[i] \in [0 .. PLACES - 1 -> STRING]
           /\ \A place \in 0 .. PLACES - 1 :
                /\ (\A j \in 1 .. i : ~Changes(j, place)) =>
                      Drawn[i][place] = screen[place]
                /\ \A j \in 1 .. i :
                      Changes(j, place) /\ (\A k \in 1 .. i : Changes(k, place) => j >= k)
                        => Drawn[i][place] = Other(List[j])
<1> DEFINE n == Len(List)
           P(m) ==
             /\ Drawn[m] \in [0 .. PLACES - 1 -> STRING]
             /\ \A place \in 0 .. PLACES - 1 :
                  /\ (\A j \in 1 .. m : ~Changes(j, place)) =>
                        Drawn[m][place] = screen[place]
                  /\ \A j \in 1 .. m :
                        Changes(j, place) /\ (\A k \in 1 .. m : Changes(k, place) => j >= k)
                          => Drawn[m][place] = Other(List[j])
           S == {m \in Nat : m <= n => P(m)}
<1>1. n \in Nat /\ \A j \in 1 .. n : List[j] \in Slots
  BY ListFacts
<1>2. \A m \in 0 .. n :
        Drawn[m] = IF m = 0 THEN screen ELSE mp1_poke(Drawn[m - 1], List[m])
  BY Rounds
<1>3. /\ screen \in [0 .. PLACES - 1 -> STRING]
      /\ blink_array \in [Slots -> Structure]
  BY DEF SlotsInv, SlotsTyped
<1>4. P(0)
  <2>1. Drawn[0] = screen
    BY <1>1, <1>2
  <2>2. \A j : ~(j \in 1 .. 0)
    OBVIOUS
  <2> QED
    BY <1>3, <2>1, <2>2
<1>5. ASSUME NEW m \in Nat, m + 1 <= n, P(m) PROVE P(m + 1)
  <2>1. P(m) /\ m + 1 \in 1 .. n
    BY <1>1, <1>5, SMTT(30)
  <2> DEFINE s == List[m + 1]
  <2>2. s \in Slots /\ Drawn[m + 1] = mp1_poke(Drawn[m], s)
    BY <1>1, <1>2, <2>1
  <2>3. Other(s) \in STRING
    BY <1>3, <2>2 DEF Other, Structure
  <2>4. Drawn[m + 1] \in [0 .. PLACES - 1 -> STRING]
    <3>1. Drawn[m] \in [0 .. PLACES - 1 -> STRING]
      BY <2>1
    <3> QED
      BY <2>2, <2>3, <3>1 DEF mp1_poke
  <2>5. ASSUME NEW place \in 0 .. PLACES - 1
        PROVE  Drawn[m + 1][place] = IF Changes(m + 1, place) THEN Other(s)
                                     ELSE Drawn[m][place]
    <3>1. Drawn[m] \in [0 .. PLACES - 1 -> STRING]
      BY <2>1
    <3> QED
      BY <2>2, <3>1 DEF mp1_poke, Changes
  <2>6. ASSUME NEW place \in 0 .. PLACES - 1, \A j \in 1 .. m + 1 : ~Changes(j, place)
        PROVE  Drawn[m + 1][place] = screen[place]
    <3>1. ~Changes(m + 1, place) /\ \A j \in 1 .. m : ~Changes(j, place)
      BY <2>6
    <3> QED
      BY <2>1, <2>5, <3>1
  <2>7. ASSUME NEW place \in 0 .. PLACES - 1, NEW j \in 1 .. m + 1, Changes(j, place),
               \A k \in 1 .. m + 1 : Changes(k, place) => j >= k
        PROVE  Drawn[m + 1][place] = Other(List[j])
    <3>1. CASE Changes(m + 1, place)
      <4>1. j = m + 1
        BY <2>7, <3>1
      <4> QED
        BY <2>5, <3>1, <4>1
    <3>2. CASE ~Changes(m + 1, place)
      <4>1. j \in 1 .. m /\ \A k \in 1 .. m : Changes(k, place) => j >= k
        BY <2>7, <3>2
      <4> QED
        BY <2>1, <2>5, <2>7, <3>2, <4>1
    <3> QED
      BY <3>1, <3>2
  <2> QED
    BY <2>4, <2>6, <2>7
<1> HIDE DEF P
<1>6. 0 \in S /\ \A m \in Nat : m \in S => m + 1 \in S
  BY <1>1, <1>4, <1>5
<1> HIDE DEF S
<1>7. \A m \in Nat : m \in S
  BY <1>6, UpFromZero
<1>8. i \in Nat /\ i <= n
  BY <1>1
<1>9. P(i)
  BY <1>7, <1>8 DEF S
<1> QED
  BY <1>9 DEF P

\* A signed word, counted down from such a time: it is not above zero exactly
\* when one tick is left, and else one tick less is.
LEMMA CountedDown ==
    ASSUME NEW w \in Lengths
    PROVE  LET next == IF w = 0 THEN WORD - 1 ELSE w - 1
           IN  /\ (next = 0 \/ next >= WORD \div 2) <=> w = 1
               /\ ~(next = 0 \/ next >= WORD \div 2) =>
                    w > 1 /\ next = w - 1 /\ next \in Lengths
<1>1. WORD \in Nat
  BY BlinksAssumption
<1>2. PICK half : half = WORD \div 2
  OBVIOUS
<1>3. half \in Nat /\ w \in 1 .. half
  BY <1>1, <1>2 DEF Lengths
<1> QED
  BY <1>2, <1>3 DEF Lengths

\* A blink after a tick, in the list of blinks.
Aged(b) ==
    [b EXCEPT !.left = IF b.left > 1 THEN b.left - 1
                       ELSE IF b.on THEN b.off_length ELSE b.on_length,
              !.on = IF b.left > 1 THEN @ ELSE ~@]

\* What becomes of one structure, and of its blink.
LEMMA Ticked ==
    ASSUME NEW s, blink_array[s] \in Structure, Timed(blink_array[s])
    PROVE  /\ Counted(s) \in Structure /\ Timed(Counted(s))
           /\ Counted(s).next = blink_array[s].next
           /\ Counted(s).location = blink_array[s].location
           /\ Expires(s) <=> BlinkOf(blink_array[s]).left = 1
           /\ BlinkOf(Counted(s)) = Aged(BlinkOf(blink_array[s]))
<1> DEFINE old == blink_array[s]
           b == BlinkOf(old)
           new == Counted(s)
           x == BlinkOf(new)
<1>1. /\ old.countdown \in Lengths /\ old.on_length \in Lengths
      /\ old.off_length \in Lengths /\ old.status \in 0 .. 1
      /\ Lengths \subseteq Words
  BY LengthsAreWords DEF Structure, Timed
<1>2. /\ Expires(s) <=> b.left = 1
      /\ ~Expires(s) => b.left > 1 /\ Down(s) = b.left - 1 /\ Down(s) \in Lengths
  BY <1>1, CountedDown DEF Down, Expires, BlinkOf
<1>3. new \in Structure
  <2>1. CASE Expires(s)
    <3>1. /\ (IF IsOn(s) THEN old.off_length ELSE old.on_length) \in Words
          /\ 1 - old.status \in 0 .. 1
      BY <1>1
    <3> QED
      BY <2>1, <3>1 DEF Structure, Counted
  <2>2. CASE ~Expires(s)
    BY <1>1, <1>2, <2>2 DEF Structure, Counted
  <2> QED
    BY <2>1, <2>2
<1>4. /\ new.next = old.next /\ new.location = old.location
      /\ new.on_char = old.on_char /\ new.off_char = old.off_char
      /\ new.on_length = old.on_length /\ new.off_length = old.off_length
      /\ Expires(s) => /\ new.countdown = IF IsOn(s) THEN old.off_length ELSE old.on_length
                       /\ new.status = 1 - old.status
      /\ ~Expires(s) => new.countdown = Down(s) /\ new.status = old.status
  BY DEF Structure, Counted
<1>5. /\ x.location = b.location /\ x.on_char = b.on_char /\ x.off_char = b.off_char
      /\ x.on_length = b.on_length /\ x.off_length = b.off_length
  BY <1>4 DEF BlinkOf
<1>6. b.on = IsOn(s)
  BY DEF BlinkOf, IsOn
<1>7. b.off_length = old.off_length /\ b.on_length = old.on_length
  BY DEF BlinkOf
<1>8. x.left = new.countdown
  BY DEF BlinkOf
<1>9. x.on = (new.status = 1)
  BY DEF BlinkOf
<1>10. /\ x = [location |-> x.location, on_char |-> x.on_char,
               off_char |-> x.off_char, on_length |-> x.on_length,
               off_length |-> x.off_length, left |-> x.left, on |-> x.on]
       /\ b = [location |-> b.location, on_char |-> b.on_char,
               off_char |-> b.off_char, on_length |-> b.on_length,
               off_length |-> b.off_length, left |-> b.left, on |-> b.on]
  BY DEF BlinkOf
<1>11. x.left = IF b.left > 1 THEN b.left - 1
                ELSE IF b.on THEN b.off_length ELSE b.on_length
  <2> HIDE DEF x, b
  <2>1. CASE Expires(s)
    <3>1. ~(b.left > 1)
      BY <1>2, <2>1
    <3>2. new.countdown = IF b.on THEN b.off_length ELSE b.on_length
      BY <1>4, <1>6, <1>7, <2>1
    <3> QED
      BY <1>8, <3>1, <3>2
  <2>2. CASE ~Expires(s)
    BY <1>2, <1>4, <1>8, <2>2
  <2> QED
    BY <2>1, <2>2
<1>12. x.on = IF b.left > 1 THEN b.on ELSE ~b.on
  <2> HIDE DEF x, b
  <2>1. CASE Expires(s)
    <3>1. ~(b.left > 1)
      BY <1>2, <2>1
    <3>2. new.status = 1 <=> ~IsOn(s)
      BY <1>1, <1>4, <2>1 DEF IsOn
    <3> QED
      BY <1>6, <1>9, <3>1, <3>2 DEF IsOn
  <2>2. CASE ~Expires(s)
    <3>1. b.left > 1 /\ (new.status = 1 <=> IsOn(s))
      BY <1>2, <1>4, <2>2 DEF IsOn
    <3> QED
      BY <1>6, <1>9, <3>1 DEF IsOn
  <2> QED
    BY <2>1, <2>2
<1>14. Timed(new)
  <2>1. CASE Expires(s)
    BY <1>1, <1>4, <2>1 DEF Timed
  <2>2. CASE ~Expires(s)
    BY <1>1, <1>2, <1>4, <2>2 DEF Timed
  <2> QED
    BY <2>1, <2>2
<1> HIDE DEF x, b
<1>13. x = [b EXCEPT
              !.left = IF b.left > 1 THEN b.left - 1
                       ELSE IF b.on THEN b.off_length ELSE b.on_length,
              !.on = IF b.left > 1 THEN @ ELSE ~@]
  BY <1>5, <1>10, <1>11, <1>12
<1> QED
  BY <1>2, <1>3, <1>4, <1>13, <1>14 DEF x, b, Aged
\* A tick of the structures is a tick of the blinks, screen and all.
LEMMA TickStep ==
    ASSUME SlotsInv, mp1_rtc_tasklet
    PROVE  SlotsInv' /\ ListOf!Tick
<1> DEFINE n == Len(List)
<1>1. /\ List \in Walks /\ n \in Nat
      /\ \A i \in 1 .. n : List[i] \in Slots
      /\ Leads(blink_array, mp1_list_head, List) /\ Orderly(blink_array, List)
      /\ IsTuple(Seen, n) /\ Len(Seen) = n
      /\ \A i \in 1 .. n : Seen[i] = BlinkOf(blink_array[List[i]])
  BY ListFacts
<1>2. /\ blink_array \in [Slots -> Structure] /\ screen \in [0 .. PLACES - 1 -> STRING]
      /\ \A s \in Slots : blink_array[s].location # 0 => blink_array[s].location < PLACES
  BY DEF SlotsInv, SlotsTyped
<1>3. /\ DOMAIN blink_array' = Slots
      /\ \A s \in Slots : (\A i \in 1 .. n : List[i] # s) =>
            blink_array'[s] = blink_array[s]
      /\ \A i \in 1 .. n : blink_array'[List[i]] = Counted(List[i])
  BY <1>1 DEF mp1_rtc_tasklet
<1>4. blink_array' = [s \in Slots |-> blink_array'[s]]
  BY DEF mp1_rtc_tasklet
<1>5. ASSUME NEW i \in 1 .. n
      PROVE  /\ blink_array'[List[i]] \in Structure /\ Timed(blink_array'[List[i]])
             /\ blink_array'[List[i]].next = blink_array[List[i]].next
             /\ blink_array'[List[i]].location = blink_array[List[i]].location
             /\ Expires(List[i]) <=> Seen[i].left = 1
             /\ BlinkOf(blink_array'[List[i]]) = Aged(Seen[i])
  <2>1. blink_array[List[i]] \in Structure /\ Seen[i] = BlinkOf(blink_array[List[i]])
    BY <1>1, <1>2
  <2>2. Timed(blink_array[List[i]])
    BY <1>1 DEF Orderly, SlotsInv, SlotsTyped
  <2> QED
    BY <1>3, <2>1, <2>2, Ticked
<1>6. /\ blink_array' \in [Slots -> Structure]
      /\ \A s \in Slots : /\ blink_array'[s].next = blink_array[s].next
                          /\ blink_array'[s].location = blink_array[s].location
  <2>1. ASSUME NEW s \in Slots
        PROVE  /\ blink_array'[s] \in Structure
               /\ blink_array'[s].next = blink_array[s].next
               /\ blink_array'[s].location = blink_array[s].location
    <3>1. CASE \A i \in 1 .. n : List[i] # s
      BY <1>2, <1>3, <3>1
    <3>2. CASE \E i \in 1 .. n : List[i] = s
      BY <1>5, <3>2
    <3> QED
      BY <3>1, <3>2
  <2> QED
    BY <1>4, <2>1
<1>7. screen' = Drawn[n] /\ UNCHANGED <<mp1_list_head, ret>>
  BY DEF mp1_rtc_tasklet
<1>8. /\ screen' \in [0 .. PLACES - 1 -> STRING]
      /\ \A place \in 0 .. PLACES - 1 :
           /\ (\A j \in 1 .. n : ~Changes(j, place)) => screen'[place] = screen[place]
           /\ \A j \in 1 .. n :
                 Changes(j, place) /\ (\A k \in 1 .. n : Changes(k, place) => j >= k)
                   => screen'[place] = Other(List[j])
  <2>1. n \in 0 .. n
    BY <1>1
  <2> QED
    BY <1>7, <2>1, DrawnLast
<1>9. Leads(blink_array', mp1_list_head', List) /\ Orderly(blink_array', List)
  BY <1>1, <1>6, <1>7, SameLinks
<1>10. SlotsInv'
  <2>1. SlotsTyped'
    <3>1. ASSUME NEW s \in Slots, blink_array'[s].location # 0
          PROVE  Timed(blink_array'[s])
      <4>1. \E i \in 1 .. n : List[i] = s
        BY <1>1, <1>6, <3>1 DEF Orderly
      <4> QED
        BY <1>5, <4>1
    <3> QED
      BY <1>2, <1>6, <1>8, <3>1 DEF SlotsTyped
  <2> QED
    BY <1>1, <1>9, <2>1 DEF SlotsInv, LinksWalk
<1>11. List' = List
  BY <1>1, <1>9, ListIs DEF List
<1>12. Seen' = [i \in 1 .. n |-> BlinkOf(blink_array'[List[i]])]
  BY <1>11 DEF Seen, BlinkOf
<1> DEFINE Due(place) == {i \in ListOf!At(place) : Seen[i].left = 1}
           Char(b) == IF b.on THEN b.off_char ELSE b.on_char
<1>13. ASSUME NEW place \in 0 .. PLACES - 1
       PROVE  screen'[place] = IF Due(place) = {} THEN screen[place]
                               ELSE Char(Seen[ListOf!Oldest(Due(place))])
  <2>1. Due(place) = {i \in 1 .. n : Changes(i, place)}
    <3>1. ListOf!At(place) = {i \in 1 .. n : blink_array[List[i]].location = place}
      BY Finds
    <3> QED
      BY <1>5, <3>1 DEF Changes
  <2>2. CASE Due(place) = {}
    BY <1>8, <2>1, <2>2
  <2>3. CASE Due(place) # {}
    <3> HIDE DEF Due
    <3>1. \E j \in Due(place) : \A k \in Due(place) : j >= k
      <4>1. Due(place) \subseteq 1 .. n
        BY <2>1
      <4>2. PICK j \in Due(place) : \A k \in Due(place) : k <= j
        BY <1>1, <2>3, <4>1, Greatest
      <4>3. \A k \in Due(place) : j >= k
        BY <1>1, <4>1, <4>2
      <4> QED
        BY <4>3
    <3> DEFINE j == ListOf!Oldest(Due(place))
    <3>2. j \in Due(place) /\ \A k \in Due(place) : j >= k
      BY <3>1 DEF ListOf!Oldest
    <3> HIDE DEF j
    <3>3. j \in 1 .. n /\ Changes(j, place) /\ \A k \in 1 .. n : Changes(k, place) => j >= k
      BY <2>1, <3>2
    <3>4. screen'[place] = Other(List[j])
      BY <1>8, <3>3
    <3>5. Other(List[j]) = Char(Seen[j])
      <4>1. \A b : /\ BlinkOf(b).on = (b.status = 1)
                   /\ BlinkOf(b).on_char = b.on_char /\ BlinkOf(b).off_char = b.off_char
        BY DEF BlinkOf
      <4>2. Seen[j] = BlinkOf(blink_array[List[j]])
        BY <1>1, <3>3
      <4> QED
        BY <4>1, <4>2 DEF Other, IsOn
    <3> QED
      BY <2>3, <3>4, <3>5 DEF j
  <2> QED
    BY <2>2, <2>3
<1>14. screen' = [place \in DOMAIN screen |->
                    IF Due(place) = {} THEN screen[place]
                    ELSE Char(Seen[ListOf!Oldest(Due(place))])]
  <2> HIDE DEF Due, Char
  <2> QED
    BY <1>2, <1>8, <1>13
<1>15. Seen' = [i \in 1 .. Len(Seen) |-> Aged(Seen[i])]
  BY <1>1, <1>5, <1>12, SMTT(30)
<1>16. ListOf!Tick
  BY <1>7, <1>14, <1>15, Zenon DEF ListOf!Tick, Seen, Aged
<1> QED
  BY <1>10, <1>16

-----------------------------------------------------------------------------
\* Every step of the structures is a step of the list of blinks, or none.
LEMMA SlotsStep ==
    ASSUME SlotsInv, [ListNext]_listVars
    PROVE  SlotsInv' /\ [ListOf!Next]_(ListOf!bvars)
<1>1. ASSUME NEW b \in Blinks, mp1_ioctl_add(b)
      PROVE  SlotsInv' /\ ListOf!Next
  BY <1>1, AddStep DEF ListOf!Next
<1>2. ASSUME NEW place \in Places, mp1_ioctl_remove(place)
      PROVE  SlotsInv' /\ ListOf!Next
  <2>1. place # 0
    BY BlinksAssumption DEF Places
  <2> QED
    BY <1>2, <2>1, RemoveStep DEF ListOf!Next, Places
<1>3. ASSUME NEW place \in Places, mp1_ioctl_find(place)
      PROVE  SlotsInv' /\ ListOf!Next
  BY <1>3, FindStep DEF ListOf!Next, Places
<1>4. ASSUME NEW from \in Places, NEW to \in Places, mp1_ioctl_sync(from, to)
      PROVE  SlotsInv' /\ ListOf!Next
  BY <1>4, SyncStep DEF ListOf!Next, Places
<1>5. CASE mp1_rtc_tasklet
  BY <1>5, TickStep DEF ListOf!Next
<1>6. CASE UNCHANGED listVars
  <2>1. SlotsInv' /\ Seen' = Seen
    BY <1>6 DEF listVars, SlotsInv, SlotsTyped, Timed, LinksWalk, Seen, List, BlinkOf
  <2> QED
    BY <1>6, <2>1 DEF listVars, ListOf!bvars, Seen
<1> QED
  BY <1>1, <1>2, <1>3, <1>4, <1>5, <1>6 DEF ListNext

\* The structures and links of blink.S implement a list of blinks: for every
\* number of slots and places, every width of a word, and every blink that asks
\* for times a signed word can count.
THEOREM ListRefined == ListSpec => IsBlinkList
<1>1. ListInit => SlotsInv /\ ListOf!Init
  BY Initially
<1>2. SlotsInv /\ [ListNext]_listVars => SlotsInv' /\ [ListOf!Next]_(ListOf!bvars)
  BY SlotsStep
<1> QED
  BY <1>1, <1>2, PTL DEF ListSpec, IsBlinkList, ListOf!Spec
-----------------------------------------------------------------------------
\* FlattenSeq by its rounds.
Joins(g, p, m) == g = [i \in 1 .. m |-> IF i = 1 THEN p[i] ELSE g[i - 1] \o p[i]]

\* The value of one round.
LEMMA JoinsAt ==
    ASSUME NEW g, NEW p, NEW m, Joins(g, p, m), NEW i \in 1 .. m
    PROVE  g[i] = IF i = 1 THEN p[i] ELSE g[i - 1] \o p[i]
<1> DEFINE f == [j \in 1 .. m |-> IF j = 1 THEN p[j] ELSE g[j - 1] \o p[j]]
<1>1. g = f
  BY DEF Joins
<1>2. f[i] = IF i = 1 THEN p[i] ELSE g[i - 1] \o p[i]
  OBVIOUS
<1> HIDE DEF f
<1> QED
  BY <1>1, <1>2

\* There is a function as the recursion of FlattenSeq says.
LEMMA JoinsExist == ASSUME NEW p, NEW n \in Nat PROVE \E g : Joins(g, p, n)
<1> DEFINE S == {m \in Nat : \E g : Joins(g, p, m)}
<1>1. 0 \in S
  <2>1. Joins([i \in 1 .. 0 |-> p[i]], p, 0)
    BY DEF Joins
  <2> QED
    BY <2>1
<1>2. ASSUME NEW m \in Nat, m \in S PROVE m + 1 \in S
  <2>1. PICK g : Joins(g, p, m)
    BY <1>2
  <2> DEFINE h == [i \in 1 .. m + 1 |->
                     IF i = 1 THEN p[i]
                     ELSE IF i = m + 1 THEN g[m] \o p[m + 1] ELSE g[i]]
  <2>2. ASSUME NEW i \in 1 .. m PROVE h[i] = g[i]
    <3>1. i = 1 => g[i] = p[i]
      BY <2>1 DEF Joins
    <3> QED
      BY <3>1
  <2>3. ASSUME NEW i \in 1 .. m + 1
        PROVE  h[i] = IF i = 1 THEN p[i] ELSE h[i - 1] \o p[i]
    <3>1. CASE i = 1
      BY <3>1
    <3>2. CASE i # 1 /\ i = m + 1
      <4>1. m \in 1 .. m /\ i - 1 = m
        BY <3>2
      <4>0. h[i] = g[m] \o p[i]
        BY <3>2
      <4> HIDE DEF h
      <4> QED
        BY <2>2, <3>2, <4>0, <4>1
    <3>3. CASE i # 1 /\ i # m + 1
      <4>1. i \in 1 .. m /\ i - 1 \in 1 .. m
        BY <3>3
      <4> HIDE DEF h
      <4>2. h[i] = g[i] /\ h[i - 1] = g[i - 1]
        BY <2>2, <4>1
      <4>3. g[i] = g[i - 1] \o p[i]
        BY <2>1, <3>3, <4>1 DEF Joins
      <4> QED
        BY <3>3, <4>2, <4>3
    <3> QED
      BY <3>1, <3>2, <3>3
  <2>4. Joins(h, p, m + 1)
    <3>1. h = [i \in 1 .. m + 1 |-> h[i]]
      OBVIOUS
    <3> HIDE DEF h
    <3> QED
      BY <2>3, <3>1 DEF Joins
  <2> QED
    BY <2>4
<1> HIDE DEF S
<1>3. \A m \in Nat : m \in S
  BY <1>1, <1>2, UpFromZero
<1> QED
  BY <1>3 DEF S

\* Its values depend on the sequences joined so far only, and are sequences.
LEMMA JoinsAgree ==
    ASSUME NEW T, NEW n \in Nat, NEW m \in Nat, n <= m, NEW g, NEW h, NEW p, NEW q,
           Joins(g, p, n), Joins(h, q, m),
           \A i \in 1 .. n : p[i] = q[i] /\ p[i] \in Seq(T)
    PROVE  \A i \in 1 .. n : g[i] = h[i] /\ g[i] \in Seq(T)
<1> DEFINE S == {k \in Nat : k \in 1 .. n => g[k] = h[k] /\ g[k] \in Seq(T)}
<1>1. 0 \in S
  OBVIOUS
<1>2. ASSUME NEW k \in Nat, k \in S PROVE k + 1 \in S
  <2> SUFFICES ASSUME k + 1 \in 1 .. n
               PROVE  g[k + 1] = h[k + 1] /\ g[k + 1] \in Seq(T)
    OBVIOUS
  <2>1. /\ k = 0 => g[k + 1] = p[k + 1] /\ h[k + 1] = q[k + 1]
        /\ k # 0 => g[k + 1] = g[k] \o p[k + 1] /\ h[k + 1] = h[k] \o q[k + 1]
    <3>1. PICK i : i = k + 1
      OBVIOUS
    <3>2. i \in 1 .. n /\ i \in 1 .. m
      BY <3>1
    <3>3. g[i] = IF i = 1 THEN p[i] ELSE g[i - 1] \o p[i]
      BY <3>2, JoinsAt
    <3>4. h[i] = IF i = 1 THEN q[i] ELSE h[i - 1] \o q[i]
      BY <3>2, JoinsAt
    <3>5. i - 1 = k /\ (i = 1 <=> k = 0)
      BY <3>1
    <3>6. CASE k = 0
      <4>1. g[i] = p[i] /\ h[i] = q[i]
        BY <3>3, <3>4, <3>5, <3>6
      <4> QED
        BY <3>1, <3>6, <4>1
    <3>7. CASE k # 0
      <4>1. g[i] = g[i - 1] \o p[i] /\ h[i] = h[i - 1] \o q[i]
        BY <3>3, <3>4, <3>5, <3>7
      <4> QED
        BY <3>1, <3>5, <3>7, <4>1, Zenon
    <3> QED
      BY <3>6, <3>7
  <2>2. p[k + 1] = q[k + 1] /\ p[k + 1] \in Seq(T)
    OBVIOUS
  <2>3. CASE k = 0
    BY <2>1, <2>2, <2>3
  <2>4. CASE k # 0
    <3>1. k \in 1 .. n
      BY <2>4
    <3>2. g[k] = h[k] /\ g[k] \in Seq(T)
      BY <1>2, <3>1
    <3>3. g[k] \o p[k + 1] \in Seq(T)
      BY <2>2, <3>2, ConcatProperties
    <3> QED
      BY <2>1, <2>2, <3>1, <3>2, <3>3
  <2> QED
    BY <2>3, <2>4
<1> HIDE DEF S
<1>3. \A k \in Nat : k \in S
  BY <1>1, <1>2, UpFromZero
<1> QED
  BY <1>3 DEF S

\* FlattenSeq is the last round.
LEMMA Flat ==
    ASSUME NEW n \in Nat, NEW p, IsTuple(p, n)
    PROVE  /\ n = 0 => FlattenSeq(p) = <<>>
           /\ n # 0 => \E g : Joins(g, p, n) /\ FlattenSeq(p) = g[n]
<1>1. Len(p) = n /\ p \in Seq({p[i] : i \in 1 .. n})
  BY TupleLength
<1>2. CASE n = 0
  <2>1. p = <<>>
    BY <1>1, <1>2, EmptySeq
  <2> QED
    BY <1>1, <1>2, <2>1 DEF FlattenSeq
<1>3. CASE n # 0
  <2> DEFINE g == CHOOSE g : g = [i \in 1 .. n |-> IF i = 1 THEN p[i] ELSE g[i - 1] \o p[i]]
  <2>1. FlattenSeq(p) = g[n]
    BY <1>1, <1>3 DEF FlattenSeq
  <2>2. Joins(g, p, n)
    BY JoinsExist, Zenon DEF Joins
  <2> QED
    BY <1>3, <2>1, <2>2, Zenon
<1> QED
  BY <1>2, <1>3

\* One piece more.
LEMMA FlatStep ==
    ASSUME NEW T, NEW n \in Nat, NEW p, NEW q, IsTuple(p, n), IsTuple(q, n + 1),
           \A i \in 1 .. n : p[i] = q[i],
           \A i \in 1 .. n + 1 : q[i] \in Seq(T)
    PROVE  /\ FlattenSeq(p) \in Seq(T) /\ FlattenSeq(q) \in Seq(T)
           /\ FlattenSeq(q) = FlattenSeq(p) \o q[n + 1]
<1>1. PICK h : Joins(h, q, n + 1) /\ FlattenSeq(q) = h[n + 1]
  BY Flat
<1>2. \A i \in 1 .. n + 1 : h[i] \in Seq(T)
  BY <1>1, JoinsAgree
<1>3. /\ n = 0 => h[n + 1] = q[n + 1]
      /\ n # 0 => h[n + 1] = h[n] \o q[n + 1]
  <2>1. PICK i : i = n + 1
    OBVIOUS
  <2>2. i \in 1 .. n + 1
    BY <2>1
  <2>3. h[i] = IF i = 1 THEN q[i] ELSE h[i - 1] \o q[i]
    BY <1>1, <2>2, JoinsAt
  <2>4. i - 1 = n /\ (i = 1 <=> n = 0)
    BY <2>1
  <2>5. CASE n = 0
    <3>1. h[i] = q[i]
      BY <2>3, <2>4, <2>5
    <3> QED
      BY <2>1, <2>5, <3>1
  <2>6. CASE n # 0
    <3>1. h[i] = h[i - 1] \o q[i]
      BY <2>3, <2>4, <2>6
    <3> QED
      BY <2>1, <2>4, <2>6, <3>1, Zenon
  <2> QED
    BY <2>5, <2>6
<1>4. CASE n = 0
  <2>1. FlattenSeq(p) = <<>> /\ FlattenSeq(q) = q[n + 1] /\ q[n + 1] \in Seq(T)
    BY <1>1, <1>3, <1>4, Flat
  <2>2. <<>> \o q[n + 1] = q[n + 1]
    BY <2>1, ConcatEmptySeq
  <2> QED
    BY <2>1, <2>2
<1>5. CASE n # 0
  <2>1. PICK g : Joins(g, p, n) /\ FlattenSeq(p) = g[n]
    BY <1>5, Flat
  <2>2. \A i \in 1 .. n : p[i] = q[i] /\ p[i] \in Seq(T)
    OBVIOUS
  <2>3. g[n] = h[n] /\ g[n] \in Seq(T)
    <3>1. \A i \in 1 .. n : g[i] = h[i] /\ g[i] \in Seq(T)
      BY <1>1, <2>1, <2>2, JoinsAgree
    <3> QED
      BY <1>5, <3>1
  <2>5. FlattenSeq(q) = FlattenSeq(p) \o q[n + 1]
    BY <1>1, <1>3, <1>5, <2>1, <2>3
  <2>6. FlattenSeq(q) \in Seq(T)
    BY <1>1, <1>2
  <2> QED
    BY <2>1, <2>3, <2>5, <2>6
<1> QED
  BY <1>4, <1>5

\* The first n of a function's values on numbers, joined.
UpTo(p, n) == FlattenSeq([i \in 1 .. n |-> p[i]])

\* Joining one by one.
LEMMA UpToStep ==
    ASSUME NEW T, NEW n \in Nat, NEW p, \A i \in 1 .. n + 1 : p[i] \in Seq(T)
    PROVE  /\ UpTo(p, 0) = <<>>
           /\ UpTo(p, n) \in Seq(T) /\ UpTo(p, n + 1) \in Seq(T)
           /\ UpTo(p, n + 1) = UpTo(p, n) \o p[n + 1]
<1> DEFINE f == [i \in 1 .. n |-> p[i]]
           g == [i \in 1 .. n + 1 |-> p[i]]
           z == [i \in 1 .. 0 |-> p[i]]
<1>1. IsTuple(f, n) /\ IsTuple(g, n + 1) /\ IsTuple(z, 0)
  BY DEF IsTuple
<1>2. \A i \in 1 .. n : f[i] = g[i]
  OBVIOUS
<1>3. \A i \in 1 .. n + 1 : g[i] = p[i]
  OBVIOUS
<1>9. \A i \in 1 .. n + 1 : g[i] \in Seq(T)
  OBVIOUS
<1>4. UpTo(p, n) = FlattenSeq(f) /\ UpTo(p, n + 1) = FlattenSeq(g)
      /\ UpTo(p, 0) = FlattenSeq(z)
  BY DEF UpTo
<1> HIDE DEF f, g, z
<1>5. /\ FlattenSeq(f) \in Seq(T) /\ FlattenSeq(g) \in Seq(T)
      /\ FlattenSeq(g) = FlattenSeq(f) \o g[n + 1]
  BY <1>1, <1>2, <1>9, FlatStep, SMTT(30)
<1>6. FlattenSeq(z) = <<>>
  BY <1>1, Flat
<1>7. n + 1 \in 1 .. n + 1
  OBVIOUS
<1>8. g[n + 1] = p[n + 1]
  BY <1>3, <1>7
<1> QED
  BY <1>4, <1>5, <1>6, <1>8

\* What is joined depends on the pieces only.
LEMMA UpToSame ==
    ASSUME NEW n \in Nat, NEW p, NEW q, \A i \in 1 .. n : p[i] = q[i]
    PROVE  UpTo(p, n) = UpTo(q, n)
<1>1. [i \in 1 .. n |-> p[i]] = [i \in 1 .. n |-> q[i]]
  OBVIOUS
<1> QED
  BY <1>1 DEF UpTo

\* The pieces of p are n and then the k of q.
Split(T, p, q, n, k, m) ==
    /\ n \in Nat /\ k \in Nat /\ m \in Nat /\ m = n + k
    /\ \A i \in 1 .. m : p[i] \in Seq(T)
    /\ \A i \in 1 .. k : q[i] = p[n + i]

\* Joining two parts.
LEMMA UpToSplit ==
    ASSUME NEW T, NEW p, NEW q, NEW n, NEW k, NEW m, Split(T, p, q, n, k, m)
    PROVE  /\ UpTo(p, n) \in Seq(T) /\ UpTo(q, k) \in Seq(T)
           /\ UpTo(p, m) = UpTo(p, n) \o UpTo(q, k)
<1> USE DEF Split
<1> DEFINE Both(j) == /\ UpTo(q, j) \in Seq(T)
                      /\ UpTo(p, n + j) = UpTo(p, n) \o UpTo(q, j)
           S == {j \in Nat : j <= k => Both(j)}
<1>0. UpTo(p, n) \in Seq(T)
  <2>1. CASE n = 0
    <3>1. UpTo(p, 0) = <<>>
      BY Flat DEF UpTo, IsTuple
    <3>2. UpTo(p, n) = <<>>
      BY <2>1, <3>1, Zenon
    <3> QED
      BY <3>2, EmptySeq
  <2>2. CASE n # 0
    <3>1. n - 1 \in Nat /\ (n - 1) + 1 = n
      BY <2>2
    <3>2. \A i \in 1 .. (n - 1) + 1 : p[i] \in Seq(T)
      BY <3>1
    <3>3. UpTo(p, (n - 1) + 1) \in Seq(T)
      BY <3>1, <3>2, UpToStep
    <3> QED
      BY <3>1, <3>3
  <2> QED
    BY <2>1, <2>2
<1>1. 0 \in S
  <2>1. UpTo(q, 0) = <<>>
    BY Flat DEF UpTo, IsTuple
  <2>2. UpTo(p, n) \o <<>> = UpTo(p, n)
    BY <1>0, ConcatEmptySeq
  <2>3. <<>> \in Seq(T) /\ n + 0 = n
    OBVIOUS
  <2>4. Both(0)
    BY <2>1, <2>2, <2>3
  <2> HIDE DEF Both
  <2> QED
    BY <2>4
<1>2. ASSUME NEW j \in Nat, j \in S PROVE j + 1 \in S
  <2> SUFFICES ASSUME j + 1 <= k
               PROVE  Both(j + 1)
    <3> HIDE DEF Both
    <3> QED
      OBVIOUS
  <2>1. Both(j)
    <3> HIDE DEF Both
    <3>1. j <= k
      OBVIOUS
    <3> QED
      BY <1>2, <3>1
  <2> HIDE DEF S
  <2>0. n + j \in Nat /\ (n + j) + 1 = n + (j + 1)
    <3> HIDE DEF Both
    <3> QED
      OBVIOUS
  <2>2. PICK h : h = n + j /\ h \in Nat /\ h + 1 = n + (j + 1)
    BY <2>0
  <2>3. \A i \in 1 .. j + 1 : q[i] \in Seq(T)
    <3> TAKE i \in 1 .. j + 1
    <3>1. i \in 1 .. k /\ n + i \in 1 .. n + k
      OBVIOUS
    <3> QED
      BY <3>1
  <2>4. \A i \in 1 .. h + 1 : p[i] \in Seq(T)
    BY <2>2
  <2>5. /\ UpTo(q, j + 1) = UpTo(q, j) \o q[j + 1]
        /\ UpTo(q, j + 1) \in Seq(T)
    BY <2>3, UpToStep
  <2>6. UpTo(p, h + 1) = UpTo(p, h) \o p[h + 1]
    BY <2>2, <2>4, UpToStep
  <2>7. p[h + 1] = q[j + 1] /\ q[j + 1] \in Seq(T)
    <3>1. j + 1 \in 1 .. k /\ j + 1 \in 1 .. j + 1
      OBVIOUS
    <3> QED
      BY <2>2, <2>3, <3>1
  <2>8. (UpTo(p, n) \o UpTo(q, j)) \o q[j + 1] = UpTo(p, n) \o (UpTo(q, j) \o q[j + 1])
    <3>1. PICK x \in Seq(T), y \in Seq(T), z \in Seq(T) :
            x = UpTo(p, n) /\ y = UpTo(q, j) /\ z = q[j + 1]
      BY <1>0, <2>1, <2>7
    <3>2. (x \o y) \o z = x \o (y \o z)
      BY ConcatAssociative
    <3> QED
      BY <3>1, <3>2
  <2>9. UpTo(p, h + 1) = UpTo(p, n) \o UpTo(q, j + 1)
    BY <2>1, <2>2, <2>5, <2>6, <2>7, <2>8
  <2> QED
    BY <2>2, <2>5, <2>9
<1> HIDE DEF S
<1>3. \A j \in Nat : j \in S
  BY <1>1, <1>2, UpFromZero
<1> QED
  BY <1>0, <1>3 DEF S

\* The pieces behind the first n are empty.
Idle(T, p, n, m) ==
    /\ n \in Nat /\ m \in Nat /\ n <= m
    /\ \A i \in 1 .. n : p[i] \in Seq(T)
    /\ \A i \in n + 1 .. m : p[i] = <<>>

\* Empty pieces add nothing.
LEMMA UpToQuiet ==
    ASSUME NEW T, NEW p, NEW n, NEW m, Idle(T, p, n, m)
    PROVE  UpTo(p, m) = UpTo(p, n) /\ UpTo(p, n) \in Seq(T)
<1> USE DEF Idle
<1>0. UpTo(p, n) \in Seq(T)
  <2>1. Split(T, p, p, n, 0, n)
    BY DEF Split
  <2> QED
    BY <2>1, UpToSplit
<1> DEFINE Same(j) == UpTo(p, n + j) = UpTo(p, n)
           S == {j \in Nat : n + j <= m => Same(j)}
<1>1. 0 \in S
  <2>1. Same(0)
    OBVIOUS
  <2> HIDE DEF Same
  <2> QED
    BY <2>1
<1>2. ASSUME NEW j \in Nat, j \in S PROVE j + 1 \in S
  <2> SUFFICES ASSUME n + (j + 1) <= m PROVE Same(j + 1)
    <3> HIDE DEF Same
    <3> QED
      OBVIOUS
  <2>1. Same(j)
    <3> HIDE DEF Same
    <3>1. n + j <= m
      OBVIOUS
    <3> QED
      BY <1>2, <3>1
  <2> HIDE DEF S
  <2>2. PICK k : k = n + j /\ k \in Nat /\ k + 1 = n + (j + 1)
    OBVIOUS
  <2>3. ASSUME NEW i \in 1 .. k + 1 PROVE p[i] \in Seq(T)
    <3>1. CASE i <= n
      BY <3>1
    <3>2. CASE ~ (i <= n)
      <4>1. i \in n + 1 .. m
        BY <2>2, <3>2
      <4> QED
        BY <4>1, EmptySeq
    <3> QED
      BY <3>1, <3>2
  <2>4. UpTo(p, k + 1) = UpTo(p, k) \o p[k + 1] /\ UpTo(p, k) \in Seq(T)
    BY <2>2, <2>3, UpToStep
  <2>5. p[k + 1] = <<>>
    BY <2>2
  <2>6. UpTo(p, k) \o <<>> = UpTo(p, k)
    BY <2>4, ConcatEmptySeq
  <2> QED
    BY <2>1, <2>2, <2>4, <2>5, <2>6
<1> HIDE DEF S
<1>3. \A j \in Nat : j \in S
  BY <1>1, <1>2, UpFromZero
<1>4. m - n \in Nat /\ n + (m - n) = m
  OBVIOUS
<1>5. m - n \in S
  BY <1>3, <1>4
<1>6. n + (m - n) <= m
  BY <1>4
<1>7. UpTo(p, n + (m - n)) = UpTo(p, n)
  BY <1>5, <1>6 DEF S
<1> QED
  BY <1>0, <1>4, <1>7

-----------------------------------------------------------------------------
\* What is left of a file.
LEMMA AfterFacts ==
    ASSUME NEW T, NEW s \in Seq(T), NEW n \in 0 .. Len(s)
    PROVE  /\ After(s, n) \in Seq(T) /\ Len(After(s, n)) = Len(s) - n
           /\ \A i \in 1 .. Len(s) - n : After(s, n)[i] = s[n + i]
<1>1. Len(s) \in Nat /\ \A i \in n + 1 .. Len(s) : s[i] \in T
  BY ElementOfSeq, LenProperties
<1>2. /\ After(s, n) \in Seq(T)
      /\ Len(After(s, n)) = IF n + 1 <= Len(s) THEN Len(s) - (n + 1) + 1 ELSE 0
      /\ \A i \in 1 .. Len(s) - (n + 1) + 1 : After(s, n)[i] = s[n + 1 + i - 1]
  BY <1>1, SubSeqProperties DEF After
<1>3. Len(After(s, n)) = Len(s) - n
  BY <1>1, <1>2
<1>4. ASSUME NEW i \in 1 .. Len(s) - n PROVE After(s, n)[i] = s[n + i]
  <2>1. i \in 1 .. Len(s) - (n + 1) + 1 /\ n + 1 + i - 1 = n + i
    BY <1>1
  <2> QED
    BY <1>2, <2>1
<1> QED
  BY <1>2, <1>3, <1>4

\* The beginning of what is left, and what is left behind that.
LEMMA AfterAfter ==
    ASSUME NEW T, NEW s \in Seq(T), NEW n \in 0 .. Len(s), NEW k \in 0 .. Len(s) - n
    PROVE  /\ After(After(s, n), k) = After(s, n + k)
           /\ Take(After(s, n), k) \in Seq(T) /\ Len(Take(After(s, n), k)) = k
           /\ \A i \in 1 .. k : Take(After(s, n), k)[i] = s[n + i]
<1> DEFINE a == After(s, n)
<1>0. Len(s) \in Nat /\ n + k \in 0 .. Len(s)
  BY LenProperties
<1>1. /\ a \in Seq(T) /\ Len(a) = Len(s) - n
      /\ \A i \in 1 .. Len(s) - n : a[i] = s[n + i]
  BY AfterFacts
<1> HIDE DEF a
<1>2. /\ After(a, k) \in Seq(T) /\ Len(After(a, k)) = Len(a) - k
      /\ \A i \in 1 .. Len(a) - k : After(a, k)[i] = a[k + i]
  <2>1. k \in 0 .. Len(a)
    BY <1>1
  <2> QED
    BY <1>1, <2>1, AfterFacts, ZenonT(40)
<1>3. /\ After(s, n + k) \in Seq(T) /\ Len(After(s, n + k)) = Len(s) - (n + k)
      /\ \A i \in 1 .. Len(s) - (n + k) : After(s, n + k)[i] = s[n + k + i]
  BY <1>0, AfterFacts
<1>4. Len(After(a, k)) = Len(After(s, n + k))
  <2>1. (Len(s) - n) - k = Len(s) - (n + k)
    BY <1>0
  <2> QED
    BY <1>1, <1>2, <1>3, <2>1
<1>5. ASSUME NEW i \in 1 .. Len(After(a, k)) PROVE After(a, k)[i] = After(s, n + k)[i]
  <2>1. /\ i \in 1 .. Len(a) - k /\ k + i \in 1 .. Len(s) - n
        /\ i \in 1 .. Len(s) - (n + k) /\ n + (k + i) = n + k + i
    BY <1>0, <1>1, <1>2, SMTT(30)
  <2> QED
    BY <1>1, <1>2, <1>3, <2>1
<1>6. After(a, k) = After(s, n + k)
  BY <1>2, <1>3, <1>4, <1>5, SeqEqual
<1>7. \A i \in 1 .. k : a[i] \in T
  <2> TAKE i \in 1 .. k
  <2>1. i \in 1 .. Len(a)
    BY <1>0, <1>1
  <2> QED
    BY <1>1, <2>1, ElementOfSeq
<1>8. /\ Take(a, k) \in Seq(T) /\ Len(Take(a, k)) = IF 1 <= k THEN k - 1 + 1 ELSE 0
      /\ \A i \in 1 .. k - 1 + 1 : Take(a, k)[i] = a[1 + i - 1]
  BY <1>7, SubSeqProperties DEF Take
<1>9. ASSUME NEW i \in 1 .. k PROVE Take(a, k)[i] = s[n + i]
  <2>1. i \in 1 .. k - 1 + 1 /\ 1 + i - 1 = i /\ i \in 1 .. Len(s) - n
    BY <1>0
  <2> QED
    BY <1>1, <1>8, <2>1
<1> QED
  BY <1>6, <1>8, <1>9 DEF a

\* Its first element.
LEMMA AfterHead ==
    ASSUME NEW T, NEW s \in Seq(T), NEW n \in 0 .. Len(s)
    PROVE  /\ After(s, n) = <<>> <=> n = Len(s)
           /\ n # Len(s) => /\ Head(After(s, n)) = s[n + 1]
                            /\ Tail(After(s, n)) = After(s, n + 1)
<1> DEFINE a == After(s, n)
<1>0. Len(s) \in Nat
  BY LenProperties
<1>1. /\ a \in Seq(T) /\ Len(a) = Len(s) - n
      /\ \A i \in 1 .. Len(s) - n : a[i] = s[n + i]
  BY AfterFacts
<1> HIDE DEF a
<1>2. a = <<>> <=> n = Len(s)
  BY <1>0, <1>1, EmptySeq
<1>3. ASSUME n # Len(s) PROVE Head(a) = s[n + 1] /\ Tail(a) = After(s, n + 1)
  <2>1. a # <<>> /\ 1 \in 1 .. Len(s) - n
    BY <1>0, <1>2, <1>3
  <2>2. Head(a) = a[1]
    BY <1>1, <2>1
  <2>3. Tail(a) = SubSeq(a, 2, Len(a))
    BY <1>1, <2>1, TailIsSubSeq
  <2>4. Tail(a) = After(a, 1)
    BY <2>3 DEF After
  <2>5. 1 \in 0 .. Len(s) - n
    BY <2>1
  <2>6. After(After(s, n), 1) = After(s, n + 1)
    BY <2>5, AfterAfter
  <2> QED
    BY <1>1, <2>1, <2>2, <2>4, <2>6 DEF a
<1> QED
  BY <1>2, <1>3 DEF a

-----------------------------------------------------------------------------
\* What cat prints of a text, character by character.
Printing(s) == [i \in 1 .. Len(s) |-> IF s[i] = NUL THEN <<>> ELSE <<s[i]>>]

\* It is sequences of characters, and all of it joined is what is visible.
LEMMA PrintingIs ==
    ASSUME NEW s \in Seq(STRING)
    PROVE  /\ Visible(s) = UpTo(Printing(s), Len(s))
           /\ \A i \in 1 .. Len(s) : /\ Printing(s)[i] \in Seq(STRING)
                                     /\ s[i] = NUL => Printing(s)[i] = <<>>
                                     /\ s[i] # NUL => Printing(s)[i] = <<s[i]>>
<1>1. [i \in 1 .. Len(s) |-> Printing(s)[i]] = Printing(s)
  BY DEF Printing
<1>2. Visible(s) = UpTo(Printing(s), Len(s))
  BY <1>1 DEF Visible, UpTo, Printing
<1>3. ASSUME NEW i \in 1 .. Len(s)
      PROVE  /\ Printing(s)[i] \in Seq(STRING)
             /\ s[i] = NUL => Printing(s)[i] = <<>>
             /\ s[i] # NUL => Printing(s)[i] = <<s[i]>>
  <2>1. s[i] \in STRING
    BY ElementOfSeq
  <2>2. <<s[i]>> \in Seq(STRING) /\ <<>> \in Seq(STRING)
    BY <2>1
  <2>3. Printing(s)[i] = IF s[i] = NUL THEN <<>> ELSE <<s[i]>>
    BY DEF Printing
  <2> QED
    BY <2>2, <2>3
<1> QED
  BY <1>2, <1>3

\* A part of a text and the next part.
LEMMA VisibleJoins ==
    ASSUME NEW s \in Seq(STRING), NEW n \in 0 .. Len(s), NEW k \in 0 .. Len(s) - n
    PROVE  Visible(Take(s, n + k)) = Visible(Take(s, n)) \o Visible(Take(After(s, n), k))
<1>0. Len(s) \in Nat /\ n \in Nat /\ k \in Nat /\ n + k \in 0 .. Len(s)
  BY LenProperties
<1>1. After(s, 0) = s
  BY SubSeqFull DEF After
<1>2. ASSUME NEW m \in 0 .. Len(s)
      PROVE  /\ Take(s, m) \in Seq(STRING) /\ Len(Take(s, m)) = m
             /\ \A i \in 1 .. m : Take(s, m)[i] = s[i]
  <2>1. /\ Take(After(s, 0), m) \in Seq(STRING) /\ Len(Take(After(s, 0), m)) = m
        /\ \A i \in 1 .. m : Take(After(s, 0), m)[i] = s[0 + i]
    <3>1. 0 \in 0 .. Len(s) /\ m \in 0 .. Len(s) - 0
      BY <1>0
    <3> QED
      BY <3>1, AfterAfter
  <2>2. \A i \in 1 .. m : 0 + i = i
    OBVIOUS
  <2> QED
    BY <1>1, <2>1, <2>2
<1>3. ASSUME NEW m \in 0 .. Len(s)
      PROVE  Visible(Take(s, m)) = UpTo(Printing(s), m)
  <2> DEFINE t == Take(s, m)
  <2>1. t \in Seq(STRING) /\ Len(t) = m /\ \A i \in 1 .. m : t[i] = s[i]
    BY <1>2
  <2> HIDE DEF t
  <2>2. ASSUME NEW i \in 1 .. m PROVE Printing(t)[i] = Printing(s)[i]
    <3>1. i \in 1 .. Len(s) /\ i \in 1 .. Len(t) /\ t[i] = s[i]
      BY <1>0, <2>1
    <3> QED
      BY <3>1 DEF Printing
  <2>3. UpTo(Printing(t), m) = UpTo(Printing(s), m)
    BY <2>2, UpToSame
  <2>4. Visible(t) = UpTo(Printing(t), m)
    BY <2>1, PrintingIs
  <2> QED
    BY <2>3, <2>4 DEF t
<1>4. /\ Take(After(s, n), k) \in Seq(STRING) /\ Len(Take(After(s, n), k)) = k
      /\ \A i \in 1 .. k : Take(After(s, n), k)[i] = s[n + i]
  BY AfterAfter
<1> DEFINE t == Take(After(s, n), k)
<1> HIDE DEF t
<1>5. t \in Seq(STRING) /\ Len(t) = k /\ \A i \in 1 .. k : t[i] = s[n + i]
  BY <1>4 DEF t
<1>6. ASSUME NEW i \in 1 .. k PROVE Printing(t)[i] = Printing(s)[n + i]
  <2>1. n + i \in 1 .. Len(s) /\ i \in 1 .. Len(t) /\ t[i] = s[n + i]
    BY <1>0, <1>5
  <2> QED
    BY <2>1 DEF Printing
<1>7. \A i \in 1 .. n + k : Printing(s)[i] \in Seq(STRING)
  BY <1>0, PrintingIs
<1>8. UpTo(Printing(s), n + k) = UpTo(Printing(s), n) \o UpTo(Printing(t), k)
  <2>1. PICK p, q, T : p = Printing(s) /\ q = Printing(t) /\ T = STRING
    OBVIOUS
  <2>2. \A i \in 1 .. n + k : p[i] \in Seq(T)
    BY <1>7, <2>1
  <2>4. \A i \in 1 .. k : q[i] = p[n + i]
    BY <1>6, <2>1
  <2>3. UpTo(p, n + k) = UpTo(p, n) \o UpTo(q, k)
    <3>1. PICK m \in Nat : m = n + k
      BY <1>0
    <3>2. Split(T, p, q, n, k, m)
      BY <1>0, <2>2, <2>4, <3>1 DEF Split
    <3>3. UpTo(p, m) = UpTo(p, n) \o UpTo(q, k)
      BY <3>2, UpToSplit
    <3> QED
      BY <3>1, <3>3
  <2> QED
    BY <2>1, <2>3
<1>9. Visible(t) = UpTo(Printing(t), k)
  BY <1>5, PrintingIs
<1>10. Visible(Take(s, n + k)) = UpTo(Printing(s), n + k)
  BY <1>0, <1>3
<1>11. Visible(Take(s, n)) = UpTo(Printing(s), n)
  BY <1>3
<1> QED
  BY <1>8, <1>9, <1>10, <1>11 DEF t

\* The beginning of a text: nothing of it, or all of it.
LEMMA TakeEnds ==
    ASSUME NEW T, NEW s \in Seq(T)
    PROVE  /\ Take(s, 0) = <<>> /\ Take(s, Len(s)) = s /\ After(s, 0) = s
           /\ 0 \in 0 .. Len(s) /\ Len(s) \in 0 .. Len(s)
<1>1. Take(s, 0) = <<>>
  BY SubSeqEmpty DEF Take
<1>2. Len(s) \in Nat
  BY LenProperties
<1>3. Take(s, Len(s)) = s /\ After(s, 0) = s
  BY SubSeqFull DEF Take, After
<1> QED
  BY <1>1, <1>2, <1>3

-----------------------------------------------------------------------------
FilesTyped ==
    /\ prog \in {"cat", "ls", "grep", "fish"}
    /\ text \in [Files -> Seq(STRING)] /\ rest \in [Files -> Seq(STRING)]
    /\ last \in 0 .. BUFSIZE
    /\ prog = "grep" /\ stage = "line" => line_start \in 0 .. last

\* cat has printed what it has read.
CatInv ==
    prog = "cat" =>
        /\ arg \in Files \cup {Dot, Rtc, "none"}
        /\ stage \in {"start", "read", "halted"}
        /\ stage = "start" => shown = <<>> /\ pos = 1
        /\ stage = "read" =>
             /\ arg # "none"
             /\ arg \in Files =>
                  \E n \in 0 .. Len(text[arg]) :
                     rest[arg] = After(text[arg], n) /\ shown = Visible(Take(text[arg], n))
             /\ arg = Dot => pos \in 1 .. Len(Directory) + 1 /\ shown = Take(Directory, pos - 1)
             /\ arg = Rtc => shown = <<>>
        /\ stage = "halted" => FilesArePrinted

\* What ls prints for each name.
Listing == [k \in 1 .. Len(Directory) |-> <<Directory[k], NL>>]

\* ls has printed the names it has read.
LsInv ==
    prog = "ls" =>
        /\ stage \in {"start", "halted"} /\ pos \in Nat
        /\ stage = "start" => pos \in 1 .. Len(Directory) + 1 /\ shown = UpTo(Listing, pos - 1)
        /\ stage = "halted" => FilesArePrinted

\* Opening a file or the directory.
LEMMA CatOpenKeeps == ASSUME FilesTyped, CatInv, CatOpen PROVE CatInv'
<1> USE DEF CatOpen, Puts, Exit, Dot, Rtc, Files
<1>1. /\ prog = "cat" /\ prog' = "cat" /\ arg' = arg /\ text' = text /\ pos' = pos
      /\ shown = <<>> /\ pos = 1 /\ arg \in Files \cup {Dot, Rtc, "none"}
  BY DEF CatInv
<1>2. CASE arg = "none"
  <2>1. stage' = "halted" /\ status' = 2
    BY <1>2
  <2>2. FilesArePrinted'
    BY <1>1, <1>2, <2>1 DEF FilesArePrinted
  <2> QED
    BY <1>1, <2>1, <2>2 DEF CatInv
<1>3. CASE arg # "none"
  <2>1. stage' = "read" /\ shown' = shown
    BY <1>3
  <2>2. arg \in Files => rest'[arg] = text[arg]
    BY <1>3 DEF FilesTyped
  <2>3. ASSUME arg \in Files
        PROVE  \E n \in 0 .. Len(text[arg]) :
                  rest'[arg] = After(text[arg], n) /\ <<>> = Visible(Take(text[arg], n))
    <3>1. text[arg] \in Seq(STRING) /\ Len(text[arg]) \in Nat
      BY <2>3, LenProperties DEF FilesTyped
    <3>2. After(text[arg], 0) = text[arg] /\ Take(text[arg], 0) = <<>>
      BY <3>1, TakeEnds
    <3>3. Visible(<<>>) = <<>>
      <4>1. <<>> \in Seq(STRING) /\ Len(<<>>) = 0
        BY EmptySeq
      <4>2. Visible(<<>>) = UpTo(Printing(<<>>), 0)
        BY <4>1, PrintingIs
      <4>3. UpTo(Printing(<<>>), 0) = <<>>
        BY Flat DEF UpTo, IsTuple
      <4> QED
        BY <4>2, <4>3
    <3>4. rest'[arg] = After(text[arg], 0) /\ <<>> = Visible(Take(text[arg], 0))
      BY <2>2, <2>3, <3>2, <3>3
    <3>5. 0 \in 0 .. Len(text[arg])
      BY <3>1, TakeEnds
    <3> QED
      BY <3>4, <3>5
  <2>4. Take(Directory, 0) = <<>> /\ Len(Directory) \in Nat
    BY TextsAssumption, TakeEnds, LenProperties
  <2> QED
    BY <1>1, <1>3, <2>1, <2>3, <2>4 DEF CatInv
<1> QED
  BY <1>2, <1>3

\* A read, and printing what it gave.
LEMMA CatReadKeeps == ASSUME FilesTyped, CatInv, CatRead PROVE CatInv'
<1>1. /\ prog = "cat" /\ prog' = "cat" /\ arg' = arg /\ text' = text
      /\ stage = "read" /\ arg \in Files \cup {Dot, Rtc} /\ Dot \notin Files /\ Rtc \notin Files
      /\ Dot # Rtc /\ "none" \notin Files \cup {Dot, Rtc}
  BY DEF CatInv, CatRead, Dot, Rtc, Files
<1>2. CASE arg \in Files
  <2> DEFINE s == text[arg]
             k == Lesser(BUFSIZE, Len(rest[arg]))
  <2>1. s \in Seq(STRING) /\ Len(s) \in Nat
    BY <1>2, LenProperties DEF FilesTyped
  <2>2. PICK n \in 0 .. Len(s) : rest[arg] = After(s, n) /\ shown = Visible(Take(s, n))
    BY <1>1, <1>2 DEF CatInv
  <2>3. Len(rest[arg]) = Len(s) - n
    BY <2>1, <2>2, AfterFacts
  <2>4. /\ k \in 0 .. Len(s) - n
        /\ k = 0 => n = Len(s)
    BY <2>1, <2>3, TextsAssumption DEF Lesser
  <2>5. CASE k = 0
    <3>1. stage' = "halted" /\ status' = 0 /\ shown' = shown
      BY <1>1, <1>2, <2>5 DEF CatRead, Exit
    <3>2. shown = Visible(s)
      BY <2>1, <2>2, <2>4, <2>5, TakeEnds
    <3>3. FilesArePrinted'
      BY <1>1, <1>2, <3>1, <3>2 DEF FilesArePrinted
    <3> QED
      BY <1>1, <1>2, <3>1, <3>3 DEF CatInv
  <2>6. CASE k # 0
    <3>1. /\ stage' = "read" /\ shown' = shown \o Visible(Take(rest[arg], k))
          /\ rest' = [rest EXCEPT ![arg] = After(@, k)]
      BY <1>1, <1>2, <2>4, <2>6 DEF CatRead, Puts, Exit
    <3> HIDE DEF s, k
    <3>2. rest'[arg] = After(After(s, n), k)
      BY <1>2, <2>2, <3>1 DEF FilesTyped
    <3>3. rest'[arg] = After(s, n + k)
      BY <2>1, <2>4, <3>2, AfterAfter
    <3>4. shown' = Visible(Take(s, n + k))
      BY <2>1, <2>2, <2>4, <3>1, VisibleJoins
    <3>5. n + k \in 0 .. Len(s)
      BY <2>1, <2>4
    <3>6. \E m \in 0 .. Len(s) : rest'[arg] = After(s, m) /\ shown' = Visible(Take(s, m))
      BY <3>3, <3>4, <3>5
    <3> QED
      BY <1>1, <1>2, <3>1, <3>6 DEF CatInv, s
  <2> QED
    BY <2>5, <2>6
<1>3. CASE arg = Rtc
  <2>1. stage' = "halted" /\ status' = 0 /\ shown' = shown /\ shown = <<>>
    BY <1>1, <1>3 DEF CatRead, Exit, CatInv
  <2>2. FilesArePrinted'
    BY <1>1, <1>3, <2>1 DEF FilesArePrinted
  <2> QED
    BY <1>1, <1>3, <2>1, <2>2 DEF CatInv
<1>4. CASE arg = Dot
  <2>0. Directory \in Seq(STRING) /\ Len(Directory) \in Nat
    BY TextsAssumption, LenProperties
  <2>1. pos \in 1 .. Len(Directory) + 1 /\ shown = Take(Directory, pos - 1)
    BY <1>1, <1>4 DEF CatInv
  <2>2. CASE pos > Len(Directory)
    <3>1. stage' = "halted" /\ status' = 0 /\ shown' = shown
      BY <1>1, <1>4, <2>0, <2>1, <2>2 DEF CatRead, Exit
    <3>2. pos - 1 = Len(Directory)
      BY <2>0, <2>1, <2>2
    <3>3. shown = Directory
      BY <2>0, <2>1, <3>2, TakeEnds
    <3>4. FilesArePrinted'
      BY <1>1, <1>4, <3>1, <3>3 DEF FilesArePrinted
    <3> QED
      BY <1>1, <1>4, <3>1, <3>4 DEF CatInv
  <2>3. CASE pos <= Len(Directory)
    <3>1. stage' = "read" /\ pos' = pos + 1 /\ shown' = shown \o <<Directory[pos]>>
      BY <1>1, <1>4, <2>0, <2>1, <2>3 DEF CatRead, Puts, Exit
    <3>2. Take(Directory, pos) = Take(Directory, pos - 1) \o <<Directory[pos]>>
      <4>1. 1 \in 1 .. Len(Directory) /\ pos \in 1 .. Len(Directory)
        BY <2>0, <2>1, <2>3
      <4> QED
        BY <2>0, <4>1, SubSeqRecursiveSecond DEF Take
    <3>3. pos' \in 1 .. Len(Directory) + 1 /\ pos' - 1 = pos
      BY <2>0, <2>1, <2>3, <3>1
    <3>4. shown' = Take(Directory, pos' - 1)
      BY <2>1, <3>1, <3>2, <3>3
    <3> QED
      BY <1>1, <1>4, <3>1, <3>3, <3>4 DEF CatInv
  <2> QED
    BY <2>0, <2>1, <2>2, <2>3
<1> QED
  BY <1>1, <1>2, <1>3, <1>4

\* Two of a set.
LEMMA TwoOf == ASSUME NEW S, NEW x \in S, NEW y \in S PROVE <<x, y>> \in Seq(S)
  OBVIOUS

\* Listing the directory.
LEMMA LsKeeps == ASSUME LsInv, Ls PROVE LsInv'
<1>0. Directory \in Seq(STRING) /\ Len(Directory) \in Nat /\ NL \in STRING
  BY TextsAssumption, LenProperties
<1>1. /\ prog = "ls" /\ prog' = "ls" /\ stage = "start" /\ pos' = pos + 1
      /\ pos \in 1 .. Len(Directory) + 1 /\ shown = UpTo(Listing, pos - 1)
  BY DEF LsInv, Ls
<1>2. ASSUME NEW k \in 1 .. Len(Directory)
      PROVE  Listing[k] = <<Directory[k], NL>> /\ Listing[k] \in Seq(STRING)
  <2>1. Directory[k] \in STRING
    BY <1>0, ElementOfSeq
  <2>2. Listing[k] = <<Directory[k], NL>>
    BY DEF Listing
  <2>3. <<Directory[k], NL>> \in Seq(STRING)
    BY <1>0, <2>1, TwoOf
  <2> QED
    BY <2>2, <2>3
<1>3. CASE pos > Len(Directory)
  <2>1. stage' = "halted" /\ shown' = shown /\ pos - 1 = Len(Directory)
    BY <1>0, <1>1, <1>3 DEF Ls, Exit
  <2>2. UpTo(Listing, Len(Directory)) = FlattenSeq([k \in 1 .. Len(Directory) |-> <<Directory[k], NL>>])
    <3>1. [k \in 1 .. Len(Directory) |-> Listing[k]] = [k \in 1 .. Len(Directory) |-> <<Directory[k], NL>>]
      BY <1>2
    <3> QED
      BY <3>1 DEF UpTo
  <2>3. FilesArePrinted'
    BY <1>1, <2>1, <2>2 DEF FilesArePrinted
  <2> QED
    BY <1>0, <1>1, <2>1, <2>3 DEF LsInv
<1>4. CASE pos <= Len(Directory)
  <2>1. stage' = "start" /\ shown' = shown \o <<Directory[pos], NL>>
    <3>1. ~ (pos > Len(Directory))
      BY <1>0, <1>1, <1>4
    <3> QED
      BY <1>1, <3>1, Zenon DEF Ls, Puts
  <2>2. PICK n \in Nat : n = pos - 1 /\ n + 1 = pos
    BY <1>1
  <2>3. \A k \in 1 .. n + 1 : Listing[k] \in Seq(STRING)
    BY <1>0, <1>2, <1>4, <2>2
  <2>4. UpTo(Listing, n + 1) = UpTo(Listing, n) \o Listing[n + 1]
    BY <2>3, UpToStep
  <2>5. Listing[pos] = <<Directory[pos], NL>>
    BY <1>0, <1>1, <1>2, <1>4
  <2>6. pos' \in 1 .. Len(Directory) + 1 /\ pos' - 1 = pos
    BY <1>0, <1>1, <1>4
  <2>7. shown' = UpTo(Listing, pos' - 1)
    BY <1>1, <2>1, <2>2, <2>4, <2>5, <2>6
  <2> QED
    BY <1>1, <2>1, <2>6, <2>7 DEF LsInv
<1> QED
  BY <1>0, <1>1, <1>3, <1>4

-----------------------------------------------------------------------------
\* A stretch of a text without a newline.
Quiet(s, a, b) == \A k \in a .. b : s[k] # NL

\* The break before a character.
LEMMA OpensAt ==
    ASSUME NEW s, Len(s) \in Nat, NEW e \in 1 .. Len(s) + 1, NEW p \in Breaks(s), p < e,
           Quiet(s, p + 1, e - 1)
    PROVE  Opens(s, e) = p
<1>1. \A b \in Breaks(s) : b \in Nat /\ (b # 0 => s[b] = NL)
  BY DEF Breaks
<1> DEFINE Before(b) == b < e /\ \A k \in b + 1 .. e - 1 : s[k] # NL
<1>2. Before(p)
  BY DEF Quiet
<1>3. ASSUME NEW b \in Breaks(s), Before(b) PROVE b = p
  <2>1. b \in Nat /\ p \in Nat /\ e \in Nat /\ b < e
    BY <1>1, <1>3
  <2>2. CASE b < p
    <3>1. p \in b + 1 .. e - 1 /\ p # 0
      BY <2>1, <2>2
    <3> QED
      BY <1>1, <1>3, <3>1
  <2>3. CASE p < b
    <3>1. b \in p + 1 .. e - 1 /\ b # 0
      BY <2>1, <2>3
    <3> QED
      BY <1>1, <1>2, <3>1
  <2> QED
    BY <2>1, <2>2, <2>3
<1>4. Opens(s, e) = CHOOSE b \in Breaks(s) : Before(b)
  BY DEF Opens
<1> HIDE DEF Before
<1> QED
  BY <1>2, <1>3, <1>4

\* There is one for every character.
LEMMA OpensThere ==
    ASSUME NEW s, Len(s) \in Nat, NEW e \in 1 .. Len(s) + 1
    PROVE  /\ Opens(s, e) \in Breaks(s) /\ Opens(s, e) \in 0 .. e - 1
           /\ Quiet(s, Opens(s, e) + 1, e - 1)
<1> DEFINE T == {k \in 1 .. e - 1 : s[k] = NL}
<1>0. Breaks(s) \subseteq 0 .. Len(s)
  BY DEF Breaks
<1>1. \E p \in Breaks(s) : p < e /\ Quiet(s, p + 1, e - 1)
  <2>1. CASE T = {}
    <3>1. 0 \in Breaks(s) /\ 0 < e /\ Quiet(s, 0 + 1, e - 1)
      BY <2>1 DEF Breaks, Quiet
    <3> QED
      BY <3>1
  <2>2. CASE T # {}
    <3>1. PICK m \in T : \A i \in T : i <= m
      <4>1. e \in Nat /\ T \subseteq 1 .. e
        OBVIOUS
      <4> QED
        BY <2>2, <4>1, Greatest
    <3>2. m \in Breaks(s) /\ m < e /\ m \in Nat
      BY DEF Breaks
    <3>3. Quiet(s, m + 1, e - 1)
      <4> SUFFICES ASSUME NEW k \in m + 1 .. e - 1, s[k] = NL PROVE FALSE
        BY DEF Quiet
      <4>1. k \in 1 .. e - 1 /\ ~ (k <= m)
        BY <3>2
      <4> QED
        BY <3>1, <4>1
    <3> QED
      BY <3>2, <3>3
  <2> QED
    BY <2>1, <2>2
<1>2. PICK p \in Breaks(s) : p < e /\ Quiet(s, p + 1, e - 1)
  BY <1>1
<1>3. Opens(s, e) = p
  BY <1>2, OpensAt
<1>4. p \in 0 .. e - 1
  BY <1>0, <1>2
<1> QED
  BY <1>2, <1>3, <1>4

\* A text between two lines, or between a line and its newline.
Edge(s, p) == p = 0 \/ s[p] = NL \/ p = Len(s) \/ s[p + 1] = NL

\* A part of a text.
LEMMA PartIs ==
    ASSUME NEW T, NEW s \in Seq(T), NEW a \in 0 .. Len(s), NEW b \in a .. Len(s)
    PROVE  /\ SubSeq(s, a + 1, b) \in Seq(T) /\ Len(SubSeq(s, a + 1, b)) = b - a
           /\ \A i \in 1 .. b - a : SubSeq(s, a + 1, b)[i] = s[a + i]
<1>0. Len(s) \in Nat
  BY LenProperties
<1>1. \A i \in a + 1 .. b : s[i] \in T
  BY <1>0, ElementOfSeq
<1>2. a + 1 \in Int /\ b \in Int
  BY <1>0
<1>3. /\ SubSeq(s, a + 1, b) \in Seq(T)
      /\ Len(SubSeq(s, a + 1, b)) = IF a + 1 <= b THEN b - (a + 1) + 1 ELSE 0
      /\ \A i \in 1 .. b - (a + 1) + 1 : SubSeq(s, a + 1, b)[i] = s[a + 1 + i - 1]
  BY <1>1, <1>2, SubSeqProperties
<1>4. Len(SubSeq(s, a + 1, b)) = b - a
  BY <1>0, <1>3
<1>5. ASSUME NEW i \in 1 .. b - a PROVE SubSeq(s, a + 1, b)[i] = s[a + i]
  <2>1. i \in 1 .. b - (a + 1) + 1 /\ a + 1 + i - 1 = a + i
    BY <1>0
  <2> QED
    BY <1>3, <2>1
<1> QED
  BY <1>3, <1>4, <1>5

\* What a line on the screen is made of.
Letters == STRING \cup {":"}

\* A sequence is one over a larger set.
LEMMA SeqWider == ASSUME NEW S, NEW T, S \subseteq T, NEW s \in Seq(S) PROVE s \in Seq(T)
  OBVIOUS

\* What grep finds at each place of a text.
FoundIn(f, s) == [e \in 1 .. Len(s) |-> Found(f, e)]
Report(f, line) == <<f, ":">> \o line \o <<NL>>

\* What is reported is a sequence.
LEMMA ReportTyped ==
    ASSUME NEW f \in STRING, NEW line \in Seq(STRING)
    PROVE  Report(f, line) \in Seq(Letters)
<1>1. <<f, ":">> \in Seq(Letters) /\ <<NL>> \in Seq(Letters)
  <2>1. NL \in Letters /\ f \in Letters /\ ":" \in Letters
    BY TextsAssumption DEF Letters
  <2>2. <<f, ":">> \in Seq(Letters)
    BY <2>1, TwoOf
  <2> QED
    BY <2>1, <2>2
<1>2. line \in Seq(Letters)
  BY SeqWider DEF Letters
<1> QED
  BY <1>1, <1>2, ConcatProperties DEF Report

\* What is found is a sequence.
LEMMA FoundTyped ==
    ASSUME NEW f \in STRING, NEW s \in Seq(STRING), text[f] = s, NEW e \in 1 .. Len(s)
    PROVE  Found(f, e) \in Seq(Letters)
<1>1. Opens(s, e) \in 0 .. e - 1 /\ Len(s) \in Nat
  <2>1. Len(s) \in Nat
    BY LenProperties
  <2> QED
    BY <2>1, OpensThere
<1>2. Opens(s, e) \in 0 .. Len(s) /\ e \in Opens(s, e) .. Len(s)
  BY <1>1
<1>3. LineTo(s, e) \in Seq(STRING)
  BY <1>2, PartIs DEF LineTo
<1>4. Report(f, LineTo(s, e)) \in Seq(Letters)
  BY <1>3, ReportTyped
<1>5. <<>> \in Seq(Letters)
  BY EmptySeq
<1> QED
  BY <1>4, <1>5 DEF Found, Report

\* A line of a text from p to e, and the newline behind it if z is one on.
LineAt(f, s, p, e, z, line) ==
    /\ f \in STRING /\ s \in Seq(STRING) /\ (Len(s) # 0 => text[f] = s)
    /\ p \in 0 .. Len(s) /\ e \in p .. Len(s) /\ z \in e .. Len(s)
    /\ Edge(s, p) /\ Quiet(s, p + 1, e)
    /\ e = Len(s) \/ s[e + 1] = NL
    /\ z = e \/ (z = e + 1 /\ s[z] = NL)
    /\ line = SubSeq(s, p + 1, e)

\* What is found there is the line, if it matches.
LEMMA FoundLine ==
    ASSUME NEW f, NEW s, NEW p, NEW e, NEW z, NEW line, LineAt(f, s, p, e, z, line)
    PROVE  UpTo(FoundIn(f, s), z) =
             IF e > p /\ HasMatch(line) THEN UpTo(FoundIn(f, s), p) \o Report(f, line)
             ELSE UpTo(FoundIn(f, s), p)
<1> USE DEF LineAt
<1> DEFINE q == FoundIn(f, s)
<1>0. Len(s) \in Nat /\ p \in Nat /\ e \in Nat /\ z \in Nat /\ p <= e /\ e <= z /\ z <= Len(s)
  BY LenProperties
<1>1. ASSUME NEW i \in 1 .. Len(s)
      PROVE  q[i] \in Seq(Letters) /\ q[i] = Found(f, i) /\ (~ Closes(s, i) => q[i] = <<>>)
  <2>1. q[i] = Found(f, i)
    BY DEF FoundIn
  <2> HIDE DEF q
  <2>2. ~ Closes(s, i) => q[i] = <<>>
    BY <2>1 DEF Found
  <2>3. text[f] = s
    <3>1. Len(s) # 0
      BY <1>0
    <3> QED
      BY <3>1, Zenon
  <2> QED
    BY <2>1, <2>2, <2>3, FoundTyped
<1> HIDE DEF q
<1>2. UpTo(q, z) = UpTo(q, e)
  <2>1. \A i \in 1 .. e : q[i] \in Seq(Letters)
    <3> TAKE i \in 1 .. e
    <3>1. i \in 1 .. Len(s)
      BY <1>0
    <3> QED
      BY <1>1, <3>1
  <2>2. \A i \in e + 1 .. z : q[i] = <<>>
    <3> TAKE i \in e + 1 .. z
    <3>1. i \in 1 .. Len(s) /\ s[i] = NL
      BY <1>0
    <3> QED
      BY <1>1, <3>1 DEF Closes
  <2> QED
    <3>1. Idle(Letters, q, e, z)
      BY <1>0, <2>1, <2>2 DEF Idle
    <3> QED
      BY <3>1, UpToQuiet
<1> DEFINE Printed == IF e > p /\ HasMatch(line) THEN UpTo(q, p) \o Report(f, line)
                      ELSE UpTo(q, p)
<1>3. CASE e = p
  <2>1. ~ (e > p)
    BY <1>0, <1>3
  <2>2. Printed = UpTo(q, p)
    BY <2>1, Zenon
  <2> QED
    BY <1>2, <1>3, <2>2, Zenon DEF q
<1>4. CASE e > p
  <2>1. PICK m \in Nat : m = e - 1 /\ m + 1 = e /\ p <= m
    BY <1>0, <1>4
  <2>2. UpTo(q, m) = UpTo(q, p)
    <3>1. \A i \in 1 .. p : q[i] \in Seq(Letters)
      <4> TAKE i \in 1 .. p
      <4>1. i \in 1 .. Len(s)
        BY <1>0
      <4> QED
        BY <1>1, <4>1
    <3>2. \A i \in p + 1 .. m : q[i] = <<>>
      <4> TAKE i \in p + 1 .. m
      <4>1. i \in 1 .. Len(s) /\ i # Len(s) /\ i + 1 \in p + 1 .. e
        BY <1>0, <2>1, SMTT(30)
      <4>2. ~ Closes(s, i)
        BY <4>1 DEF Closes, Quiet
      <4> QED
        BY <1>1, <4>1, <4>2
    <3> QED
      <4>1. p \in Nat /\ m \in Nat /\ p <= m
        BY <1>0, <2>1
      <4> QED
        <5>1. Idle(Letters, q, p, m)
          BY <3>1, <3>2, <4>1 DEF Idle
        <5> QED
          BY <5>1, UpToQuiet
  <2>3. UpTo(q, m + 1) = UpTo(q, m) \o q[m + 1] /\ UpTo(q, m) \in Seq(Letters)
    <3>1. \A i \in 1 .. m + 1 : q[i] \in Seq(Letters)
      <4> TAKE i \in 1 .. m + 1
      <4>1. i \in 1 .. Len(s)
        BY <1>0, <2>1
      <4> QED
        BY <1>1, <4>1
    <3> QED
      BY <3>1, UpToStep
  <2>4. e \in 1 .. Len(s) /\ e \in p + 1 .. e /\ p + 1 \in p + 1 .. e
    BY <1>0, <1>4
  <2>5. p \in Breaks(s)
    <3>1. s[p + 1] # NL /\ p # Len(s)
      BY <1>0, <1>4, <2>4 DEF Quiet
    <3> QED
      BY <1>0, <3>1 DEF Edge, Breaks
  <2>6. Opens(s, e) = p
    <3>1. Quiet(s, p + 1, e - 1)
      BY <1>0 DEF Quiet
    <3> QED
      BY <1>0, <1>4, <2>4, <2>5, <3>1, OpensAt
  <2>7. LineTo(s, e) = line
    BY <2>6 DEF LineTo
  <2>8. Closes(s, e)
    BY <2>4 DEF Closes, Quiet
  <2>13. text[f] = s
    <3>1. Len(s) # 0
      BY <1>0, <2>4
    <3> QED
      BY <3>1, Zenon
  <2>9. q[e] = IF HasMatch(line) THEN Report(f, line) ELSE <<>>
    BY <1>1, <2>13, <2>4, <2>7, <2>8 DEF Found, Report
  <2>10. UpTo(q, e) = UpTo(q, p) \o q[e] /\ UpTo(q, p) \in Seq(Letters)
    BY <2>1, <2>2, <2>3
  <2>11. UpTo(q, p) \o <<>> = UpTo(q, p)
    BY <2>10, ConcatEmptySeq
  <2>12. UpTo(q, z) = IF HasMatch(line) THEN UpTo(q, p) \o Report(f, line) ELSE UpTo(q, p)
    BY <1>2, <2>9, <2>10, <2>11
  <2> QED
    BY <1>4, <2>12, Zenon DEF q
<1>5. e = p \/ e > p
  BY <1>0
<1> QED
  BY <1>3, <1>4, <1>5, Zenon

\* A line that fills the buffer is not longer than the buffer.
LEMMA FillsBuffer ==
    ASSUME NEW s, Len(s) \in Nat, FitsBuffer(s), NEW p \in 0 .. Len(s), Edge(s, p),
           NEW e \in p + 1 .. Len(s), e = p + BUFSIZE, Quiet(s, p + 1, e)
    PROVE  e = Len(s) \/ s[e + 1] = NL
<1> SUFFICES ASSUME e # Len(s), s[e + 1] # NL PROVE FALSE
  OBVIOUS
<1>0. BUFSIZE \in Nat \ {0}
  BY TextsAssumption
<1> DEFINE T == {k \in e + 1 .. Len(s) : Closes(s, k)}
<1>1. \E x \in e + 1 .. Len(s) : Closes(s, x) /\ Quiet(s, p + 1, x)
  <2> DEFINE U == {k \in e + 1 .. Len(s) : s[k] = NL}
  <2>1. CASE U = {}
    <3>1. Len(s) \in e + 1 .. Len(s)
      OBVIOUS
    <3>2. Quiet(s, p + 1, Len(s))
      <4> SUFFICES ASSUME NEW k \in p + 1 .. Len(s) PROVE s[k] # NL
        BY DEF Quiet
      <4>1. k \in p + 1 .. e \/ k \in e + 1 .. Len(s)
        OBVIOUS
      <4> QED
        BY <2>1, <4>1 DEF Quiet
    <3>3. Closes(s, Len(s))
      BY <2>1, <3>1 DEF Closes
    <3> QED
      BY <3>1, <3>2, <3>3
  <2>2. CASE U # {}
    <3>1. PICK m \in U : \A i \in U : m <= i
      <4>1. U \subseteq Nat
        OBVIOUS
      <4> QED
        BY <2>2, <4>1, Least
    <3>2. PICK x \in e + 1 .. Len(s) : x = m - 1 /\ x + 1 = m /\ x # Len(s)
      <4>1. m # e + 1 /\ m \in e + 1 .. Len(s)
        BY <3>1
      <4>2. m - 1 \in e + 1 .. Len(s) /\ (m - 1) + 1 = m /\ m - 1 # Len(s)
        BY <4>1
      <4> QED
        BY <4>2
    <3>3. Quiet(s, p + 1, x)
      <4> SUFFICES ASSUME NEW k \in p + 1 .. x PROVE s[k] # NL
        BY DEF Quiet
      <4>1. k \in p + 1 .. e \/ (k \in e + 1 .. Len(s) /\ ~ (m <= k))
        BY <3>2
      <4> QED
        BY <3>1, <4>1 DEF Quiet
    <3>4. Closes(s, x)
      <4>1. x \in p + 1 .. x
        OBVIOUS
      <4> QED
        BY <3>1, <3>2, <3>3, <4>1 DEF Closes, Quiet
    <3> QED
      BY <3>3, <3>4
  <2> QED
    BY <2>1, <2>2
<1>2. PICK x \in e + 1 .. Len(s) : Closes(s, x) /\ Quiet(s, p + 1, x)
  BY <1>1
<1>3. p \in Breaks(s)
  <2>1. p + 1 \in p + 1 .. e /\ p # Len(s)
    OBVIOUS
  <2>2. s[p + 1] # NL
    BY <2>1 DEF Quiet
  <2> QED
    BY <2>1, <2>2 DEF Edge, Breaks
<1>4. Opens(s, x) = p
  <2>1. x \in 1 .. Len(s) /\ p < x
    OBVIOUS
  <2>2. Quiet(s, p + 1, x - 1)
    BY <1>2 DEF Quiet
  <2> QED
    BY <1>3, <2>1, <2>2, OpensAt
<1>5. x \in 1 .. Len(s) /\ x - p <= BUFSIZE
  <2>1. x \in 1 .. Len(s)
    OBVIOUS
  <2> QED
    BY <1>2, <1>4, <2>1 DEF FitsBuffer
<1> QED
  BY <1>0, <1>5

-----------------------------------------------------------------------------
\* Where the search of a line ends.
LEMMA LineEndIs ==
    ASSUME last \in 0 .. BUFSIZE, line_start \in 0 .. last
    PROVE  /\ LineEnd \in line_start .. last
           /\ LineEnd = last \/ data[LineEnd] = NL
           /\ \A j \in line_start .. LineEnd - 1 : data[j] # NL
<1> DEFINE T == {e \in line_start .. BUFSIZE : e >= last \/ data[e] = NL}
           Ends(e) == /\ e >= last \/ data[e] = NL
                      /\ \A j \in line_start .. e - 1 : j < last /\ data[j] # NL
<1>0. BUFSIZE \in Nat /\ last \in Nat /\ line_start \in Nat /\ line_start <= last /\ last <= BUFSIZE
  BY TextsAssumption
<1>1. last \in T /\ T \subseteq Nat
  BY <1>0
<1>2. PICK e \in T : \A i \in T : e <= i
  <2>1. T # {}
    BY <1>1
  <2> HIDE DEF T
  <2> QED
    BY <1>1, <2>1, Least
<1>3. e \in line_start .. BUFSIZE /\ Ends(e)
  <2>1. ASSUME NEW j \in line_start .. e - 1 PROVE j < last /\ data[j] # NL
    <3>1. j \in line_start .. BUFSIZE /\ ~ (e <= j)
      BY <1>0
    <3>2. j \notin T
      BY <1>2, <3>1
    <3> QED
      BY <1>0, <3>1, <3>2
  <2> QED
    BY <2>1
<1>4. LineEnd = CHOOSE x \in line_start .. BUFSIZE : Ends(x)
  BY DEF LineEnd
<1>5. LineEnd \in line_start .. BUFSIZE /\ Ends(LineEnd)
  <2> HIDE DEF Ends
  <2> QED
    BY <1>3, <1>4
<1>6. LineEnd <= last
  <2> SUFFICES ASSUME ~ (LineEnd <= last) PROVE FALSE
    OBVIOUS
  <2>1. last \in line_start .. LineEnd - 1
    BY <1>0, <1>5
  <2> QED
    BY <1>0, <1>5, <2>1
<1> QED
  BY <1>0, <1>5, <1>6

\* Where a string ends.
LEMMA StrEndIs ==
    ASSUME NEW d, NEW k \in 0 .. BUFSIZE, NEW e \in k .. BUFSIZE, d[e] = NUL,
           \A j \in k .. e - 1 : d[j] # NUL
    PROVE  StrEnd(d, k) = e
<1> DEFINE Ends(x) == d[x] = NUL /\ \A j \in k .. x - 1 : d[j] # NUL
<1>0. BUFSIZE \in Nat
  BY TextsAssumption
<1>1. Ends(e)
  OBVIOUS
<1>2. ASSUME NEW x \in k .. BUFSIZE, Ends(x) PROVE x = e
  <2>1. x < e => x \in k .. e - 1
    BY <1>0
  <2>2. e < x => e \in k .. x - 1
    BY <1>0
  <2> QED
    BY <1>0, <1>2, <2>1, <2>2
<1>3. StrEnd(d, k) = CHOOSE x \in k .. BUFSIZE : Ends(x)
  BY DEF StrEnd
<1> HIDE DEF Ends
<1> QED
  BY <1>1, <1>2, <1>3

\* The buffer holds, from a place on, a part of a text.
Holds(d, from, s, p, n) == \A j \in 1 .. n : d[from + j - 1] = s[p + j]

\* A line of the buffer, its end overwritten by a NUL.
Cut(d, from, e, s, p, n, line) ==
    /\ s \in Seq(STRING) /\ from \in Nat /\ n \in Nat /\ e = from + n /\ e <= BUFSIZE
    /\ p \in Nat /\ p + n <= Len(s)
    /\ Holds(d, from, s, p, n) /\ d[e] = NUL
    /\ \A i \in 1 .. Len(s) : s[i] # NUL
    /\ line = SubSeq(s, p + 1, p + n)

\* It is a string, the line.
LEMMA StrIs ==
    ASSUME NEW d, NEW from, NEW e, NEW s, NEW p, NEW n, NEW line,
           Cut(d, from, e, s, p, n, line)
    PROVE  /\ StrEnd(d, from) = e /\ Str(d, from) = line
           /\ line \in Seq(STRING) /\ Len(line) = n
           /\ \A j \in 1 .. n : line[j] = d[from + j - 1]
<1>0. /\ Len(s) \in Nat /\ BUFSIZE \in Nat /\ from \in Nat /\ n \in Nat /\ p \in Nat
      /\ e = from + n /\ e \in Nat /\ line = SubSeq(s, p + 1, p + n)
      /\ from + n <= BUFSIZE /\ p + n <= Len(s) /\ s \in Seq(STRING)
  BY LenProperties, TextsAssumption DEF Cut
<1>1. StrEnd(d, from) = e
  <2>2. ASSUME NEW j \in from .. e - 1 PROVE d[j] # NUL
    <3>1. PICK i \in 1 .. n : i = j - from + 1 /\ from + i - 1 = j
      BY <1>0
    <3>2. p + i \in 1 .. Len(s)
      BY <1>0
    <3> QED
      BY <3>1, <3>2 DEF Cut, Holds
  <2>3. from \in 0 .. BUFSIZE /\ e \in from .. BUFSIZE /\ d[e] = NUL
    BY <1>0 DEF Cut
  <2> QED
    BY <2>2, <2>3, StrEndIs
<1>2. line \in Seq(STRING) /\ Len(line) = n /\ \A j \in 1 .. n : line[j] = s[p + j]
  <2>1. PICK b : b = p + n
    OBVIOUS
  <2>2. p \in 0 .. Len(s) /\ b \in p .. Len(s) /\ b - p = n
    BY <1>0, <2>1
  <2>3. /\ SubSeq(s, p + 1, b) \in Seq(STRING) /\ Len(SubSeq(s, p + 1, b)) = b - p
        /\ \A i \in 1 .. b - p : SubSeq(s, p + 1, b)[i] = s[p + i]
    BY <1>0, <2>2, PartIs
  <2> QED
    BY <1>0, <2>1, <2>2, <2>3
<1>3. \A j \in 1 .. n : line[j] = d[from + j - 1]
  BY <1>2 DEF Cut, Holds
<1>4. Str(d, from) = [j \in 1 .. n |-> d[from + j - 1]]
  <2>2. e - from = n
    BY <1>0
  <2>3. Str(d, from) = [j \in 1 .. e - from |-> d[from + j - 1]]
    BY <1>1 DEF Str
  <2> QED
    BY <2>2, <2>3
<1>5. line = [j \in 1 .. n |-> line[j]]
  BY <1>2, LenProperties
<1>6. Str(d, from) = line
  BY <1>3, <1>4, <1>5
<1> QED
  BY <1>1, <1>2, <1>3, <1>6

\* It is searched for what it holds.
LEMMA MatchIs ==
    ASSUME NEW d, NEW from, NEW e, NEW s, NEW p, NEW n, NEW line,
           Cut(d, from, e, s, p, n, line), arg \in Patterns
    PROVE  (\E k \in from .. e - 1 : MatchesAt(d, k)) <=> HasMatch(line)
<1>0. e = from + n /\ from \in Nat /\ n \in Nat /\ from + n <= BUFSIZE /\ BUFSIZE \in Nat
  BY TextsAssumption DEF Cut
<1>1. /\ line \in Seq(STRING) /\ Len(line) = n
      /\ \A j \in 1 .. n : line[j] = d[from + j - 1]
  BY StrIs
<1>2. /\ arg \in Seq(STRING) /\ Len(arg) \in Nat /\ (Len(arg) = 0 <=> arg = <<>>)
      /\ \A i \in 1 .. Len(arg) : arg[i] # NUL
  <2>1. arg \in Seq(STRING) /\ \A i \in 1 .. Len(arg) : arg[i] # NUL
    BY TextsAssumption
  <2> QED
    BY <2>1, LenProperties, EmptySeq
<1>3. ASSUME NEW h \in 0 .. n - Len(arg)
      PROVE  /\ Len(SubSeq(line, h + 1, h + Len(arg))) = Len(arg)
             /\ SubSeq(line, h + 1, h + Len(arg)) \in Seq(STRING)
             /\ \A j \in 1 .. Len(arg) : SubSeq(line, h + 1, h + Len(arg))[j] = d[from + h + j - 1]
  <2>1. PICK b : b = h + Len(arg)
    OBVIOUS
  <2>2. h \in 0 .. Len(line) /\ b \in h .. Len(line) /\ b - h = Len(arg)
    BY <1>0, <1>1, <1>2, <2>1
  <2>3. /\ SubSeq(line, h + 1, b) \in Seq(STRING) /\ Len(SubSeq(line, h + 1, b)) = b - h
        /\ \A i \in 1 .. b - h : SubSeq(line, h + 1, b)[i] = line[h + i]
    <3>1. line \in Seq(STRING) /\ h \in 0 .. Len(line) /\ b \in h .. Len(line)
      BY <1>1, <2>2
    <3> QED
      BY <3>1, PartIs
  <2>4. ASSUME NEW j \in 1 .. Len(arg) PROVE line[h + j] = d[from + h + j - 1]
    <3>1. PICK i \in 1 .. n : i = h + j /\ from + i - 1 = from + h + j - 1
      BY <1>0, <1>2
    <3> QED
      BY <1>1, <3>1
  <2> QED
    BY <2>1, <2>2, <2>3, <2>4
<1>4. ASSUME NEW k \in from .. e - 1, MatchesAt(d, k)
      PROVE  arg # <<>> /\ \E h \in 0 .. n - Len(arg) : SubSeq(line, h + 1, h + Len(arg)) = arg
  <2>1. arg # <<>> /\ \A j \in 1 .. Len(arg) : k + j - 1 <= BUFSIZE /\ d[k + j - 1] = arg[j]
    BY <1>4 DEF MatchesAt
  <2>2. k + Len(arg) <= from + n
    <3> SUFFICES ASSUME ~ (k + Len(arg) <= from + n) PROVE FALSE
      OBVIOUS
    <3>1. PICK j \in 1 .. Len(arg) : j = from + n - k + 1 /\ k + j - 1 = from + n
      <4>1. from + n - k + 1 \in 1 .. Len(arg) /\ k + (from + n - k + 1) - 1 = from + n
        BY <1>0, <1>2
      <4> QED
        BY <4>1
    <3>2. d[from + n] = NUL
      BY <1>0 DEF Cut
    <3> QED
      BY <1>2, <2>1, <3>1, <3>2
  <2>3. PICK h \in 0 .. n - Len(arg) : h = k - from /\ from + h = k
    <3>1. k - from \in 0 .. n - Len(arg) /\ from + (k - from) = k
      BY <1>0, <1>2, <2>2
    <3> QED
      BY <3>1
  <2>4. \A j \in 1 .. Len(arg) : SubSeq(line, h + 1, h + Len(arg))[j] = arg[j]
    BY <1>3, <2>1, <2>3
  <2>5. SubSeq(line, h + 1, h + Len(arg)) = arg
    BY <1>2, <1>3, <2>4, SeqEqual
  <2> QED
    BY <2>1, <2>5
<1>5. ASSUME arg # <<>>, NEW h \in 0 .. n - Len(arg), SubSeq(line, h + 1, h + Len(arg)) = arg
      PROVE  \E k \in from .. e - 1 : MatchesAt(d, k)
  <2>1. PICK k \in from .. e - 1 : k = from + h
    <3>1. from + h \in from .. e - 1
      BY <1>0, <1>2, <1>5
    <3> QED
      BY <3>1
  <2>2. ASSUME NEW j \in 1 .. Len(arg) PROVE k + j - 1 <= BUFSIZE /\ d[k + j - 1] = arg[j]
    <3>1. k + j - 1 <= BUFSIZE
      BY <1>0, <1>2, <2>1
    <3>2. d[from + h + j - 1] = arg[j]
      BY <1>3, <1>5
    <3> QED
      BY <2>1, <3>1, <3>2
  <2>3. MatchesAt(d, k)
    BY <1>5, <2>2 DEF MatchesAt
  <2> QED
    BY <2>3
<1>6. HasMatch(line) <=> (arg # <<>> /\ \E h \in 0 .. n - Len(arg) :
                            SubSeq(line, h + 1, h + Len(arg)) = arg)
  BY <1>1 DEF HasMatch
<1> QED
  BY <1>4, <1>5, <1>6

-----------------------------------------------------------------------------
\* The file grep is in, and what is left of it; another name has nothing.
Body == IF fname \in Files THEN text[fname] ELSE <<>>
Left == IF fname \in Files THEN rest[fname] ELSE <<>>

\* What grep prints for each name of the directory.
Sections ==
    [k \in 1 .. Len(Directory) |->
       IF Directory[k] \in Files THEN Matching(Directory[k]) ELSE <<>>]

Fitting == spare # NL /\ \A f \in Files : FitsBuffer(text[f])

\* The first p characters are searched, and what was found in them is shown
\* behind the files before; the characters behind them lie in the buffer,
\* from some place to last, and the rest is not read.
Searching(p, from) ==
    /\ Edge(Body, p)
    /\ shown = UpTo(Sections, pos - 2) \o UpTo(FoundIn(fname, Body), p)
    /\ last \in 0 .. BUFSIZE /\ from \in 0 .. last
    /\ p + (last - from) <= Len(Body)
    /\ Left = After(Body, p + (last - from))
    /\ Holds(data, from, Body, p, last - from)

InFile == pos \in 2 .. Len(Directory) + 1 /\ fname = Directory[pos - 1]

\* Between the files; about to read; with something in the buffer.
AtStart == pos \in 1 .. Len(Directory) + 1 /\ shown = UpTo(Sections, pos - 1)
AtRead ==
    /\ InFile /\ last < BUFSIZE
    /\ \E p \in 0 .. Len(Body) : Searching(p, 0)
AtLine ==
    /\ InFile /\ (line_start < last \/ last = 0)
    /\ \E p \in 0 .. Len(Body) :
         /\ Searching(p, line_start)
         /\ cnt = 0 \/ last < BUFSIZE => p + (last - line_start) = Len(Body)

Buffered == data = [k \in 0 .. BUFSIZE |-> data[k]] /\ data[BUFSIZE] # NL

\* Where grep is, in the cases the property speaks of.
GrepInv ==
    prog = "grep" /\ Fitting =>
        /\ arg \in Patterns /\ Buffered
        /\ stage \in {"start", "read", "line", "halted"}
        /\ stage = "start" => AtStart
        /\ stage = "read" => AtRead
        /\ stage = "line" => AtLine
        /\ stage = "halted" => GrepPrintsMatches

\* The file in search is a text that fits.
LEMMA BodyTyped ==
    ASSUME FilesTyped, Fitting
    PROVE  /\ Body \in Seq(STRING) /\ Len(Body) \in Nat /\ FitsBuffer(Body)
           /\ \A i \in 1 .. Len(Body) : Body[i] # NUL
           /\ Len(Body) # 0 => fname \in Files /\ text[fname] = Body
<1>1. <<>> \in Seq(STRING) /\ Len(<<>>) = 0
  BY EmptySeq
<1>2. CASE fname \in Files
  <2>1. Body = text[fname] /\ Body \in Seq(STRING) /\ FitsBuffer(Body)
    BY <1>2 DEF Body, FilesTyped, Fitting
  <2> QED
    BY <1>2, <2>1, LenProperties DEF FitsBuffer
<1>3. CASE fname \notin Files
  <2>1. Body = <<>>
    BY <1>3 DEF Body
  <2> QED
    BY <1>1, <2>1 DEF FitsBuffer
<1> QED
  BY <1>2, <1>3

\* Each file's part of the output is a sequence.
LEMMA SectionsTyped ==
    ASSUME FilesTyped, NEW k \in 1 .. Len(Directory)
    PROVE  /\ Sections[k] \in Seq(Letters)
           /\ Directory[k] \in STRING
           /\ Directory[k] \notin Files => Sections[k] = <<>>
           /\ Directory[k] \in Files =>
                LET s == text[Directory[k]] IN
                Sections[k] = UpTo(FoundIn(Directory[k], s), Len(s))
<1> DEFINE f == Directory[k]
           s == text[f]
<1>1. f \in STRING
  BY TextsAssumption, ElementOfSeq
<1>2. Sections[k] = IF f \in Files THEN Matching(f) ELSE <<>>
  BY DEF Sections
<1>3. CASE f \in Files
  <2>1. s \in Seq(STRING) /\ Len(s) \in Nat
    BY <1>3, LenProperties DEF FilesTyped
  <2>2. Matching(f) = UpTo(FoundIn(f, s), Len(s))
    <3>1. [e \in 1 .. Len(s) |-> FoundIn(f, s)[e]] = [e \in 1 .. Len(s) |-> Found(f, e)]
      BY DEF FoundIn
    <3> QED
      BY <3>1 DEF UpTo, Matching
  <2>3. ASSUME NEW e \in 1 .. Len(s) PROVE FoundIn(f, s)[e] \in Seq(Letters)
    <3>1. FoundIn(f, s)[e] = Found(f, e)
      BY DEF FoundIn
    <3> HIDE DEF f
    <3> QED
      BY <1>1, <2>1, <3>1, FoundTyped
  <2>4. Idle(Letters, FoundIn(f, s), Len(s), Len(s))
    BY <2>1, <2>3 DEF Idle
  <2>5. UpTo(FoundIn(f, s), Len(s)) \in Seq(Letters)
    BY <2>4, UpToQuiet
  <2> QED
    BY <1>1, <1>2, <1>3, <2>2, <2>5
<1>4. CASE f \notin Files
  BY <1>1, <1>2, <1>4, EmptySeq
<1> QED
  BY <1>3, <1>4

\* What grep would print does not depend on where it is.
LEMMA SectionsSame ==
    ASSUME text' = text, arg' = arg
    PROVE  /\ Sections' = Sections
           /\ \A f, s : FoundIn(f, s)' = FoundIn(f, s)
           /\ fname' = fname => Body' = Body /\ FoundIn(fname, Body)' = FoundIn(fname, Body)
           /\ GrepPrintsMatches' <=>
                (prog' = "grep" /\ stage' = "halted" /\ spare' # NL
                    /\ (\A f \in Files : FitsBuffer(text[f]))
                 => shown' = UpTo(Sections, Len(Directory)))
<1>1. ASSUME NEW f, NEW e PROVE Found(f, e)' = Found(f, e)
  BY DEF Found, HasMatch, LineTo, Closes, Opens, Breaks
<1>2. ASSUME NEW f PROVE Matching(f)' = Matching(f)
  BY <1>1 DEF Matching
<1>3. Sections' = Sections
  BY <1>2 DEF Sections
<1>4. ASSUME NEW f, NEW s PROVE FoundIn(f, s)' = FoundIn(f, s)
  BY <1>1 DEF FoundIn
<1>5. ASSUME fname' = fname PROVE Body' = Body /\ FoundIn(fname, Body)' = FoundIn(fname, Body)
  BY <1>1, <1>5 DEF Body, FoundIn
<1>6. FlattenSeq([k \in 1 .. Len(Directory) |->
          IF Directory[k] \in Files THEN Matching(Directory[k]) ELSE <<>>])
        = UpTo(Sections, Len(Directory))
  <2>1. [k \in 1 .. Len(Directory) |-> Sections[k]] = Sections
    BY DEF Sections
  <2> QED
    BY <2>1 DEF UpTo, Sections
<1>7. GrepPrintsMatches' <=>
         (prog' = "grep" /\ stage' = "halted" /\ spare' # NL
             /\ (\A f \in Files : FitsBuffer(text[f]))
          => shown' = UpTo(Sections, Len(Directory)))
  BY <1>2, <1>6, SMTT(30) DEF GrepPrintsMatches, FitsBuffer, Closes, Opens, Breaks
<1> QED
  BY <1>3, <1>4, <1>5, <1>7

\* grep takes the next file, or has done all.
LEMMA GrepNextKeeps == ASSUME FilesTyped, GrepInv, GrepNext PROVE GrepInv'
<1> SUFFICES ASSUME (prog = "grep" /\ Fitting)' PROVE GrepInv'
  BY DEF GrepInv
<1>0. /\ prog = "grep" /\ stage = "start" /\ arg' = arg /\ text' = text /\ spare' = spare
      /\ data' = data /\ shown' = shown /\ pos' = pos + 1
  BY DEF GrepNext, buffer
<1>1. /\ Fitting /\ arg \in Patterns /\ Buffered /\ AtStart
  <2>1. Fitting
    BY <1>0 DEF Fitting, FitsBuffer, Closes, Opens, Breaks
  <2> QED
    BY <1>0, <2>1 DEF GrepInv
<1>2. arg' \in Patterns /\ Buffered'
  BY <1>0, <1>1 DEF Buffered
<1>3. /\ Sections' = Sections
      /\ GrepPrintsMatches' <=>
                (prog' = "grep" /\ stage' = "halted" /\ spare' # NL
                    /\ (\A f \in Files : FitsBuffer(text[f]))
                 => shown' = UpTo(Sections, Len(Directory)))
  BY <1>0, SectionsSame
<1>4. Directory \in Seq(STRING) /\ Len(Directory) \in Nat
  BY TextsAssumption, LenProperties
<1>5. pos \in 1 .. Len(Directory) + 1 /\ shown = UpTo(Sections, pos - 1)
  BY <1>1 DEF AtStart
<1>6. CASE pos > Len(Directory)
  <2>1. stage' = "halted"
    BY <1>4, <1>5, <1>6 DEF GrepNext, Exit
  <2>2. pos - 1 = Len(Directory)
    BY <1>4, <1>5, <1>6
  <2>3. GrepPrintsMatches'
    BY <1>0, <1>3, <1>5, <2>2
  <2> QED
    BY <1>2, <2>1, <2>3 DEF GrepInv
<1>7. ASSUME pos <= Len(Directory)
      PROVE  \E m \in Nat :
               /\ m = pos - 1 /\ m + 1 = pos /\ pos \in 1 .. Len(Directory)
               /\ UpTo(Sections, pos) = UpTo(Sections, m) \o Sections[pos]
               /\ UpTo(Sections, m) \in Seq(Letters)
  <2>1. PICK m \in Nat : m = pos - 1 /\ m + 1 = pos
    BY <1>5
  <2>2. pos \in 1 .. Len(Directory)
    BY <1>4, <1>5, <1>7
  <2>3. \A i \in 1 .. m + 1 : Sections[i] \in Seq(Letters)
    <3> TAKE i \in 1 .. m + 1
    <3>1. i \in 1 .. Len(Directory)
      BY <1>4, <1>5, <1>7, <2>1
    <3> QED
      BY <3>1, SectionsTyped
  <2>4. UpTo(Sections, m + 1) = UpTo(Sections, m) \o Sections[m + 1] /\ UpTo(Sections, m) \in Seq(Letters)
    BY <2>3, UpToStep
  <2> QED
    BY <2>1, <2>2, <2>4
<1>8. CASE pos <= Len(Directory) /\ Directory[pos] = Dot
  <2>1. stage' = "start"
    BY <1>0, <1>4, <1>5, <1>8 DEF GrepNext, Exit
  <2>2. PICK m \in Nat : /\ m = pos - 1 /\ m + 1 = pos /\ pos \in 1 .. Len(Directory)
                         /\ UpTo(Sections, pos) = UpTo(Sections, m) \o Sections[pos]
                         /\ UpTo(Sections, m) \in Seq(Letters)
    BY <1>7, <1>8
  <2>3. Sections[pos] = <<>>
    <3>1. Dot \notin Files
      BY DEF Dot, Files
    <3> QED
      BY <1>8, <2>2, <3>1, SectionsTyped
  <2>4. UpTo(Sections, m) \o <<>> = UpTo(Sections, m)
    BY <2>2, ConcatEmptySeq
  <2>5. pos' - 1 = pos /\ pos' \in 1 .. Len(Directory) + 1
    BY <1>0, <1>4, <1>5, <1>8
  <2>6. AtStart'
    BY <1>0, <1>3, <1>5, <2>2, <2>3, <2>4, <2>5 DEF AtStart
  <2> QED
    BY <1>2, <2>1, <2>6 DEF GrepInv
<1>9. CASE pos <= Len(Directory) /\ Directory[pos] # Dot
  <2>1. /\ stage' = "read" /\ fname' = Directory[pos] /\ last' = 0
        /\ rest' = IF fname' \in Files THEN [rest EXCEPT ![fname'] = text[fname']] ELSE rest
    BY <1>0, <1>4, <1>5, <1>9 DEF GrepNext, Exit
  <2>2. PICK m \in Nat : /\ m = pos - 1 /\ m + 1 = pos /\ pos \in 1 .. Len(Directory)
                         /\ UpTo(Sections, pos) = UpTo(Sections, m) \o Sections[pos]
                         /\ UpTo(Sections, m) \in Seq(Letters)
    BY <1>7, <1>9
  <2>3. Body' \in Seq(STRING) /\ Left' = Body' /\ Len(Body') \in Nat
    <3>1. CASE fname' \in Files
      <4>1. rest'[fname'] = text[fname'] /\ text[fname'] \in Seq(STRING)
        BY <2>1, <3>1 DEF FilesTyped
      <4> QED
        BY <1>0, <3>1, <4>1, LenProperties DEF Body, Left
    <3>2. CASE fname' \notin Files
      BY <3>2, EmptySeq DEF Body, Left
    <3> QED
      BY <3>1, <3>2
  <2>4. After(Body', 0) = Body' /\ 0 \in 0 .. Len(Body')
    BY <2>3, TakeEnds
  <2>5. UpTo(FoundIn(fname, Body)', 0) = <<>>
    BY Flat DEF UpTo, IsTuple
  <2>6. UpTo(Sections, m) \o <<>> = UpTo(Sections, m)
    BY <2>2, ConcatEmptySeq
  <2>7. /\ pos' \in 2 .. Len(Directory) + 1 /\ pos' - 2 = m /\ pos' - 1 = pos
        /\ 0 < BUFSIZE /\ 0 \in 0 .. BUFSIZE /\ 0 \in 0 .. 0 /\ 0 + (0 - 0) = 0 /\ 0 - 0 = 0
    BY <1>0, <1>4, <1>5, <1>9, <2>2, TextsAssumption
  <2>8. InFile'
    BY <2>1, <2>7 DEF InFile
  <2>9. Searching(0, 0)'
    <3>1. Edge(Body', 0)
      BY DEF Edge
    <3>2. shown' = UpTo(Sections', pos' - 2) \o UpTo(FoundIn(fname, Body)', 0)
      BY <1>0, <1>3, <1>5, <2>2, <2>5, <2>6, <2>7
    <3>3. 0 <= Len(Body')
      BY <2>3
    <3>4. Holds(data', 0, Body', 0, 0)
      BY DEF Holds
    <3> QED
      BY <2>1, <2>3, <2>4, <2>7, <3>1, <3>2, <3>3, <3>4 DEF Searching
  <2>10. AtRead'
    BY <2>1, <2>4, <2>7, <2>8, <2>9 DEF AtRead
  <2> QED
    BY <1>2, <2>1, <2>10 DEF GrepInv
<1> QED
  BY <1>4, <1>5, <1>6, <1>8, <1>9

\* grep reads on behind what it has kept.
LEMMA GrepReadKeeps == ASSUME FilesTyped, GrepInv, GrepRead PROVE GrepInv'
<1> SUFFICES ASSUME (prog = "grep" /\ Fitting)' PROVE GrepInv'
  BY DEF GrepInv
<1> DEFINE n == Lesser(BUFSIZE - last, Len(Left))
<1>0. /\ prog = "grep" /\ stage = "read" /\ arg' = arg /\ text' = text /\ spare' = spare
      /\ shown' = shown /\ pos' = pos /\ fname' = fname
      /\ stage' = "line" /\ line_start' = 0 /\ cnt' = n /\ last' = last + n
      /\ data' = [k \in 0 .. BUFSIZE |->
                    IF k \in last .. last + n - 1 THEN Left[k - last + 1] ELSE data[k]]
      /\ rest' = IF n = 0 THEN rest ELSE [rest EXCEPT ![fname] = After(@, n)]
  BY DEF GrepRead, Left
<1>1. /\ Fitting /\ arg \in Patterns /\ Buffered /\ AtRead
  <2>1. Fitting
    BY <1>0 DEF Fitting, FitsBuffer, Closes, Opens, Breaks
  <2> QED
    BY <1>0, <2>1 DEF GrepInv
<1>2. /\ Sections' = Sections /\ Body' = Body /\ FoundIn(fname, Body)' = FoundIn(fname, Body)
  BY <1>0, SectionsSame
<1>3. /\ Body \in Seq(STRING) /\ Len(Body) \in Nat
      /\ (Len(Body) # 0 => fname \in Files /\ text[fname] = Body)
  BY <1>1, BodyTyped
<1>4. PICK p \in 0 .. Len(Body) : Searching(p, 0)
  BY <1>1 DEF AtRead
<1>5. /\ BUFSIZE \in Nat /\ last \in 0 .. BUFSIZE /\ last < BUFSIZE
      /\ p + last <= Len(Body) /\ Left = After(Body, p + last) /\ Holds(data, 0, Body, p, last)
      /\ Edge(Body, p) /\ shown = UpTo(Sections, pos - 2) \o UpTo(FoundIn(fname, Body), p)
  <2>1. BUFSIZE \in Nat /\ last < BUFSIZE
    BY <1>1, TextsAssumption DEF AtRead
  <2>2. last \in 0 .. BUFSIZE
    BY <1>4 DEF Searching
  <2>3. last - 0 = last
    BY <2>1, <2>2
  <2> QED
    BY <1>4, <2>1, <2>2, <2>3 DEF Searching
<1>6. PICK q \in 0 .. Len(Body) : q = p + last
  <2>1. p + last \in 0 .. Len(Body)
    BY <1>3, <1>5
  <2> QED
    BY <2>1
<1>7. /\ Left \in Seq(STRING) /\ Len(Left) = Len(Body) - q
      /\ \A i \in 1 .. Len(Body) - q : Left[i] = Body[q + i]
  <2>1. /\ After(Body, q) \in Seq(STRING) /\ Len(After(Body, q)) = Len(Body) - q
        /\ \A i \in 1 .. Len(Body) - q : After(Body, q)[i] = Body[q + i]
    BY <1>3, AfterFacts
  <2> QED
    BY <1>5, <1>6, <2>1
<1>8. /\ n \in 0 .. Len(Body) - q /\ last + n \in 0 .. BUFSIZE
      /\ n = 0 => q = Len(Body)
      /\ last + n < BUFSIZE => n = Len(Body) - q
  BY <1>3, <1>5, <1>7 DEF Lesser
<1> HIDE DEF n
<1>9. PICK r \in 0 .. Len(Body) : r = q + n /\ r = p + (last + n)
  <2>1. q + n \in 0 .. Len(Body) /\ q + n = p + (last + n)
    BY <1>3, <1>5, <1>6, <1>8
  <2> QED
    BY <2>1
<1>10. Left' = After(Body, r)
  <2>1. CASE n = 0
    <3>1. rest' = rest /\ r = q
      BY <1>0, <1>9, <2>1
    <3> QED
      BY <1>0, <1>5, <1>6, <3>1 DEF Left
  <2>2. CASE n # 0
    <3>1. fname \in Files /\ Len(Body) # 0
      BY <1>3, <1>8, <2>2
    <3>2. Left' = After(Left, n)
      BY <1>0, <2>2, <3>1 DEF Left, FilesTyped
    <3>3. After(After(Body, q), n) = After(Body, q + n)
      BY <1>3, <1>8, AfterAfter
    <3> QED
      BY <1>5, <1>6, <1>9, <3>2, <3>3
  <2> QED
    BY <2>1, <2>2
<1>11. ASSUME NEW j \in 1 .. last + n PROVE data'[0 + j - 1] = Body[p + j]
  <2>1. PICK k \in 0 .. BUFSIZE : k = j - 1 /\ 0 + j - 1 = k
    <3>1. j - 1 \in 0 .. BUFSIZE /\ 0 + j - 1 = j - 1
      BY <1>5, <1>8
    <3> QED
      BY <3>1
  <2>2. data'[k] = IF k \in last .. last + n - 1 THEN Left[k - last + 1] ELSE data[k]
    BY <1>0
  <2>3. CASE k \in last .. last + n - 1
    <3>1. PICK i \in 1 .. Len(Body) - q : i = k - last + 1 /\ q + i = p + j
      <4>1. k - last + 1 \in 1 .. Len(Body) - q /\ q + (k - last + 1) = p + j
        BY <1>3, <1>5, <1>6, <1>8, <2>1, <2>3
      <4> QED
        BY <4>1
    <3> QED
      BY <1>7, <2>1, <2>2, <2>3, <3>1
  <2>4. CASE k \notin last .. last + n - 1
    <3>1. j \in 1 .. last
      BY <1>5, <1>8, <2>1, <2>4
    <3>2. data[0 + j - 1] = Body[p + j]
      BY <1>5, <3>1 DEF Holds
    <3> QED
      BY <2>1, <2>2, <2>4, <3>2
  <2> QED
    BY <2>3, <2>4
<1>12. Buffered'
  <2>1. data'[BUFSIZE] = data[BUFSIZE]
    <3>1. BUFSIZE \in 0 .. BUFSIZE /\ BUFSIZE \notin last .. last + n - 1
      BY <1>5, <1>8
    <3> QED
      BY <1>0, <3>1
  <2>2. data' = [k \in 0 .. BUFSIZE |-> data'[k]]
    BY <1>0
  <2> QED
    BY <1>1, <2>1, <2>2 DEF Buffered
<1>13. Searching(p, 0)'
  <2>1. last' - 0 = last + n /\ 0 \in 0 .. last'
    BY <1>0, <1>5, <1>8
  <2>2. Holds(data', 0, Body, p, last + n)
    BY <1>11 DEF Holds
  <2>3. r <= Len(Body)
    BY <1>3
  <2> QED
    BY <1>0, <1>2, <1>5, <1>8, <1>9, <1>10, <2>1, <2>2, <2>3 DEF Searching
<1>14. line_start' < last' \/ last' = 0
  BY <1>0, <1>5, <1>8
<1>15. cnt' = 0 \/ last' < BUFSIZE => p + (last' - line_start') = Len(Body)
  <2>1. last' - line_start' = last + n
    BY <1>0, <1>5, <1>8
  <2>2. n = 0 \/ last + n < BUFSIZE => r = Len(Body)
    BY <1>3, <1>8, <1>9
  <2> QED
    BY <1>0, <1>9, <2>1, <2>2
<1>16. AtLine'
  <2>1. InFile'
    BY <1>0, <1>1 DEF AtRead, InFile
  <2>2. Searching(p, line_start)'
    BY <1>0, <1>13 DEF Searching
  <2> QED
    BY <1>2, <1>14, <1>15, <2>1, <2>2 DEF AtLine
<1> QED
  BY <1>0, <1>1, <1>12, <1>16 DEF GrepInv

\* grep searches the line of the buffer, or moves what is cut off to its front.
LEMMA GrepLineKeeps == ASSUME FilesTyped, GrepInv, GrepLine PROVE GrepInv'
<1> SUFFICES ASSUME (prog = "grep" /\ Fitting)' PROVE GrepInv'
  BY DEF GrepInv
<1> DEFINE e == LineEnd
           d == [data EXCEPT ![e] = NUL]
           CutOff == data[e] # NL /\ cnt # 0 /\ line_start # 0
<1>0. /\ prog = "grep" /\ stage = "line" /\ arg' = arg /\ text' = text /\ spare' = spare
      /\ pos' = pos /\ fname' = fname /\ rest' = rest /\ cnt' = cnt
  BY DEF GrepLine
<1>a. ASSUME CutOff
      PROVE  /\ data' = StrCpy(d, line_start) /\ last' = last - line_start
             /\ stage' = "read" /\ shown' = shown
  BY <1>a DEF GrepLine, Kept
<1>b. ASSUME ~ CutOff
      PROVE  /\ data' = d
             /\ IF \E k \in line_start .. e - 1 : MatchesAt(d, k)
                  THEN shown' = shown \o (<<fname, ":">> \o Str(d, line_start) \o <<NL>>)
                  ELSE shown' = shown
             /\ line_start' = e + 1
             /\ IF e + 1 >= last THEN last' = 0 /\ stage' = IF cnt = 0 THEN "start" ELSE "read"
                ELSE last' = last /\ stage' = stage
  BY <1>b DEF GrepLine, AfterLine, Puts, Searched
<1>1. /\ Fitting /\ arg \in Patterns /\ Buffered /\ AtLine
  <2>1. Fitting
    BY <1>0 DEF Fitting, FitsBuffer, Closes, Opens, Breaks
  <2> QED
    BY <1>0, <2>1 DEF GrepInv
<1>2. /\ Sections' = Sections /\ Body' = Body /\ FoundIn(fname, Body)' = FoundIn(fname, Body)
      /\ Left' = Left
  BY <1>0, SectionsSame DEF Left
<1>3. /\ Body \in Seq(STRING) /\ Len(Body) \in Nat /\ FitsBuffer(Body)
      /\ (Len(Body) # 0 => fname \in Files /\ text[fname] = Body)
      /\ \A i \in 1 .. Len(Body) : Body[i] # NUL
  BY <1>1, BodyTyped
<1>4. PICK p \in 0 .. Len(Body) :
         /\ Searching(p, line_start)
         /\ cnt = 0 \/ last < BUFSIZE => p + (last - line_start) = Len(Body)
  BY <1>1 DEF AtLine
<1>5. /\ BUFSIZE \in Nat \ {0} /\ last \in 0 .. BUFSIZE /\ line_start \in 0 .. last
      /\ line_start < last \/ last = 0
      /\ p + (last - line_start) <= Len(Body) /\ Left = After(Body, p + (last - line_start))
      /\ Holds(data, line_start, Body, p, last - line_start)
      /\ Edge(Body, p) /\ shown = UpTo(Sections, pos - 2) \o UpTo(FoundIn(fname, Body), p)
      /\ NL # NUL
  BY <1>1, <1>4, TextsAssumption DEF Searching, AtLine
<1>6. /\ e \in line_start .. last
      /\ e = last \/ data[e] = NL
      /\ \A j \in line_start .. e - 1 : data[j] # NL
  BY <1>5, LineEndIs
<1>7. /\ \A k \in 0 .. BUFSIZE : d[k] = IF k = e THEN NUL ELSE data[k]
      /\ d = [k \in 0 .. BUFSIZE |-> d[k]]
  <2>1. e \in 0 .. BUFSIZE
    BY <1>5, <1>6
  <2>2. DOMAIN data = 0 .. BUFSIZE
    BY <1>1 DEF Buffered
  <2> HIDE DEF e
  <2> QED
    BY <2>1, <2>2
<1>8. d[BUFSIZE] # NL
  BY <1>1, <1>5, <1>7 DEF Buffered
<1> HIDE DEF d, e
<1>9. PICK n \in Nat : n = e - line_start /\ line_start + n = e /\ n <= last - line_start
  <2>1. e - line_start \in Nat /\ line_start + (e - line_start) = e /\ e - line_start <= last - line_start
    BY <1>5, <1>6
  <2> QED
    BY <2>1
<1>14. PICK line : line = SubSeq(Body, p + 1, p + n)
  OBVIOUS
<1>10. Cut(d, line_start, e, Body, p, n, line)
  <2>1. ASSUME NEW j \in 1 .. n PROVE d[line_start + j - 1] = Body[p + j]
    <3>1. PICK k \in 0 .. BUFSIZE : k = line_start + j - 1 /\ k # e /\ j \in 1 .. last - line_start
      <4>1. /\ line_start + j - 1 \in 0 .. BUFSIZE /\ line_start + j - 1 # e
            /\ j \in 1 .. last - line_start
        BY <1>5, <1>6, <1>9
      <4> QED
        BY <4>1
    <3> QED
      BY <1>5, <1>7, <3>1 DEF Holds
  <2>2. d[e] = NUL
    <3>1. e \in 0 .. BUFSIZE
      BY <1>5, <1>6
    <3> QED
      BY <1>7, <3>1
  <2>3. line_start \in Nat /\ e = line_start + n /\ e <= BUFSIZE /\ p \in Nat /\ p + n <= Len(Body)
    BY <1>3, <1>5, <1>6, <1>9
  <2> QED
    BY <1>3, <1>14, <2>1, <2>2, <2>3 DEF Cut, Holds
<1>13. StrEnd(d, line_start) = e /\ Str(d, line_start) = line /\ line \in Seq(STRING)
  BY <1>10, StrIs
<1>11. CASE CutOff
  <2>1. /\ data' = StrCpy(d, line_start) /\ last' = last - line_start
        /\ stage' = "read" /\ shown' = shown
    BY <1>a, <1>11
  <2>2. e = last /\ n = last - line_start /\ line_start >= 1 /\ n \in 0 .. BUFSIZE /\ n < BUFSIZE
    BY <1>5, <1>6, <1>9, <1>11
  <2>3. data' = [k \in 0 .. BUFSIZE |-> IF k <= n THEN d[line_start + k] ELSE d[k]]
    <3>1. PICK x : x = StrEnd(d, line_start)
      OBVIOUS
    <3>2. x - line_start = n
      BY <1>5, <1>9, <1>13, <3>1
    <3>3. data' = [k \in 0 .. BUFSIZE |-> IF k <= x - line_start THEN d[line_start + k] ELSE d[k]]
      BY <2>1, <3>1 DEF StrCpy
    <3> QED
      BY <3>2, <3>3
  <2>4. Buffered'
    <3>1. data'[BUFSIZE] = d[BUFSIZE]
      <4>1. BUFSIZE \in 0 .. BUFSIZE /\ ~ (BUFSIZE <= n)
        BY <1>5, <2>2
      <4> QED
        BY <2>3, <4>1
    <3>2. data' = [k \in 0 .. BUFSIZE |-> data'[k]]
      BY <2>3
    <3> QED
      BY <1>8, <3>1, <3>2 DEF Buffered
  <2>5. Holds(data', 0, Body, p, n)
    <3> SUFFICES ASSUME NEW j \in 1 .. n PROVE data'[0 + j - 1] = Body[p + j]
      BY DEF Holds
    <3>1. PICK k \in 0 .. BUFSIZE : k = 0 + j - 1 /\ k <= n /\ line_start + k = line_start + j - 1
      <4>1. 0 + j - 1 \in 0 .. BUFSIZE /\ 0 + j - 1 <= n /\ line_start + (0 + j - 1) = line_start + j - 1
        BY <1>5, <2>2
      <4> QED
        BY <4>1
    <3>2. data'[k] = d[line_start + k]
      BY <2>3, <3>1
    <3>3. d[line_start + j - 1] = Body[p + j]
      BY <1>10 DEF Cut, Holds
    <3> QED
      BY <3>1, <3>2, <3>3
  <2>6. Searching(p, 0)'
    <3>1. last' - 0 = n /\ 0 \in 0 .. last' /\ last' \in 0 .. BUFSIZE
      BY <2>1, <2>2
    <3> QED
      BY <1>0, <1>2, <1>5, <2>1, <2>2, <2>5, <3>1 DEF Searching
  <2>7. AtRead'
    <3>1. InFile' /\ last' < BUFSIZE
      BY <1>0, <1>1, <2>1, <2>2 DEF AtLine, InFile
    <3> QED
      BY <1>2, <2>6, <3>1 DEF AtRead
  <2> QED
    BY <1>0, <1>1, <2>1, <2>4, <2>7 DEF GrepInv
<1>12. CASE ~ CutOff
  <2> DEFINE q == FoundIn(fname, Body)
             more == ~ (e + 1 >= last)
  <2>0. /\ last \in Nat /\ e \in Nat /\ line_start \in Nat /\ e <= last
        /\ line_start <= e /\ last <= BUFSIZE
    BY <1>5, <1>6
  <2>1. e < last => p + n + 1 <= Len(Body) /\ Body[p + n + 1] = NL
    <3> SUFFICES ASSUME e < last PROVE p + n + 1 <= Len(Body) /\ Body[p + n + 1] = NL
      OBVIOUS
    <3>1. n + 1 \in 1 .. last - line_start /\ line_start + (n + 1) - 1 = e /\ p + (n + 1) = p + n + 1
      BY <1>9, <2>0
    <3>2. data[line_start + (n + 1) - 1] = Body[p + (n + 1)]
      BY <1>5, <3>1 DEF Holds
    <3>3. data[e] = NL
      BY <1>6, <2>0
    <3>4. p + n + 1 <= Len(Body)
      BY <1>3, <1>5, <3>1
    <3> QED
      BY <3>1, <3>2, <3>3, <3>4
  <2>2. PICK b \in p .. Len(Body) : b = p + n
    <3>1. p + n \in p .. Len(Body)
      BY <1>3, <1>5, <1>9, <2>0
    <3> QED
      BY <3>1
  <2>3. Quiet(Body, p + 1, b)
    <3> SUFFICES ASSUME NEW i \in p + 1 .. b PROVE Body[i] # NL
      BY DEF Quiet
    <3>1. PICK j \in 1 .. n : j = i - p /\ p + j = i
      <4>1. i - p \in 1 .. n /\ p + (i - p) = i
        BY <1>3, <2>2
      <4> QED
        BY <4>1
    <3>2. /\ j \in 1 .. last - line_start /\ line_start + j - 1 \in line_start .. e - 1
      BY <1>9, <2>0
    <3>3. data[line_start + j - 1] = Body[p + j]
      BY <1>5, <3>2 DEF Holds
    <3> QED
      BY <1>6, <3>1, <3>2, <3>3
  <2>4. b = Len(Body) \/ Body[b + 1] = NL
    <3>1. CASE e < last
      BY <2>1, <2>2, <3>1
    <3>2. CASE e = last /\ (cnt = 0 \/ last < BUFSIZE)
      BY <1>4, <1>9, <2>2, <3>2
    <3>3. CASE e = last /\ ~ (cnt = 0 \/ last < BUFSIZE)
      <4>1. e = BUFSIZE /\ last = BUFSIZE
        BY <1>5, <2>0, <3>3
      <4>2. data[e] # NL
        BY <1>1, <4>1 DEF Buffered
      <4>3. line_start = 0
        BY <1>12, <3>3, <4>2
      <4>4. b = p + BUFSIZE /\ b \in p + 1 .. Len(Body)
        BY <1>3, <1>5, <1>9, <2>0, <2>2, <4>1, <4>3
      <4> QED
        BY <1>3, <1>5, <2>3, <4>4, FillsBuffer
    <3> QED
      BY <2>0, <3>1, <3>2, <3>3
  <2>5. PICK z \in b .. Len(Body) : /\ e < last => z = b + 1
                                    /\ e = last => z = b
                                    /\ z = b \/ (z = b + 1 /\ Body[z] = NL)
    <3>1. CASE e < last
      <4>1. b + 1 \in b .. Len(Body) /\ b + 1 = p + n + 1
        BY <1>3, <2>1, <2>2, <3>1
      <4> QED
        BY <2>0, <2>1, <3>1, <4>1
    <3>2. CASE e = last
      <4>1. b \in b .. Len(Body)
        BY <1>3
      <4> QED
        BY <2>0, <3>2, <4>1
    <3> QED
      BY <2>0, <3>1, <3>2
  <2>6. fname \in STRING
    <3>1. fname = Directory[pos - 1] /\ pos - 1 \in 1 .. Len(Directory) /\ Directory \in Seq(STRING)
      <4>1. Len(Directory) \in Nat
        BY TextsAssumption, LenProperties
      <4> QED
        BY <1>1, <4>1, TextsAssumption DEF AtLine, InFile
    <3> QED
      BY <3>1, ElementOfSeq
  <2>7. UpTo(q, z) = IF b > p /\ HasMatch(line) THEN UpTo(q, p) \o Report(fname, line)
                     ELSE UpTo(q, p)
    <3>1. line = SubSeq(Body, p + 1, b)
      BY <1>14, <2>2
    <3>2. Len(Body) # 0 => text[fname] = Body
      BY <1>3
    <3> QED
      <4>1. LineAt(fname, Body, p, b, z, line)
        BY <1>3, <1>5, <2>3, <2>4, <2>5, <2>6, <3>1, <3>2 DEF LineAt
      <4> QED
        BY <4>1, FoundLine
  <2>8. (\E k \in line_start .. e - 1 : MatchesAt(d, k)) <=> HasMatch(line)
    <3>1. arg \in Patterns
      BY <1>1
    <3> QED
      BY <1>10, <3>1, MatchIs
  <2>9. HasMatch(line) => b > p
    <3>1. CASE b = p
      <4>1. ~ \E k \in line_start .. e - 1 : MatchesAt(d, k)
        <5>1. line_start .. e - 1 = {}
          BY <1>9, <2>0, <2>2, <3>1
        <5> QED
          BY <5>1
      <4> QED
        BY <2>8, <4>1
    <3> QED
      BY <2>2, <3>1
  <2>10. Str(d, line_start) = line /\ line \in Seq(STRING)
    BY <1>13
  <2>11. Report(fname, line) \in Seq(Letters)
    BY <2>6, <2>10, ReportTyped
  <2>12. shown' = IF HasMatch(line) THEN shown \o Report(fname, line) ELSE shown
    BY <1>b, <1>12, <2>8, <2>10 DEF Report
  <2>13. ASSUME NEW i \in 1 .. Len(Body) PROVE q[i] \in Seq(Letters)
    <3>1. q[i] = Found(fname, i) /\ text[fname] = Body
      BY <1>3 DEF FoundIn
    <3> QED
      BY <1>3, <2>6, <3>1, FoundTyped
  <2>14. UpTo(q, p) \in Seq(Letters)
    <3>1. Idle(Letters, q, p, p)
      <4>1. ASSUME NEW i \in 1 .. p PROVE q[i] \in Seq(Letters)
        <5>1. i \in 1 .. Len(Body)
          BY <1>3
        <5> HIDE DEF q
        <5> QED
          BY <2>13, <5>1
      <4> HIDE DEF q
      <4> QED
        BY <1>3, <4>1 DEF Idle
    <3> QED
      BY <3>1, UpToQuiet
  <2> HIDE DEF q
  <2>15. PICK m \in Nat : /\ m = pos - 2 /\ m + 1 = pos - 1 /\ m + 1 \in 1 .. Len(Directory)
                          /\ UpTo(Sections, m) \in Seq(Letters)
                          /\ UpTo(Sections, m + 1) = UpTo(Sections, m) \o Sections[m + 1]
    <3>0. Len(Directory) \in Nat /\ pos \in 2 .. Len(Directory) + 1
      BY <1>1, TextsAssumption, LenProperties DEF AtLine, InFile
    <3>1. PICK m \in Nat : m = pos - 2 /\ m + 1 = pos - 1 /\ m + 1 \in 1 .. Len(Directory)
      BY <3>0
    <3>2. \A i \in 1 .. m + 1 : Sections[i] \in Seq(Letters)
      <4> TAKE i \in 1 .. m + 1
      <4>1. i \in 1 .. Len(Directory)
        BY <3>0, <3>1
      <4> QED
        BY <4>1, SectionsTyped
    <3>3. UpTo(Sections, m) \in Seq(Letters) /\ UpTo(Sections, m + 1) = UpTo(Sections, m) \o Sections[m + 1]
      BY <3>2, UpToStep
    <3> QED
      BY <3>1, <3>3
  <2>16. shown' = UpTo(Sections, m) \o UpTo(q, z)
    <3>1. shown = UpTo(Sections, m) \o UpTo(q, p)
      BY <1>5, <2>15 DEF q
    <3>2. CASE HasMatch(line)
      <4>1. UpTo(q, z) = UpTo(q, p) \o Report(fname, line)
        BY <2>7, <2>9, <3>2
      <4>2. shown' = (UpTo(Sections, m) \o UpTo(q, p)) \o Report(fname, line)
        BY <2>12, <3>1, <3>2
      <4>3. (UpTo(Sections, m) \o UpTo(q, p)) \o Report(fname, line)
              = UpTo(Sections, m) \o (UpTo(q, p) \o Report(fname, line))
        <5>1. PICK x \in Seq(Letters), y \in Seq(Letters), w \in Seq(Letters) :
                x = UpTo(Sections, m) /\ y = UpTo(q, p) /\ w = Report(fname, line)
          BY <2>11, <2>14, <2>15
        <5>2. (x \o y) \o w = x \o (y \o w)
          BY ConcatAssociative, SMTT(30)
        <5> QED
          BY <5>1, <5>2
      <4> QED
        BY <4>1, <4>2, <4>3
    <3>3. CASE ~ HasMatch(line)
      BY <2>7, <2>12, <3>1, <3>3
    <3> QED
      BY <3>2, <3>3
  <2>17. data' = d /\ Buffered' /\ line_start' = e + 1
    <3>1. data' = d /\ line_start' = e + 1
      BY <1>b, <1>12
    <3> QED
      BY <1>7, <1>8, <3>1 DEF Buffered
  <2>18. InFile'
    BY <1>0, <1>1 DEF AtLine, InFile
  <2>19. Edge(Body, z)
    BY <2>4, <2>5 DEF Edge
  <2>20. CASE more
    <3>1. last' = last /\ stage' = "line"
      BY <1>0, <1>b, <1>12, <2>20
    <3>2. /\ z = p + n + 1 /\ last - (e + 1) \in Nat /\ z + (last - (e + 1)) = p + (last - line_start)
          /\ line_start' < last' /\ last' \in 0 .. BUFSIZE /\ line_start' \in 0 .. last'
          /\ z \in 0 .. Len(Body) /\ last' - line_start' = last - (e + 1)
      BY <1>3, <1>5, <1>9, <2>0, <2>2, <2>5, <2>17, <2>20, <3>1
    <3>3. Holds(data', line_start', Body, z, last - (e + 1))
      <4> SUFFICES ASSUME NEW j \in 1 .. last - (e + 1)
                   PROVE  data'[line_start' + j - 1] = Body[z + j]
        BY DEF Holds
      <4>1. PICK i \in 1 .. last - line_start :
              i = n + 1 + j /\ line_start + i - 1 = e + j /\ p + i = z + j
        <5>1. /\ n + 1 + j \in 1 .. last - line_start /\ line_start + (n + 1 + j) - 1 = e + j
              /\ p + (n + 1 + j) = z + j
          BY <1>3, <1>9, <2>0, <3>2
        <5> QED
          BY <5>1
      <4>2. data[line_start + i - 1] = Body[p + i]
        BY <1>5 DEF Holds
      <4>3. /\ line_start' + j - 1 = e + j /\ e + j \in 0 .. BUFSIZE /\ e + j # e
        BY <1>5, <2>0, <2>17
      <4>4. d[e + j] = data[e + j]
        BY <1>7, <4>3
      <4> QED
        BY <2>17, <4>1, <4>2, <4>3, <4>4
    <3>4. Searching(z, line_start)'
      BY <1>0, <1>2, <1>5, <2>15, <2>16, <2>19, <3>2, <3>3 DEF Searching, q
    <3>5. cnt' = 0 \/ last' < BUFSIZE => z + (last' - line_start') = Len(Body)
      BY <1>0, <1>4, <3>1, <3>2
    <3>6. AtLine'
      BY <1>2, <2>18, <3>2, <3>4, <3>5 DEF AtLine
    <3> QED
      BY <1>0, <1>1, <2>17, <3>1, <3>6 DEF GrepInv
  <2>21. CASE ~ more
    <3>1. last' = 0 /\ stage' = IF cnt = 0 THEN "start" ELSE "read"
      BY <1>b, <1>12, <2>21
    <3>2. z = p + (last - line_start) /\ z \in 0 .. Len(Body)
      <4>1. CASE e = last
        BY <1>3, <1>9, <2>0, <2>2, <2>5, <4>1
      <4>2. CASE e < last
        <5>1. e + 1 = last
          BY <2>0, <2>21, <4>2
        <5> QED
          BY <1>3, <1>9, <2>0, <2>2, <2>5, <4>2, <5>1
      <4> QED
        BY <2>0, <4>1, <4>2
    <3>3. CASE cnt # 0
      <4>1. Holds(data', 0, Body, z, 0)
        BY DEF Holds
      <4>2. 0 - 0 = 0 /\ z + 0 = z /\ 0 \in 0 .. 0 /\ 0 \in 0 .. BUFSIZE /\ z <= Len(Body) /\ 0 < BUFSIZE
        BY <1>3, <1>5, <3>2
      <4>3. Searching(z, 0)'
        BY <1>0, <1>2, <1>5, <2>15, <2>16, <2>19, <3>1, <3>2, <4>1, <4>2 DEF Searching, q
      <4>4. AtRead'
        BY <1>2, <2>18, <3>1, <3>2, <4>2, <4>3 DEF AtRead
      <4> QED
        BY <1>0, <1>1, <2>17, <3>1, <3>3, <4>4 DEF GrepInv
    <3>4. CASE cnt = 0
      <4>1. z = Len(Body)
        BY <1>4, <3>2, <3>4
      <4>2. fname = Directory[m + 1]
        BY <1>1, <2>15 DEF AtLine, InFile
      <4>3. Sections[m + 1] = UpTo(q, z)
        <5>1. CASE fname \in Files
          <6>1. Body = text[fname]
            BY <5>1 DEF Body
          <6>2. Sections[m + 1] = UpTo(FoundIn(fname, Body), Len(Body))
            BY <2>15, <4>2, <5>1, <6>1, SectionsTyped
          <6> QED
            BY <4>1, <6>2 DEF q
        <5>2. CASE fname \notin Files
          <6>1. Sections[m + 1] = <<>>
            BY <2>15, <4>2, <5>2, SectionsTyped
          <6>2. z = 0
            BY <4>1, <5>2, EmptySeq DEF Body
          <6>3. UpTo(q, 0) = <<>>
            BY Flat DEF UpTo, IsTuple
          <6> QED
            BY <6>1, <6>2, <6>3
        <5> QED
          BY <5>1, <5>2
      <4>4. shown' = UpTo(Sections, m + 1)
        BY <2>15, <2>16, <4>3
      <4>5. pos' - 1 = m + 1 /\ pos' \in 1 .. Len(Directory) + 1
        <5>1. pos \in 2 .. Len(Directory) + 1 /\ Len(Directory) \in Nat
          BY <1>1, TextsAssumption, LenProperties DEF AtLine, InFile
        <5> QED
          BY <1>0, <2>15, <5>1
      <4>6. AtStart'
        BY <1>2, <4>4, <4>5 DEF AtStart
      <4> QED
        BY <1>0, <1>1, <2>17, <3>1, <3>4, <4>6 DEF GrepInv
    <3> QED
      BY <3>3, <3>4
  <2> QED
    BY <2>20, <2>21
<1> QED
  BY <1>11, <1>12

-----------------------------------------------------------------------------
\* The set of newlines before a character is finite.
LEMMA NewlinesBefore ==
    ASSUME NEW s, NEW e \in Nat
    PROVE  /\ IsFiniteSet({k \in 1 .. e - 1 : s[k] = NL})
           /\ Row(s, e) \in Nat /\ (e # 0 => Row(s, e) <= e - 1)
<1> DEFINE T == {k \in 1 .. e - 1 : s[k] = NL}
<1>1. IsFiniteSet(1 .. e - 1) /\ (e # 0 => Cardinality(1 .. e - 1) = e - 1)
  <2>1. IsFiniteSet(1 .. e - 1)
    BY FS_Interval
  <2>2. ASSUME e # 0 PROVE Cardinality(1 .. e - 1) = e - 1
    <3>1. PICK m \in Int : m = e - 1
      OBVIOUS
    <3>2. Cardinality(1 .. m) = IF 1 > m THEN 0 ELSE m - 1 + 1
      BY FS_Interval
    <3> QED
      BY <2>2, <3>1, <3>2
  <2> QED
    BY <2>1, <2>2
<1>2. T \subseteq 1 .. e - 1
  OBVIOUS
<1> HIDE DEF T
<1>3. IsFiniteSet(T) /\ Cardinality(T) <= Cardinality(1 .. e - 1) /\ Cardinality(T) \in Nat
  BY <1>1, <1>2, FS_Subset, FS_CardinalityType
<1> QED
  BY <1>1, <1>3 DEF T, Row

\* The place behind a character: the next of the row, or the first of the
\* next row.
LEMMA NextPlace ==
    ASSUME NEW s, Len(s) \in Nat, NEW e \in 1 .. Len(s), NEW n \in 1 .. Len(s) + 1, n = e + 1
    PROVE  /\ s[e] = NL => Row(s, n) = Row(s, e) + 1 /\ Col(s, n) = 0
           /\ s[e] # NL => Row(s, n) = Row(s, e) /\ Col(s, n) = Col(s, e) + 1
<1> DEFINE T == {k \in 1 .. e - 1 : s[k] = NL}
           U == {k \in 1 .. n - 1 : s[k] = NL}
<1>1. IsFiniteSet(T)
  <2>1. e \in Nat
    OBVIOUS
  <2> QED
    BY <2>1, NewlinesBefore
<1>2. CASE s[e] = NL
  <2>1. U = T \cup {e} /\ e \notin T
    BY <1>2
  <2> HIDE DEF T, U
  <2>2. Cardinality(U) = Cardinality(T) + 1
    BY <1>1, <2>1, FS_AddElement
  <2>3. Opens(s, n) = e
    <3>1. e \in Breaks(s) /\ e < n /\ Quiet(s, e + 1, n - 1)
      BY <1>2 DEF Breaks, Quiet
    <3> QED
      BY <3>1, OpensAt
  <2> QED
    BY <1>2, <2>2, <2>3 DEF Row, Col, T, U
<1>3. CASE s[e] # NL
  <2>1. U = T
    <3>1. ASSUME NEW k \in 1 .. n - 1, s[k] = NL PROVE k \in 1 .. e - 1
      <4>1. k # e
        BY <1>3, <3>1
      <4> QED
        BY <4>1
    <3>2. \A k \in 1 .. e - 1 : k \in 1 .. n - 1
      OBVIOUS
    <3> QED
      BY <3>1, <3>2
  <2> HIDE DEF T, U
  <2>2. /\ Opens(s, e) \in Breaks(s) /\ Opens(s, e) \in 0 .. e - 1
        /\ Quiet(s, Opens(s, e) + 1, e - 1)
    <3>1. e \in 1 .. Len(s) + 1
      OBVIOUS
    <3> QED
      BY <3>1, OpensThere
  <2>3. Opens(s, n) = Opens(s, e)
    <3>1. PICK p : p = Opens(s, e)
      OBVIOUS
    <3>2. p < n /\ Quiet(s, p + 1, n - 1)
      <4>1. ASSUME NEW k \in p + 1 .. n - 1 PROVE s[k] # NL
        <5>1. k = e \/ k \in p + 1 .. e - 1
          BY <2>2, <3>1
        <5> QED
          BY <1>3, <2>2, <3>1, <5>1 DEF Quiet
      <4> QED
        BY <2>2, <3>1, <4>1 DEF Quiet
    <3> QED
      BY <2>2, <3>1, <3>2, OpensAt
  <2>4. Row(s, n) = Row(s, e)
    BY <2>1 DEF Row, T, U
  <2>5. Col(s, n) = Col(s, e) + 1
    <3>1. n - 1 - Opens(s, e) = (e - 1 - Opens(s, e)) + 1
      BY <2>2
    <3> QED
      BY <2>3, <3>1 DEF Col
  <2> QED
    BY <1>3, <2>4, <2>5
<1> QED
  BY <1>2, <1>3

\* The places of a text, in the order of the screen.
Before(a, b, r, q) == a < r \/ (a = r /\ b < q)

\* A place is a row and a column.
LEMMA PlaceTyped ==
    ASSUME NEW s, Len(s) \in Nat, NEW e \in 1 .. Len(s) + 1
    PROVE  Row(s, e) \in 0 .. e - 1 /\ Col(s, e) \in 0 .. e - 1
<1>1. Row(s, e) \in Nat /\ Row(s, e) <= e - 1
  <2>1. e \in Nat /\ e # 0
    OBVIOUS
  <2> QED
    BY <2>1, NewlinesBefore
<1>2. Opens(s, e) \in 0 .. e - 1
  BY OpensThere
<1> QED
  BY <1>1, <1>2 DEF Col

\* Characters stand in their order.
LEMMA PlacesGrow ==
    ASSUME NEW s, Len(s) \in Nat, NEW e \in 1 .. Len(s), NEW n \in e + 1 .. Len(s) + 1
    PROVE  Before(Row(s, e), Col(s, e), Row(s, n), Col(s, n))
<1> DEFINE Grown(m) == Before(Row(s, e), Col(s, e), Row(s, m), Col(s, m))
           S == {j \in Nat : e + 1 + j <= Len(s) + 1 => Grown(e + 1 + j)}
<1>0. ASSUME NEW m \in 1 .. Len(s) + 1
      PROVE  Row(s, m) \in Nat /\ Col(s, m) \in Nat
  BY PlaceTyped
<1>1. 0 \in S
  <2>1. PICK m \in 1 .. Len(s) + 1 : m = e + 1 /\ m = e + 1 + 0
    OBVIOUS
  <2>2. /\ s[e] = NL => Row(s, m) = Row(s, e) + 1 /\ Col(s, m) = 0
        /\ s[e] # NL => Row(s, m) = Row(s, e) /\ Col(s, m) = Col(s, e) + 1
    BY <2>1, NextPlace
  <2>3. Row(s, e) \in Nat /\ Col(s, e) \in Nat
    <3>1. e \in 1 .. Len(s) + 1
      OBVIOUS
    <3> QED
      BY <1>0, <3>1
  <2>4. Grown(m)
    BY <2>2, <2>3 DEF Before
  <2> HIDE DEF Grown
  <2> QED
    BY <2>1, <2>4
<1>2. ASSUME NEW j \in Nat, j \in S PROVE j + 1 \in S
  <2> SUFFICES ASSUME e + 1 + (j + 1) <= Len(s) + 1 PROVE Grown(e + 1 + (j + 1))
    <3> HIDE DEF Grown
    <3> QED
      OBVIOUS
  <2>1. PICK m \in 1 .. Len(s) : m = e + 1 + j
    OBVIOUS
  <2>2. Grown(m)
    <3> HIDE DEF Grown
    <3>1. e + 1 + j <= Len(s) + 1
      OBVIOUS
    <3> QED
      BY <1>2, <2>1, <3>1
  <2>3. PICK x \in 1 .. Len(s) + 1 : x = m + 1 /\ x = e + 1 + (j + 1)
    BY <2>1
  <2>4. /\ s[m] = NL => Row(s, x) = Row(s, m) + 1 /\ Col(s, x) = 0
        /\ s[m] # NL => Row(s, x) = Row(s, m) /\ Col(s, x) = Col(s, m) + 1
    BY <2>3, NextPlace
  <2>5. /\ Row(s, m) \in Nat /\ Col(s, m) \in Nat /\ Row(s, e) \in Nat /\ Col(s, e) \in Nat
    <3>1. e \in 1 .. Len(s) + 1 /\ m \in 1 .. Len(s) + 1
      OBVIOUS
    <3> QED
      BY <1>0, <3>1
  <2>6. Grown(x)
    BY <2>2, <2>4, <2>5 DEF Before
  <2> HIDE DEF Grown
  <2> QED
    BY <2>3, <2>6
<1> HIDE DEF S
<1>3. \A j \in Nat : j \in S
  BY <1>1, <1>2, UpFromZero
<1>4. PICK j \in Nat : n = e + 1 + j
  <2>1. n - (e + 1) \in Nat /\ n = e + 1 + (n - (e + 1))
    OBVIOUS
  <2> QED
    BY <2>1
<1>5. e + 1 + j <= Len(s) + 1
  BY <1>4
<1>6. Grown(e + 1 + j)
  <2> HIDE DEF Grown
  <2> QED
    BY <1>3, <1>5 DEF S
<1> QED
  BY <1>4, <1>6

\* The character of a place.
LEMMA CharAtIs ==
    ASSUME NEW s, Len(s) \in Nat, NEW r, NEW k
    PROVE  /\ \A e \in 1 .. Len(s) :
                s[e] # NL /\ Row(s, e) = r /\ Col(s, e) = k => CharAt(s, r, k) = s[e]
           /\ (\A e \in 1 .. Len(s) : ~ (s[e] # NL /\ Row(s, e) = r /\ Col(s, e) = k))
                => CharAt(s, r, k) = SP
<1> DEFINE there == {e \in 1 .. Len(s) : s[e] # NL /\ Row(s, e) = r /\ Col(s, e) = k}
<1>1. CharAt(s, r, k) = IF there = {} THEN SP ELSE s[CHOOSE e \in there : TRUE]
  BY DEF CharAt
<1>2. ASSUME NEW e \in there PROVE CharAt(s, r, k) = s[e]
  <2>1. PICK x \in there : x = CHOOSE y \in there : TRUE
    BY <1>2
  <2>2. /\ Row(s, e) \in Nat /\ Col(s, e) \in Nat /\ e \in 1 .. Len(s) /\ x \in 1 .. Len(s)
        /\ Row(s, e) = r /\ Col(s, e) = k /\ Row(s, x) = r /\ Col(s, x) = k
    <3>1. e \in 1 .. Len(s) + 1
      OBVIOUS
    <3> QED
      BY <3>1, PlaceTyped
  <2>3. x = e
    <3>1. CASE x < e
      <4>1. e \in x + 1 .. Len(s) + 1
        BY <2>2, <3>1
      <4>2. Before(Row(s, x), Col(s, x), Row(s, e), Col(s, e))
        BY <2>2, <4>1, PlacesGrow
      <4> QED
        BY <2>2, <4>2 DEF Before
    <3>2. CASE e < x
      <4>1. x \in e + 1 .. Len(s) + 1
        BY <2>2, <3>2
      <4>2. Before(Row(s, e), Col(s, e), Row(s, x), Col(s, x))
        BY <2>2, <4>1, PlacesGrow
      <4> QED
        BY <2>2, <4>2 DEF Before
    <3> QED
      BY <2>2, <3>1, <3>2
  <2> HIDE DEF there
  <2> QED
    BY <1>1, <1>2, <2>1, <2>3
<1>3. there = {} => CharAt(s, r, k) = SP
  BY <1>1
<1> QED
  BY <1>2, <1>3

\* A character of a frame stands within a row of the screen.
LEMMA WithinRow ==
    ASSUME NEW s \in Frames, NEW r, NEW k, CharAt(s, r, k) # SP
    PROVE  /\ k \in Nat /\ k < COLS /\ r \in 0 .. Len(s) /\ k \in 0 .. Len(s)
           /\ \E e \in 1 .. Len(s) : s[e] # NL /\ Row(s, e) = r /\ Col(s, e) = k
<1>0. s \in Seq(STRING) /\ Len(s) \in Nat /\ COLS \in Nat
  BY TextsAssumption, LenProperties
<1>1. PICK e \in 1 .. Len(s) : s[e] # NL /\ Row(s, e) = r /\ Col(s, e) = k
  BY <1>0, CharAtIs
<1>2. r \in 0 .. e - 1 /\ k \in 0 .. e - 1
  <2>1. e \in 1 .. Len(s) + 1
    BY <1>0
  <2> QED
    BY <1>0, <1>1, <2>1, PlaceTyped
<1>3. k < COLS
  <2> SUFFICES ASSUME ~ (k < COLS) PROVE FALSE
    OBVIOUS
  <2>1. e \in COLS + 1 .. Len(s)
    BY <1>0, <1>2
  <2>2. PICK j \in e - COLS .. e : s[j] = NL
    BY <2>1, TextsAssumption
  <2>3. /\ Opens(s, e) \in 0 .. e - 1 /\ Quiet(s, Opens(s, e) + 1, e - 1)
    <3>1. e \in 1 .. Len(s) + 1
      BY <1>0
    <3> QED
      BY <1>0, <3>1, OpensThere
  <2>4. k = e - 1 - Opens(s, e)
    BY <1>1 DEF Col
  <2>5. j # e /\ j \in Opens(s, e) + 1 .. e - 1
    <3>1. j # e
      BY <1>1, <2>2
    <3> QED
      BY <1>0, <1>2, <2>1, <2>3, <2>4, <3>1
  <2> QED
    BY <2>2, <2>3, <2>5 DEF Quiet
<1> QED
  BY <1>0, <1>1, <1>2, <1>3

\* How far a frame is read at a place: its character there comes next; or its
\* row is over, or all of it.
FrameRead(s, left, x, over, r, q, d) ==
    /\ d \in 0 .. Len(s) /\ left = After(s, d)
    /\ \/ x # NL /\ ~ over /\ Row(s, d + 1) = r /\ Col(s, d + 1) = q
       \/ /\ x = NL /\ ~ over /\ d # 0 /\ s[d] = NL
          /\ Row(s, d) = r /\ Col(s, d) < q
       \/ /\ x = NL /\ over /\ d = Len(s)
          /\ Before(Row(s, d + 1), Col(s, d + 1), r, q) \/ (Row(s, d + 1) = r /\ Col(s, d + 1) = q)
FrameIs(s, left, x, over, r, q) ==
    /\ s \in Seq(STRING) /\ over \in BOOLEAN /\ r \in Nat /\ q \in Nat
    /\ \E d \in 0 .. Len(s) : FrameRead(s, left, x, over, r, q, d)

\* What was read stands before the place, and what was not behind it, in a
\* later row if the row is over.
LEMMA FrameParts ==
    ASSUME NEW s \in Seq(STRING), NEW left, NEW x, NEW over, NEW r \in Nat, NEW q \in Nat,
           NEW d \in 0 .. Len(s), FrameRead(s, left, x, over, r, q, d),
           NEW e \in 1 .. Len(s), s[e] # NL
    PROVE  /\ e <= d => Before(Row(s, e), Col(s, e), r, q)
           /\ e > d => ~ Before(Row(s, e), Col(s, e), r, q)
           /\ e > d /\ x = NL => Row(s, e) > r
<1>0. Len(s) \in Nat /\ d \in Nat /\ e \in Nat
  BY LenProperties
<1>1. ASSUME NEW m \in 1 .. Len(s) + 1 PROVE Row(s, m) \in Nat /\ Col(s, m) \in Nat
  BY <1>0, <1>1, PlaceTyped
<1>2. PICK n \in 1 .. Len(s) + 1 : n = d + 1
  BY <1>0
<1>3. e \in 1 .. Len(s) + 1 /\ Row(s, e) \in Nat /\ Col(s, e) \in Nat
      /\ Row(s, n) \in Nat /\ Col(s, n) \in Nat
  <2>1. e \in 1 .. Len(s) + 1
    BY <1>0
  <2> QED
    BY <1>1, <2>1
<1>4. /\ e <= d => Before(Row(s, e), Col(s, e), Row(s, n), Col(s, n))
  <2>1. e <= d => n \in e + 1 .. Len(s) + 1
    BY <1>0, <1>2
  <2> QED
    BY <1>0, <2>1, PlacesGrow
<1>5. e > d => \/ e = n
               \/ Before(Row(s, n), Col(s, n), Row(s, e), Col(s, e))
  <2> SUFFICES ASSUME e > d, e # n PROVE Before(Row(s, n), Col(s, n), Row(s, e), Col(s, e))
    OBVIOUS
  <2>1. n \in 1 .. Len(s) /\ e \in n + 1 .. Len(s) + 1
    BY <1>0, <1>2
  <2> QED
    BY <1>0, <2>1, PlacesGrow
<1>6. CASE x # NL /\ ~ over /\ Row(s, n) = r /\ Col(s, n) = q
  BY <1>3, <1>4, <1>5, <1>6 DEF Before
<1>7. CASE x = NL /\ ~ over /\ d # 0 /\ s[d] = NL /\ Row(s, d) = r /\ Col(s, d) < q
  <2>1. d \in 1 .. Len(s) /\ d \in 1 .. Len(s) + 1
    BY <1>0, <1>7
  <2>2. Row(s, n) = r + 1 /\ Row(s, d) \in Nat /\ Col(s, d) \in Nat
    BY <1>0, <1>1, <1>2, <1>7, <2>1, NextPlace
  <2>3. e <= d => Before(Row(s, e), Col(s, e), Row(s, d), Col(s, d))
    <3>1. e <= d => d \in e + 1 .. Len(s) + 1
      BY <1>0, <1>7
    <3> QED
      BY <1>0, <3>1, PlacesGrow
  <2> QED
    BY <1>3, <1>5, <1>7, <2>2, <2>3 DEF Before
<1>8. CASE /\ x = NL /\ over /\ d = Len(s)
           /\ Before(Row(s, n), Col(s, n), r, q) \/ (Row(s, n) = r /\ Col(s, n) = q)
  <2>1. e <= d
    BY <1>0, <1>8
  <2> QED
    BY <1>0, <1>3, <1>4, <1>8, <2>1 DEF Before
<1> QED
  BY <1>2, <1>6, <1>7, <1>8 DEF FrameRead

\* What a column reads of a frame, and what is left of it.
Turns(left, x, over, Ends, y, o, l) ==
    /\ Ends = (x # NL /\ left = <<>>)
    /\ y = IF x = NL \/ Ends THEN NL ELSE Head(left)
    /\ o = (over \/ Ends)
    /\ l = IF x # NL /\ ~ Ends THEN Tail(left) ELSE left

\* One column of a frame: what is shown is the character of the place, or a
\* blank, and if the row of the frame is over then nothing is behind it.
LEMMA FrameStep ==
    ASSUME NEW s, NEW left, NEW x, NEW over, NEW r, NEW q, FrameIs(s, left, x, over, r, q),
           NEW Ends, NEW y, NEW o, NEW l, Turns(left, x, over, Ends, y, o, l)
    PROVE  /\ Shown(y) = CharAt(s, r, q)
           /\ FrameIs(s, l, y, o, r, q + 1)
           /\ y = NL => /\ FrameIs(s, l, IF o THEN NL ELSE "0", o, r + 1, 0)
                        /\ \A b \in Nat : b >= q => CharAt(s, r, b) = SP
<1> USE DEF Turns
<1>0. /\ s \in Seq(STRING) /\ Len(s) \in Nat /\ r \in Nat /\ q \in Nat /\ over \in BOOLEAN
      /\ "0" # NL
  BY LenProperties, TextsAssumption DEF FrameIs
<1>1. PICK d \in 0 .. Len(s) : FrameRead(s, left, x, over, r, q, d)
  BY DEF FrameIs
<1>2. PICK n \in 1 .. Len(s) + 1 : n = d + 1
  BY <1>0
<1>3. /\ left = After(s, d)
      /\ \/ x # NL /\ ~ over /\ Row(s, n) = r /\ Col(s, n) = q
         \/ /\ x = NL /\ ~ over /\ d # 0 /\ s[d] = NL
            /\ Row(s, d) = r /\ Col(s, d) < q
         \/ /\ x = NL /\ over /\ d = Len(s)
            /\ Before(Row(s, n), Col(s, n), r, q) \/ (Row(s, n) = r /\ Col(s, n) = q)
  BY <1>1, <1>2 DEF FrameRead
<1>4. Ends => d = Len(s)
  BY <1>0, <1>3, AfterHead
<1>5. x # NL /\ ~ Ends => /\ d # Len(s) /\ n \in 1 .. Len(s) /\ y = s[n] /\ l = After(s, n)
  <2> SUFFICES ASSUME x # NL, ~ Ends
               PROVE  d # Len(s) /\ n \in 1 .. Len(s) /\ y = s[n] /\ l = After(s, n)
    OBVIOUS
  <2>1. left # <<>> /\ d # Len(s)
    BY <1>0, <1>3, AfterHead
  <2>2. Head(After(s, d)) = s[d + 1] /\ Tail(After(s, d)) = After(s, d + 1)
    BY <1>0, <2>1, AfterHead
  <2>3. Head(left) = s[n] /\ Tail(left) = After(s, n)
    BY <1>2, <1>3, <2>2
  <2>4. n \in 1 .. Len(s)
    BY <1>0, <1>2, <2>1
  <2> QED
    BY <2>1, <2>3, <2>4
<1>6. ASSUME NEW w, n \in 1 .. Len(s), w = n + 1, x # NL, ~ Ends
      PROVE  /\ y = NL => Row(s, w) = r + 1 /\ Col(s, w) = 0
             /\ y # NL => Row(s, w) = r /\ Col(s, w) = q + 1
             /\ w \in 1 .. Len(s) + 1
  <2>1. w \in 1 .. Len(s) + 1
    BY <1>0, <1>6
  <2>2. /\ s[n] = NL => Row(s, w) = Row(s, n) + 1 /\ Col(s, w) = 0
        /\ s[n] # NL => Row(s, w) = Row(s, n) /\ Col(s, w) = Col(s, n) + 1
    BY <1>0, <1>6, <2>1, NextPlace
  <2> QED
    BY <1>3, <1>5, <1>6, <2>1, <2>2
<1>7. ASSUME x = NL, ~ over PROVE Row(s, n) = r + 1 /\ Col(s, n) = 0
  <2>1. d \in 1 .. Len(s) /\ s[d] = NL /\ Row(s, d) = r
    BY <1>0, <1>3, <1>7
  <2> QED
    BY <1>0, <1>2, <2>1, NextPlace
<1>8. ASSUME y = NL, NEW b \in Nat, b >= q PROVE CharAt(s, r, b) = SP
  <2> SUFFICES ASSUME NEW e \in 1 .. Len(s), s[e] # NL, Row(s, e) = r, Col(s, e) = b PROVE FALSE
    BY <1>0, CharAtIs
  <2>1. /\ e <= d => Before(Row(s, e), Col(s, e), r, q)
        /\ e > d /\ x = NL => Row(s, e) > r
    BY <1>0, <1>1, FrameParts
  <2>2. e > d
    BY <1>0, <1>8, <2>1 DEF Before
  <2>3. x # NL
    BY <1>0, <2>1, <2>2
  <2>4. ~ Ends
    BY <1>0, <1>4, <2>2
  <2>5. n \in 1 .. Len(s) /\ s[n] = NL
    BY <1>5, <1>8, <2>3, <2>4
  <2>6. e > n
    BY <1>0, <1>2, <2>2, <2>5
  <2>7. Row(s, n) = r
    BY <1>3, <2>3
  <2>8. PICK w \in 1 .. Len(s) : w = n + 1
    BY <1>0, <2>6
  <2>9. Row(s, w) = r + 1
    BY <1>6, <1>8, <2>3, <2>4, <2>5, <2>8
  <2>10. e \in w + 1 .. Len(s) + 1 \/ e = w
    BY <1>0, <2>6, <2>8
  <2>11. e # w => Before(Row(s, w), Col(s, w), Row(s, e), Col(s, e))
    BY <1>0, <2>10, PlacesGrow
  <2> QED
    BY <1>0, <2>9, <2>11 DEF Before
<1>9. Shown(y) = CharAt(s, r, q)
  <2>1. CASE y = NL
    BY <1>0, <1>8, <2>1 DEF Shown
  <2>2. CASE y # NL
    <3>1. x # NL /\ ~ Ends
      BY <2>2
    <3>2. CharAt(s, r, q) = s[n]
      BY <1>0, <1>3, <1>5, <2>2, <3>1, CharAtIs
    <3> QED
      BY <1>5, <2>2, <3>1, <3>2 DEF Shown
  <2> QED
    BY <2>1, <2>2
<1>10. q + 1 \in Nat /\ r + 1 \in Nat /\ 0 \in Nat /\ o \in BOOLEAN
  <2>1. o \in BOOLEAN
    BY <1>0
  <2> QED
    BY <1>0, <2>1
<1>13. ASSUME o
       PROVE  /\ d = Len(s) /\ Before(Row(s, n), Col(s, n), r, q + 1)
              /\ Before(Row(s, n), Col(s, n), r + 1, 0)
  <2>1. Row(s, n) \in Nat /\ Col(s, n) \in Nat
    BY <1>0, PlaceTyped
  <2>2. \/ d = Len(s) /\ Row(s, n) = r /\ Col(s, n) = q
        \/ d = Len(s) /\ Before(Row(s, n), Col(s, n), r, q)
    <3>1. CASE Ends
      BY <1>3, <1>4, <3>1
    <3>2. CASE over
      BY <1>3, <3>2
    <3> QED
      BY <1>13, <3>1, <3>2
  <2> QED
    BY <1>0, <2>1, <2>2 DEF Before
<1> DEFINE first == IF o THEN NL ELSE "0"
<1>11. CASE x # NL /\ ~ Ends
  <2>1. n \in 0 .. Len(s) /\ n # 0 /\ l = After(s, n) /\ ~ o /\ y = s[n] /\ n \in 1 .. Len(s)
    BY <1>0, <1>3, <1>5, <1>11
  <2>2. PICK w : w = n + 1
    OBVIOUS
  <2>3. /\ y = NL => Row(s, w) = r + 1 /\ Col(s, w) = 0
        /\ y # NL => Row(s, w) = r /\ Col(s, w) = q + 1
    BY <1>6, <1>11, <2>1, <2>2
  <2>4. FrameRead(s, l, y, o, r, q + 1, n)
    <3>1. CASE y # NL
      BY <2>1, <2>2, <2>3, <3>1 DEF FrameRead
    <3>2. CASE y = NL
      <4>1. Row(s, n) = r /\ Col(s, n) < q + 1
        BY <1>0, <1>3, <1>11
      <4> QED
        BY <2>1, <3>2, <4>1 DEF FrameRead
    <3> QED
      BY <3>1, <3>2
  <2>5. y = NL => FrameRead(s, l, first, o, r + 1, 0, n)
    BY <1>0, <2>1, <2>2, <2>3 DEF FrameRead
  <2> HIDE DEF first
  <2>6. FrameIs(s, l, y, o, r, q + 1) /\ (y = NL => FrameIs(s, l, first, o, r + 1, 0))
    BY <1>0, <1>10, <2>1, <2>4, <2>5 DEF FrameIs
  <2> QED
    BY <1>8, <1>9, <2>6 DEF first
<1>12. CASE ~ (x # NL /\ ~ Ends)
  <2>1. l = left /\ y = NL
    BY <1>12
  <2>2. FrameRead(s, l, y, o, r, q + 1, d)
    <3>1. CASE o
      <4>1. d = Len(s) /\ Before(Row(s, n), Col(s, n), r, q + 1)
        BY <1>13, <3>1
      <4> QED
        BY <1>2, <1>3, <2>1, <3>1, <4>1 DEF FrameRead
    <3>2. CASE ~ o
      <4>1. x = NL /\ ~ over
        BY <1>12, <3>2
      <4>2. d # 0 /\ s[d] = NL /\ Row(s, d) = r /\ Col(s, d) < q
        BY <1>3, <4>1
      <4>3. Col(s, d) < q + 1
        <5>1. d \in 1 .. Len(s) + 1
          BY <1>0, <4>2
        <5>2. Col(s, d) \in 0 .. d - 1
          BY <1>0, <5>1, PlaceTyped
        <5> QED
          BY <1>0, <4>2, <5>2
      <4> QED
        BY <1>3, <2>1, <3>2, <4>2, <4>3 DEF FrameRead
    <3> QED
      BY <3>1, <3>2
  <2>3. FrameRead(s, l, first, o, r + 1, 0, d)
    <3>1. CASE o
      <4>1. d = Len(s) /\ Before(Row(s, n), Col(s, n), r + 1, 0)
        BY <1>13, <3>1
      <4> QED
        BY <1>2, <1>3, <2>1, <3>1, <4>1 DEF FrameRead
    <3>2. CASE ~ o
      <4>1. x = NL /\ ~ over
        BY <1>12, <3>2
      <4>2. Row(s, n) = r + 1 /\ Col(s, n) = 0
        BY <1>7, <4>1
      <4> QED
        BY <1>0, <1>2, <1>3, <2>1, <3>2, <4>2 DEF FrameRead
    <3> QED
      BY <3>1, <3>2
  <2> HIDE DEF first
  <2>4. FrameIs(s, l, y, o, r, q + 1) /\ FrameIs(s, l, first, o, r + 1, 0)
    BY <1>0, <1>10, <2>2, <2>3 DEF FrameIs
  <2> QED
    BY <1>8, <1>9, <2>4 DEF first
<1> QED
  BY <1>11, <1>12

-----------------------------------------------------------------------------
FrameBlinks == {BlinkAt(a, b) : a, b \in Nat}
BothBlank(a, b) == CharAt(text["first"], a, b) = SP /\ CharAt(text["second"], a, b) = SP

\* The list of blinks is the picture up to a place: every blink is one of a
\* place before it that is not blank, every such place has one, and no two
\* have the same location.
OnlyBlinks(sh, r, q) ==
    \A i \in 1 .. Len(sh) :
      \E a, b \in Nat : Before(a, b, r, q) /\ ~ BothBlank(a, b) /\ sh[i] = BlinkAt(a, b)
Complete(sh, r, q) ==
    \A a, b \in Nat : Before(a, b, r, q) /\ ~ BothBlank(a, b) =>
      \E i \in 1 .. Len(sh) : sh[i] = BlinkAt(a, b)
Distinct(sh) ==
    \A i, j \in 1 .. Len(sh) : sh[i].location = sh[j].location => i = j
Pictured(sh, r, q) ==
    /\ sh \in Seq(FrameBlinks)
    /\ OnlyBlinks(sh, r, q) /\ Complete(sh, r, q) /\ Distinct(sh)

\* It depends on the places before that are not blank.
LEMMA PictureSame ==
    ASSUME NEW r, NEW q, NEW v, NEW w, NEW sh, Pictured(sh, r, q),
           \A a, b \in Nat : ~ BothBlank(a, b) => (Before(a, b, v, w) <=> Before(a, b, r, q))
    PROVE  Pictured(sh, v, w)
<1>1. ASSUME NEW i \in 1 .. Len(sh)
      PROVE  \E a, b \in Nat : Before(a, b, v, w) /\ ~ BothBlank(a, b) /\ sh[i] = BlinkAt(a, b)
  <2>1. PICK a \in Nat, b \in Nat : Before(a, b, r, q) /\ ~ BothBlank(a, b) /\ sh[i] = BlinkAt(a, b)
    BY DEF Pictured, OnlyBlinks
  <2> QED
    BY <2>1
<1>2. ASSUME NEW a \in Nat, NEW b \in Nat, Before(a, b, v, w), ~ BothBlank(a, b)
      PROVE  \E i \in 1 .. Len(sh) : sh[i] = BlinkAt(a, b)
  <2>1. Before(a, b, r, q)
    BY <1>2
  <2> QED
    BY <1>2, <2>1 DEF Pictured, Complete
<1>3. OnlyBlinks(sh, v, w)
  BY <1>1, Zenon DEF OnlyBlinks
<1>4. Complete(sh, v, w)
  BY <1>2, Zenon DEF Complete
<1> QED
  BY <1>3, <1>4 DEF Pictured

\* Places of a screen of m columns, in their order, have growing locations.
LEMMA Apart ==
    ASSUME NEW a \in Nat, NEW b \in Nat, NEW r \in Nat, NEW q \in Nat, NEW m \in Nat,
           b < m, Before(a, b, r, q)
    PROVE  a * m + b < r * m + q
<1>0. a * m \in Nat /\ r * m \in Nat
  OBVIOUS
<1>1. CASE a < r
  <2>1. PICK j \in Nat : r = a + 1 + j
    <3>1. r - (a + 1) \in Nat /\ r = a + 1 + (r - (a + 1))
      BY <1>1
    <3> QED
      BY <3>1
  <2>2. r * m = a * m + m + j * m
    BY <2>1
  <2>3. j * m \in Nat
    OBVIOUS
  <2> QED
    BY <1>0, <2>2, <2>3
<1>2. CASE a = r /\ b < q
  BY <1>0, <1>2
<1> QED
  BY <1>1, <1>2 DEF Before

\* Where there is something to show, it is within the row.
LEMMA NotBlank ==
    ASSUME text \in [Files -> Frames], NEW a, NEW b, ~ BothBlank(a, b)
    PROVE  /\ a \in Sides /\ b \in Sides /\ a \in Nat /\ b \in Nat /\ b < COLS
           /\ \E f \in Files : \E e \in 1 .. Len(text[f]) :
                text[f][e] # NL /\ Row(text[f], e) = a /\ Col(text[f], e) = b
<1>1. /\ text["first"] \in Frames /\ text["second"] \in Frames
      /\ "first" \in Files /\ "second" \in Files
  BY DEF Files
<1>2. Len(text["first"]) \in Nat /\ Len(text["second"]) \in Nat
  BY <1>1, TextsAssumption, LenProperties
<1>3. PICK f \in Files : CharAt(text[f], a, b) # SP
  BY <1>1 DEF BothBlank
<1>4. /\ b \in Nat /\ b < COLS /\ a \in 0 .. Len(text[f]) /\ b \in 0 .. Len(text[f])
      /\ \E e \in 1 .. Len(text[f]) :
            text[f][e] # NL /\ Row(text[f], e) = a /\ Col(text[f], e) = b
  <2>1. text[f] \in Frames
    OBVIOUS
  <2> QED
    BY <1>3, <2>1, WithinRow
<1>5. f = "first" \/ f = "second"
  BY DEF Files
<1>7. PICK m \in Nat, n \in Nat : m = Len(text["first"]) /\ n = Len(text["second"])
  BY <1>2
<1>8. Sides = 0 .. m + n
  BY <1>7 DEF Sides
<1>6. a \in Sides /\ b \in Sides /\ a \in Nat
  <2>1. CASE f = "first"
    <3>1. a \in 0 .. m /\ b \in 0 .. m
      BY <1>4, <1>7, <2>1
    <3> QED
      BY <1>8, <3>1
  <2>2. CASE f = "second"
    <3>1. a \in 0 .. n /\ b \in 0 .. n
      BY <1>4, <1>7, <2>2
    <3> QED
      BY <1>8, <3>1
  <2> QED
    BY <1>5, <2>1, <2>2
<1> QED
  BY <1>4, <1>6

\* The next place.
LEMMA PictureGrows ==
    ASSUME text \in [Files -> Frames], NEW r \in Nat, NEW q \in Nat, NEW sh, Pictured(sh, r, q)
    PROVE  /\ BothBlank(r, q) => Pictured(sh, r, q + 1)
           /\ ~ BothBlank(r, q) => Pictured(sh \o <<BlinkAt(r, q)>>, r, q + 1)
<1> DEFINE x == BlinkAt(r, q)
           new == sh \o <<x>>
<1>0. /\ sh \in Seq(FrameBlinks) /\ Len(sh) \in Nat /\ COLS \in Nat /\ OFFSET \in Nat
  BY LenProperties, TextsAssumption DEF Pictured
<1>1. ASSUME NEW a \in Nat, NEW b \in Nat
      PROVE  Before(a, b, r, q + 1) <=> Before(a, b, r, q) \/ (a = r /\ b = q)
  BY DEF Before
<1>2. CASE BothBlank(r, q)
  <2>1. ASSUME NEW a \in Nat, NEW b \in Nat, ~ BothBlank(a, b)
        PROVE  Before(a, b, r, q + 1) <=> Before(a, b, r, q)
    BY <1>1, <1>2, <2>1
  <2> QED
    BY <1>2, <2>1, PictureSame
<1>3. CASE ~ BothBlank(r, q)
  <2>1. x \in FrameBlinks
    BY DEF FrameBlinks
  <2>2. /\ new \in Seq(FrameBlinks) /\ Len(new) = Len(sh) + 1 /\ new[Len(sh) + 1] = x
        /\ \A i \in 1 .. Len(sh) : new[i] = sh[i]
    <3> HIDE DEF x
    <3>1. new = Append(sh, x)
      BY <1>0, <2>1, AppendIsConcat
    <3> QED
      BY <1>0, <2>1, <3>1, AppendProperties
  <2> HIDE DEF new
  <2>3. ASSUME NEW i \in 1 .. Len(new) PROVE i \in 1 .. Len(sh) \/ (i = Len(sh) + 1 /\ new[i] = x)
    BY <1>0, <2>2
  <2>4. \A i \in 1 .. Len(sh) : i \in 1 .. Len(new)
    BY <1>0, <2>2
  <2>5. Len(sh) + 1 \in 1 .. Len(new)
    BY <1>0, <2>2
  <2>6. ASSUME NEW i \in 1 .. Len(new)
        PROVE  \E a, b \in Nat : Before(a, b, r, q + 1) /\ ~ BothBlank(a, b) /\ new[i] = BlinkAt(a, b)
    <3>1. CASE i \in 1 .. Len(sh)
      <4>1. PICK a \in Nat, b \in Nat : Before(a, b, r, q) /\ ~ BothBlank(a, b) /\ sh[i] = BlinkAt(a, b)
        BY <3>1 DEF Pictured, OnlyBlinks
      <4> QED
        BY <1>1, <2>2, <3>1, <4>1
    <3>2. CASE i \notin 1 .. Len(sh)
      BY <1>1, <1>3, <2>3, <3>2
    <3> QED
      BY <3>1, <3>2
  <2>7. ASSUME NEW a \in Nat, NEW b \in Nat, Before(a, b, r, q + 1), ~ BothBlank(a, b)
        PROVE  \E i \in 1 .. Len(new) : new[i] = BlinkAt(a, b)
    <3>1. CASE Before(a, b, r, q)
      <4>1. PICK i \in 1 .. Len(sh) : sh[i] = BlinkAt(a, b)
        BY <2>7, <3>1 DEF Pictured, Complete
      <4> QED
        BY <2>2, <2>4, <4>1
    <3>2. CASE ~ Before(a, b, r, q)
      <4>1. a = r /\ b = q
        BY <1>1, <2>7, <3>2
      <4> QED
        BY <2>2, <2>5, <4>1
    <3> QED
      BY <3>1, <3>2
  <2>8. ASSUME NEW i \in 1 .. Len(sh) PROVE sh[i].location # x.location
    <3>1. PICK a \in Nat, b \in Nat : Before(a, b, r, q) /\ ~ BothBlank(a, b) /\ sh[i] = BlinkAt(a, b)
      BY DEF Pictured, OnlyBlinks
    <3>2. b < COLS
      BY <3>1, NotBlank
    <3>3. a * COLS + b < r * COLS + q
      BY <1>0, <3>1, <3>2, Apart
    <3>4. sh[i].location = a * COLS + b + OFFSET /\ x.location = r * COLS + q + OFFSET
      BY <3>1 DEF BlinkAt
    <3>5. a * COLS \in Nat /\ r * COLS \in Nat
      BY <1>0
    <3> HIDE DEF x
    <3> QED
      BY <1>0, <3>3, <3>4, <3>5, SMTT(30)
  <2>9. ASSUME NEW i \in 1 .. Len(new), NEW j \in 1 .. Len(new), new[i].location = new[j].location
        PROVE  i = j
    <3> HIDE DEF x
    <3>1. CASE i \in 1 .. Len(sh) /\ j \in 1 .. Len(sh)
      <4>1. sh[i].location = sh[j].location
        BY <2>2, <2>9, <3>1
      <4> QED
        BY <3>1, <4>1 DEF Pictured, Distinct
    <3>2. CASE i \in 1 .. Len(sh) /\ j \notin 1 .. Len(sh)
      BY <2>2, <2>3, <2>8, <2>9, <3>2
    <3>3. CASE i \notin 1 .. Len(sh) /\ j \in 1 .. Len(sh)
      BY <2>2, <2>3, <2>8, <2>9, <3>3
    <3>4. CASE i \notin 1 .. Len(sh) /\ j \notin 1 .. Len(sh)
      BY <2>3, <3>4
    <3> QED
      BY <3>1, <3>2, <3>3, <3>4
  <2>10. Pictured(new, r, q + 1)
    <3>1. OnlyBlinks(new, r, q + 1)
      BY <2>6, Zenon DEF OnlyBlinks
    <3>2. Complete(new, r, q + 1)
      BY <2>7, Zenon DEF Complete
    <3>3. Distinct(new)
      BY <2>9, Zenon DEF Distinct
    <3> QED
      BY <2>2, <3>1, <3>2, <3>3 DEF Pictured
  <2> QED
    BY <1>3, <2>10 DEF new
<1> QED
  BY <1>2, <1>3

\* A row that has nothing more.
LEMMA PictureRow ==
    ASSUME NEW r \in Nat, NEW q \in Nat, NEW sh, Pictured(sh, r, q),
           \A b \in Nat : b >= q => BothBlank(r, b)
    PROVE  Pictured(sh, r + 1, 0)
<1>1. ASSUME NEW a \in Nat, NEW b \in Nat
      PROVE  /\ Before(a, b, r, q) => Before(a, b, r + 1, 0)
             /\ Before(a, b, r + 1, 0) /\ ~ BothBlank(a, b) => Before(a, b, r, q)
  BY DEF Before
<1> QED
  BY <1>1, PictureSame

\* All the places.
LEMMA PictureWhole ==
    ASSUME text \in [Files -> Frames], NEW r, NEW q, NEW sh, Pictured(sh, r, q),
           \A a, b \in Nat : ~ BothBlank(a, b) => Before(a, b, r, q)
    PROVE  ToSet(sh) = Overlay
<1>0. ASSUME NEW a, NEW b
      PROVE  BothBlank(a, b) <=> ~ (BlinkAt(a, b).on_char # SP \/ BlinkAt(a, b).off_char # SP)
  BY DEF BothBlank, BlinkAt
<1>1. DOMAIN sh = 1 .. Len(sh)
  BY LenProperties DEF Pictured
<1>2. ASSUME NEW i \in 1 .. Len(sh) PROVE sh[i] \in Overlay
  <2>1. PICK a \in Nat, b \in Nat : ~ BothBlank(a, b) /\ sh[i] = BlinkAt(a, b)
    BY DEF Pictured, OnlyBlinks
  <2>2. a \in Sides /\ b \in Sides
    BY <2>1, NotBlank
  <2> QED
    BY <1>0, <2>1, <2>2 DEF Overlay
<1>3. ASSUME NEW z \in Overlay PROVE \E i \in 1 .. Len(sh) : sh[i] = z
  <2>1. PICK a \in Sides, b \in Sides : z = BlinkAt(a, b)
    BY DEF Overlay
  <2>2. ~ BothBlank(a, b)
    BY <1>0, <2>1 DEF Overlay
  <2>3. a \in Nat /\ b \in Nat
    BY <2>2, NotBlank
  <2>4. Before(a, b, r, q)
    BY <2>2, <2>3
  <2>5. \E i \in 1 .. Len(sh) : sh[i] = BlinkAt(a, b)
    BY <2>2, <2>3, <2>4 DEF Pictured, Complete
  <2> QED
    BY <2>1, <2>5
<1> QED
  BY <1>1, <1>2, <1>3 DEF ToSet

\* fish has drawn both frames up to the place it is at.
FishInv ==
    prog = "fish" =>
        /\ text \in [Files -> Frames]
        /\ stage \in {"start", "column", "halted"}
        /\ stage = "start" => /\ shown = <<>> /\ row = 0 /\ col = 0
                              /\ c = <<"0", "0">> /\ eof = <<FALSE, FALSE>>
        /\ stage = "column" =>
             /\ \A k \in 1 .. 2 :
                  FrameIs(text[FrameFile(k)], rest[FrameFile(k)], c[k], eof[k], row, col)
             /\ Pictured(shown, row, col)
        /\ stage = "halted" => FilesArePrinted

\* The picture does not change with the texts.
LEMMA PictureStays ==
    ASSUME text' = text, Pictured(shown', row', col')
    PROVE  Pictured(shown, row, col)'
<1>1. ASSUME NEW a, NEW b PROVE BlinkAt(a, b)' = BlinkAt(a, b) /\ (BothBlank(a, b)' <=> BothBlank(a, b))
  BY DEF BlinkAt, BothBlank
<1>2. FrameBlinks' = FrameBlinks
  BY <1>1 DEF FrameBlinks
<1>3. OnlyBlinks(shown, row, col)' <=> OnlyBlinks(shown', row', col')
  BY <1>1 DEF OnlyBlinks, Before
<1>4. Complete(shown, row, col)' <=> Complete(shown', row', col')
  BY <1>1 DEF Complete, Before
<1>5. Distinct(shown)' <=> Distinct(shown')
  BY DEF Distinct
<1> QED
  BY <1>2, <1>3, <1>4, <1>5 DEF Pictured

\* The two frames are opened.
LEMMA FrameOpenKeeps == ASSUME FishInv, FrameOpen PROVE FishInv'
<1>0. /\ prog = "fish" /\ prog' = prog /\ text' = text /\ rest' = text /\ shown' = shown
      /\ stage' = "column" /\ row' = row /\ col' = col /\ c' = c /\ eof' = eof
      /\ text \in [Files -> Frames] /\ shown = <<>> /\ row = 0 /\ col = 0
      /\ c = <<"0", "0">> /\ eof = <<FALSE, FALSE>>
  BY DEF FrameOpen, FishInv, frame
<1>1. ASSUME NEW k \in 1 .. 2
      PROVE  FrameIs(text[FrameFile(k)], text[FrameFile(k)], "0", FALSE, 0, 0)
  <2> DEFINE s == text[FrameFile(k)]
  <2>1. s \in Seq(STRING) /\ Len(s) \in Nat /\ "0" # NL
    <3>1. s \in Frames
      BY <1>0 DEF FrameFile, Files
    <3> QED
      BY <3>1, TextsAssumption, LenProperties
  <2> HIDE DEF s
  <2>2. After(s, 0) = s /\ 0 \in 0 .. Len(s)
    BY <2>1, TakeEnds
  <2>3. PICK n \in 1 .. Len(s) + 1 : n = 1 /\ n = 0 + 1
    BY <2>1
  <2>4. Row(s, n) = 0 /\ Col(s, n) = 0
    <3>1. Row(s, n) \in 0 .. n - 1 /\ Col(s, n) \in 0 .. n - 1
      BY <2>1, PlaceTyped
    <3> QED
      BY <2>3, <3>1
  <2>5. FrameRead(s, s, "0", FALSE, 0, 0, 0)
    BY <2>1, <2>2, <2>3, <2>4 DEF FrameRead
  <2>6. FrameIs(s, s, "0", FALSE, 0, 0)
    BY <2>1, <2>2, <2>5 DEF FrameIs
  <2> QED
    BY <2>6 DEF s
<1>2. Pictured(<<>>, 0, 0)
  <2>1. <<>> \in Seq(FrameBlinks) /\ Len(<<>>) = 0
    BY EmptySeq
  <2>2. OnlyBlinks(<<>>, 0, 0) /\ Distinct(<<>>)
    BY <2>1 DEF OnlyBlinks, Distinct
  <2>3. Complete(<<>>, 0, 0)
    BY DEF Complete, Before
  <2> QED
    BY <2>1, <2>2, <2>3 DEF Pictured
<1>3. ASSUME NEW k \in 1 .. 2 PROVE c[k] = "0" /\ eof[k] = FALSE
  <2>1. k = 1 \/ k = 2
    OBVIOUS
  <2>2. c[1] = "0" /\ c[2] = "0"
    BY <1>0
  <2>3. eof[1] = FALSE
    BY <1>0
  <2>4. eof[2] = FALSE
    BY <1>0
  <2> QED
    BY <2>1, <2>2, <2>3, <2>4
<1>4. ASSUME NEW k \in 1 .. 2
      PROVE  FrameIs(text[FrameFile(k)], rest'[FrameFile(k)], c[k], eof[k], 0, 0)
  BY <1>0, <1>1, <1>3
<1>5. (\A k \in 1 .. 2 : FrameIs(text[FrameFile(k)], rest[FrameFile(k)], c[k], eof[k], row, col))'
  BY <1>0, <1>4
<1>6. Pictured(shown, row, col)'
  BY <1>0, <1>2, PictureStays
<1> QED
  BY <1>0, <1>5, <1>6 DEF FishInv

\* A column of the two frames.
LEMMA ColumnKeeps == ASSUME FilesTyped, FishInv, Column PROVE FishInv'
<1> DEFINE s(k) == text[FrameFile(k)]
           left(k) == rest[FrameFile(k)]
           Ends(k) == c[k] # NL /\ left(k) = <<>>
           y(k) == IF ~ (c[k] # NL) \/ Ends(k) THEN NL ELSE Head(left(k))
           o(k) == eof[k] \/ Ends(k)
           l(k) == IF c[k] # NL /\ ~ Ends(k) THEN Tail(left(k)) ELSE left(k)
           both == y(1) = NL /\ y(2) = NL
<1>0. /\ prog = "fish" /\ prog' = prog /\ text' = text /\ stage = "column"
      /\ text \in [Files -> Frames] /\ Pictured(shown, row, col)
      /\ \A k \in 1 .. 2 : FrameIs(s(k), left(k), c[k], eof[k], row, col)
  BY DEF FishInv, Column
<1>1. row \in Nat /\ col \in Nat /\ "0" # NL
  BY <1>0, TextsAssumption DEF FrameIs
<1>2. ASSUME NEW k \in 1 .. 2 PROVE rest'[FrameFile(k)] = l(k)
  <2>1. FrameFile(k) \in Files /\ \A j \in 1 .. 2 : FrameFile(j) = FrameFile(k) => j = k
    BY DEF FrameFile, Files
  <2>2. rest' = [f \in Files |->
                  IF \E j \in 1 .. 2 : f = FrameFile(j) /\ c[j] # NL /\ ~ (c[j] # NL /\ left(j) = <<>>)
                  THEN Tail(rest[f]) ELSE rest[f]]
    BY DEF Column
  <2> QED
    BY <2>1, <2>2
<1>3. eof' = <<o(1), o(2)>>
  BY DEF Column
<1>4. ASSUME NEW k \in 1 .. 2
      PROVE  /\ Shown(y(k)) = CharAt(s(k), row, col)
             /\ FrameIs(s(k), l(k), y(k), o(k), row, col + 1)
             /\ y(k) = NL => /\ FrameIs(s(k), l(k), IF o(k) THEN NL ELSE "0", o(k), row + 1, 0)
                             /\ \A b \in Nat : b >= col => CharAt(s(k), row, b) = SP
  <2>1. FrameIs(s(k), left(k), c[k], eof[k], row, col)
    BY <1>0
  <2>2. PICK S, F, E, Y, O, L :
          /\ S = s(k) /\ F = left(k) /\ E = Ends(k) /\ Y = y(k) /\ O = o(k) /\ L = l(k)
    OBVIOUS
  <2>3. Turns(F, c[k], eof[k], E, Y, O, L)
    BY <2>2 DEF Turns
  <2>4. FrameIs(S, F, c[k], eof[k], row, col)
    BY <2>1, <2>2
  <2>5. /\ Shown(Y) = CharAt(S, row, col)
        /\ FrameIs(S, L, Y, O, row, col + 1)
        /\ Y = NL => /\ FrameIs(S, L, IF O THEN NL ELSE "0", O, row + 1, 0)
                     /\ \A b \in Nat : b >= col => CharAt(S, row, b) = SP
    <3>1. PICK X, V, R, Q : X = c[k] /\ V = eof[k] /\ R = row /\ Q = col
      OBVIOUS
    <3>2. FrameIs(S, F, X, V, R, Q) /\ Turns(F, X, V, E, Y, O, L)
      BY <2>3, <2>4, <3>1
    <3>3. /\ Shown(Y) = CharAt(S, R, Q)
          /\ FrameIs(S, L, Y, O, R, Q + 1)
          /\ Y = NL => /\ FrameIs(S, L, IF O THEN NL ELSE "0", O, R + 1, 0)
                       /\ \A b \in Nat : b >= Q => CharAt(S, R, b) = SP
      BY <3>2, FrameStep
    <3> QED
      BY <3>1, <3>3
  <2> HIDE DEF s, left, Ends, y, o, l
  <2> QED
    BY <2>2, <2>5
<1>5. /\ s(1) = text["first"] /\ s(2) = text["second"]
      /\ both => /\ c' = NextRow(<<o(1), o(2)>>) /\ row' = row + 1 /\ col' = 0 /\ shown' = shown
                 /\ IF o(1) /\ o(2) THEN stage' = "halted" ELSE stage' = stage
      /\ ~ both => /\ c' = <<y(1), y(2)>> /\ row' = row /\ col' = col + 1 /\ stage' = stage
                   /\ IF Shown(y(1)) # SP \/ Shown(y(2)) # SP
                        THEN shown' = shown \o <<[location |-> row * COLS + col + OFFSET,
                                                on_char |-> Shown(y(1)), off_char |-> Shown(y(2))]>>
                        ELSE shown' = shown
  <2>1. s(1) = text["first"] /\ s(2) = text["second"]
    BY DEF FrameFile
  <2>2. IF <<y(1), y(2)>> = <<NL, NL>>
          THEN /\ c' = NextRow(<<o(1), o(2)>>) /\ row' = row + 1 /\ col' = 0 /\ shown' = shown
               /\ IF <<o(1), o(2)>>[1] /\ <<o(1), o(2)>>[2] THEN stage' = "halted"
                  ELSE stage' = stage
          ELSE /\ c' = <<y(1), y(2)>> /\ row' = row /\ col' = col + 1 /\ stage' = stage
               /\ IF Shown(<<y(1), y(2)>>[1]) # SP \/ Shown(<<y(1), y(2)>>[2]) # SP
                    THEN shown' = shown \o <<[location |-> row * COLS + col + OFFSET,
                                            on_char |-> Shown(<<y(1), y(2)>>[1]),
                                            off_char |-> Shown(<<y(1), y(2)>>[2])]>>
                    ELSE shown' = shown
    BY Zenon DEF Column, Exit, Puts
  <2> HIDE DEF s, left, Ends, y, o, l
  <2>3. <<y(1), y(2)>> = <<NL, NL>> <=> both
    OBVIOUS
  <2>4. <<y(1), y(2)>>[1] = y(1) /\ <<y(1), y(2)>>[2] = y(2)
    OBVIOUS
  <2>5. <<o(1), o(2)>>[1] = o(1) /\ <<o(1), o(2)>>[2] = o(2)
    BY Zenon
  <2> QED
    BY <2>1, <2>2, <2>3, <2>4, <2>5, Zenon
<1> HIDE DEF s, left, Ends, y, o, l
<1>6. CASE both
  <2>1. c' = NextRow(<<o(1), o(2)>>) /\ row' = row + 1 /\ col' = 0 /\ shown' = shown
    BY <1>5, <1>6
  <2>2. ASSUME NEW k \in 1 .. 2
        PROVE  /\ c'[k] = IF o(k) THEN NL ELSE "0"
               /\ eof'[k] = o(k) /\ y(k) = NL
               /\ FrameIs(s(k), l(k), IF o(k) THEN NL ELSE "0", o(k), row + 1, 0)
    <3>1. k = 1 \/ k = 2
      OBVIOUS
    <3>2. <<o(1), o(2)>>[1] = o(1)
      BY Zenon
    <3>3. <<o(1), o(2)>>[2] = o(2)
      BY Zenon
    <3>4. c'[k] = IF <<o(1), o(2)>>[k] THEN NL ELSE "0"
      BY <2>1 DEF NextRow
    <3>5. y(k) = NL
      BY <1>6, <3>1
    <3>6. FrameIs(s(k), l(k), IF o(k) THEN NL ELSE "0", o(k), row + 1, 0)
      BY <1>4, <3>5
    <3>7. <<o(1), o(2)>>[k] = o(k)
      BY <3>1, <3>2, <3>3, Zenon
    <3> QED
      BY <1>3, <3>4, <3>5, <3>6, <3>7, Zenon
  <2>3. Pictured(shown, row + 1, 0)
    <3>1. ASSUME NEW b \in Nat, b >= col PROVE BothBlank(row, b)
      <4>1. CharAt(s(1), row, b) = SP /\ CharAt(s(2), row, b) = SP
        <5>1. 1 \in 1 .. 2 /\ 2 \in 1 .. 2
          OBVIOUS
        <5> QED
          BY <1>4, <2>2, <3>1, <5>1
      <4> QED
        BY <1>5, <4>1 DEF BothBlank
    <3> QED
      BY <1>0, <1>1, <3>1, PictureRow
  <2>4. CASE o(1) /\ o(2)
    <3>1. stage' = "halted"
      BY <1>5, <1>6, <2>4
    <3>2. ASSUME NEW a \in Nat, NEW b \in Nat, ~ BothBlank(a, b) PROVE Before(a, b, row + 1, 0)
      <4>1. PICK f \in Files : \E e \in 1 .. Len(text[f]) :
               text[f][e] # NL /\ Row(text[f], e) = a /\ Col(text[f], e) = b
        BY <1>0, <3>2, NotBlank
      <4>2. PICK k \in 1 .. 2 : o(k) /\ text[f] = s(k)
        <5>1. 1 \in 1 .. 2 /\ 2 \in 1 .. 2 /\ (f = "first" \/ f = "second")
          BY DEF Files
        <5> QED
          BY <1>5, <2>4, <5>1
      <4>3. PICK t, r, left_, x : /\ t = s(k) /\ r = row + 1 /\ left_ = l(k)
                                  /\ x = IF o(k) THEN NL ELSE "0"
        OBVIOUS
      <4>4. FrameIs(t, left_, x, o(k), r, 0) /\ r \in Nat
        BY <1>1, <2>2, <4>3
      <4>5. /\ t \in Seq(STRING) /\ Len(t) \in Nat
            /\ \E d \in 0 .. Len(t) : FrameRead(t, left_, x, o(k), r, 0, d)
        BY <4>4, LenProperties DEF FrameIs
      <4>6. PICK d \in 0 .. Len(t) : FrameRead(t, left_, x, o(k), r, 0, d)
        BY <4>5
      <4>7. d = Len(t)
        BY <4>2, <4>6 DEF FrameRead
      <4>8. PICK e \in 1 .. Len(t) : t[e] # NL /\ Row(t, e) = a /\ Col(t, e) = b
        BY <4>1, <4>2, <4>3
      <4>9. Before(Row(t, e), Col(t, e), r, 0)
        <5>1. e <= d
          BY <4>5, <4>7
        <5> QED
          BY <4>4, <4>5, <4>6, <4>8, <5>1, FrameParts
      <4> QED
        BY <4>3, <4>8, <4>9
    <3>3. ToSet(shown) = Overlay
      BY <1>0, <2>3, <3>2, PictureWhole
    <3>4. Distinct(shown)
      BY <1>0 DEF Pictured
    <3>5. FilesArePrinted'
      <4>1. Overlay' = Overlay
        BY <1>0 DEF Overlay, Sides, BlinkAt
      <4>2. ToSet(shown') = Overlay'
        BY <2>1, <3>3, <4>1
      <4>3. \A i, j \in 1 .. Len(shown') : shown'[i].location = shown'[j].location => i = j
        BY <2>1, <3>4 DEF Distinct
      <4>4. prog' = "fish"
        BY <1>0
      <4> QED
        BY <3>1, <4>2, <4>3, <4>4 DEF FilesArePrinted
    <3> QED
      BY <1>0, <3>1, <3>5 DEF FishInv
  <2>5. CASE ~ (o(1) /\ o(2))
    <3>1. stage' = "column"
      BY <1>0, <1>5, <1>6, <2>5
    <3>2. (\A k \in 1 .. 2 : FrameIs(text[FrameFile(k)], rest[FrameFile(k)], c[k], eof[k], row, col))'
      BY <1>0, <1>2, <2>1, <2>2 DEF s
    <3>3. Pictured(shown, row, col)'
      BY <1>0, <2>1, <2>3, PictureStays
    <3> QED
      BY <1>0, <3>1, <3>2, <3>3 DEF FishInv
  <2> QED
    BY <2>4, <2>5
<1>7. CASE ~ both
  <2>1. c' = <<y(1), y(2)>> /\ row' = row /\ col' = col + 1 /\ stage' = "column"
    BY <1>0, <1>5, <1>7
  <2>2. ASSUME NEW k \in 1 .. 2
        PROVE  c'[k] = y(k) /\ eof'[k] = o(k)
    <3>1. k = 1 \/ k = 2
      OBVIOUS
    <3>2. c'[1] = y(1) /\ c'[2] = y(2)
      BY <2>1
    <3>3. eof'[1] = o(1) /\ eof'[2] = o(2)
      BY <1>3, Zenon
    <3> QED
      BY <3>1, <3>2, <3>3, Zenon
  <2>3. Shown(y(1)) = CharAt(text["first"], row, col) /\ Shown(y(2)) = CharAt(text["second"], row, col)
    <3>1. 1 \in 1 .. 2 /\ 2 \in 1 .. 2
      OBVIOUS
    <3> QED
      BY <1>4, <1>5, <3>1
  <2>4. /\ ~ BothBlank(row, col) => shown' = shown \o <<BlinkAt(row, col)>>
        /\ BothBlank(row, col) => shown' = shown
    BY <1>5, <1>7, <2>3 DEF BothBlank, BlinkAt
  <2>5. Pictured(shown', row, col + 1)
    <3>1. /\ BothBlank(row, col) => Pictured(shown, row, col + 1)
          /\ ~ BothBlank(row, col) => Pictured(shown \o <<BlinkAt(row, col)>>, row, col + 1)
      BY <1>0, <1>1, PictureGrows
    <3> QED
      BY <2>4, <3>1
  <2>6. (\A k \in 1 .. 2 : FrameIs(text[FrameFile(k)], rest[FrameFile(k)], c[k], eof[k], row, col))'
    BY <1>0, <1>2, <1>4, <2>1, <2>2 DEF s
  <2>7. Pictured(shown, row, col)'
    BY <1>0, <2>1, <2>5, PictureStays
  <2> QED
    BY <1>0, <2>1, <2>6, <2>7 DEF FishInv
<1> QED
  BY <1>6, <1>7

-----------------------------------------------------------------------------
\* Where each program is.
FilesInv == FilesTyped /\ CatInv /\ LsInv /\ GrepInv /\ FishInv

\* So it is at the start.
LEMMA FilesBegin == ASSUME FilesInit PROVE FilesInv
<1>0. BUFSIZE \in Nat /\ 0 \in 0 .. BUFSIZE /\ NUL # NL /\ Directory \in Seq(STRING)
      /\ Len(Directory) \in Nat
  BY TextsAssumption, LenProperties
<1>1. FilesTyped
  <2>1. prog \in {"cat", "ls", "grep", "fish"} /\ last = 0 /\ stage = "start"
    BY DEF FilesInit
  <2>2. rest \in [Files -> Seq(STRING)]
    BY EmptySeq DEF FilesInit
  <2>3. text \in [Files -> Seq(STRING)]
    <3>1. Texts \subseteq Seq(STRING) /\ Frames \subseteq Seq(STRING) /\ {<<>>} \subseteq Seq(STRING)
      BY TextsAssumption, EmptySeq
    <3>2. \/ text \in [Files -> Texts] \/ text \in [Files -> {<<>>}] \/ text \in [Files -> Frames]
      BY DEF FilesInit
    <3> QED
      BY <3>1, <3>2
  <2> QED
    BY <1>0, <2>1, <2>2, <2>3 DEF FilesTyped
<1>2. CatInv
  BY DEF CatInv, FilesInit
<1>3. LsInv
  <2>1. UpTo(Listing, 0) = <<>>
    BY Flat DEF UpTo, IsTuple
  <2>2. pos = 1 => pos - 1 = 0 /\ pos \in 1 .. Len(Directory) + 1 /\ pos \in Nat
    BY <1>0
  <2> QED
    BY <2>1, <2>2 DEF LsInv, FilesInit
<1>4. GrepInv
  <2> SUFFICES ASSUME prog = "grep", Fitting PROVE GrepInv
    BY DEF GrepInv
  <2>1. /\ arg \in Patterns /\ stage = "start" /\ pos = 1 /\ shown = <<>> /\ spare # NL
        /\ data = [k \in 0 .. BUFSIZE |-> spare]
    BY DEF FilesInit, Fitting
  <2>2. Buffered
    <3>1. BUFSIZE \in 0 .. BUFSIZE
      BY <1>0
    <3> QED
      BY <2>1, <3>1 DEF Buffered
  <2>3. AtStart
    <3>1. UpTo(Sections, 0) = <<>>
      BY Flat DEF UpTo, IsTuple
    <3>2. pos - 1 = 0 /\ pos \in 1 .. Len(Directory) + 1
      BY <1>0, <2>1
    <3> QED
      BY <2>1, <3>1, <3>2 DEF AtStart
  <2> QED
    BY <2>1, <2>2, <2>3 DEF GrepInv
<1>5. FishInv
  BY DEF FishInv, FilesInit
<1> QED
  BY <1>1, <1>2, <1>3, <1>4, <1>5 DEF FilesInv

\* What is left of the files stays a part of them.
LEMMA TypedKeeps == ASSUME FilesTyped, FilesNext PROVE FilesTyped'
<1>0. BUFSIZE \in Nat /\ last \in 0 .. BUFSIZE /\ rest \in [Files -> Seq(STRING)]
      /\ text \in [Files -> Seq(STRING)] /\ prog \in {"cat", "ls", "grep", "fish"}
  BY TextsAssumption DEF FilesTyped
<1>1. prog' = prog /\ text' = text
  BY DEF FilesNext, CatOpen, CatRead, Ls, GrepNext, GrepRead, GrepLine, FrameOpen, Column
<1>2. ASSUME NEW t \in Seq(STRING), NEW n \in 0 .. Len(t) PROVE After(t, n) \in Seq(STRING)
  BY AfterFacts
<1>3. ASSUME rest' \in [Files -> Seq(STRING)], last' \in 0 .. BUFSIZE,
             prog = "grep" /\ stage' = "line" => line_start' \in 0 .. last'
      PROVE  FilesTyped'
  BY <1>0, <1>1, <1>3 DEF FilesTyped
<1>4. CASE CatOpen
  <2>1. rest' \in [Files -> Seq(STRING)] /\ last' = last /\ prog = "cat"
    BY <1>0, <1>4 DEF CatOpen, buffer
  <2> QED
    BY <1>0, <1>3, <2>1
<1>5. CASE CatRead
  <2>1. last' = last /\ prog = "cat"
    BY <1>5 DEF CatRead, buffer
  <2>2. rest' \in [Files -> Seq(STRING)]
    <3>1. CASE rest' = rest
      BY <1>0, <3>1
    <3>2. CASE rest' # rest
      <4>1. arg \in Files
        BY <1>5, <3>2 DEF CatRead
      <4>2. PICK n : n = Lesser(BUFSIZE, Len(rest[arg])) /\ rest' = [rest EXCEPT ![arg] = After(@, n)]
        BY <1>5, <3>2 DEF CatRead
      <4>3. rest[arg] \in Seq(STRING) /\ n \in 0 .. Len(rest[arg])
        <5>1. rest[arg] \in Seq(STRING) /\ Len(rest[arg]) \in Nat
          BY <1>0, <4>1, LenProperties
        <5> QED
          BY <1>0, <4>2, <5>1 DEF Lesser
      <4>4. After(rest[arg], n) \in Seq(STRING)
        BY <1>2, <4>3
      <4> QED
        BY <1>0, <4>1, <4>2, <4>4
    <3> QED
      BY <3>1, <3>2
  <2> QED
    BY <1>0, <1>3, <2>1, <2>2
<1>6. CASE Ls
  <2>1. rest' = rest /\ last' = last /\ prog = "ls"
    BY <1>6 DEF Ls, buffer
  <2> QED
    BY <1>0, <1>3, <2>1
<1>7. CASE GrepNext
  <2>1. /\ rest' = rest \/ (fname' \in Files /\ rest' = [rest EXCEPT ![fname'] = text[fname']])
        /\ last' = last \/ last' = 0
        /\ stage' # "line"
    BY <1>7 DEF GrepNext, Exit
  <2>2. rest' \in [Files -> Seq(STRING)]
    BY <1>0, <2>1
  <2> QED
    BY <1>0, <1>3, <2>1, <2>2
<1>8. CASE GrepRead
  <2>1. PICK n : /\ n = Lesser(BUFSIZE - last, Len(Left)) /\ last' = last + n /\ line_start' = 0
                 /\ rest' = IF n = 0 THEN rest ELSE [rest EXCEPT ![fname] = After(@, n)]
    BY <1>8 DEF GrepRead, Left
  <2>2. /\ Len(Left) \in Nat /\ (Len(Left) # 0 => fname \in Files /\ Left = rest[fname])
        /\ (fname \in Files => rest[fname] \in Seq(STRING))
    <3>1. CASE fname \in Files
      BY <1>0, <3>1, LenProperties DEF Left
    <3>2. CASE fname \notin Files
      BY <3>2, EmptySeq DEF Left
    <3> QED
      BY <3>1, <3>2
  <2>3. n \in 0 .. Len(Left) /\ last + n \in 0 .. BUFSIZE
    BY <1>0, <2>1, <2>2 DEF Lesser
  <2>4. rest' \in [Files -> Seq(STRING)]
    <3>1. CASE n = 0
      BY <1>0, <2>1, <3>1
    <3>2. CASE n # 0
      <4>1. fname \in Files /\ Left = rest[fname] /\ rest[fname] \in Seq(STRING)
        BY <2>2, <2>3, <3>2
      <4>2. After(rest[fname], n) \in Seq(STRING)
        BY <1>2, <2>3, <4>1
      <4> QED
        BY <1>0, <2>1, <3>2, <4>1, <4>2
    <3> QED
      BY <3>1, <3>2
  <2> QED
    BY <1>0, <1>3, <2>1, <2>3, <2>4
<1>9. CASE GrepLine
  <2>1. rest' = rest /\ prog = "grep" /\ stage = "line"
    BY <1>9 DEF GrepLine
  <2>2. line_start \in 0 .. last
    BY <2>1 DEF FilesTyped
  <2>3. LineEnd \in line_start .. last
    BY <1>0, <2>2, LineEndIs
  <2>4. \/ last' = last - line_start /\ stage' = "read"
        \/ last' = 0 /\ stage' # "line"
        \/ last' = last /\ line_start' = LineEnd + 1 /\ ~ (LineEnd + 1 >= last)
    BY <1>9 DEF GrepLine, Kept, AfterLine, Searched
  <2> QED
    BY <1>0, <1>3, <2>1, <2>2, <2>3, <2>4
<1>10. CASE FrameOpen
  <2>1. rest' = text /\ last' = last /\ prog = "fish"
    BY <1>10 DEF FrameOpen, buffer
  <2> QED
    BY <1>0, <1>3, <2>1
<1>11. CASE Column
  <2>1. last' = last /\ prog = "fish"
    BY <1>11 DEF Column, buffer
  <2>2. rest' = [f \in Files |->
                  IF \E k \in 1 .. 2 : f = FrameFile(k) /\ c[k] # NL /\ ~ (c[k] # NL /\ rest[FrameFile(k)] = <<>>)
                  THEN Tail(rest[f]) ELSE rest[f]]
    BY <1>11 DEF Column
  <2>3. ASSUME NEW f \in Files PROVE rest'[f] \in Seq(STRING)
    <3>1. rest[f] \in Seq(STRING)
      BY <1>0
    <3>2. rest[f] # <<>> => Tail(rest[f]) \in Seq(STRING)
      BY <3>1, HeadTailProperties
    <3>3. rest'[f] = rest[f] \/ (rest[f] # <<>> /\ rest'[f] = Tail(rest[f]))
      BY <2>2
    <3> QED
      BY <3>1, <3>2, <3>3
  <2>4. rest' \in [Files -> Seq(STRING)]
    BY <2>2, <2>3
  <2> QED
    BY <1>0, <1>3, <2>1, <2>4
<1> QED
  BY <1>4, <1>5, <1>6, <1>7, <1>8, <1>9, <1>10, <1>11 DEF FilesNext

\* Each step is one of one program, and the others' parts say nothing then.
LEMMA FilesStep == ASSUME FilesInv, FilesNext PROVE FilesInv'
<1>1. FilesTyped'
  BY TypedKeeps DEF FilesInv
<1>2. FilesTyped /\ CatInv /\ LsInv /\ GrepInv /\ FishInv
  BY DEF FilesInv
<1>3. ASSUME prog' = prog, prog = "cat", CatInv' PROVE FilesInv'
  BY <1>1, <1>3 DEF FilesInv, LsInv, GrepInv, FishInv
<1>4. ASSUME prog' = prog, prog = "ls", LsInv' PROVE FilesInv'
  BY <1>1, <1>4 DEF FilesInv, CatInv, GrepInv, FishInv
<1>5. ASSUME prog' = prog, prog = "grep", GrepInv' PROVE FilesInv'
  BY <1>1, <1>5 DEF FilesInv, CatInv, LsInv, FishInv
<1>6. ASSUME prog' = prog, prog = "fish", FishInv' PROVE FilesInv'
  BY <1>1, <1>6 DEF FilesInv, CatInv, LsInv, GrepInv
<1>7. CASE CatOpen
  <2>1. prog = "cat" /\ prog' = prog
    BY <1>7 DEF CatOpen
  <2> QED
    BY <1>2, <1>3, <1>7, <2>1, CatOpenKeeps
<1>8. CASE CatRead
  <2>1. prog = "cat" /\ prog' = prog
    BY <1>8 DEF CatRead
  <2> QED
    BY <1>2, <1>3, <1>8, <2>1, CatReadKeeps
<1>9. CASE Ls
  <2>1. prog = "ls" /\ prog' = prog
    BY <1>9 DEF Ls
  <2> QED
    BY <1>2, <1>4, <1>9, <2>1, LsKeeps
<1>10. CASE GrepNext
  <2>1. prog = "grep" /\ prog' = prog
    BY <1>10 DEF GrepNext
  <2> QED
    BY <1>2, <1>5, <1>10, <2>1, GrepNextKeeps
<1>11. CASE GrepRead
  <2>1. prog = "grep" /\ prog' = prog
    BY <1>11 DEF GrepRead
  <2> QED
    BY <1>2, <1>5, <1>11, <2>1, GrepReadKeeps
<1>12. CASE GrepLine
  <2>1. prog = "grep" /\ prog' = prog
    BY <1>12 DEF GrepLine
  <2> QED
    BY <1>2, <1>5, <1>12, <2>1, GrepLineKeeps
<1>13. CASE FrameOpen
  <2>1. prog = "fish" /\ prog' = prog
    BY <1>13 DEF FrameOpen
  <2> QED
    BY <1>2, <1>6, <1>13, <2>1, FrameOpenKeeps
<1>14. CASE Column
  <2>1. prog = "fish" /\ prog' = prog
    BY <1>14 DEF Column
  <2> QED
    BY <1>2, <1>6, <1>14, <2>1, ColumnKeeps
<1> QED
  BY <1>7, <1>8, <1>9, <1>10, <1>11, <1>12, <1>13, <1>14 DEF FilesNext

\* The overlay of the frames depends on the texts.
LEMMA OverlaySame == ASSUME text' = text PROVE Overlay' = Overlay
<1>1. ASSUME NEW a, NEW b PROVE BlinkAt(a, b)' = BlinkAt(a, b)
  BY DEF BlinkAt
<1>2. Sides' = Sides
  BY DEF Sides
<1> QED
  BY <1>1, <1>2 DEF Overlay

\* Where nothing changes, the programs are where they were.
LEMMA FilesStay == ASSUME FilesInv, UNCHANGED fileVars PROVE FilesInv'
<1>0. /\ prog' = prog /\ arg' = arg /\ text' = text /\ stage' = stage /\ pos' = pos
      /\ rest' = rest /\ fname' = fname /\ data' = data /\ spare' = spare /\ last' = last
      /\ cnt' = cnt /\ line_start' = line_start /\ c' = c /\ eof' = eof /\ row' = row
      /\ col' = col /\ shown' = shown /\ status' = status
  BY DEF fileVars
<1>1. FilesArePrinted' <=> FilesArePrinted
  BY <1>0, OverlaySame DEF FilesArePrinted
<1>2. FilesTyped'
  BY <1>0 DEF FilesInv, FilesTyped
<1>3. CatInv'
  BY <1>0, <1>1 DEF FilesInv, CatInv
<1>4. LsInv'
  <2>1. Listing' = Listing
    BY DEF Listing
  <2> QED
    BY <1>0, <1>1, <2>1 DEF FilesInv, LsInv
<1>5. GrepInv'
  <2> SUFFICES ASSUME (prog = "grep" /\ Fitting)' PROVE GrepInv'
    BY DEF GrepInv
  <2>1. Fitting /\ prog = "grep" /\ GrepInv
    BY <1>0 DEF Fitting, FitsBuffer, Closes, Opens, Breaks, FilesInv
  <2>2. /\ Sections' = Sections /\ Body' = Body /\ Left' = Left
        /\ FoundIn(fname, Body)' = FoundIn(fname, Body)
    BY <1>0, SectionsSame DEF Left
  <2>3. ASSUME NEW p, NEW n, Searching(p, n) PROVE Searching(p, n)'
    BY <1>0, <2>2, <2>3 DEF Searching
  <2>4. (InFile' <=> InFile) /\ (Buffered' <=> Buffered) /\ (AtStart' <=> AtStart)
    BY <1>0, <2>2 DEF InFile, Buffered, AtStart
  <2>5. AtRead => AtRead'
    BY <1>0, <2>2, <2>3, <2>4 DEF AtRead
  <2>6. AtLine => AtLine'
    BY <1>0, <2>2, <2>3, <2>4 DEF AtLine
  <2>7. GrepPrintsMatches' <=> GrepPrintsMatches
    <3>1. ASSUME NEW f, NEW e PROVE Found(f, e)' = Found(f, e)
      BY <1>0 DEF Found, HasMatch, LineTo, Closes, Opens, Breaks
    <3>2. ASSUME NEW f PROVE Matching(f)' = Matching(f)
      BY <1>0, <3>1 DEF Matching
    <3>3. (\A f \in Files : FitsBuffer(text[f]))' <=> \A f \in Files : FitsBuffer(text[f])
      BY <1>0 DEF FitsBuffer, Closes, Opens, Breaks
    <3> QED
      BY <1>0, <3>2, <3>3 DEF GrepPrintsMatches
  <2> QED
    BY <1>0, <2>1, <2>4, <2>5, <2>6, <2>7 DEF GrepInv
<1>6. FishInv'
  <2>1. Pictured(shown, row, col) => Pictured(shown, row, col)'
    BY <1>0, PictureStays
  <2> QED
    BY <1>0, <1>1, <2>1 DEF FilesInv, FishInv
<1> QED
  BY <1>2, <1>3, <1>4, <1>5, <1>6 DEF FilesInv

\* What the invariant says of a program that has halted.
LEMMA FilesEnd == ASSUME FilesInv PROVE FilesArePrinted /\ GrepPrintsMatches
<1>1. FilesArePrinted
  <2>1. prog \in {"cat", "ls", "grep", "fish"}
    BY DEF FilesInv, FilesTyped
  <2>2. CASE prog = "cat"
    BY <2>2 DEF FilesInv, CatInv, FilesArePrinted
  <2>3. CASE prog = "ls"
    BY <2>3 DEF FilesInv, LsInv, FilesArePrinted
  <2>4. CASE prog = "grep"
    BY <2>4 DEF FilesArePrinted
  <2>5. CASE prog = "fish"
    BY <2>5 DEF FilesInv, FishInv, FilesArePrinted
  <2> QED
    BY <2>1, <2>2, <2>3, <2>4, <2>5
<1>2. GrepPrintsMatches
  <2>1. CASE prog = "grep" /\ stage = "halted" /\ Fitting
    BY <2>1 DEF FilesInv, GrepInv
  <2>2. CASE ~ (prog = "grep" /\ stage = "halted" /\ Fitting)
    BY <2>2 DEF GrepPrintsMatches, Fitting
  <2> QED
    BY <2>1, <2>2
<1> QED
  BY <1>1, <1>2

\* The invariant holds of every behaviour of the programs.
LEMMA FilesAlways == FilesSpec => []FilesInv
<1>1. FilesInit => FilesInv
  BY FilesBegin
<1>2. FilesInv /\ [FilesNext]_fileVars => FilesInv'
  BY FilesStep, FilesStay
<1> QED
  BY <1>1, <1>2, PTL DEF FilesSpec

\* cat, ls and fish have shown, when they halt, what the files hold
\* (ece391cat.c, ece391ls.c, fish.c), for every content of the files and
\* every size of the buffer: each read takes up where the one before ended,
\* and fish's two frames never lose their place to each other.
THEOREM FilesCorrect == FilesSpec => []FilesArePrinted
<1>1. FilesInv => FilesArePrinted
  BY FilesEnd
<1> QED
  BY <1>1, FilesAlways, PTL

\* grep (ece391grep.c) has printed, when it halts, each line that contains
\* its argument once and in order, for every content of the files, every
\* pattern and every size of the buffer: what a line's first part is moved to
\* the front of the buffer for is never lost, searched twice or mixed with
\* what the buffer held before.
THEOREM GrepCorrect == FilesSpec => []GrepPrintsMatches
<1>1. FilesInv => GrepPrintsMatches
  BY FilesEnd
<1> QED
  BY <1>1, FilesAlways, PTL
=============================================================================
