----------------------- MODULE FileDescriptorsProof ------------------------
(***************************************************************************)
(* Proofs about the descriptor tables, for any image, any number of        *)
(* processes and descriptors.                                              *)
(***************************************************************************)
EXTENDS FileDescriptors, WellFoundedInduction, SequenceTheorems, TLAPS

\* One table of a PCB in use: what read and write call through is set where
\* flags is.
TableSet(table) ==
    \A fd \in Fds : table[fd].flags = 1 => table[fd].sys_calls # "null"

\* One table of a PCB that is not in use.
TableClosed(table) == \A fd \in FilesOf : table[fd].flags = 0

\* What the tables are functions of.  An entry for a file keeps an index node
\* and a position in its file, even after close.
Entries == {f \in Fd : f.sys_calls = "file" =>
                          /\ f.inode \in DOMAIN iNodes
                          /\ f.filePosition <= iNodes[f.inode].size}

\* The inductive invariant.  That dead tables are closed is what makes a new
\* process's table set: Launch only fills in descriptors 0 and 1.
Inv ==
    /\ process_count \in 0 .. MAXPROCESS
    /\ fdArr \in [Pids -> [Fds -> Entries]]
    /\ DeadTablesClosed
    /\ CallsAreSet

\* A set of numbers has a smallest one: what open and read_dentry_by_name find
\* by going upwards exists.
LEMMA Smallest ==
    ASSUME NEW T \in SUBSET Nat, T # {}
    PROVE  \E x \in T : \A y \in T : x <= y
  <1>1. PICK x \in T : \A y \in T : ~(<<y, x>> \in OpToRel(<, Nat))
    BY NatLessThanWellFounded, WFMin
  <1>2. \A y \in T : ~(y < x)
    BY <1>1 DEF OpToRel
  <1>3. x \in Nat /\ \A y \in T : y \in Nat
    OBVIOUS
  <1>4. \A y \in T : x <= y
    BY <1>2, <1>3
  <1> QED BY <1>4

\* FlattenSeq is what its partial results lead to.
LEMMA Flattened ==
    ASSUME NEW s, NEW n \in Nat \ {0}, Len(s) = n, NEW partial,
           \A i \in 1 .. n :
               partial[i] = IF i = 1 THEN s[i] ELSE partial[i - 1] \o s[i]
    PROVE  FlattenSeq(s) = partial[n]
<1> DEFINE f == CHOOSE g : g = [i \in 1 .. Len(s) |->
                                  IF i = 1 THEN s[i] ELSE g[i - 1] \o s[i]]
           differ == {i \in 1 .. n : f[i] # partial[i]}
<1>1. f = [i \in 1 .. n |-> IF i = 1 THEN s[i] ELSE f[i - 1] \o s[i]]
  <2> DEFINE h == [i \in 1 .. n |-> partial[i]]
             Next1(g) == [i \in 1 .. n |-> IF i = 1 THEN s[i] ELSE g[i - 1] \o s[i]]
  <2>1. ASSUME NEW i \in 1 .. n PROVE h[i] = Next1(h)[i]
    <3>1. CASE i = 1
      BY <3>1
    <3>2. CASE i # 1
      <4>1. i - 1 \in 1 .. n
        BY <3>2
      <4>2. h[i] = partial[i] /\ h[i - 1] = partial[i - 1]
        BY <4>1
      <4>3. Next1(h)[i] = h[i - 1] \o s[i]
        BY <3>2
      <4>4. QED BY <3>2, <4>2, <4>3
    <3>3. QED BY <3>1, <3>2
  <2>2. h = Next1(h)
    BY ONLY <2>1
  <2>3. QED BY <2>2
<1>2. FlattenSeq(s) = f[n]
  BY DEF FlattenSeq
<1> HIDE DEF f
<1>3. ASSUME differ # {} PROVE FALSE
  <2>0. differ \in SUBSET Nat
    OBVIOUS
  <2> HIDE DEF differ
  <2>1. PICK i \in differ : \A j \in differ : i <= j
    BY <1>3, <2>0, Smallest
  <2> USE DEF differ
  <2>2. CASE i = 1
    BY <1>1, <2>2
  <2>3. CASE i # 1
    <3>1. i - 1 \in 1 .. n /\ i - 1 \notin differ /\ i \in 1 .. n
      BY <2>1, <2>3
    <3>2. f[i - 1] = partial[i - 1]
      BY <3>1
    <3>3. f[i] = f[i - 1] \o s[i] /\ partial[i] = partial[i - 1] \o s[i]
      BY <1>1, <2>3, <3>1
    <3>4. QED BY <3>2, <3>3
  <2>4. QED BY <2>2, <2>3
<1>4. QED BY <1>2, <1>3

-----------------------------------------------------------------------------
\* read_data, for every image.

\* Where the blocks of a part of a file begin and end.
LEMMA Blocks ==
    ASSUME NEW F \in Nat \ {0}, NEW x \in Nat, NEW y \in Nat, x <= y
    PROVE  /\ x \div F \in Nat /\ y \div F \in Nat
           /\ x \div F <= y \div F
           /\ (x \div F) * F <= x /\ x < (x \div F) * F + F
<1>1. x \div F \in Nat /\ y \div F \in Nat
  OBVIOUS
<1>2. x \div F <= y \div F
  OBVIOUS
<1>3. (x \div F) * F <= x /\ x < (x \div F) * F + F
  OBVIOUS
<1>4. QED BY <1>1, <1>2, <1>3

\* A position is a block and a place in it.
LEMMA InBlock ==
    ASSUME NEW F \in Nat \ {0}, NEW i \in Nat, NEW r \in 0 .. F - 1
    PROVE (i * F + r) \div F = i /\ (i * F + r) % F = r
OBVIOUS

\* What a file holds from position a to position b.
Part(c, a, b) == [j \in 1 .. b - a |-> c[a + j]]

\* Two parts that meet are one part.
LEMMA Joined ==
    ASSUME NEW c, NEW a \in Nat, NEW b \in Nat, NEW d \in Nat, a <= b, b <= d
    PROVE  Part(c, a, b) \o Part(c, b, d) = Part(c, a, d)
<1> DEFINE S == {c[k] : k \in a + 1 .. d}
           p == Part(c, a, b)
           q == Part(c, b, d)
           r == Part(c, a, d)
<1>1. /\ p \in Seq(S) /\ Len(p) = b - a
      /\ q \in Seq(S) /\ Len(q) = d - b
      /\ r \in Seq(S) /\ Len(r) = d - a
      /\ \A j \in 1 .. b - a : p[j] = c[a + j]
      /\ \A j \in 1 .. d - b : q[j] = c[b + j]
      /\ \A j \in 1 .. d - a : r[j] = c[a + j]
  BY DEF Part
<1> HIDE DEF S, p, q, r
<1>2. p \o q \in Seq(S) /\ Len(p \o q) = d - a
  BY <1>1
<1>3. ASSUME NEW j \in 1 .. d - a PROVE (p \o q)[j] = r[j]
  <2>1. j \in 1 .. (b - a) + (d - b)
    OBVIOUS
  <2>2. (p \o q)[j] = IF j <= b - a THEN p[j] ELSE q[j - (b - a)]
    BY ONLY <1>1, <2>1, ConcatProperties
  <2>3. CASE j <= b - a
    <3>1. j \in 1 .. b - a
      BY <2>3
    <3>2. p[j] = c[a + j] /\ r[j] = c[a + j]
      BY <1>1, <3>1
    <3>3. QED BY ONLY <2>2, <2>3, <3>2
  <2>4. CASE ~(j <= b - a)
    <3>1. j - (b - a) \in 1 .. d - b /\ b + (j - (b - a)) = a + j
      BY <2>4
    <3>2. (p \o q)[j] = q[j - (b - a)]
      BY ONLY <2>2, <2>4
    <3>3. \A k \in 1 .. d - b : q[k] = c[b + k]
      BY <1>1
    <3>4. q[j - (b - a)] = c[a + j]
      BY ONLY <3>1, <3>3
    <3>5. r[j] = c[a + j]
      BY <1>1
    <3>6. QED BY ONLY <3>2, <3>4, <3>5
  <2>5. QED BY <2>3, <2>4
<1>4. p \o q = r
  <2>1. \A j \in 1 .. Len(r) : (p \o q)[j] = r[j]
    BY <1>1, <1>3
  <2>2. Len(p \o q) = Len(r)
    BY <1>1, <1>2
  <2>3. QED BY ONLY <1>1, <1>2, <2>1, <2>2, SeqEqual
<1>5. QED BY <1>4 DEF p, q, r

\* A part is a subsequence.
LEMMA PartIsSubSeq ==
    ASSUME NEW c, NEW a \in Nat, NEW b \in Nat, a <= b
    PROVE  Part(c, a, b) = SubSeq(c, a + 1, b)
<1> DEFINE S == {c[k] : k \in a + 1 .. b}
           p == Part(c, a, b)
           q == SubSeq(c, a + 1, b)
<1>1. p \in Seq(S) /\ Len(p) = b - a /\ \A j \in 1 .. b - a : p[j] = c[a + j]
  BY DEF Part
<1>2. \A k \in a + 1 .. b : c[k] \in S
  OBVIOUS
<1> HIDE DEF S
<1>3. /\ q \in Seq(S)
      /\ Len(q) = IF a + 1 <= b THEN b - (a + 1) + 1 ELSE 0
      /\ \A j \in 1 .. b - (a + 1) + 1 : q[j] = c[a + 1 + j - 1]
  <2>1. a + 1 \in Int /\ b \in Int
    OBVIOUS
  <2>2. QED BY ONLY <1>2, <2>1, SubSeqProperties
<1> HIDE DEF p, q
<1>4. Len(q) = b - a
  BY <1>3
<1>5. ASSUME NEW j \in 1 .. b - a PROVE p[j] = q[j]
  <2>1. j \in 1 .. b - (a + 1) + 1 /\ a + 1 + j - 1 = a + j
    OBVIOUS
  <2>2. QED BY ONLY <1>1, <1>3, <1>5, <2>1
<1>6. QED
  <2>1. p = q
    BY ONLY <1>1, <1>3, <1>4, <1>5, SeqEqual
  <2>2. QED BY <2>1 DEF p, q

\* One round of read_data's loop copies a part of the file.
LEMMA RoundCopies ==
    ASSUME NEW inode \in DOMAIN iNodes, NEW i \in Nat, NEW begin \in Nat,
           NEW end \in 0 .. FOURKB, begin <= end,
           i * FOURKB + end <= iNodes[inode].size
    PROVE  Copied(inode, i, begin, end) =
               Part(Content[inode], i * FOURKB + begin, i * FOURKB + end)
<1>1. FOURKB \in Nat \ {0} /\ iNodes[inode].size \in Nat
  BY FileSystemAssumption
<1> DEFINE block == dataBlocks[iNodes[inode].dataBlockArr[i]]
<1>2. i * FOURKB \in Nat
  BY <1>1
<1>3. ASSUME NEW k \in 1 .. end - begin
      PROVE  Content[inode][i * FOURKB + begin + k] = block[begin + k - 1]
  <2>1. begin + k - 1 \in 0 .. FOURKB - 1
    BY <1>1
  <2>2. /\ (i * FOURKB + begin + k) - 1 = i * FOURKB + (begin + k - 1)
        /\ i * FOURKB + begin + k \in 1 .. iNodes[inode].size
    BY <1>1, <1>2
  <2>3. /\ (i * FOURKB + (begin + k - 1)) \div FOURKB = i
        /\ (i * FOURKB + (begin + k - 1)) % FOURKB = begin + k - 1
    BY <1>1, <2>1, InBlock
  <2>4. QED BY <2>2, <2>3 DEF Content
<1>4. (i * FOURKB + end) - (i * FOURKB + begin) = end - begin
  BY <1>1, <1>2
<1>5. QED BY <1>3, <1>4 DEF Copied, Part

\* read_data gives the part of the file that was asked for, up to its end.
LEMMA ReadDataGives ==
    ASSUME NEW inode \in DOMAIN iNodes, NEW offset \in 0 .. iNodes[inode].size,
           NEW length \in 0 .. UNSIGNED - 1
    PROVE  read_data(inode, offset, length) =
               Part(Content[inode], offset,
                    IF offset + length > iNodes[inode].size
                      THEN iNodes[inode].size ELSE offset + length)
<1> DEFINE size == iNodes[inode].size
           c == Content[inode]
           left == (size - offset) % UNSIGNED
           len == IF left < length THEN left ELSE length
           end == offset + len
           first == offset \div FOURKB
           last == (len + offset) \div FOURKB
           n == last - first + 1
           Begin(i) == IF i * FOURKB < offset THEN offset - FOURKB * i ELSE 0
           End(i) == IF (i + 1) * FOURKB > offset + len
                       THEN len + offset - FOURKB * i ELSE FOURKB
           rounds == [k \in 1 .. n |->
                        Copied(inode, first + k - 1, Begin(first + k - 1),
                               End(first + k - 1))]
           Upto(k) == (first + k - 1) * FOURKB + End(first + k - 1)
           partial == [k \in 1 .. n |-> Part(c, offset, Upto(k))]
<1>1. /\ FOURKB \in Nat \ {0} /\ size \in 0 .. UNSIGNED - 1 /\ UNSIGNED \in Nat
      /\ offset \in Nat /\ length \in Nat
  BY FileSystemAssumption
<1>2. left = size - offset
  BY <1>1
<1>3. /\ len \in Nat /\ end \in offset .. size
      /\ end = IF offset + length > size THEN size ELSE offset + length
      /\ len + offset = end
  BY <1>1, <1>2
<1> HIDE DEF len
<1>4. /\ first \in Nat /\ last \in Nat /\ first <= last
      /\ first * FOURKB <= offset /\ offset < first * FOURKB + FOURKB
      /\ last * FOURKB <= end /\ end < last * FOURKB + FOURKB
  <2>1. last = end \div FOURKB /\ end \in Nat /\ offset <= end
    BY <1>1, <1>3
  <2>2. first = offset \div FOURKB
    OBVIOUS
  <2> HIDE DEF first, last, end
  <2>3. /\ first \in Nat /\ last \in Nat /\ first <= last
        /\ first * FOURKB <= offset /\ offset < first * FOURKB + FOURKB
    BY <1>1, <2>1, <2>2, Blocks
  <2>4. last * FOURKB <= end /\ end < last * FOURKB + FOURKB
    BY <1>1, <2>1, end <= end, Blocks
  <2>5. QED BY <2>3, <2>4
<1> HIDE DEF first, last, end
<1>5. ASSUME NEW k \in 1 .. n
      PROVE  /\ first + k - 1 \in Nat
             /\ End(first + k - 1) \in 0 .. FOURKB /\ Begin(first + k - 1) \in Nat
             /\ Begin(first + k - 1) <= End(first + k - 1)
             /\ Upto(k) \in offset .. end
             /\ k = n => Upto(k) = end
             /\ k = 1 => (first + k - 1) * FOURKB + Begin(first + k - 1) = offset
             /\ k # 1 => /\ k - 1 \in 1 .. n
                         /\ Upto(k - 1) = (first + k - 1) * FOURKB + Begin(first + k - 1)
                         /\ Upto(k - 1) <= Upto(k)
  <2> DEFINE i == first + k - 1
             x == i * FOURKB
  <2>1. i \in first .. last /\ i \in Nat /\ (i = last <=> k = n) /\ (i = first <=> k = 1)
    BY <1>4
  <2>2. first * FOURKB <= x /\ x <= last * FOURKB
        /\ x \in Nat /\ FOURKB * i = x
        /\ (i + 1) * FOURKB = x + FOURKB
    BY <1>1, <1>4, <2>1
  <2>3. ASSUME i # first
        PROVE first * FOURKB + FOURKB <= x
    BY <1>1, <1>4, <2>1, <2>3
  <2>4. ASSUME i # last
        PROVE x + FOURKB <= last * FOURKB
    BY <1>1, <1>4, <2>1, <2>4
  <2>5. /\ Begin(i) = IF x < offset THEN offset - x ELSE 0
        /\ End(i) = IF x + FOURKB > end THEN end - x ELSE FOURKB
        /\ Upto(k) = x + End(i)
    BY <1>3, <2>2
  <2>6. ASSUME k # 1
        PROVE  /\ k - 1 \in 1 .. n
               /\ first + (k - 1) - 1 = i - 1
               /\ (i - 1) * FOURKB = x - FOURKB
               /\ FOURKB * (i - 1) = x - FOURKB
               /\ (i - 1 + 1) * FOURKB = x
    BY <1>1, <1>4, <2>1, <2>2, <2>6
  <2>7. ASSUME k # 1 PROVE Upto(k - 1) = x
    <3>1. Upto(k - 1) = (i - 1) * FOURKB + End(i - 1)
      BY <2>6, <2>7
    <3>2. End(i - 1) = FOURKB
      <4>1. ~((i - 1 + 1) * FOURKB > offset + len)
        <5>1. (i - 1 + 1) * FOURKB = x /\ x <= last * FOURKB /\ x \in Nat
          BY <2>2, <2>6, <2>7
        <5>2. last * FOURKB <= end /\ offset + len = end /\ end \in Nat
              /\ last * FOURKB \in Nat
          BY <1>1, <1>3, <1>4
        <5> HIDE DEF x, i
        <5>3. QED BY ONLY <5>1, <5>2
      <4>2. QED BY ONLY <4>1
    <3>3. QED BY <1>1, <2>2, <2>6, <2>7, <3>1, <3>2
  <2> HIDE DEF x, i, Begin, End, Upto
  <2>8. /\ End(i) \in 0 .. FOURKB /\ Begin(i) \in Nat /\ Begin(i) <= End(i)
        /\ Upto(k) \in offset .. end
        /\ k = n => Upto(k) = end
        /\ k = 1 => x + Begin(i) = offset
        /\ k # 1 => Begin(i) = 0
    BY <1>1, <1>3, <1>4, <2>1, <2>2, <2>3, <2>4, <2>5
  <2>9. k # 1 => /\ k - 1 \in 1 .. n /\ Upto(k - 1) = x + Begin(i)
                 /\ Upto(k - 1) <= Upto(k)
    BY <2>2, <2>5, <2>6, <2>7, <2>8
  <2>10. QED BY <2>1, <2>8, <2>9 DEF i, x
<1>6. n \in Nat \ {0} /\ end \in Nat
  BY <1>1, <1>3, <1>4
<1>7. ASSUME NEW k \in 1 .. n
      PROVE  rounds[k] = Part(c, (first + k - 1) * FOURKB + Begin(first + k - 1), Upto(k))
  <2> DEFINE i == first + k - 1
  <2>1. /\ i \in Nat /\ Begin(i) \in Nat /\ End(i) \in 0 .. FOURKB
        /\ Begin(i) <= End(i) /\ i * FOURKB + End(i) <= size
    BY <1>1, <1>3, <1>5
  <2>2. rounds[k] = Copied(inode, i, Begin(i), End(i))
    OBVIOUS
  <2> HIDE DEF Begin, End, i, rounds
  <2>3. Copied(inode, i, Begin(i), End(i)) =
            Part(Content[inode], i * FOURKB + Begin(i), i * FOURKB + End(i))
    BY <2>1, RoundCopies
  <2>4. QED BY <2>2, <2>3 DEF i
<1> HIDE DEF Begin, End, Upto, rounds, c
<1>8. ASSUME NEW k \in 1 .. n
      PROVE  Part(c, offset, Upto(k)) =
                IF k = 1 THEN rounds[k] ELSE Part(c, offset, Upto(k - 1)) \o rounds[k]
  <2>1. CASE k = 1
    BY <1>5, <1>7, <2>1
  <2>2. CASE k # 1
    <3>1. /\ k - 1 \in 1 .. n /\ rounds[k] = Part(c, Upto(k - 1), Upto(k))
          /\ Upto(k - 1) \in offset .. end /\ Upto(k) \in offset .. end
      BY <1>5, <1>7, <2>2
    <3>2. /\ Upto(k - 1) \in Nat /\ Upto(k) \in Nat
          /\ offset <= Upto(k - 1) /\ Upto(k - 1) <= Upto(k)
      BY <1>1, <1>5, <1>6, <2>2, <3>1
    <3>3. Part(c, offset, Upto(k - 1)) \o Part(c, Upto(k - 1), Upto(k))
             = Part(c, offset, Upto(k))
      BY ONLY <1>1, <3>2, Joined
    <3>4. QED BY <2>2, <3>1, <3>3
  <2>3. QED BY <2>1, <2>2
<1>9. ASSUME NEW k \in 1 .. n
      PROVE  partial[k] = IF k = 1 THEN rounds[k] ELSE partial[k - 1] \o rounds[k]
  <2>1. partial[k] = Part(c, offset, Upto(k))
    OBVIOUS
  <2>2. CASE k = 1
    BY <1>8, <2>1, <2>2
  <2>3. CASE k # 1
    <3>1. k - 1 \in 1 .. n
      BY <1>6, <2>3
    <3>2. partial[k - 1] = Part(c, offset, Upto(k - 1))
      BY <3>1
    <3>3. Part(c, offset, Upto(k)) = Part(c, offset, Upto(k - 1)) \o rounds[k]
      BY <1>8, <2>3
    <3>4. QED BY ONLY <2>1, <2>3, <3>2, <3>3
  <2>4. QED BY <2>2, <2>3
<1>10. FlattenSeq(rounds) = partial[n]
  <2>1. Len(rounds) = n
    BY <1>6 DEF rounds
  <2> HIDE DEF partial, n
  <2>2. QED BY <1>6, <1>9, <2>1, Flattened
<1>11. partial[n] = Part(c, offset, end)
  BY <1>5, <1>6
<1>12. read_data(inode, offset, length) = FlattenSeq(rounds)
  BY DEF read_data, rounds, Begin, End, first, last, len
<1>13. QED BY <1>3, <1>10, <1>11, <1>12 DEF c
-----------------------------------------------------------------------------
\* The descriptor tables.

\* Constants as integers.
LEMMA Numbers ==
    /\ MAXPROCESS \in Nat /\ MAXPROCESS > 0
    /\ SHELLS \in 0 .. MAXPROCESS
    /\ FDSTART = 2 /\ FILENUM \in Nat /\ FILENUM > 2
  BY DescriptorAssumption

\* A descriptor is 0, 1 or one that open gives.
LEMMA FdsSplit ==
    /\ 0 \in Fds /\ 1 \in Fds
    /\ FilesOf \subseteq Fds
    /\ \A fd \in Fds : fd = 0 \/ fd = 1 \/ fd \in FilesOf
    /\ 0 \notin FilesOf /\ 1 \notin FilesOf
  BY Numbers DEF Fds, FilesOf

\* Assignments to a field of an entry.
LEMMA EntryFields ==
    ASSUME NEW e \in Entries
    PROVE  /\ [e EXCEPT !.flags = 0] \in Entries
           /\ [e EXCEPT !.flags = 1] \in Entries
           /\ \A calls \in {"stdin", "stdout"} :
                  [e EXCEPT !.sys_calls = calls] \in Entries
           /\ \A p \in Nat :
                  (e.sys_calls = "file" => p <= iNodes[e.inode].size)
                      => [e EXCEPT !.filePosition = p] \in Entries
<1>1. e \in Fd /\ (e.sys_calls = "file" =>
                      /\ e.inode \in DOMAIN iNodes
                      /\ e.filePosition <= iNodes[e.inode].size)
  BY DEF Entries
<1>2. [e EXCEPT !.flags = 0] \in Entries /\ [e EXCEPT !.flags = 1] \in Entries
  BY <1>1 DEF Entries, Fd
<1>3. ASSUME NEW calls \in {"stdin", "stdout"}
      PROVE  [e EXCEPT !.sys_calls = calls] \in Entries
  <2>1. calls \in SysCalls /\ calls # "file"
    BY DEF SysCalls
  <2>2. QED BY <1>1, <2>1 DEF Entries, Fd
<1>4. ASSUME NEW p \in Nat, e.sys_calls = "file" => p <= iNodes[e.inode].size
      PROVE  [e EXCEPT !.filePosition = p] \in Entries
  BY <1>1, <1>4 DEF Entries, Fd
<1>5. QED BY <1>2, <1>3, <1>4

\* execute makes a table whose files are closed one that is set.
LEMMA StdStreamsSet ==
    ASSUME NEW table \in [Fds -> Entries], TableClosed(table)
    PROVE  /\ StdStreams(table) \in [Fds -> Entries]
           /\ TableSet(StdStreams(table))
           /\ \A fd \in FilesOf : StdStreams(table)[fd] = table[fd]
  <1>1. StdStreams(table) \in [Fds -> Entries]
    <2> DEFINE t1 == [table EXCEPT ![0] = [@ EXCEPT !.sys_calls = "stdin"]]
               t2 == [t1 EXCEPT ![0] = [@ EXCEPT !.flags = 1]]
               t3 == [t2 EXCEPT ![1] = [@ EXCEPT !.sys_calls = "stdout"]]
               t4 == [t3 EXCEPT ![1] = [@ EXCEPT !.flags = 1]]
    <2>1. StdStreams(table) = t4
      BY DEF StdStreams
    <2>2. "stdin" \in SysCalls /\ "stdout" \in SysCalls
      BY DEF SysCalls
    <2>3. t1 \in [Fds -> Entries]
      BY <2>2, EntryFields, FdsSplit
    <2> HIDE DEF t1
    <2>4. t2 \in [Fds -> Entries]
      BY <2>3, EntryFields, FdsSplit
    <2> HIDE DEF t2
    <2>5. t3 \in [Fds -> Entries]
      BY <2>2, <2>4, EntryFields, FdsSplit
    <2> HIDE DEF t3
    <2>6. t4 \in [Fds -> Entries]
      BY <2>5, EntryFields, FdsSplit
    <2> QED BY <2>1, <2>6
  <1>2. \A fd \in {0, 1} : StdStreams(table)[fd].sys_calls # "null"
    BY FdsSplit DEF StdStreams, Entries, Fd, SysCalls
  <1>3. ASSUME NEW fd \in Fds, fd # 0, fd # 1
        PROVE  StdStreams(table)[fd] = table[fd]
    BY <1>3, FdsSplit DEF StdStreams
  <1>4. \A fd \in FilesOf : StdStreams(table)[fd] = table[fd]
    BY <1>3, FdsSplit
  <1>5. TableSet(StdStreams(table))
    BY <1>2, <1>4, FdsSplit DEF TableSet, TableClosed
  <1> QED BY <1>1, <1>4, <1>5

\* halt closes the files of a table, and keeps it set.
LEMMA ClearFilesClosed ==
    ASSUME NEW table \in [Fds -> Entries]
    PROVE  /\ ClearFiles(table) \in [Fds -> Entries]
           /\ TableClosed(ClearFiles(table))
  <1>1. Cleared \in Entries
    BY DEF Cleared, Entries, Fd, SysCalls
  <1>2. ClearFiles(table) \in [Fds -> Entries]
    BY <1>1 DEF ClearFiles
  <1>3. TableClosed(ClearFiles(table))
    BY FdsSplit DEF TableClosed, ClearFiles, Cleared
  <1> QED BY <1>2, <1>3

\* A call that changes one entry of the running process's table, and leaves it
\* set if it is open, keeps the invariant.
LEMMA ChangeKeepsInv ==
    ASSUME Inv, process_count > 0, UNCHANGED process_count,
           NEW fd \in Fds, NEW entry \in Entries,
           entry.flags = 1 => entry.sys_calls # "null",
           Change(fd, entry)
    PROVE  Inv'
  <1>1. process_count \in Pids
    BY Numbers DEF Inv, Pids
  <1>2. fdArr' \in [Pids -> [Fds -> Entries]]
    BY <1>1 DEF Inv, Change
  <1>3. /\ \A n \in Pids : n # process_count => fdArr'[n] = fdArr[n]
        /\ fdArr'[process_count] = [fdArr[process_count] EXCEPT ![fd] = entry]
    BY <1>1 DEF Inv, Change
  <1>4. DeadTablesClosed'
    BY <1>3, Numbers DEF Inv, DeadTablesClosed, Pids
  <1>5. CallsAreSet'
    <2> SUFFICES ASSUME NEW n \in 1 .. process_count, NEW g \in Fds,
                        fdArr'[n][g].flags = 1
                 PROVE  fdArr'[n][g].sys_calls # "null"
      BY DEF CallsAreSet
    <2>1. n \in Pids
      BY Numbers DEF Inv, Pids
    <2>2. CASE n = process_count /\ g = fd
      BY <2>1, <2>2, <1>3 DEF Inv
    <2>3. CASE n = process_count /\ g # fd
      BY <2>1, <2>3, <1>3 DEF Inv, CallsAreSet
    <2>4. CASE n # process_count
      BY <2>1, <2>4, <1>3 DEF Inv, CallsAreSet
    <2> QED BY <2>2, <2>3, <2>4
  <1> QED BY <1>2, <1>4, <1>5 DEF Inv

\* A step that replaces the table of one PCB, and may change the number of
\* processes by one, keeps the invariant if the table suits its place.
LEMMA ReplaceKeepsInv ==
    ASSUME Inv, NEW n \in Pids, NEW table \in [Fds -> Entries],
           fdArr' = [fdArr EXCEPT ![n] = table],
           process_count' \in 0 .. MAXPROCESS,
           \A m \in Pids : m # n => (m > process_count' <=> m > process_count),
           n > process_count' => TableClosed(table),
           n <= process_count' => TableSet(table)
    PROVE  Inv'
  <1>1. process_count \in Int /\ process_count' \in Int /\ MAXPROCESS \in Nat
    BY Numbers DEF Inv
  <1>2. /\ fdArr' \in [Pids -> [Fds -> Entries]]
        /\ fdArr'[n] = table
        /\ \A m \in Pids : m # n => fdArr'[m] = fdArr[m]
    BY DEF Inv
  <1>3. DeadTablesClosed'
    BY <1>2 DEF Inv, DeadTablesClosed, TableClosed
  <1>4. CallsAreSet'
    <2> SUFFICES ASSUME NEW m \in 1 .. process_count', NEW fd \in Fds,
                        fdArr'[m][fd].flags = 1
                 PROVE  fdArr'[m][fd].sys_calls # "null"
      BY DEF CallsAreSet
    <2>1. m \in Pids /\ m <= process_count' /\ m \in Int
      BY <1>1 DEF Pids
    <2>2. CASE m = n
      BY <2>1, <2>2, <1>2 DEF TableSet
    <2>3. CASE m # n
      <3>1. ~(m > process_count)
        BY <2>1, <2>3, <1>1
      <3>2. m \in 1 .. process_count
        BY <2>1, <3>1, <1>1
      <3> QED BY <2>1, <2>3, <3>2, <1>2 DEF Inv, CallsAreSet
    <2> QED BY <2>2, <2>3
  <1> QED BY <1>2, <1>3, <1>4 DEF Inv

\* The entry that open makes for a name of the directory is set.
LEMMA OpenedSet ==
    ASSUME NEW filename \in Names, Matches(filename) # {}
    PROVE  LET entry == Opened(dirEntries[FirstMatch(filename)])
           IN  entry \in Entries /\ entry.sys_calls # "null"
  <1> DEFINE k == FirstMatch(filename)
  <1>1. k \in Matches(filename)
    <2>1. Matches(filename) \in SUBSET Nat
      BY FileSystemAssumption DEF Matches
    <2> QED BY <2>1, Smallest DEF FirstMatch
  <1> HIDE DEF k
  <1>2. k \in 0 .. SIXTYTHREE - 1 /\ dirEntries[k].fileName # NoName
    BY <1>1, FileSystemAssumption, DescriptorAssumption DEF Matches
  <1>3. k \in 0 .. dirEntry - 1
    BY <1>2, FileSystemAssumption
  <1>4. dirEntries[k].fileType \in 0 .. 2
    BY <1>3, FileSystemAssumption DEF FileTypes
  <1>5. dirEntries[k].iNodeNumber \in DOMAIN iNodes
    BY <1>3, FileSystemAssumption
  <1>6. dirEntries[k].iNodeNumber \in Int /\ iNodes[dirEntries[k].iNodeNumber].size >= 0
    BY <1>5, FileSystemAssumption
  <1>7. function_table[dirEntries[k].fileType + 1] \in {"rtc", "dir", "file"}
    BY <1>4 DEF function_table
  <1> QED
    BY <1>5, <1>6, <1>7 DEF Opened, Entries, Fd, SysCalls, k

\* What one read of an open file gives, and where it leaves the position.
LEMMA ReadFileGives ==
    ASSUME NEW f \in Entries, f.sys_calls = "file", NEW nbytes \in Requests
    PROVE  LET bytes == read_data(f.inode, f.filePosition, nbytes)
               size == iNodes[f.inode].size
               end == f.filePosition + Len(bytes)
           IN  /\ f.inode \in DOMAIN iNodes /\ size \in Nat
               /\ f.filePosition \in 0 .. size
               /\ Len(bytes) \in Nat /\ end \in Nat /\ end <= size
               /\ Len(bytes) <= nbytes /\ (Len(bytes) = 0 => end = size)
               /\ bytes = Part(Content[f.inode], f.filePosition, end)
  <1> DEFINE pos == f.filePosition
             size == iNodes[f.inode].size
             upto == IF pos + nbytes > size THEN size ELSE pos + nbytes
             bytes == read_data(f.inode, pos, nbytes)
  <1>1. /\ f.inode \in DOMAIN iNodes /\ pos \in Nat /\ pos <= size /\ size \in Nat
        /\ nbytes \in 1 .. UNSIGNED - 1 /\ UNSIGNED \in Nat
    BY FileSystemAssumption, DescriptorAssumption DEF Entries, Fd
  <1>2. bytes = Part(Content[f.inode], pos, upto)
    BY <1>1, ReadDataGives
  <1>3. upto \in Nat /\ pos <= upto /\ upto <= size /\ upto - pos <= nbytes
        /\ (upto = pos => upto = size)
    BY <1>1
  <1> HIDE DEF bytes, upto
  <1>4. Len(bytes) = upto - pos
    BY <1>1, <1>2, <1>3 DEF Part
  <1>5. pos + Len(bytes) = upto
    BY <1>1, <1>3, <1>4
  <1>6. /\ Len(bytes) \in Nat /\ Len(bytes) <= nbytes
        /\ Len(bytes) = 0 => pos + Len(bytes) = size
    <2>1. pos \in Nat /\ nbytes \in Nat /\ size \in Nat
      BY <1>1
    <2> HIDE DEF pos, size
    <2>2. QED BY ONLY <1>3, <1>4, <2>1
  <1>7. /\ pos + Len(bytes) \in Nat /\ pos + Len(bytes) <= size
        /\ bytes = Part(Content[f.inode], pos, pos + Len(bytes))
    <2>1. Part(Content[f.inode], pos, pos + Len(bytes)) =
              Part(Content[f.inode], pos, upto)
      BY ONLY <1>5
    <2>2. QED BY ONLY <1>2, <1>3, <1>5, <2>1
  <1> QED BY <1>1, <1>6, <1>7 DEF bytes

\* Every step keeps the invariant.
LEMMA NextInv == ASSUME Inv, [Next]_vars PROVE Inv'
  <1>a. process_count \in 0 .. MAXPROCESS /\ MAXPROCESS \in Nat
    BY Numbers DEF Inv
  <1>b. ASSUME process_count > 0
        PROVE  /\ process_count \in Pids
               /\ Current \in [Fds -> Entries]
               /\ TableSet(Current)
    <2>1. process_count \in Pids /\ process_count \in 1 .. process_count
      BY <1>a, <1>b DEF Pids
    <2> QED BY <2>1 DEF Current, Inv, CallsAreSet, TableSet
  <1>1. CASE Launch
    <2> DEFINE n == process_count + 1
    <2>1. n \in Pids /\ process_count' = n /\ n > process_count
      BY <1>1, <1>a DEF Launch, Pids
    <2>2. fdArr[n] \in [Fds -> Entries] /\ TableClosed(fdArr[n])
      BY <2>1 DEF Inv, DeadTablesClosed, TableClosed
    <2>3. fdArr' = [fdArr EXCEPT ![n] = StdStreams(fdArr[n])]
      BY <1>1 DEF Launch
    <2>4. process_count' \in 0 .. MAXPROCESS
      BY <2>1, <1>a DEF Pids
    <2>5. \A m \in Pids : m # n => (m > process_count' <=> m > process_count)
      BY <2>1, <1>a DEF Pids
    <2>6. ~(n > process_count')
      BY <2>1, <1>a
    <2> HIDE DEF n
    <2> QED BY <2>1, <2>2, <2>3, <2>4, <2>5, <2>6, StdStreamsSet,
               ReplaceKeepsInv
  <1>2. CASE Halt
    <2> DEFINE n == process_count
    <2>1. n > 0 /\ process_count' = n - 1
      BY <1>2, <1>a, Numbers DEF Halt
    <2>2. n \in Pids /\ fdArr[n] \in [Fds -> Entries]
      BY <2>1, <1>b DEF Current
    <2>3. fdArr' = [fdArr EXCEPT ![n] = ClearFiles(fdArr[n])]
      BY <1>2 DEF Halt
    <2>4. process_count' \in 0 .. MAXPROCESS /\ ~(n <= process_count')
      BY <2>1, <1>a
    <2>5. \A m \in Pids : m # n => (m > process_count' <=> m > process_count)
      BY <2>1, <1>a DEF Pids
    <2> HIDE DEF n
    <2> QED BY <2>2, <2>3, <2>4, <2>5, ClearFilesClosed, ReplaceKeepsInv
  <1>3. CASE HaltShell
    <2> DEFINE table == ClearFiles(Current)
    <2>1. process_count > 0 /\ process_count' = process_count
      BY <1>3, Numbers DEF HaltShell
    <2>2. table \in [Fds -> Entries] /\ TableClosed(table)
      BY <2>1, <1>b, ClearFilesClosed
    <2>3. fdArr' = [fdArr EXCEPT ![process_count] = StdStreams(table)]
      BY <1>3 DEF HaltShell, Current
    <2>4. process_count' \in 0 .. MAXPROCESS /\ ~(process_count > process_count')
      BY <2>1, <1>a
    <2> HIDE DEF table
    <2> QED BY <2>1, <2>2, <2>3, <2>4, <1>b, StdStreamsSet, ReplaceKeepsInv
  <1>4. CASE OtherCall
    BY <1>4 DEF OtherCall, Inv, DeadTablesClosed, CallsAreSet
  <1>5. ASSUME NEW filename \in Names, Open(filename) PROVE Inv'
    <2> DEFINE entry == Opened(dirEntries[FirstMatch(filename)])
               fd == CHOOSE fd \in FreeFds : \A g \in FreeFds : fd <= g
    <2>1. FreeFds \in SUBSET Nat /\ FreeFds # {}
      BY <1>5, Numbers DEF Open, FreeFds, FilesOf
    <2>2. fd \in FreeFds
      BY <2>1, Smallest
    <2>3. fd \in Fds
      BY <2>2, FdsSplit DEF FreeFds
    <2>4. entry \in Entries /\ entry.sys_calls # "null"
      BY <1>5, OpenedSet DEF Open
    <2>5. Change(fd, entry) /\ process_count > 0 /\ UNCHANGED process_count
      BY <1>5 DEF Open
    <2> HIDE DEF entry, fd
    <2> QED BY <2>3, <2>4, <2>5, ChangeKeepsInv
  <1>6. ASSUME NEW fd \in Fds, Close(fd) PROVE Inv'
    <2> DEFINE entry == [Current[fd] EXCEPT !.flags = 0]
    <2>1. Change(fd, entry) /\ process_count > 0 /\ UNCHANGED process_count
      BY <1>6 DEF Close
    <2>2. Current[fd] \in Entries
      BY <2>1, <1>b
    <2>3. entry \in Entries
      BY <2>2, EntryFields
    <2>4. entry.flags = 0
      BY <2>2 DEF Entries
    <2> HIDE DEF entry
    <2> QED BY <2>1, <2>3, <2>4, ChangeKeepsInv
  <1>7. ASSUME NEW fd \in Fds, NEW p \in Nat, process_count > 0,
               UNCHANGED process_count, IsOpen(fd),
               Current[fd].sys_calls = "file"
                   => p <= iNodes[Current[fd].inode].size,
               Change(fd, [Current[fd] EXCEPT !.filePosition = p])
        PROVE  Inv'
    <2> DEFINE entry == [Current[fd] EXCEPT !.filePosition = p]
    <2>1. Current[fd] \in Entries /\ Current[fd].sys_calls # "null"
      BY <1>7, <1>b DEF IsOpen, TableSet
    <2>2. entry \in Entries
      BY <1>7, <2>1, EntryFields
    <2>3. entry.sys_calls # "null"
      BY <2>1 DEF Entries, Fd
    <2>4. Change(fd, entry)
      BY <1>7
    <2> HIDE DEF entry
    <2> QED BY <1>7, <2>2, <2>3, <2>4, ChangeKeepsInv
  <1>8. ASSUME NEW fd \in Fds, ReadDirectory(fd) PROVE Inv'
    <2>1. /\ process_count > 0 /\ UNCHANGED process_count /\ IsOpen(fd)
          /\ Current[fd].sys_calls = "dir"
          /\ Change(fd, [Current[fd] EXCEPT !.filePosition = @ + 1])
      BY <1>8 DEF ReadDirectory
    <2>2. Current[fd] \in Entries
      BY <2>1, <1>b
    <2>3. Current[fd].filePosition + 1 \in Nat
      BY <2>2 DEF Entries, Fd
    <2> QED BY <2>1, <2>3, <1>7
  <1>9. ASSUME NEW fd \in Fds, NEW nbytes \in Requests, ReadFile(fd, nbytes)
        PROVE  Inv'
    <2> DEFINE bytes == read_data(Current[fd].inode, Current[fd].filePosition,
                                  nbytes)
               p == Current[fd].filePosition + Len(bytes)
    <2>1. /\ process_count > 0 /\ UNCHANGED process_count /\ IsOpen(fd)
          /\ Current[fd].sys_calls = "file"
          /\ Change(fd, [Current[fd] EXCEPT !.filePosition = p])
      BY <1>9 DEF ReadFile
    <2>2. Current[fd] \in Entries
      BY <2>1, <1>b
    <2>3. p \in Nat /\ p <= iNodes[Current[fd].inode].size
      BY <2>1, <2>2, ReadFileGives
    <2> HIDE DEF bytes, p
    <2> QED BY <2>1, <2>3, <1>7
  <1>10. CASE UNCHANGED vars
    BY <1>10 DEF vars, Inv, DeadTablesClosed, CallsAreSet
  <1> QED
    BY <1>1, <1>2, <1>3, <1>4, <1>5, <1>6, <1>8, <1>9, <1>10 DEF Next

\* The invariant holds of every state.
THEOREM InvCorrect == Spec => []Inv
  <1>1. Init => Inv
    <2> SUFFICES ASSUME Init PROVE Inv
      OBVIOUS
    <2>1. process_count = 0 /\ 0 \in 0 .. MAXPROCESS
      BY Numbers DEF Init
    <2>2. Unused \in Entries /\ Unused.flags = 0
      BY DEF Unused, Entries, Fd, SysCalls
    <2>3. fdArr \in [Pids -> [Fds -> Entries]]
      BY <2>2 DEF Init
    <2>4. DeadTablesClosed
      BY <2>2, FdsSplit DEF Init, DeadTablesClosed
    <2>5. CallsAreSet
      BY <2>1 DEF CallsAreSet
    <2> QED BY <2>1, <2>3, <2>4, <2>5 DEF Inv
  <1>2. Inv /\ [Next]_vars => Inv'
    BY NextInv
  <1> QED BY <1>1, <1>2, PTL DEF Spec

\* No process is born with an open file: halt's loop (66-72) closes in every
\* PCB what execute (277-280) does not set up.
THEOREM NoInheritedFiles == Spec => []DeadTablesClosed
  <1>1. Inv => DeadTablesClosed
    BY DEF Inv
  <1> QED BY <1>1, InvCorrect, PTL

\* read and write (351, 372) never call through a NULL jump table.
THEOREM NoNullCall == Spec => []CallsAreSet
  <1>1. Inv => CallsAreSet
    BY DEF Inv
  <1> QED BY <1>1, InvCorrect, PTL

\* read_data (filesys.c) copies, block by block, exactly the bytes of the file
\* that were asked for, up to its end: for every image, size of a block,
\* position and number of bytes.
THEOREM ReadDataCorrect == Spec => []ReadDataReads
  <1>1. ReadDataReads
    <2> SUFFICES ASSUME NEW inode \in DOMAIN iNodes,
                        NEW offset \in 0 .. iNodes[inode].size,
                        NEW length \in 0 .. UNSIGNED - 1
                 PROVE  LET end == IF offset + length > iNodes[inode].size
                                     THEN iNodes[inode].size ELSE offset + length
                        IN  read_data(inode, offset, length) =
                                SubSeq(Content[inode], offset + 1, end)
      BY DEF ReadDataReads
    <2> DEFINE end == IF offset + length > iNodes[inode].size
                        THEN iNodes[inode].size ELSE offset + length
    <2>1. offset \in Nat /\ end \in Nat /\ offset <= end
      BY FileSystemAssumption
    <2>2. read_data(inode, offset, length) = Part(Content[inode], offset, end)
      BY ReadDataGives
    <2> HIDE DEF end
    <2>3. Part(Content[inode], offset, end) = SubSeq(Content[inode], offset + 1, end)
      BY <2>1, PartIsSubSeq
    <2> QED BY <2>2, <2>3 DEF end
  <1> QED BY <1>1, PTL

\* No sequence of calls takes the position of a descriptor beyond the end of
\* its file, where read_data's subtraction would wrap: readFile (filesys.c)
\* adds what was read, not what was asked for.
THEOREM PositionsCorrect == Spec => []PositionWithinFile
  <1>1. Inv => PositionWithinFile
    BY FdsSplit DEF Inv, PositionWithinFile, Entries
  <1> QED BY <1>1, InvCorrect, PTL

\* A read gives bytes or a name, whatever the call.
LEMMA GivenTyped ==
    ASSUME Inv, [Next]_vars, buf \in Seq(Bytes \cup FileNames)
    PROVE  buf' \in Seq(Bytes \cup FileNames)
  <1>1. CASE buf' = <<>>
    BY <1>1
  <1>2. ASSUME NEW fd \in Fds, ReadDirectory(fd) PROVE buf' \in Seq(Bytes \cup FileNames)
    <2> DEFINE k == Current[fd].filePosition
    <2>1. k \in Nat /\ k < SIXTYTHREE
      <3>1. process_count \in Pids /\ k < SIXTYTHREE
        BY <1>2, Numbers DEF ReadDirectory, Inv, Pids
      <3>2. Current[fd] \in Entries
        BY <3>1 DEF Inv, Current
      <3> QED BY <3>1, <3>2 DEF Entries, Fd
    <2>2. CASE dirEntries[k].fileName = NoName
      BY <1>1, <1>2, <2>2 DEF ReadDirectory
    <2>3. CASE dirEntries[k].fileName # NoName
      <3>1. k \in 0 .. dirEntry - 1
        BY <2>1, <2>3, FileSystemAssumption
      <3>2. dirEntries[k].fileName \in FileNames
        BY <3>1 DEF FileNames
      <3>3. buf' = <<dirEntries[k].fileName>>
        BY <1>2, <2>3 DEF ReadDirectory
      <3> QED BY <3>2, <3>3
    <2> QED BY <2>2, <2>3
  <1>3. ASSUME NEW fd \in Fds, NEW nbytes \in Requests, ReadFile(fd, nbytes)
        PROVE  buf' \in Seq(Bytes \cup FileNames)
    <2> DEFINE f == Current[fd]
               bytes == read_data(f.inode, f.filePosition, nbytes)
               end == f.filePosition + Len(bytes)
    <2>1. f \in Entries /\ f.sys_calls = "file" /\ buf' = bytes
      <3>1. process_count \in Pids
        BY <1>3, Numbers DEF ReadFile, Inv, Pids
      <3> QED BY <1>3, <3>1 DEF ReadFile, Inv, Current
    <2> HIDE DEF f
    <2>2. /\ f.inode \in DOMAIN iNodes /\ f.filePosition \in Nat
          /\ end \in Nat /\ end <= iNodes[f.inode].size
          /\ Len(bytes) \in Nat
          /\ bytes = Part(Content[f.inode], f.filePosition, end)
      BY <2>1, ReadFileGives
    <2> HIDE DEF bytes, end
    <2>3. ASSUME NEW k \in 1 .. iNodes[f.inode].size
          PROVE  Content[f.inode][k] \in Bytes
      <3>1. /\ k - 1 \in 0 .. iNodes[f.inode].size - 1 /\ FOURKB \in Nat \ {0}
            /\ (k - 1) % FOURKB \in 0 .. FOURKB - 1
        <4>1. iNodes[f.inode].size \in Nat /\ FOURKB \in Nat \ {0}
          BY <2>2, FileSystemAssumption
        <4>2. QED BY ONLY <4>1, k \in 1 .. iNodes[f.inode].size
      <3>2. iNodes[f.inode].dataBlockArr[(k - 1) \div FOURKB] \in DOMAIN dataBlocks
        BY <2>2, <3>1, FileSystemAssumption
      <3>3. dataBlocks[iNodes[f.inode].dataBlockArr[(k - 1) \div FOURKB]]
                \in [0 .. FOURKB - 1 -> Bytes]
        BY <3>2, FileSystemAssumption, SMTT(30)
      <3>4. Content[f.inode][k] =
                dataBlocks[iNodes[f.inode].dataBlockArr[(k - 1) \div FOURKB]]
                          [(k - 1) % FOURKB]
        BY <2>2 DEF Content
      <3> QED BY <3>1, <3>3, <3>4
    <2>4. \A j \in 1 .. end - f.filePosition :
             f.filePosition + j \in 1 .. iNodes[f.inode].size
      <3>1. iNodes[f.inode].size \in Nat
        BY <2>2, FileSystemAssumption
      <3> QED BY ONLY <2>2, <3>1
    <2>5. \A j \in 1 .. end - f.filePosition :
             Content[f.inode][f.filePosition + j] \in Bytes \cup FileNames
      BY <2>3, <2>4
    <2>6. end - f.filePosition \in Nat
      BY <2>2 DEF end
    <2>7. Part(Content[f.inode], f.filePosition, end) \in Seq(Bytes \cup FileNames)
      BY ONLY <2>5, <2>6 DEF Part
    <2> QED BY <2>1, <2>2, <2>7
  <1>4. CASE Launch \/ Halt \/ HaltShell \/ OtherCall
    BY <1>1, <1>4 DEF Launch, Halt, HaltShell, OtherCall
  <1>5. ASSUME NEW filename \in Names, Open(filename)
        PROVE  buf' \in Seq(Bytes \cup FileNames)
    BY <1>1, <1>5 DEF Open
  <1>6. ASSUME NEW fd \in Fds, Close(fd) PROVE buf' \in Seq(Bytes \cup FileNames)
    BY <1>1, <1>6 DEF Close
  <1>7. CASE UNCHANGED vars
    BY <1>7 DEF vars
  <1> QED BY <1>2, <1>3, <1>4, <1>5, <1>6, <1>7 DEF Next

\* Descriptors stay fd_t values, and reads give bytes or names.
THEOREM TypeCorrect == Spec => []TypeOK
  <1> DEFINE Typed == buf \in Seq(Bytes \cup FileNames)
  <1>1. Init => Typed
    BY DEF Init
  <1>2. Typed /\ Inv /\ [Next]_vars => Typed'
    BY GivenTyped
  <1>3. Inv /\ Typed => TypeOK
    BY DEF Inv, TypeOK, Entries
  <1> HIDE DEF Typed
  <1>4. Spec => []Typed
    BY <1>1, <1>2, InvCorrect, PTL DEF Spec
  <1> QED BY <1>3, <1>4, InvCorrect, PTL

-----------------------------------------------------------------------------
\* Sequences that differ at the end only.

\* A function on 1 .. m is a sequence of length m.
LEMMA IsSequence ==
    ASSUME NEW m \in Nat, NEW f, f = [n \in 1 .. m |-> f[n]], NEW S,
           \A n \in 1 .. m : f[n] \in S
    PROVE  /\ f \in Seq(S) /\ Len(f) = m
           /\ m = 0 <=> f = <<>>
           /\ m > 0 => Last(f) = f[m]
<1>1. f \in Seq(S) /\ Len(f) = m
  OBVIOUS
<1>2. QED BY ONLY <1>1, m \in Nat DEF Last

\* All but the last.
LEMMA FrontIs ==
    ASSUME NEW m \in Nat, m > 0, NEW S, NEW f \in Seq(S), Len(f) = m
    PROVE  /\ Front(f) \in Seq(S) /\ Len(Front(f)) = m - 1
           /\ \A n \in 1 .. m - 1 : Front(f)[n] = f[n]
<1>1. Front(f) = SubSeq(f, 1, m - 1)
  BY DEF Front
<1>2. \A n \in 1 .. m - 1 : f[n] \in S
  OBVIOUS
<1>3. /\ SubSeq(f, 1, m - 1) \in Seq(S)
      /\ Len(SubSeq(f, 1, m - 1)) = IF 1 <= m - 1 THEN m - 1 - 1 + 1 ELSE 0
      /\ \A i \in 1 .. m - 1 - 1 + 1 : SubSeq(f, 1, m - 1)[i] = f[1 + i - 1]
  BY ONLY <1>2, m \in Nat, SubSeqProperties
<1>4. QED BY ONLY <1>1, <1>3, m \in Nat, m > 0

\* One more at the end.
LEMMA Extended ==
    ASSUME NEW m \in Nat, NEW f, NEW g,
           f = [n \in 1 .. m |-> f[n]], g = [n \in 1 .. m + 1 |-> g[n]],
           \A n \in 1 .. m : g[n] = f[n]
    PROVE  g = Append(f, g[m + 1])
<1> DEFINE S == {g[n] : n \in 1 .. m + 1}
           x == g[m + 1]
           h == Append(f, x)
<1>1. \A n \in 1 .. m + 1 : g[n] \in S
  OBVIOUS
<1>2. x \in S
  BY <1>1
<1>3. \A n \in 1 .. m : f[n] \in S
  <2>1. \A n \in 1 .. m : n \in 1 .. m + 1
    BY ONLY m \in Nat
  <2> HIDE DEF S
  <2>2. QED BY ONLY <1>1, <2>1, \A n \in 1 .. m : g[n] = f[n]
<1> HIDE DEF S
<1>4. f \in Seq(S) /\ Len(f) = m
  BY ONLY <1>3, m \in Nat, f = [n \in 1 .. m |-> f[n]], IsSequence
<1>5. g \in Seq(S) /\ Len(g) = m + 1
  <2>1. m + 1 \in Nat
    BY ONLY m \in Nat
  <2>2. QED BY ONLY <1>1, <2>1, g = [n \in 1 .. m + 1 |-> g[n]], IsSequence
<1> HIDE DEF x
<1>6. /\ h \in Seq(S) /\ Len(h) = m + 1 /\ h[m + 1] = x
      /\ \A n \in 1 .. m : h[n] = f[n]
  BY ONLY <1>2, <1>4, m \in Nat
<1> HIDE DEF h
<1>7. ASSUME NEW n \in 1 .. m + 1 PROVE g[n] = h[n]
  <2>1. CASE n = m + 1
    BY ONLY <1>6, <2>1 DEF x
  <2>2. CASE n # m + 1
    <3>1. n \in 1 .. m
      BY ONLY <2>2, m \in Nat, n \in 1 .. m + 1
    <3>2. QED BY ONLY <1>6, <3>1, \A k \in 1 .. m : g[k] = f[k]
  <2>3. QED BY <2>1, <2>2
<1>8. g = h
  BY ONLY <1>5, <1>6, <1>7, SeqEqual
<1>9. QED BY ONLY <1>8 DEF h, x

\* One less.
LEMMA Shortened ==
    ASSUME NEW m \in Nat, NEW f, NEW g, m > 0,
           f = [n \in 1 .. m |-> f[n]], g = [n \in 1 .. m - 1 |-> g[n]],
           \A n \in 1 .. m - 1 : g[n] = f[n]
    PROVE  g = Front(f)
<1> DEFINE S == {f[n] : n \in 1 .. m}
           h == Front(f)
<1>1. \A n \in 1 .. m : f[n] \in S
  OBVIOUS
<1> HIDE DEF S
<1>2. f \in Seq(S) /\ Len(f) = m
  BY ONLY <1>1, m \in Nat, f = [n \in 1 .. m |-> f[n]], IsSequence
<1>3. /\ h \in Seq(S) /\ Len(h) = m - 1
      /\ \A n \in 1 .. m - 1 : h[n] = f[n]
  BY ONLY <1>2, m \in Nat, m > 0, FrontIs
<1>4. g \in Seq(S) /\ Len(g) = m - 1
  <2>1. m - 1 \in Nat /\ \A n \in 1 .. m - 1 : n \in 1 .. m
    BY ONLY m \in Nat, m > 0
  <2>2. \A n \in 1 .. m - 1 : g[n] \in S
    BY ONLY <1>1, <2>1, \A n \in 1 .. m - 1 : g[n] = f[n]
  <2>3. QED BY ONLY <2>1, <2>2, g = [n \in 1 .. m - 1 |-> g[n]], IsSequence
<1> HIDE DEF h
<1>5. \A n \in 1 .. m - 1 : g[n] = h[n]
  BY ONLY <1>3, \A n \in 1 .. m - 1 : g[n] = f[n]
<1>6. g = h
  BY ONLY <1>3, <1>4, <1>5, SeqEqual
<1>7. QED BY ONLY <1>6 DEF h

\* Another last one.
LEMMA Replaced ==
    ASSUME NEW m \in Nat, NEW f, NEW g, m > 0,
           f = [n \in 1 .. m |-> f[n]], g = [n \in 1 .. m |-> g[n]],
           \A n \in 1 .. m : g[n] = f[n] \/ n = m
    PROVE  g = Append(Front(f), g[m])
<1> DEFINE S == {f[n] : n \in 1 .. m} \cup {g[m]}
           x == g[m]
           p == Front(f)
           h == Append(p, x)
<1>1. \A n \in 1 .. m : f[n] \in S
  OBVIOUS
<1>2. x \in S
  OBVIOUS
<1> HIDE DEF S
<1>3. \A n \in 1 .. m : g[n] \in S
  BY ONLY <1>1, <1>2, \A n \in 1 .. m : g[n] = f[n] \/ n = m
<1>4. f \in Seq(S) /\ Len(f) = m
  BY ONLY <1>1, m \in Nat, f = [n \in 1 .. m |-> f[n]], IsSequence
<1>5. g \in Seq(S) /\ Len(g) = m
  BY ONLY <1>3, m \in Nat, g = [n \in 1 .. m |-> g[n]], IsSequence
<1>6. p \in Seq(S) /\ Len(p) = m - 1 /\ \A n \in 1 .. m - 1 : p[n] = f[n]
  BY ONLY <1>4, m \in Nat, m > 0, FrontIs
<1> HIDE DEF p, x
<1>7. /\ h \in Seq(S) /\ Len(h) = m /\ h[m] = x
      /\ \A n \in 1 .. m - 1 : h[n] = p[n]
  BY ONLY <1>2, <1>6, m \in Nat, m > 0
<1> HIDE DEF h
<1>8. ASSUME NEW n \in 1 .. m PROVE g[n] = h[n]
  <2>1. CASE n = m
    BY ONLY <1>7, <2>1 DEF x
  <2>2. CASE n # m
    <3>1. n \in 1 .. m - 1
      BY ONLY <2>2, m \in Nat, n \in 1 .. m
    <3>2. QED BY ONLY <1>6, <1>7, <2>2, <3>1, n \in 1 .. m,
                    \A k \in 1 .. m : g[k] = f[k] \/ k = m
  <2>3. QED BY <2>1, <2>2
<1>9. g = h
  BY ONLY <1>5, <1>7, <1>8, SeqEqual
<1>10. QED BY ONLY <1>9 DEF h, p, x

-----------------------------------------------------------------------------
\* The streams that the tables stand for.

\* The streams of the processes, as a sequence.
LEMMA StreamsAre ==
    ASSUME Inv
    PROVE  /\ AllStreams = [n \in 1 .. process_count |-> AllStreams[n]]
           /\ \A n \in 1 .. process_count : AllStreams[n] = StreamsOf(fdArr[n])
           /\ process_count \in Nat
           /\ AllStreams = <<>> <=> process_count = 0
           /\ process_count > 0 => Last(AllStreams) = StreamsOf(Current)
<1>1. /\ AllStreams = [n \in 1 .. process_count |-> AllStreams[n]]
      /\ \A n \in 1 .. process_count : AllStreams[n] = StreamsOf(fdArr[n])
  BY DEF AllStreams
<1>2. process_count \in Nat
  BY Numbers DEF Inv
<1>3. /\ AllStreams = <<>> <=> process_count = 0
      /\ process_count > 0 => Last(AllStreams) = AllStreams[process_count]
  <2> DEFINE S == {AllStreams[n] : n \in 1 .. process_count}
  <2>1. \A n \in 1 .. process_count : AllStreams[n] \in S
    OBVIOUS
  <2> HIDE DEF S
  <2>2. QED BY ONLY <1>1, <1>2, <2>1, IsSequence
<1>4. process_count > 0 => AllStreams[process_count] = StreamsOf(Current)
  BY <1>1, <1>2 DEF Current
<1>5. QED BY <1>1, <1>2, <1>3, <1>4

\* A step that changes no table but the running process's.
LEMMA OwnTable ==
    ASSUME Inv, process_count > 0, process_count' = process_count, NEW table,
           fdArr' = [fdArr EXCEPT ![process_count] = table]
    PROVE  Streams!Own(StreamsOf(table))
<1>1. process_count \in Pids /\ process_count \in Nat /\ process_count' \in Nat
  BY Numbers DEF Inv, Pids
<1>2. /\ fdArr'[process_count] = table
      /\ \A n \in Pids : n # process_count => fdArr'[n] = fdArr[n]
  BY <1>1 DEF Inv
<1>3. \A n \in 1 .. process_count : n \in Pids
  BY <1>1, Numbers DEF Pids
<1>4. /\ AllStreams' = [n \in 1 .. process_count |-> AllStreams'[n]]
      /\ \A n \in 1 .. process_count : AllStreams'[n] = StreamsOf(fdArr'[n])
  BY DEF AllStreams, StreamsOf, Rest
<1>5. \A n \in 1 .. process_count :
         AllStreams'[n] = AllStreams[n] \/ n = process_count
  BY <1>2, <1>3, <1>4, StreamsAre
<1>6. AllStreams = [n \in 1 .. process_count |-> AllStreams[n]]
  BY StreamsAre
<1>7. AllStreams' = Append(Front(AllStreams), AllStreams'[process_count])
  BY ONLY <1>1, <1>4, <1>5, <1>6, process_count > 0, Replaced
<1>8. AllStreams'[process_count] = StreamsOf(table)
  BY <1>1, <1>2, <1>4
<1>9. QED BY <1>7, <1>8 DEF Streams!Own, Streams!Front, Front

\* A table without open files has no streams.
LEMMA NoStreamsOf ==
    ASSUME NEW table, TableClosed(table)
    PROVE  StreamsOf(table) = <<>>
BY DEF TableClosed, StreamsOf

\* execute begins a process with its own streams: none.
LEMMA LaunchBegins == ASSUME Inv, Launch PROVE Streams!Begin
<1> DEFINE n == process_count + 1
<1>1. process_count' = n /\ process_count \in Nat /\ n \in Pids /\ n \in Nat
  BY Numbers DEF Inv, Launch, Pids
<1>2. fdArr[n] \in [Fds -> Entries] /\ TableClosed(fdArr[n])
  BY <1>1 DEF Inv, DeadTablesClosed, TableClosed
<1>3. TableClosed(StdStreams(fdArr[n]))
  BY <1>2, StdStreamsSet DEF TableClosed
<1>4. /\ fdArr'[n] = StdStreams(fdArr[n])
      /\ \A k \in Pids : k # n => fdArr'[k] = fdArr[k]
  BY <1>1 DEF Inv, Launch
<1>5. \A k \in 1 .. process_count : k \in Pids /\ k # n
  BY <1>1, Numbers DEF Pids
<1>6. /\ AllStreams' = [k \in 1 .. n |-> AllStreams'[k]]
      /\ \A k \in 1 .. n : AllStreams'[k] = StreamsOf(fdArr'[k])
  BY <1>1 DEF AllStreams, StreamsOf, Rest
<1>7. \A k \in 1 .. process_count : AllStreams'[k] = AllStreams[k] /\ k \in 1 .. n
  <2>1. \A k \in 1 .. process_count : k \in 1 .. n
    BY <1>1
  <2>2. QED BY <1>4, <1>5, <1>6, <2>1, StreamsAre
<1>8. AllStreams = [k \in 1 .. process_count |-> AllStreams[k]]
  BY StreamsAre
<1>9. AllStreams'[n] = <<>>
  <2>1. n \in 1 .. n
    BY <1>1
  <2>2. QED BY <1>3, <1>4, <1>6, <2>1, NoStreamsOf
<1>10. AllStreams' = Append(AllStreams, AllStreams'[n])
  BY ONLY <1>1, <1>6, <1>7, <1>8, Extended
<1>11. buf' = <<>>
  BY DEF Launch
<1>12. QED BY <1>9, <1>10, <1>11 DEF Streams!Begin, Streams!NoStreams

\* halt ends the streams of the last process.
LEMMA HaltEnds == ASSUME Inv, Halt PROVE Streams!End
<1> DEFINE n == process_count - 1
<1>1. /\ process_count > 0 /\ process_count' = n /\ process_count \in Nat /\ n \in Nat
      /\ process_count \in Pids
  BY Numbers DEF Inv, Halt, Pids
<1>2. \A k \in Pids : k # process_count => fdArr'[k] = fdArr[k]
  BY <1>1 DEF Inv, Halt
<1>3. \A k \in 1 .. n : k \in Pids /\ k # process_count /\ k \in 1 .. process_count
  BY <1>1, Numbers DEF Pids
<1>4. /\ AllStreams' = [k \in 1 .. n |-> AllStreams'[k]]
      /\ \A k \in 1 .. n : AllStreams'[k] = StreamsOf(fdArr'[k])
  BY <1>1 DEF AllStreams, StreamsOf, Rest
<1>5. \A k \in 1 .. n : AllStreams'[k] = AllStreams[k]
  BY <1>2, <1>3, <1>4, StreamsAre
<1>6. AllStreams = [k \in 1 .. process_count |-> AllStreams[k]]
  BY StreamsAre
<1>7. AllStreams' = Front(AllStreams)
  BY ONLY <1>1, <1>4, <1>5, <1>6, Shortened
<1>8. AllStreams # <<>> /\ buf' = <<>>
  BY <1>1, StreamsAre DEF Halt
<1>9. QED BY <1>7, <1>8 DEF Streams!End, Streams!Front, Front

\* A terminal's shell that restarts has new streams.
LEMMA HaltShellRenews == ASSUME Inv, HaltShell PROVE Streams!Renew
<1>1. /\ process_count > 0 /\ process_count' = process_count /\ process_count \in Pids
      /\ buf' = <<>>
  BY Numbers DEF Inv, HaltShell, Pids
<1> DEFINE table == ClearFiles(Current)
<1>2. Current \in [Fds -> Entries]
  BY <1>1 DEF Inv, Current
<1>3. table \in [Fds -> Entries] /\ TableClosed(table)
  BY <1>2, ClearFilesClosed
<1>4. fdArr' = [fdArr EXCEPT ![process_count] = StdStreams(table)]
  BY DEF HaltShell, Current
<1> HIDE DEF table
<1>5. TableClosed(StdStreams(table))
  BY <1>3, StdStreamsSet DEF TableClosed
<1>6. StreamsOf(StdStreams(table)) = <<>>
  BY <1>5, NoStreamsOf
<1>7. Streams!Own(StreamsOf(StdStreams(table)))
  BY <1>1, <1>4, OwnTable
<1>8. AllStreams # <<>>
  BY <1>1, StreamsAre
<1>9. QED BY <1>1, <1>6, <1>7, <1>8 DEF Streams!Renew, Streams!Own, Streams!NoStreams

\* The streams before and after an entry of a table becomes another.
Changed(table, fd, e, before, after) ==
    /\ fd \in DOMAIN before <=> table[fd].flags = 1
    /\ e.flags = 1 => DOMAIN after = DOMAIN before \cup {fd}
    /\ e.flags = 0 => DOMAIN after = DOMAIN before \ {fd}
    /\ before = [g \in DOMAIN before |-> before[g]]
    /\ after = [g \in DOMAIN after |-> after[g]]
    /\ \A g \in DOMAIN after : after[g] = IF g = fd THEN Rest(e) ELSE before[g]

\* One descriptor of a table changes.
LEMMA StreamChanged ==
    ASSUME NEW table \in [Fds -> Entries], NEW fd \in FilesOf, NEW e \in Entries
    PROVE  Changed(table, fd, e, StreamsOf(table), StreamsOf([table EXCEPT ![fd] = e]))
<1> DEFINE before == StreamsOf(table)
           after == StreamsOf([table EXCEPT ![fd] = e])
<1> DEFINE t == [table EXCEPT ![fd] = e]
           D == {g \in FilesOf : table[g].flags = 1}
           E == {g \in FilesOf : t[g].flags = 1}
<1>1. before = [g \in D |-> Rest(table[g])] /\ after = [g \in E |-> Rest(t[g])]
  BY DEF StreamsOf
<1> HIDE DEF before, after
<1>2. t[fd] = e /\ \A g \in FilesOf : g # fd => t[g] = table[g]
  BY FdsSplit
<1> HIDE DEF t
<1>3. DOMAIN before = D /\ D \subseteq FilesOf /\ E \subseteq FilesOf
  BY <1>1
<1>4. fd \in D <=> table[fd].flags = 1
  OBVIOUS
<1>5. \A g \in FilesOf : g # fd => (g \in D <=> g \in E)
  BY <1>2
<1>6. fd \in E <=> e.flags = 1
  BY <1>2
<1> HIDE DEF D, E
<1>7. \A g \in D : before[g] = Rest(table[g])
  BY ONLY <1>1
<1>8. \A g \in E : after[g] = IF g = fd THEN Rest(e) ELSE before[g]
  <2>1. ASSUME NEW g \in E PROVE after[g] = IF g = fd THEN Rest(e) ELSE before[g]
    <3>1. after[g] = Rest(t[g]) /\ g \in FilesOf
      BY ONLY <1>1, <1>3, <2>1
    <3>2. CASE g = fd
      BY ONLY <1>2, <3>1, <3>2
    <3>3. CASE g # fd
      <4>1. g \in D /\ t[g] = table[g]
        BY ONLY <1>2, <1>5, <2>1, <3>1, <3>3
      <4>2. QED BY ONLY <1>7, <3>1, <3>3, <4>1
    <3>4. QED BY <3>2, <3>3
  <2>2. QED BY <2>1
<1>9. after = [g \in E |-> after[g]]
  BY ONLY <1>1
<1>10. DOMAIN after = E
  BY ONLY <1>1
<1>11. before = [g \in DOMAIN before |-> before[g]]
  BY ONLY <1>1, <1>3
<1>12. e.flags = 1 => E = D \cup {fd}
  BY ONLY <1>3, <1>5, <1>6, fd \in FilesOf
<1>13. e.flags = 0 => E = D \ {fd}
  BY ONLY <1>3, <1>5, <1>6
<1>14. Changed(table, fd, e, before, after)
  BY ONLY <1>3, <1>4, <1>8, <1>9, <1>10, <1>11, <1>12, <1>13 DEF Changed
<1>15. QED BY <1>14 DEF before, after

\* It opens.
LEMMA StreamOpened ==
    ASSUME NEW table \in [Fds -> Entries], NEW fd \in FilesOf, NEW e \in Entries,
           e.flags = 1
    PROVE  StreamsOf([table EXCEPT ![fd] = e]) =
               [g \in DOMAIN StreamsOf(table) \cup {fd} |->
                   IF g = fd THEN Rest(e) ELSE StreamsOf(table)[g]]
<1> DEFINE before == StreamsOf(table)
           after == StreamsOf([table EXCEPT ![fd] = e])
<1>1. Changed(table, fd, e, before, after)
  BY StreamChanged, Zenon
<1> HIDE DEF before, after
<1>2. /\ DOMAIN after = DOMAIN before \cup {fd}
      /\ after = [g \in DOMAIN after |-> after[g]]
      /\ \A g \in DOMAIN after : after[g] = IF g = fd THEN Rest(e) ELSE before[g]
  BY ONLY <1>1, e.flags = 1 DEF Changed
<1>3. after = [g \in DOMAIN before \cup {fd} |-> IF g = fd THEN Rest(e) ELSE before[g]]
  BY ONLY <1>2
<1>4. QED BY <1>3 DEF before, after

\* It was open, and its position moves.
LEMMA StreamMoved ==
    ASSUME NEW table \in [Fds -> Entries], NEW fd \in FilesOf, NEW e \in Entries,
           e.flags = 1, table[fd].flags = 1
    PROVE  StreamsOf([table EXCEPT ![fd] = e]) =
               [StreamsOf(table) EXCEPT ![fd] = Rest(e)]
<1> DEFINE before == StreamsOf(table)
           after == StreamsOf([table EXCEPT ![fd] = e])
<1>1. Changed(table, fd, e, before, after)
  BY StreamChanged, Zenon
<1> HIDE DEF before, after
<1>2. /\ fd \in DOMAIN before /\ DOMAIN after = DOMAIN before \cup {fd}
      /\ before = [g \in DOMAIN before |-> before[g]]
      /\ after = [g \in DOMAIN after |-> after[g]]
      /\ \A g \in DOMAIN after : after[g] = IF g = fd THEN Rest(e) ELSE before[g]
  BY ONLY <1>1, e.flags = 1, table[fd].flags = 1 DEF Changed
<1>3. DOMAIN after = DOMAIN before
  BY ONLY <1>2
<1>4. after = [before EXCEPT ![fd] = Rest(e)]
  BY ONLY <1>2, <1>3
<1>5. QED BY <1>4 DEF before, after

\* It closes.
LEMMA StreamClosed ==
    ASSUME NEW table \in [Fds -> Entries], NEW fd \in FilesOf, NEW e \in Entries,
           e.flags = 0
    PROVE  StreamsOf([table EXCEPT ![fd] = e]) =
               [g \in DOMAIN StreamsOf(table) \ {fd} |-> StreamsOf(table)[g]]
<1> DEFINE before == StreamsOf(table)
           after == StreamsOf([table EXCEPT ![fd] = e])
<1>1. Changed(table, fd, e, before, after)
  BY StreamChanged, Zenon
<1> HIDE DEF before, after
<1>2. /\ DOMAIN after = DOMAIN before \ {fd}
      /\ after = [g \in DOMAIN after |-> after[g]]
      /\ \A g \in DOMAIN after : after[g] = IF g = fd THEN Rest(e) ELSE before[g]
  BY ONLY <1>1, e.flags = 0 DEF Changed
<1>3. after = [g \in DOMAIN before \ {fd} |-> before[g]]
  BY ONLY <1>2
<1>4. QED BY <1>3 DEF before, after

\* The streams are those of the descriptors in use.
LEMMA OpenFds ==
    ASSUME NEW table, NEW fd \in FilesOf
    PROVE  fd \in DOMAIN StreamsOf(table) <=> table[fd].flags = 1
BY DEF StreamsOf

\* A part of a part is a part.
LEMMA PartOfPart ==
    ASSUME NEW c, NEW a \in Nat, NEW b \in Nat, a <= b,
           NEW x \in Nat, NEW y \in Nat, x <= y, y <= b - a
    PROVE  Part(Part(c, a, b), x, y) = Part(c, a + x, a + y)
<1> DEFINE p == Part(c, a, b)
<1>1. \A j \in 1 .. b - a : p[j] = c[a + j]
  BY DEF Part
<1> HIDE DEF p
<1>2. \A j \in 1 .. y - x : p[x + j] = c[(a + x) + j]
  <2>1. ASSUME NEW j \in 1 .. y - x PROVE p[x + j] = c[(a + x) + j]
    <3>1. x + j \in 1 .. b - a /\ a + (x + j) = (a + x) + j
      OBVIOUS
    <3>2. QED BY ONLY <1>1, <3>1
  <2>2. QED BY <2>1
<1>3. (a + y) - (a + x) = y - x
  OBVIOUS
<1>4. Part(p, x, y) = Part(c, a + x, a + y)
  BY ONLY <1>2, <1>3 DEF Part
<1>5. QED BY <1>4 DEF p

\* What n elements from the start of what is left are, and the others.
Splits(c, a, b, n) ==
    /\ Len(Part(c, a, b)) = b - a
    /\ SubSeq(Part(c, a, b), 1, n) = Part(c, a, a + n)
    /\ SubSeq(Part(c, a, b), n + 1, Len(Part(c, a, b))) = Part(c, a + n, b)

\* What is left of a part after reading n bytes of it.
LEMMA PartSplits ==
    ASSUME NEW c, NEW a \in Nat, NEW b \in Nat, a <= b,
           NEW n \in Nat, n <= b - a
    PROVE  Splits(c, a, b, n)
<1> DEFINE p == Part(c, a, b)
           left == b - a
<1>1. /\ left \in Nat /\ n <= left /\ 0 \in Nat /\ 0 <= n /\ left <= left
      /\ a + 0 = a /\ a + left = b /\ 0 + 1 = 1
  OBVIOUS
<1>2. Len(p) = left
  BY DEF Part
<1>3. Part(p, 0, n) = Part(c, a + 0, a + n)
  BY <1>1, PartOfPart
<1>4. Part(p, n, left) = Part(c, a + n, a + left)
  BY <1>1, PartOfPart
<1> HIDE DEF p, left
<1>5. Part(p, 0, n) = SubSeq(p, 0 + 1, n)
  BY ONLY <1>1, n \in Nat, PartIsSubSeq
<1>6. Part(p, n, left) = SubSeq(p, n + 1, left)
  BY ONLY <1>1, n \in Nat, PartIsSubSeq
<1>7. SubSeq(p, 1, n) = Part(c, a, a + n)
  BY ONLY <1>1, <1>3, <1>5
<1>8. SubSeq(p, n + 1, Len(p)) = Part(c, a + n, b)
  BY ONLY <1>1, <1>2, <1>4, <1>6
<1>9. QED BY <1>2, <1>7, <1>8 DEF p, left, Splits

\* What is left of a file.
LEMMA RestOfFile ==
    ASSUME NEW f \in Entries, f.sys_calls = "file"
    PROVE  Rest(f) = Part(Content[f.inode], f.filePosition, iNodes[f.inode].size)
<1> DEFINE size == iNodes[f.inode].size
<1>1. f.inode \in DOMAIN iNodes /\ f.filePosition \in Nat /\ f.filePosition <= size
      /\ size \in Nat
  BY FileSystemAssumption DEF Entries, Fd
<1>2. Len(Content[f.inode]) = size
  BY <1>1 DEF Content
<1>3. Rest(f) = SubSeq(Content[f.inode], f.filePosition + 1, Len(Content[f.inode]))
  BY DEF Rest
<1>4. QED BY <1>1, <1>2, <1>3, PartIsSubSeq

\* The streams of the running process are the last.
LEMMA RunningTable ==
    ASSUME Inv, process_count > 0
    PROVE  /\ Current \in [Fds -> Entries] /\ AllStreams # <<>>
           /\ Last(AllStreams) = StreamsOf(Current)
<1>1. process_count \in Pids
  BY Numbers DEF Inv, Pids
<1>2. QED BY <1>1, StreamsAre DEF Inv, Current

\* close closes a stream.
LEMMA CloseCloses ==
    ASSUME Inv, NEW fd \in Fds, Close(fd) PROVE Streams!CloseStream(fd) /\ fd \in FilesOf
<1> DEFINE e == [Current[fd] EXCEPT !.flags = 0]
           table == [Current EXCEPT ![fd] = e]
<1>1. /\ process_count > 0 /\ process_count' = process_count /\ fd \in FilesOf
      /\ Current[fd].flags = 1 /\ buf' = <<>> /\ fdArr' = [fdArr EXCEPT ![process_count] = table]
  BY DEF Close, IsOpen, Change, Current
<1>2. Current \in [Fds -> Entries] /\ AllStreams # <<>>
      /\ Last(AllStreams) = StreamsOf(Current)
  BY <1>1, RunningTable
<1>3. e \in Entries /\ e.flags = 0
  <2>1. Current[fd] \in Entries
    BY <1>2
  <2>2. QED BY <2>1, EntryFields DEF Entries, Fd
<1> HIDE DEF e
<1>4. /\ fd \in DOMAIN StreamsOf(Current)
      /\ StreamsOf(table) = [g \in DOMAIN StreamsOf(Current) \ {fd} |-> StreamsOf(Current)[g]]
  <2>1. fd \in DOMAIN StreamsOf(Current)
    BY <1>1, OpenFds
  <2>2. StreamsOf(table) = [g \in DOMAIN StreamsOf(Current) \ {fd} |-> StreamsOf(Current)[g]]
    BY ONLY <1>1, <1>2, <1>3, StreamClosed, Zenon
  <2>3. QED BY <2>1, <2>2
<1> HIDE DEF table
<1>5. Streams!Own(StreamsOf(table))
  BY <1>1, OwnTable
<1>6. QED BY <1>1, <1>2, <1>4, <1>5 DEF Streams!CloseStream, Streams!Last, Last

\* open opens one, on the contents of the file named.
LEMMA OpenOpens ==
    ASSUME Inv, NEW name \in Names, Open(name)
    PROVE  \E fd \in FilesOf : name \in DOMAIN StreamContents /\ Streams!OpenStream(fd, name)
<1> DEFINE fd == CHOOSE fd \in FreeFds : \A g \in FreeFds : fd <= g
           e == Opened(dirEntries[FirstMatch(name)])
           table == [Current EXCEPT ![fd] = e]
<1>1. FreeFds \in SUBSET Nat /\ FreeFds # {}
  BY Numbers DEF Open, FreeFds, FilesOf
<1>2. fd \in FilesOf /\ Current[fd].flags # 1
  <2>1. fd \in FreeFds
    BY <1>1, Smallest
  <2>2. QED BY <2>1 DEF FreeFds, IsOpen
<1>3. /\ process_count > 0 /\ process_count' = process_count
      /\ buf' = <<>> /\ fdArr' = [fdArr EXCEPT ![process_count] = table]
      /\ Matches(name) # {}
  BY DEF Open, Change, Current
<1>4. Current \in [Fds -> Entries] /\ AllStreams # <<>>
      /\ Last(AllStreams) = StreamsOf(Current)
  BY <1>3, RunningTable
<1>5. e \in Entries /\ e.flags = 1
  BY <1>3, OpenedSet DEF Opened
<1>6. name \in DOMAIN StreamContents /\ StreamContents[name] = Rest(e)
  BY <1>3 DEF StreamContents
<1> HIDE DEF e, fd
<1>7. /\ fd \notin DOMAIN StreamsOf(Current)
      /\ StreamsOf(table) = [g \in DOMAIN StreamsOf(Current) \cup {fd} |->
                                IF g = fd THEN StreamContents[name] ELSE StreamsOf(Current)[g]]
  <2>1. fd \in DOMAIN StreamsOf(Current) <=> Current[fd].flags = 1
    BY <1>2, OpenFds
  <2>2. StreamsOf(table) = [g \in DOMAIN StreamsOf(Current) \cup {fd} |->
                               IF g = fd THEN Rest(e) ELSE StreamsOf(Current)[g]]
    BY ONLY <1>2, <1>4, <1>5, StreamOpened, Zenon
  <2>3. QED BY ONLY <1>2, <1>6, <2>1, <2>2
<1> HIDE DEF table
<1>8. Streams!Own(StreamsOf(table))
  BY <1>3, OwnTable
<1>9. Streams!OpenStream(fd, name)
  BY <1>3, <1>4, <1>7, <1>8 DEF Streams!OpenStream, Streams!Last, Last
<1>10. QED BY <1>2, <1>6, <1>9

\* A read of n elements, whatever it reads.
LEMMA ReadReads ==
    ASSUME Inv, process_count > 0, process_count' = process_count,
           NEW fd \in FilesOf, IsOpen(fd), NEW asked \in Requests,
           NEW n \in Nat, NEW p \in Nat,
           LET f == Current[fd]
               e == [f EXCEPT !.filePosition = p]
           IN  /\ Change(fd, e) /\ e \in Entries
               /\ n <= asked /\ n <= Len(Rest(f)) /\ (n = 0 => Rest(f) = <<>>)
               /\ Len(Rest(f)) \in Nat
               /\ buf' = SubSeq(Rest(f), 1, n)
               /\ Rest(e) = SubSeq(Rest(f), n + 1, Len(Rest(f)))
    PROVE  Streams!ReadStream(fd, asked)
<1> DEFINE f == Current[fd]
           e == [f EXCEPT !.filePosition = p]
           table == [Current EXCEPT ![fd] = e]
           S == StreamsOf(Current)
<1>1. fdArr' = [fdArr EXCEPT ![process_count] = table]
  BY DEF Change, Current
<1>2. Current \in [Fds -> Entries] /\ AllStreams # <<>> /\ Last(AllStreams) = S
  BY RunningTable
<1>3. f.flags = 1 /\ e.flags = 1
  <2>1. f \in Entries
    BY <1>2, FdsSplit
  <2>2. QED BY <2>1 DEF IsOpen, Entries, Fd
<1>4. e \in Entries
  OBVIOUS
<1>5. /\ fd \in DOMAIN S /\ StreamsOf(table) = [S EXCEPT ![fd] = Rest(e)]
  <2>1. Current[fd].flags = 1
    BY <1>3
  <2> HIDE DEF e, f
  <2>2. fd \in DOMAIN StreamsOf(Current)
    BY <2>1, OpenFds
  <2>3. StreamsOf(table) = [StreamsOf(Current) EXCEPT ![fd] = Rest(e)]
    BY ONLY <1>2, <1>3, <1>4, <2>1, fd \in FilesOf, StreamMoved, ZenonT(40)
  <2>4. QED BY <2>2, <2>3
<1>6. S[fd] = Rest(f)
  BY <1>3 DEF StreamsOf
<1> HIDE DEF table
<1>7. Streams!Own(StreamsOf(table))
  BY <1>1, OwnTable
<1>8. /\ n \in 0 .. Len(S[fd]) /\ n <= asked /\ (n = 0 => S[fd] = <<>>)
      /\ buf' = SubSeq(S[fd], 1, n)
      /\ Streams!Own([S EXCEPT ![fd] = SubSeq(S[fd], n + 1, Len(S[fd]))])
  <2>1. n \in 0 .. Len(Rest(f))
    OBVIOUS
  <2>2. StreamsOf(table) = [S EXCEPT ![fd] = SubSeq(S[fd], n + 1, Len(S[fd]))]
    BY <1>5, <1>6
  <2>3. QED BY <1>6, <1>7, <2>1, <2>2
<1> HIDE DEF S, f, e
<1>9. QED BY ONLY <1>2, <1>5, <1>8 DEF Streams!ReadStream, Streams!Last, Last

\* A read of a file.
LEMMA FileReads ==
    ASSUME Inv, NEW fd \in Fds, NEW nbytes \in Requests, ReadFile(fd, nbytes)
    PROVE  Streams!ReadStream(fd, nbytes) /\ fd \in FilesOf
<1> DEFINE f == Current[fd]
           size == iNodes[f.inode].size
           c == Content[f.inode]
           pos == f.filePosition
           bytes == read_data(f.inode, pos, nbytes)
           n == Len(bytes)
           p == pos + n
           e == [f EXCEPT !.filePosition = p]
<1>1. /\ process_count > 0 /\ process_count' = process_count
      /\ fd \in FilesOf /\ IsOpen(fd) /\ f.sys_calls = "file"
      /\ buf' = bytes /\ Change(fd, e)
  BY DEF ReadFile
<1>2. f \in Entries
  BY <1>1, RunningTable
<1>3. /\ size \in Nat /\ pos \in 0 .. size /\ n \in Nat /\ p \in Nat /\ p <= size
      /\ n <= nbytes /\ (n = 0 => p = size) /\ bytes = Part(c, pos, p)
  <2> HIDE DEF f
  <2>1. QED BY <1>1, <1>2, ReadFileGives
<1>4. e \in Entries /\ e.inode = f.inode /\ e.filePosition = p /\ e.sys_calls = "file"
  <2> HIDE DEF f, bytes
  <2>1. e \in Entries
    BY <1>1, <1>2, <1>3, EntryFields
  <2>2. e.inode = f.inode /\ e.filePosition = p /\ e.sys_calls = "file"
    BY <1>1, <1>2 DEF Entries, Fd
  <2>3. QED BY <2>1, <2>2
<1>5. Rest(f) = Part(c, pos, size) /\ Rest(e) = Part(c, p, size)
  <2>1. Rest(f) = Part(c, pos, size)
    BY <1>1, <1>2, RestOfFile
  <2>2. Rest(e) = Part(Content[e.inode], e.filePosition, iNodes[e.inode].size)
    <3> HIDE DEF e
    <3>1. QED BY <1>4, RestOfFile
  <2> HIDE DEF e, f
  <2>3. QED BY <1>4, <2>1, <2>2
<1> HIDE DEF size, c, pos, bytes, n
<1>6. /\ Len(Rest(f)) = size - pos
      /\ SubSeq(Rest(f), 1, n) = bytes
      /\ SubSeq(Rest(f), n + 1, Len(Rest(f))) = Rest(e)
  <2>1. n <= size - pos /\ pos \in Nat /\ pos <= size
    BY ONLY <1>3 DEF p
  <2>2. /\ Len(Part(c, pos, size)) = size - pos
        /\ SubSeq(Part(c, pos, size), 1, n) = Part(c, pos, pos + n)
        /\ SubSeq(Part(c, pos, size), n + 1, Len(Part(c, pos, size))) = Part(c, pos + n, size)
    <3>1. Splits(c, pos, size, n)
      BY ONLY <1>3, <2>1, PartSplits
    <3>2. QED BY ONLY <3>1 DEF Splits
  <2> HIDE DEF f, e
  <2>3. QED BY ONLY <1>3, <1>5, <2>2 DEF p
<1>7. n <= Len(Rest(f)) /\ Len(Rest(f)) \in Nat /\ (n = 0 => Rest(f) = <<>>)
  <2>1. n <= size - pos /\ size - pos \in Nat
    BY ONLY <1>3 DEF p
  <2>2. ASSUME n = 0 PROVE Rest(f) = <<>>
    <3>1. size - pos = 0
      BY ONLY <1>3, <2>2 DEF p
    <3>2. Part(c, pos, size) = <<>>
      BY ONLY <3>1 DEF Part
    <3> HIDE DEF f, e
    <3>3. QED BY ONLY <1>5, <3>2
  <2> HIDE DEF f, e
  <2>3. QED BY <1>6, <2>1, <2>2
<1>8. nbytes >= n
  BY <1>3
<1> HIDE DEF p
<1>9. Streams!ReadStream(fd, nbytes)
  BY <1>1, <1>3, <1>4, <1>6, <1>7, ReadReads
<1>10. QED BY <1>1, <1>9

\* A read of a directory: the next name, or nothing after the last.
LEMMA DirectoryReads ==
    ASSUME Inv, NEW fd \in Fds, NEW asked \in Requests, ReadDirectory(fd)
    PROVE  Streams!ReadStream(fd, asked) /\ fd \in FilesOf
<1> DEFINE f == Current[fd]
           pos == f.filePosition
           p == pos + 1
           e == [f EXCEPT !.filePosition = p]
<1>1. /\ process_count > 0 /\ process_count' = process_count
      /\ fd \in FilesOf /\ IsOpen(fd) /\ f.sys_calls = "dir"
      /\ pos < SIXTYTHREE /\ Change(fd, e)
      /\ buf' = IF dirEntries[pos].fileName = NoName THEN <<>>
                ELSE <<dirEntries[pos].fileName>>
  BY DEF ReadDirectory
<1>2. f \in Entries
  BY <1>1, RunningTable
<1>3. pos \in Nat /\ p \in Nat
  BY <1>2 DEF Entries, Fd
<1>4. e \in Entries /\ e.filePosition = p /\ e.sys_calls = "dir"
  <2> HIDE DEF f
  <2>1. e \in Entries
    BY <1>1, <1>2, <1>3, EntryFields
  <2>2. e.filePosition = p /\ e.sys_calls = "dir"
    BY <1>1, <1>2 DEF Entries, Fd
  <2>3. QED BY <2>1, <2>2
<1>5. dirEntry \in Nat /\ Len(Listing) = dirEntry
      /\ \A k \in 1 .. dirEntry : Listing[k] = dirEntries[k - 1].fileName
  BY FileSystemAssumption DEF Listing
<1>6. Rest(f) = SubSeq(Listing, pos + 1, dirEntry)
      /\ Rest(e) = SubSeq(Listing, p + 1, dirEntry)
  BY <1>1, <1>4, <1>5 DEF Rest
<1>7. asked \in Nat /\ asked >= 1
  BY DescriptorAssumption
<1>8. CASE pos < dirEntry
  <2>1. Rest(f) = Part(Listing, pos, dirEntry)
    <3>1. pos <= dirEntry
      BY <1>3, <1>5, <1>8
    <3> HIDE DEF f, pos
    <3>2. QED BY ONLY <1>3, <1>5, <1>6, <3>1, PartIsSubSeq
  <2>2. p <= dirEntry
    BY <1>3, <1>5, <1>8
  <2>3. Rest(e) = Part(Listing, p, dirEntry)
    BY <1>3, <1>5, <1>6, <2>2, PartIsSubSeq
  <2>4. dirEntries[pos].fileName # NoName
    BY <1>3, <1>8, FileSystemAssumption
  <2>5. buf' = <<dirEntries[pos].fileName>>
    BY <1>1, <2>4
  <2>6. /\ pos <= dirEntry /\ 1 \in Nat /\ 1 <= dirEntry - pos /\ p - pos = 1
        /\ dirEntry - pos \in Nat
    BY <1>3, <1>5, <1>8
  <2> HIDE DEF pos
  <2>7. /\ Len(Part(Listing, pos, dirEntry)) = dirEntry - pos
        /\ SubSeq(Part(Listing, pos, dirEntry), 1, 1) = Part(Listing, pos, pos + 1)
        /\ SubSeq(Part(Listing, pos, dirEntry), 1 + 1, Len(Part(Listing, pos, dirEntry)))
               = Part(Listing, pos + 1, dirEntry)
    <3>1. Splits(Listing, pos, dirEntry, 1)
      BY ONLY <1>3, <1>5, <2>6, PartSplits
    <3>2. QED BY ONLY <3>1 DEF Splits
  <2>9. Part(Listing, pos, p) = <<Listing[pos + 1]>>
    BY ONLY <1>3, <2>6 DEF Part, p
  <2>10. Listing[pos + 1] = dirEntries[pos].fileName
    <3>1. pos + 1 \in 1 .. dirEntry /\ (pos + 1) - 1 = pos
      BY ONLY <1>3, <1>5, <1>8
    <3>2. QED BY ONLY <1>5, <3>1
  <2>11. /\ buf' = SubSeq(Rest(f), 1, 1)
         /\ Len(Rest(f)) = dirEntry - pos
         /\ Rest(e) = SubSeq(Rest(f), 1 + 1, Len(Rest(f)))
    <3> HIDE DEF f, e
    <3>1. Len(Rest(f)) = dirEntry - pos
      BY ONLY <2>1, <2>7
    <3>2. SubSeq(Rest(f), 1, 1) = <<dirEntries[pos].fileName>>
      BY ONLY <2>1, <2>7, <2>9, <2>10 DEF p
    <3>3. SubSeq(Rest(f), 1 + 1, Len(Rest(f))) = Rest(e)
      BY ONLY <2>1, <2>3, <2>7 DEF p
    <3>4. QED BY <2>5, <3>1, <3>2, <3>3
  <2>12. 1 <= Len(Rest(f)) /\ Len(Rest(f)) \in Nat /\ 1 <= asked /\ 1 # 0 /\ 1 \in Nat
    <3> HIDE DEF f
    <3>1. QED BY <1>7, <2>6, <2>11
  <2> HIDE DEF p
  <2>13. QED BY ONLY <1>1, <1>3, <1>4, <2>11, <2>12, Inv, fd \in Fds,
                     asked \in Requests, ReadReads
<1>9. CASE ~(pos < dirEntry)
  <2>1. dirEntries[pos].fileName = NoName
    BY <1>1, <1>3, <1>9, FileSystemAssumption
  <2>2. buf' = <<>>
    BY <1>1, <2>1
  <2>3. Rest(f) = <<>> /\ Rest(e) = <<>>
    <3>1. pos + 1 > dirEntry /\ p + 1 > dirEntry /\ pos + 1 \in Int /\ p + 1 \in Int
      BY <1>3, <1>5, <1>9
    <3> HIDE DEF f, e, pos, p
    <3>2. QED BY ONLY <1>5, <1>6, <3>1
  <2>4. /\ 0 \in Nat /\ 0 <= asked /\ Len(Rest(f)) = 0 /\ 0 <= Len(Rest(f))
        /\ Len(Rest(f)) \in Nat
        /\ buf' = SubSeq(Rest(f), 1, 0)
        /\ Rest(e) = SubSeq(Rest(f), 0 + 1, Len(Rest(f)))
    <3> HIDE DEF f, e
    <3>1. QED BY <1>7, <2>2, <2>3
  <2> HIDE DEF p
  <2>5. QED BY ONLY <1>1, <1>3, <1>4, <2>3, <2>4, Inv, fd \in Fds,
                    asked \in Requests, ReadReads
<1>10. QED BY <1>8, <1>9

\* Every call is a step of the streams, or changes nothing they are made of.
LEMMA StreamsStep ==
    ASSUME Inv, [Next]_vars PROVE [Streams!StreamsNext]_(Streams!streamVars)
<1>1. CASE Launch
  BY <1>1, LaunchBegins DEF Streams!StreamsNext
<1>2. CASE Halt
  BY <1>2, HaltEnds DEF Streams!StreamsNext
<1>3. CASE HaltShell
  BY <1>3, HaltShellRenews DEF Streams!StreamsNext
<1>4. CASE OtherCall
  <2>1. AllStreams' = AllStreams /\ buf' = <<>>
    BY <1>4 DEF OtherCall, AllStreams, StreamsOf, Rest
  <2>2. QED BY <2>1 DEF Streams!StreamsNext, Streams!NothingGiven
<1>5. ASSUME NEW filename \in Names, Open(filename) PROVE Streams!StreamsNext
  BY <1>5, OpenOpens DEF Streams!StreamsNext
<1>6. ASSUME NEW fd \in Fds, Close(fd) PROVE Streams!StreamsNext
  BY <1>6, CloseCloses DEF Streams!StreamsNext
<1>7. ASSUME NEW fd \in Fds, ReadDirectory(fd) PROVE Streams!StreamsNext
  <2>1. PICK asked \in Requests : TRUE
    BY DescriptorAssumption
  <2>2. QED BY <1>7, DirectoryReads DEF Streams!StreamsNext
<1>8. ASSUME NEW fd \in Fds, NEW nbytes \in Requests, ReadFile(fd, nbytes)
      PROVE  Streams!StreamsNext
  BY <1>8, FileReads DEF Streams!StreamsNext
<1>9. CASE UNCHANGED vars
  BY <1>9 DEF vars, AllStreams, StreamsOf, Rest, Streams!streamVars
<1>10. QED
  BY <1>1, <1>2, <1>3, <1>4, <1>5, <1>6, <1>7, <1>8, <1>9 DEF Next

\* The tables implement streams: every call on descriptors is a step that
\* FileStreams allows to the running process's own streams, or none.
THEOREM StreamsCorrect == Spec => AreStreams
<1>1. Init => Streams!StreamsInit
  <2>1. Init => AllStreams = <<>>
    BY DEF Init, AllStreams
  <2>2. QED BY <2>1 DEF Init, Streams!StreamsInit
<1>2. Inv /\ [Next]_vars => [Streams!StreamsNext]_(Streams!streamVars)
  BY StreamsStep
<1>3. QED BY <1>1, <1>2, InvCorrect, PTL DEF Spec, AreStreams, Streams!StreamsSpec

=============================================================================
