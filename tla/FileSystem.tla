----------------------------- MODULE FileSystem -----------------------------
(***************************************************************************)
(* The read-only file system image (filesys.c): a boot block with an array *)
(* of directory entries, index nodes, and data blocks.  The image never    *)
(* changes, so that it is constants here, and looking a name up or reading *)
(* bytes is an operator.                                                   *)
(*                                                                         *)
(* A name is one value: strings equal in the first 31 characters, which    *)
(* strncmp compares, are the same name.                                    *)
(***************************************************************************)
EXTENDS Integers, Sequences, SequencesExt

CONSTANTS
    FOURKB,       \* bytes in a data block
    THIRTYTWO,    \* entries searched by name
    SIXTYTHREE,   \* entries in the boot block
    UNSIGNED,     \* 2^32, where uint32_t wraps
    Bytes,
    NoName,       \* the name of an unused entry
    dirEntries,   \* 0 .. 62 -> [fileName, fileType, iNodeNumber]
    dirEntry,     \* how many of them are used
    iNodes,       \* inode -> [size, dataBlockArr]
    dataBlocks    \* block -> its bytes, from 0

FileTypes == 0 .. 2   \* rtc, directory, file

ASSUME FileSystemAssumption ==
    /\ FOURKB \in Nat \ {0}
    /\ THIRTYTWO \in Nat /\ SIXTYTHREE \in Nat /\ UNSIGNED \in Nat
    /\ dirEntry \in 0 .. SIXTYTHREE
    /\ DOMAIN dirEntries = 0 .. SIXTYTHREE - 1
    /\ \A k \in 0 .. dirEntry - 1 :
          /\ dirEntries[k].fileType \in FileTypes
          /\ dirEntries[k].fileName # NoName
          /\ dirEntries[k].iNodeNumber \in DOMAIN iNodes
    /\ \A k \in dirEntry .. SIXTYTHREE - 1 : dirEntries[k].fileName = NoName
    /\ DOMAIN iNodes \subseteq Nat
    /\ \A inode \in DOMAIN iNodes :
          /\ iNodes[inode].size \in 0 .. UNSIGNED - 1
          /\ \A k \in 0 .. iNodes[inode].size - 1 :
                iNodes[inode].dataBlockArr[k \div FOURKB] \in DOMAIN dataBlocks
    /\ \A block \in DOMAIN dataBlocks :
          dataBlocks[block] \in [0 .. FOURKB - 1 -> Bytes]

\* read_dentry_by_name: the first match in the part that is searched
Matches(fname) ==
    {k \in 0 .. THIRTYTWO - 1 :
        k < SIXTYTHREE /\ dirEntries[k].fileName = fname}

FirstMatch(fname) ==
    CHOOSE k \in Matches(fname) : \A l \in Matches(fname) : k <= l

\* What one round of read_data's loop copies.
Copied(inode, i, begin, end) ==
    [k \in 1 .. end - begin |->
        dataBlocks[iNodes[inode].dataBlockArr[i]][begin + k - 1]]

\* Mutant of read_data: the loop ends before the last block (bug_log.txt,
\* BUG 16, has the loop terminate at an incorrect value).
read_data_short(inode, offset, length) ==
    LET left == (iNodes[inode].size - offset) % UNSIGNED
        len == IF left < length THEN left ELSE length
        Round(i) ==
            Copied(inode, i,
                   IF i * FOURKB < offset THEN offset - FOURKB * i ELSE 0,
                   IF (i + 1) * FOURKB > offset + len
                     THEN len + offset - FOURKB * i ELSE FOURKB)
        first == offset \div FOURKB
        last == (len + offset) \div FOURKB
    IN  FlattenSeq([k \in 1 .. last - first |-> Round(first + k - 1)])

\* The bytes read_data puts into buf; their number is what it returns.
read_data(inode, offset, length) ==
    LET left == (iNodes[inode].size - offset) % UNSIGNED
        len == IF left < length THEN left ELSE length
        Round(i) ==
            Copied(inode, i,
                   IF i * FOURKB < offset THEN offset - FOURKB * i ELSE 0,
                   IF (i + 1) * FOURKB > offset + len
                     THEN len + offset - FOURKB * i ELSE FOURKB)
        first == offset \div FOURKB
        last == (len + offset) \div FOURKB
    IN  FlattenSeq([k \in 1 .. last - first + 1 |-> Round(first + k - 1)])

\* What a file or a directory is meant to hold: the bytes of a file one after
\* the other, the names of a directory.
Content ==
    [inode \in DOMAIN iNodes |->
        [k \in 1 .. iNodes[inode].size |->
            dataBlocks[iNodes[inode].dataBlockArr[(k - 1) \div FOURKB]]
                      [(k - 1) % FOURKB]]]

FileNames == {dirEntries[k].fileName : k \in 0 .. dirEntry - 1}
Listing == [k \in 1 .. dirEntry |-> dirEntries[k - 1].fileName]

=============================================================================
