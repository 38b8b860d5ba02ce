-------------------------- MODULE MCFileDescriptors --------------------------
(***************************************************************************)
(* An image for TLC, of blocks of 2 bytes.  The files have 0 to 5 bytes;   *)
(* the programs of the instance open the directory, the rtc and the file of *)
(* 3 bytes, whose second block comes before the first one on the disk.     *)
(* The bytes of a file are all different.                                  *)
(***************************************************************************)
EXTENDS FileDescriptors

Entry(name, type, inode) ==
    [fileName |-> name, fileType |-> type, iNodeNumber |-> inode]

MCdirEntries ==
    0 :> Entry(".", 1, 0) @@ 1 :> Entry("file", 2, 3) @@ 2 :> Entry("rtc", 0, 0) @@
    3 :> Entry("", 0, 0)

MCiNodes ==
    [inode \in 0 .. 5 |->
        [size |-> inode, dataBlockArr |-> 0 :> 2 @@ 1 :> 1 @@ 2 :> 0]]

MCdataBlocks ==
    0 :> (0 :> "e" @@ 1 :> "f") @@ 1 :> (0 :> "c" @@ 1 :> "d") @@
    2 :> (0 :> "a" @@ 1 :> "b")

MCBytes == {"a", "b", "c", "d", "e", "f"}
=============================================================================
