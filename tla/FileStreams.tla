----------------------------- MODULE FileStreams -----------------------------
(***************************************************************************)
(* What files promise to programs.  Processes form a stack.  Each has some *)
(* streams open.  A stream is what is left to read of a file or of a list  *)
(* of names; the program at the top opens, reads and closes its own        *)
(* streams, and starts and ends without any.                               *)
(***************************************************************************)
EXTENDS Integers, Sequences, SequencesExt

CONSTANTS Contents,   \* name -> what a stream opened by that name gives
          Fds,        \* numbers streams are known by
          Requests    \* how much may be asked for in one read

VARIABLES tables,     \* per process, number -> what is left
          given       \* what the last call gave

streamVars == <<tables, given>>

NoStreams == <<>>

StreamsInit == tables = <<>> /\ given = <<>>

Begin == tables' = Append(tables, NoStreams) /\ given' = <<>>
End == tables # <<>> /\ tables' = Front(tables) /\ given' = <<>>
Renew == /\ tables # <<>>
         /\ tables' = Append(Front(tables), NoStreams)
         /\ given' = <<>>

Own(table) == tables' = Append(Front(tables), table)

OpenStream(fd, name) ==
    /\ tables # <<>> /\ fd \notin DOMAIN Last(tables)
    /\ Own([g \in DOMAIN Last(tables) \cup {fd} |->
                IF g = fd THEN Contents[name] ELSE Last(tables)[g]])
    /\ given' = <<>>

CloseStream(fd) ==
    /\ tables # <<>> /\ fd \in DOMAIN Last(tables)
    /\ Own([g \in DOMAIN Last(tables) \ {fd} |-> Last(tables)[g]])
    /\ given' = <<>>

\* A read gives what comes next, and nothing only at the end.
ReadStream(fd, asked) ==
    /\ tables # <<>> /\ fd \in DOMAIN Last(tables)
    /\ LET left == Last(tables)[fd] IN
       \E n \in 0 .. Len(left) :
          /\ n <= asked /\ (n = 0 => left = <<>>)
          /\ given' = SubSeq(left, 1, n)
          /\ Own([Last(tables) EXCEPT ![fd] = SubSeq(left, n + 1, Len(left))])

NothingGiven == given' = <<>> /\ UNCHANGED tables

StreamsNext ==
    \/ Begin \/ End \/ Renew \/ NothingGiven
    \/ \E fd \in Fds :
          \/ \E name \in DOMAIN Contents : OpenStream(fd, name)
          \/ CloseStream(fd)
          \/ \E asked \in Requests : ReadStream(fd, asked)

StreamsSpec == StreamsInit /\ [][StreamsNext]_streamVars

=============================================================================
