--------------------------- MODULE ProcessesProof ---------------------------
(***************************************************************************)
(* Proofs about process control, for any process limit, any programs and   *)
(* any moment of the timer's ticks, with or without input before them:     *)
(* types, the process limit, the ids in PCBs and the height of kernel      *)
(* stacks.                                                                 *)
(*                                                                         *)
(* execute tests process_count long before it increments it, and the timer *)
(* may launch shells in between.  That the test still counts comes from    *)
(* the nesting of activations: when control comes back to one,             *)
(* process_count is what it was when control left.  So every activation on *)
(* every kernel stack has a level, the process_count it last saw and will  *)
(* see again.  Pushing, popping and changing activations gives stacks with *)
(* levels again.                                                           *)
(***************************************************************************)
EXTENDS Processes, SequenceTheorems, TLAPS

\* Between the test of the limit and the increment, or after a decrement.
Window == {"lookup", "find", "mark", "map", "copy1", "copy2", "pcb", "count",
           "jump"}

\* execute has incremented process_count.
Counted == {"context", "iret", "launched"}

\* Activation a may be where it is when process_count is c.
Fits(a, c) ==
    /\ a.pc \in Window => c < MAXPROCESS
    /\ a.pc \in {"count", "jump"} => a.new = c + 1
    /\ a.pc \in {"context", "iret"} => a.new = c
    /\ a.pc \in Counted => a.new >= 1
    /\ a.pc = "jump" => a.new >= 2
    /\ a.pc \in {"begin", "jump", "linkage", "popa"} => a.caller = "syscall"

\* Activation i of stack s called execute in line 94 of halt; it never goes on.
Ended(s, i) == i < Len(s) /\ s[i + 1].caller = "halt"

\* Only the outermost activation of a stack comes from a user program, and
\* there is one then.
Placed(s, i, c) ==
    /\ s[i].over # NoUser => i = 1 /\ (c >= 1 \/ Ended(s, i))
    /\ s[i].over = NoUser => i > 1 \/ s[i].caller = "entry"
    /\ s[i].caller = "syscall" => s[i].over # NoUser

\* The process_count beneath activation a, which sees c.
Beneath(a, c) == IF a.pc \in Counted THEN a.new - 1 ELSE c

Counts == 0 .. MAXPROCESS

\* level gives the process_count of every activation of stack s.
Levels(s, level) ==
    /\ level \in [1 .. Len(s) -> Counts]
    /\ \A i \in 1 .. Len(s) : Fits(s[i], level[i]) /\ Placed(s, i, level[i])
    /\ \A i \in 1 .. Len(s) - 1 : level[i] = Beneath(s[i + 1], level[i + 1])

-----------------------------------------------------------------------------
\* A stack of one activation.
LEMMA SingleLevels ==
    ASSUME NEW a \in Activations, NEW c \in Counts,
           Fits(a, c),
           a.over # NoUser, c >= 1
    PROVE  /\ <<a>> \in Seq(Activations) /\ Len(<<a>>) = 1
           /\ Levels(<<a>>, [i \in 1 .. 1 |-> c])
  BY DEF Levels, Placed

\* What changing the last element of a stack does.
LEMMA SetLastProperties ==
    ASSUME NEW s \in Seq(Activations), s # <<>>, NEW a \in Activations
    PROVE  /\ Len(s) \in Nat /\ Len(s) >= 1
           /\ SetLast(s, a) \in Seq(Activations)
           /\ Len(SetLast(s, a)) = Len(s)
           /\ SetLast(s, a)[Len(s)] = a
           /\ \A i \in 1 .. Len(s) - 1 : SetLast(s, a)[i] = s[i]
  <1>1. Len(s) \in Nat /\ Len(s) >= 1
    BY EmptySeq
  <1>2. Len(s) \in 1 .. Len(s)
    BY <1>1
  <1> QED BY <1>1, <1>2, ExceptSeq DEF SetLast

\* The activation at the top moves on.  Either what it says of the level below
\* stays, or there is nothing below because it comes from a user program.
LEMMA SetLastLevels ==
    ASSUME NEW s \in Seq(Activations), s # <<>>, NEW level, Levels(s, level),
           NEW a \in Activations, NEW c \in Counts,
           a.over = s[Len(s)].over, a.caller = s[Len(s)].caller,
           Fits(a, c),
           a.over # NoUser => c >= 1,
           \/ Beneath(a, c) = Beneath(s[Len(s)], level[Len(s)])
           \/ a.over # NoUser
    PROVE  Levels(SetLast(s, a), [level EXCEPT ![Len(s)] = c])
  <1> DEFINE n == Len(s)
             t == SetLast(s, a)
             new == [level EXCEPT ![n] = c]
  <1>1. /\ n \in Nat /\ n >= 1 /\ Len(t) = n /\ t[n] = a
        /\ \A i \in 1 .. n - 1 : t[i] = s[i]
    BY SetLastProperties
  <1>2. /\ level \in [1 .. n -> Counts]
        /\ \A i \in 1 .. n : Fits(s[i], level[i]) /\ Placed(s, i, level[i])
        /\ \A i \in 1 .. n - 1 : level[i] = Beneath(s[i + 1], level[i + 1])
    BY DEF Levels
  <1> HIDE DEF t
  <1>3. /\ new \in [1 .. n -> Counts] /\ new[n] = c
        /\ \A i \in 1 .. n - 1 : new[i] = level[i]
    BY <1>1, <1>2
  <1> HIDE DEF new
  <1>4. \A i \in 1 .. n - 1 : t[i + 1].caller = s[i + 1].caller
    BY <1>1
  <1>5. ASSUME NEW i \in 1 .. n PROVE Fits(t[i], new[i]) /\ Placed(t, i, new[i])
    <2>1. CASE i = n
      <3>1. Placed(s, n, level[n])
        BY <1>1, <1>2
      <3>2. Fits(t[i], new[i])
        BY <2>1, <1>1, <1>3
      <3>3. Placed(t, n, c)
        BY <3>1, <1>1 DEF Placed
      <3> QED BY <2>1, <3>2, <3>3, <1>3
    <2>2. CASE i # n
      <3>1. i \in 1 .. n - 1 /\ i \in 1 .. n
        BY <2>2, <1>1
      <3>2. t[i] = s[i] /\ new[i] = level[i]
        BY <3>1, <1>1, <1>3
      <3>3. Ended(t, i) <=> Ended(s, i)
        BY <3>1, <1>1, <1>4 DEF Ended
      <3>4. Fits(s[i], level[i]) /\ Placed(s, i, level[i])
        BY <1>2
      <3>5. Placed(t, i, level[i])
        BY <3>2, <3>3, <3>4 DEF Placed
      <3> QED BY <3>2, <3>4, <3>5
    <2> QED BY <2>1, <2>2
  <1>6. ASSUME NEW i \in 1 .. n - 1
        PROVE  new[i] = Beneath(t[i + 1], new[i + 1])
    <2>1. level[i] = Beneath(s[i + 1], level[i + 1]) /\ new[i] = level[i]
      BY <1>2, <1>3
    <2>2. CASE i + 1 = n
      <3>1. a.over = NoUser
        <4>1. Placed(s, n, level[n]) /\ n # 1
          BY <1>1, <1>2, <2>2
        <4> QED BY <4>1 DEF Placed
      <3> QED BY <3>1, <2>1, <2>2, <1>1, <1>3
    <2>3. CASE i + 1 # n
      <3>1. i + 1 \in 1 .. n - 1
        BY <2>3, <1>1
      <3> QED BY <3>1, <2>1, <1>1, <1>3
    <2> QED BY <2>2, <2>3
  <1>7. Levels(t, new)
    BY <1>1, <1>3, <1>5, <1>6 DEF Levels
  <1> QED BY <1>7 DEF t, new

\* What pushing an element does.
LEMMA AppendKeeps ==
    ASSUME NEW s \in Seq(Activations), NEW a \in Activations
    PROVE  /\ Append(s, a) \in Seq(Activations)
           /\ Len(Append(s, a)) = Len(s) + 1
           /\ Append(s, a)[Len(s) + 1] = a
           /\ \A i \in 1 .. Len(s) : Append(s, a)[i] = s[i]
  OBVIOUS

\* An interrupt pushes an activation; it sees the same process_count.
LEMMA PushLevels ==
    ASSUME NEW s \in Seq(Activations), s # <<>>, NEW level, Levels(s, level),
           NEW a \in Activations, a.pc \notin Counted, a.over = NoUser,
           a.caller = "pit", Fits(a, level[Len(s)])
    PROVE  /\ Append(s, a) \in Seq(Activations)
           /\ Len(Append(s, a)) = Len(s) + 1
           /\ Levels(Append(s, a), [i \in 1 .. Len(s) + 1 |->
                        IF i <= Len(s) THEN level[i] ELSE level[Len(s)]])
  <1> DEFINE n == Len(s)
             t == Append(s, a)
             new == [i \in 1 .. n + 1 |-> IF i <= n THEN level[i] ELSE level[n]]
  <1>1. n \in Nat /\ n >= 1
    BY EmptySeq
  <1>2. /\ t \in Seq(Activations) /\ Len(t) = n + 1 /\ t[n + 1] = a
        /\ \A i \in 1 .. n : t[i] = s[i]
    BY AppendKeeps
  <1>3. /\ level \in [1 .. n -> Counts]
        /\ \A i \in 1 .. n : Fits(s[i], level[i]) /\ Placed(s, i, level[i])
        /\ \A i \in 1 .. n - 1 : level[i] = Beneath(s[i + 1], level[i + 1])
    BY DEF Levels
  <1> HIDE DEF t
  <1>4. /\ new \in [1 .. n + 1 -> Counts]
        /\ new[n] = level[n] /\ new[n + 1] = level[n]
        /\ \A i \in 1 .. n : new[i] = level[i]
    BY <1>1, <1>3
  <1> HIDE DEF new
  <1>5. ASSUME NEW i \in 1 .. n + 1
        PROVE  Fits(t[i], new[i]) /\ Placed(t, i, new[i])
    <2>1. CASE i = n + 1
      <3>1. Fits(t[i], new[i])
        BY <2>1, <1>2, <1>4
      <3>2. Placed(t, n + 1, new[n + 1])
        BY <1>1, <1>2 DEF Placed
      <3> QED BY <2>1, <3>1, <3>2
    <2>2. CASE i # n + 1
      <3>1. i \in 1 .. n
        BY <2>2, <1>1
      <3>2. t[i] = s[i] /\ new[i] = level[i]
        BY <3>1, <1>2, <1>4
      <3>3. Ended(s, i) => Ended(t, i)
        <4>1. ASSUME i < n PROVE i + 1 \in 1 .. n
          BY <4>1, <3>1, <1>1
        <4>2. i < n => t[i + 1] = s[i + 1]
          BY <4>1, <1>2
        <4>3. i < n => i < Len(t)
          BY <3>1, <1>1, <1>2
        <4> QED BY <4>2, <4>3 DEF Ended
      <3>4. Fits(s[i], level[i]) /\ Placed(s, i, level[i])
        BY <3>1, <1>3
      <3>5. Placed(t, i, level[i])
        BY <3>2, <3>3, <3>4 DEF Placed
      <3> QED BY <3>2, <3>4, <3>5
    <2> QED BY <2>1, <2>2
  <1>6. ASSUME NEW i \in 1 .. n
        PROVE  new[i] = Beneath(t[i + 1], new[i + 1])
    <2>1. CASE i = n
      BY <2>1, <1>2, <1>4 DEF Beneath
    <2>2. CASE i # n
      <3>1. i \in 1 .. n - 1 /\ i + 1 \in 1 .. n
        BY <2>2, <1>1
      <3> QED BY <3>1, <1>2, <1>3, <1>4
    <2> QED BY <2>1, <2>2
  <1>7. (n + 1) - 1 = n
    BY <1>1
  <1>8. Levels(t, new)
    BY <1>2, <1>4, <1>5, <1>6, <1>7 DEF Levels
  <1> QED BY <1>2, <1>8 DEF t, new

\* halt pushes its call of execute on the only activation there is.
LEMMA HaltPushLevels ==
    ASSUME NEW s \in Seq(Activations), Len(s) = 1,
           NEW a \in Activations, a.pc \notin Counted, a.over = NoUser,
           a.caller = "halt", NEW c \in Counts, Fits(s[1], c), Fits(a, c),
           s[1].over # NoUser
    PROVE  /\ Append(s, a) \in Seq(Activations)
           /\ Len(Append(s, a)) = 2
           /\ Levels(Append(s, a), [i \in 1 .. 2 |-> c])
  <1> DEFINE t == Append(s, a)
             new == [i \in 1 .. 2 |-> c]
  <1>1. /\ t \in Seq(Activations) /\ Len(t) = 2 /\ t[1] = s[1] /\ t[2] = a
    <2>1. Len(s) = 1 /\ Len(s) + 1 = 2 /\ 1 \in 1 .. Len(s)
      OBVIOUS
    <2>2. /\ t \in Seq(Activations) /\ Len(t) = Len(s) + 1
          /\ t[Len(s) + 1] = a /\ \A i \in 1 .. Len(s) : t[i] = s[i]
      BY ONLY s \in Seq(Activations), a \in Activations, AppendKeeps
    <2> HIDE DEF t
    <2>3. Len(t) = 2
      BY <2>1, <2>2
    <2>4. t[2] = a
      BY <2>1, <2>2
    <2>5. t[1] = s[1]
      BY <2>1, <2>2
    <2> QED BY <2>2, <2>3, <2>4, <2>5
  <1> HIDE DEF t
  <1>2. new \in [1 .. 2 -> Counts] /\ new[1] = c /\ new[2] = c
    OBVIOUS
  <1> HIDE DEF new
  <1>3. Placed(t, 1, c) /\ Placed(t, 2, c)
    BY <1>1 DEF Placed, Ended
  <1>4. \A i \in 1 .. 2 : i = 1 \/ i = 2
    OBVIOUS
  <1>5. \A i \in 1 .. 2 : Fits(t[i], new[i]) /\ Placed(t, i, new[i])
    BY <1>1, <1>2, <1>3, <1>4
  <1>6. new[1] = Beneath(t[2], new[2])
    BY <1>1, <1>2 DEF Beneath
  <1>7. \A i \in 1 .. 2 - 1 : i = 1 /\ i + 1 = 2
    OBVIOUS
  <1>8. Levels(t, new)
    BY <1>1, <1>2, <1>5, <1>6, <1>7 DEF Levels
  <1> QED BY <1>1, <1>8 DEF t, new

\* The first d activations of a stack, the last of them changed to a: what
\* returning to activation d and moving on there leaves.
LEMMA CutLevels ==
    ASSUME NEW s \in Seq(Activations), NEW level, Levels(s, level),
           NEW d \in 1 .. Len(s), NEW a \in Activations, NEW c \in Counts,
           a.over = s[d].over, a.caller = s[d].caller,
           Fits(a, c),
           a.over # NoUser => c >= 1,
           Beneath(a, c) = Beneath(s[d], level[d])
    PROVE  LET t == SubSeq(s, 1, d - 1) \o <<a>>
           IN  /\ t \in Seq(Activations) /\ Len(t) = d
               /\ Levels(t, [i \in 1 .. d |-> IF i < d THEN level[i] ELSE c])
  <1> DEFINE t == SubSeq(s, 1, d - 1) \o <<a>>
             new == [i \in 1 .. d |-> IF i < d THEN level[i] ELSE c]
             n == Len(s)
  <1>1. n \in Nat /\ d \in Nat /\ d >= 1 /\ d <= n
    OBVIOUS
  <1>2. /\ t \in Seq(Activations) /\ Len(t) = d /\ t[d] = a
        /\ \A i \in 1 .. d - 1 : t[i] = s[i]
    <2>1. \A i \in 1 .. d - 1 : s[i] \in Activations
      BY <1>1, ElementOfSeq
    <2>2. /\ SubSeq(s, 1, d - 1) \in Seq(Activations)
          /\ Len(SubSeq(s, 1, d - 1)) = d - 1
          /\ \A i \in 1 .. d - 1 : SubSeq(s, 1, d - 1)[i] = s[i]
      BY <2>1, <1>1, SubSeqProperties
    <2> HIDE DEF n
    <2> QED BY <2>2, <1>1
  <1>3. /\ level \in [1 .. n -> Counts]
        /\ \A i \in 1 .. n : Fits(s[i], level[i]) /\ Placed(s, i, level[i])
        /\ \A i \in 1 .. n - 1 : level[i] = Beneath(s[i + 1], level[i + 1])
    BY DEF Levels
  <1> HIDE DEF t
  <1>4. /\ new \in [1 .. d -> Counts] /\ new[d] = c
        /\ \A i \in 1 .. d - 1 : new[i] = level[i]
    <2>1. \A i \in 1 .. d : i \in 1 .. n /\ level[i] \in Counts
      BY <1>1, <1>3
    <2>2. \A i \in 1 .. d - 1 : i < d /\ i \in 1 .. d
      BY <1>1
    <2>3. d \in 1 .. d /\ ~(d < d)
      BY <1>1
    <2> QED BY <2>1, <2>2, <2>3
  <1> HIDE DEF new, n
  <1>5. ASSUME NEW i \in 1 .. d PROVE Fits(t[i], new[i]) /\ Placed(t, i, new[i])
    <2>1. CASE i = d
      <3>1. Placed(s, d, level[d])
        BY <1>1, <1>3
      <3>2. Placed(t, d, c)
        BY <3>1, <1>2 DEF Placed
      <3> QED BY <2>1, <3>2, <1>2, <1>4
    <2>2. CASE i # d
      <3>1. i \in 1 .. d - 1 /\ i \in 1 .. n /\ i + 1 \in 1 .. d
            /\ i < n /\ i < d
        BY <2>2, <1>1
      <3>2. t[i] = s[i] /\ new[i] = level[i]
        BY <3>1, <1>2, <1>4
      <3>3. t[i + 1].caller = s[i + 1].caller
        <4>1. CASE i + 1 = d
          BY <4>1, <1>2
        <4>2. CASE i + 1 # d
          <5>1. i + 1 \in 1 .. d - 1
            BY <4>2, <3>1, <1>1
          <5> QED BY <5>1, <1>2
        <4> QED BY <4>1, <4>2
      <3>4. Ended(s, i) => Ended(t, i)
        BY <3>1, <3>3, <1>2 DEF Ended
      <3>5. Fits(s[i], level[i]) /\ Placed(s, i, level[i])
        BY <3>1, <1>3
      <3>6. Placed(t, i, level[i])
        BY <3>2, <3>4, <3>5 DEF Placed
      <3> QED BY <3>2, <3>5, <3>6
    <2> QED BY <2>1, <2>2
  <1>6. ASSUME NEW i \in 1 .. d - 1
        PROVE  new[i] = Beneath(t[i + 1], new[i + 1])
    <2>1. /\ level[i] = Beneath(s[i + 1], level[i + 1]) /\ new[i] = level[i]
          /\ i + 1 \in 1 .. d
      BY <1>1, <1>3, <1>4
    <2>2. CASE i + 1 = d
      BY <2>1, <2>2, <1>2, <1>4
    <2>3. CASE i + 1 # d
      <3>1. i + 1 \in 1 .. d - 1
        BY <2>1, <2>3, <1>1
      <3> QED BY <3>1, <2>1, <1>2, <1>4
    <2> QED BY <2>2, <2>3
  <1>7. Levels(t, new)
    BY <1>2, <1>4, <1>5, <1>6 DEF Levels
  <1> QED BY <1>2, <1>7 DEF t, new

\* The activation at the top returns: the one beneath sees its process_count.
LEMMA PopLevels ==
    ASSUME NEW s \in Seq(Activations), NEW level, Levels(s, level),
           Len(s) > 1, s[Len(s)].pc \notin Counted, s[Len(s)].caller # "halt"
    PROVE  /\ Pop(s) \in Seq(Activations) /\ Len(Pop(s)) = Len(s) - 1
           /\ Levels(Pop(s), [i \in 1 .. Len(s) - 1 |-> level[i]])
           /\ level[Len(s) - 1] = level[Len(s)]
  <1> DEFINE n == Len(s)
             t == Pop(s)
             new == [i \in 1 .. n - 1 |-> level[i]]
  <1>1. n \in Nat /\ n > 1 /\ n - 1 \in 1 .. n - 1
    OBVIOUS
  <1>2. /\ t \in Seq(Activations) /\ Len(t) = n - 1
        /\ \A i \in 1 .. n - 1 : t[i] = s[i]
    <2>1. \A i \in 1 .. n - 1 : s[i] \in Activations
      BY <1>1, ElementOfSeq
    <2> QED BY <2>1, <1>1, SubSeqProperties DEF Pop
  <1>3. /\ level \in [1 .. n -> Counts]
        /\ \A i \in 1 .. n : Fits(s[i], level[i]) /\ Placed(s, i, level[i])
        /\ \A i \in 1 .. n - 1 : level[i] = Beneath(s[i + 1], level[i + 1])
    BY DEF Levels
  <1> HIDE DEF t
  <1>4. /\ new \in [1 .. n - 1 -> Counts]
        /\ \A i \in 1 .. n - 1 : new[i] = level[i]
    BY <1>1, <1>3
  <1>5. level[n - 1] = level[n]
    <2>1. (n - 1) + 1 = n
      BY <1>1
    <2> QED BY <2>1, <1>1, <1>3 DEF Beneath
  <1> HIDE DEF new
  <1>6. ASSUME NEW i \in 1 .. n - 1
        PROVE  Fits(t[i], new[i]) /\ Placed(t, i, new[i])
    <2>1. i \in 1 .. n /\ t[i] = s[i] /\ new[i] = level[i]
      BY <1>1, <1>2, <1>4
    <2>2. Ended(s, i) => Ended(t, i)
      <3>1. CASE i = n - 1
        <4>1. i + 1 = n
          BY <3>1, <1>1
        <4> QED BY <4>1 DEF Ended
      <3>2. CASE i # n - 1
        <4>1. i + 1 \in 1 .. n - 1 /\ i < n - 1
          BY <3>2, <1>1
        <4> QED BY <4>1, <1>2 DEF Ended
      <3> QED BY <3>1, <3>2
    <2>3. Fits(s[i], level[i]) /\ Placed(s, i, level[i])
      BY <2>1, <1>3
    <2>4. Placed(t, i, level[i])
      BY <2>1, <2>2, <2>3 DEF Placed
    <2> QED BY <2>1, <2>3, <2>4
  <1>7. ASSUME NEW i \in 1 .. (n - 1) - 1
        PROVE  new[i] = Beneath(t[i + 1], new[i + 1])
    <2>1. i \in 1 .. n - 1 /\ i + 1 \in 1 .. n - 1
      BY <1>1
    <2> QED BY <2>1, <1>2, <1>3, <1>4
  <1>8. Levels(t, new)
    BY <1>2, <1>4, <1>6, <1>7 DEF Levels
  <1> QED BY <1>2, <1>5, <1>8 DEF t, new

-----------------------------------------------------------------------------
\* PCBs hold the process ids they are found by; halt trusts both fields.
IdsOk ==
    \A n \in 1 .. MAXPROCESS :
        /\ pcb[n].currID \in {0, n - 1}
        /\ pcb[n].currID \in Pids
        /\ pcb[n].parentID \in Pids

\* Every stack has levels; the one in use ends at the present process_count.
StackOk(r) ==
    \E level \in [1 .. Len(stk[r]) -> Counts] :
        /\ Levels(stk[r], level)
        /\ user = NoUser /\ r = esp =>
              stk[r] # <<>> /\ level[Len(stk[r])] = process_count

Inv ==
    /\ TypeOK
    /\ esp \in Pids /\ esp0 \in Pids
    /\ process_count \in Counts
    /\ IdsOk
    /\ \A r \in Pids : StackOk(r)
    /\ user # NoUser => process_count >= 1

-----------------------------------------------------------------------------
\* Constants as numbers.
LEMMA Numbers ==
    /\ MAXPROCESS \in Nat /\ MAX_SHELL_COUNT \in Nat
    /\ MAXPROCESS > MAX_SHELL_COUNT + 1
    /\ 0 \in Pids /\ 0 \in Counts
  BY ConstantsAssumption DEF Pids, Counts

\* The assignments to fields of activations that the actions make.
LEMMA SetPc ==
    ASSUME NEW a \in Activations, NEW p \in Pcs
    PROVE  LET b == [a EXCEPT !.pc = p]
           IN  /\ b \in Activations /\ b.pc = p
               /\ b.over = a.over /\ b.caller = a.caller /\ b.new = a.new
  BY DEF Activations

\* The place and eax.
LEMMA SetPcEax ==
    ASSUME NEW a \in Activations, NEW p \in Pcs, NEW x \in Int
    PROVE  LET b == [a EXCEPT !.pc = p, !.eax = x]
           IN  /\ b \in Activations /\ b.pc = p
               /\ b.over = a.over /\ b.caller = a.caller /\ b.new = a.new
  BY DEF Activations

\* The place and the command.
LEMMA SetPcCmd ==
    ASSUME NEW a \in Activations, NEW p \in Pcs, NEW x \in Commands
    PROVE  LET b == [a EXCEPT !.pc = p, !.cmd = x]
           IN  /\ b \in Activations /\ b.pc = p
               /\ b.over = a.over /\ b.caller = a.caller /\ b.new = a.new
  BY DEF Activations

\* The place and the process index.
LEMMA SetPcIndex ==
    ASSUME NEW a \in Activations, NEW p \in Pcs, NEW x \in Nat
    PROVE  LET b == [a EXCEPT !.pc = p, !.index = x]
           IN  /\ b \in Activations /\ b.pc = p
               /\ b.over = a.over /\ b.caller = a.caller /\ b.new = a.new
  BY DEF Activations

\* The place and the process launched or ended.
LEMMA SetPcNew ==
    ASSUME NEW a \in Activations, NEW p \in Pcs, NEW x \in Nat
    PROVE  LET b == [a EXCEPT !.pc = p, !.new = x]
           IN  /\ b \in Activations /\ b.pc = p
               /\ b.over = a.over /\ b.caller = a.caller /\ b.new = x
  BY DEF Activations

\* The place, the parent's stack pointer and the process that ends.
LEMMA SetPcSavedNew ==
    ASSUME NEW a \in Activations, NEW p \in Pcs, NEW x \in Positions,
           NEW n \in Nat
    PROVE  LET b == [a EXCEPT !.pc = p, !.saved = x, !.new = n]
           IN  /\ b \in Activations /\ b.pc = p
               /\ b.over = a.over /\ b.caller = a.caller /\ b.new = n
  BY DEF Activations

\* A function stays in its set when one value, which may be outside of its
\* domain, changes.
LEMMA ChangeOne ==
    ASSUME NEW S, NEW T, NEW f \in [S -> T], NEW i, NEW x \in T
    PROVE  [f EXCEPT ![i] = x] \in [S -> T]
  OBVIOUS

\* Activations that traps and calls make.
LEMMA NewActivation ==
    ASSUME NEW caller \in Callers, NEW over \in Contexts \cup {NoUser},
           NEW p \in Pcs, NEW cmd \in Commands
    PROVE  LET a == Activation(caller, over, p, cmd)
           IN  /\ a \in Activations /\ a.pc = p /\ a.over = over
               /\ a.caller = caller
  BY DEF Activation, Activations, NoPosition, Positions

\* The activation the kernel is executing.
LEMMA TopOk ==
    ASSUME Inv, user = NoUser
    PROVE  /\ stk[esp] \in Seq(Activations) /\ stk[esp] # <<>>
           /\ Len(stk[esp]) \in Nat /\ Len(stk[esp]) >= 1
           /\ Top \in Activations
           /\ Fits(Top, process_count)
           /\ Top.over # NoUser => process_count >= 1 /\ Len(stk[esp]) = 1
           /\ Top.over = NoUser => Len(stk[esp]) > 1 \/ Top.caller = "entry"
           /\ Top.caller = "syscall" => Top.over # NoUser
  <1>1. stk[esp] \in Seq(Activations)
    BY DEF Inv, TypeOK
  <1>2. PICK level \in [1 .. Len(stk[esp]) -> Counts] :
          /\ Levels(stk[esp], level)
          /\ stk[esp] # <<>> /\ level[Len(stk[esp])] = process_count
    BY DEF Inv, StackOk
  <1>3. Len(stk[esp]) \in Nat /\ Len(stk[esp]) >= 1
    BY <1>1, <1>2, EmptySeq
  <1> DEFINE n == Len(stk[esp])
  <1>4. n \in 1 .. n
    BY <1>3
  <1>5. Top \in Activations
    BY <1>1, <1>4 DEF Top
  <1>6. Fits(Top, process_count) /\ Placed(stk[esp], n, process_count)
    BY <1>2, <1>4 DEF Levels, Top
  <1>7. ~Ended(stk[esp], n)
    BY <1>3 DEF Ended
  <1>8. /\ Top.over # NoUser => n = 1 /\ process_count >= 1
        /\ Top.over = NoUser => n > 1 \/ Top.caller = "entry"
        /\ Top.caller = "syscall" => Top.over # NoUser
    BY <1>6, <1>7 DEF Placed, Top
  <1> QED BY <1>1, <1>2, <1>3, <1>5, <1>6, <1>8

\* A step that changes one stack, the one in use after it, and may leave others
\* empty.
LEMMA StackStep ==
    ASSUME Inv, NEW r \in Pids, esp' = r,
           NEW t \in Seq(Activations), NEW level, Levels(t, level),
           stk' \in [Pids -> Seq(Activations)], stk'[r] = t,
           \A q \in Pids \ {r} : stk'[q] = stk[q] \/ stk'[q] = <<>>,
           user' = NoUser => t # <<>> /\ level[Len(t)] = process_count'
    PROVE  (\A q \in Pids : StackOk(q))'
  <1> SUFFICES ASSUME NEW q \in Pids PROVE StackOk(q)'
    OBVIOUS
  <1>1. CASE q = r
    <2>1. level \in [1 .. Len(stk'[q]) -> Counts] /\ Levels(stk'[q], level)
      BY <1>1 DEF Levels
    <2>2. user' = NoUser => stk'[q] # <<>> /\ level[Len(stk'[q])] = process_count'
      BY <1>1
    <2> QED BY <2>1, <2>2 DEF StackOk
  <1>2. CASE q # r /\ stk'[q] = stk[q]
    <2>1. PICK l \in [1 .. Len(stk[q]) -> Counts] : Levels(stk[q], l)
      BY DEF Inv, StackOk
    <2> QED BY <1>2, <2>1 DEF StackOk
  <1>3. CASE q # r /\ stk'[q] = <<>>
    <2> DEFINE l == [i \in 1 .. 0 |-> 0]
    <2>1. l \in [1 .. Len(stk'[q]) -> Counts] /\ Levels(stk'[q], l)
      BY <1>3 DEF Levels
    <2> QED BY <1>3, <2>1 DEF StackOk
  <1> QED BY <1>1, <1>2, <1>3

\* A step that moves the activation at the top on to a.
LEMMA SetTopStep ==
    ASSUME Inv, user = NoUser, NEW a \in Activations, SetTop(a), esp' = esp,
           process_count' \in Counts,
           a.over = Top.over, a.caller = Top.caller,
           Fits(a, process_count'),
           a.over # NoUser => process_count' >= 1,
           \/ Beneath(a, process_count') = Beneath(Top, process_count)
           \/ a.over # NoUser
    PROVE  /\ stk' \in [Pids -> Seq(Activations)]
           /\ (\A q \in Pids : StackOk(q))'
  <1> DEFINE s == stk[esp]
             t == SetLast(s, a)
  <1>1. esp \in Pids /\ stk \in [Pids -> Seq(Activations)]
    BY DEF Inv, TypeOK
  <1>2. s \in Seq(Activations) /\ s # <<>>
    BY TopOk
  <1>3. /\ t \in Seq(Activations) /\ Len(t) = Len(s) /\ Len(s) \in 1 .. Len(s)
    <2> HIDE DEF s, t
    <2>1. /\ Len(s) \in Nat /\ Len(s) >= 1
          /\ SetLast(s, a) \in Seq(Activations) /\ Len(SetLast(s, a)) = Len(s)
      BY ONLY <1>2, a \in Activations, SetLastProperties
    <2>2. Len(s) \in 1 .. Len(s)
      BY ONLY <2>1
    <2> QED BY <2>1, <2>2 DEF t
  <1>4. t # <<>>
    BY <1>3, EmptySeq
  <1>5. stk' = [stk EXCEPT ![esp] = t]
    BY DEF SetTop
  <1>6. PICK level \in [1 .. Len(s) -> Counts] :
          Levels(s, level) /\ level[Len(s)] = process_count
    BY <1>1 DEF Inv, StackOk
  <1> DEFINE new == [level EXCEPT ![Len(s)] = process_count']
  <1>7. Levels(t, new)
    BY <1>2, <1>6, SetLastLevels DEF Top
  <1>8. new[Len(t)] = process_count'
    BY <1>3, <1>6
  <1> HIDE DEF t, new
  <1>9. /\ stk' \in [Pids -> Seq(Activations)] /\ stk'[esp] = t
        /\ \A q \in Pids \ {esp} : stk'[q] = stk[q]
    BY <1>1, <1>3, <1>5
  <1> QED BY <1>1, <1>3, <1>4, <1>7, <1>8, <1>9, StackStep

-----------------------------------------------------------------------------
\* What Inv says of the variables other than the stacks and the CPU's state.
DataOk ==
    /\ process_count \in Counts
    /\ shell_count \in 0 .. MAX_SHELL_COUNT + 1
    /\ curr_processes \in [0 .. MAXPROCESS -> 0 .. 1]
    /\ pcb \in [1 .. MAXPROCESS -> [currID : Int, parentID : Int,
                                    esp : Positions]]
    /\ prog_page \in Int
    /\ image \in [Pids -> Commands \X Commands]
    /\ esp0 \in Pids
    /\ file_name \in Commands
    /\ ret_value \in Int
    /\ interrupts \in BOOLEAN
    /\ IdsOk

data == <<process_count, shell_count, curr_processes, pcb, prog_page, image,
          esp0, file_name, ret_value, interrupts>>

\* It depends on those variables only.
LEMMA DataOkUnchanged ==
    ASSUME Inv, UNCHANGED data
    PROVE  DataOk'
  BY DEF data, DataOk, Inv, TypeOK, IdsOk

\* It is part of the invariant.
LEMMA InvHasDataOk == Inv => DataOk
  BY DEF DataOk, Inv, TypeOK

\* The invariant, from its parts.
LEMMA InvAfter ==
    ASSUME DataOk', stk' \in [Pids -> Seq(Activations)], esp' \in Pids,
           user' \in Contexts \cup {NoUser},
           user' # NoUser => process_count' >= 1,
           (\A r \in Pids : StackOk(r))'
    PROVE  Inv'
  <1>1. esp' \in Int /\ esp0' \in Int /\ process_count' \in Int
    BY Numbers DEF Pids, Counts, DataOk
  <1> QED BY <1>1 DEF DataOk, Inv, TypeOK

\* Inv after a step in the kernel that moves the activation at the top on.
LEMMA TopStep ==
    ASSUME Inv, user = NoUser, NEW a \in Activations, SetTop(a),
           UNCHANGED <<user, esp>>, DataOk',
           a.over = Top.over, a.caller = Top.caller,
           Fits(a, process_count'),
           a.over # NoUser => process_count' >= 1,
           \/ Beneath(a, process_count') = Beneath(Top, process_count)
           \/ a.over # NoUser
    PROVE  Inv'
  <1>1. process_count' \in Counts
    BY DEF DataOk
  <1>2. stk' \in [Pids -> Seq(Activations)] /\ (\A q \in Pids : StackOk(q))'
    BY <1>1, SetTopStep
  <1>3. esp' \in Pids /\ user' \in Contexts \cup {NoUser} /\ user' = NoUser
    BY DEF Inv, TypeOK
  <1> QED BY <1>2, <1>3, InvAfter

\* The same for a step that leaves process_count and curr_pcb alone.
LEMMA GoOn ==
    ASSUME Inv, user = NoUser, NEW a \in Activations, SetTop(a),
           UNCHANGED <<user, esp, process_count>>, DataOk',
           a.over = Top.over, a.caller = Top.caller, a.new = Top.new,
           Fits(a, process_count),
           a.pc \in Counted <=> Top.pc \in Counted
    PROVE  Inv'
  <1>1. Beneath(a, process_count') = Beneath(Top, process_count)
    BY DEF Beneath
  <1>2. a.over # NoUser => process_count' >= 1
    BY TopOk
  <1> QED BY <1>1, <1>2, TopStep

\* execute returns.
LEMMA FinishStep ==
    ASSUME Inv, user = NoUser, NEW value \in Int, Finish(value),
           UNCHANGED <<user, esp, process_count>>, DataOk',
           Top.pc \notin Counted
    PROVE  Inv'
  <1> DEFINE p == IF Top.caller = "syscall" THEN "linkage" ELSE "return"
             a == [Top EXCEPT !.pc = p, !.eax = value]
  <1>1. Top \in Activations /\ p \in Pcs
    BY TopOk DEF Pcs
  <1>2. SetTop(a)
    BY DEF Finish
  <1>3. \/ p = "linkage" /\ Top.caller = "syscall"
        \/ p = "return"
    OBVIOUS
  <1> HIDE DEF p
  <1>4. /\ a \in Activations /\ a.pc = p
        /\ a.over = Top.over /\ a.caller = Top.caller /\ a.new = Top.new
    BY ONLY <1>1, value \in Int, SetPcEax, ZenonT(40)
  <1> HIDE DEF a
  <1>5. Fits(a, process_count) /\ a.pc \notin Counted
    BY ONLY <1>3, <1>4 DEF Fits, Window, Counted
  <1>6. a.pc \in Counted <=> Top.pc \in Counted
    BY <1>5
  <1> QED BY ONLY Inv, user = NoUser, DataOk', <1>2, <1>4, <1>5, <1>6, GoOn,
                  UNCHANGED <<user, esp, process_count>>

-----------------------------------------------------------------------------
\* The steps of execute.
LEMMA ParseKeepsInv == ASSUME Inv, Parse PROVE Inv'
  <1>1. user = NoUser /\ Top.pc = "parse" /\ UNCHANGED <<user, esp, process_count>>
    BY DEF Parse, Running
  <1>2. Top \in Activations /\ Top.cmd \in Commands
    BY <1>1, TopOk DEF Activations
  <1>3. DataOk'
    BY <1>2, InvHasDataOk DEF Parse, DataOk, IdsOk
  <1>4. CASE process_count >= MAXPROCESS
    <2>1. Finish(-1) /\ -1 \in Int /\ Top.pc \notin Counted
      BY <1>1, <1>4 DEF Parse, Counted
    <2> QED BY <1>1, <1>3, <2>1, FinishStep
  <1>5. CASE ~(process_count >= MAXPROCESS)
    <2> DEFINE a == [Top EXCEPT !.pc = "lookup"]
    <2>1. SetTop(a) /\ "lookup" \in Pcs
      BY <1>5 DEF Parse, GoTo, Pcs
    <2>2. /\ a \in Activations /\ a.pc = "lookup"
          /\ a.over = Top.over /\ a.caller = Top.caller /\ a.new = Top.new
      BY <1>2, <2>1, SetPc
    <2> HIDE DEF a
    <2>3. process_count < MAXPROCESS
      BY <1>5, Numbers DEF Inv, Counts
    <2>4. Fits(a, process_count)
      BY <2>2, <2>3 DEF Fits, Counted
    <2>5. a.pc \in Counted <=> Top.pc \in Counted
      BY <1>1, <2>2 DEF Counted
    <2> QED BY <1>1, <1>3, <2>1, <2>2, <2>4, <2>5, GoOn
  <1> QED BY <1>4, <1>5

\* Between the test of the limit and the PCB nothing else matters.
LEMMA WindowStep ==
    ASSUME Inv, user = NoUser, NEW a \in Activations, SetTop(a),
           UNCHANGED <<user, esp, process_count>>, DataOk',
           a.over = Top.over, a.caller = Top.caller, a.new = Top.new,
           Top.pc \in {"lookup", "find", "mark", "map", "copy1", "copy2"},
           a.pc \in {"find", "mark", "map", "copy1", "copy2", "pcb"}
    PROVE  Inv'
  <1>1. Fits(Top, process_count)
    BY TopOk
  <1>2. process_count < MAXPROCESS
    BY <1>1 DEF Fits, Window
  <1>3. Fits(a, process_count) /\ (a.pc \in Counted <=> Top.pc \in Counted)
    BY <1>2 DEF Fits, Counted
  <1> QED BY <1>3, GoOn

\* The file name is looked up.
LEMMA LookupKeepsInv == ASSUME Inv, Lookup PROVE Inv'
  <1>1. user = NoUser /\ Top.pc = "lookup" /\ UNCHANGED <<user, esp, process_count>>
    BY DEF Lookup, Running
  <1>2. DataOk'
    BY DataOkUnchanged DEF Lookup, data
  <1>3. CASE file_name \in Programs
    <2> DEFINE a == [Top EXCEPT !.pc = "find", !.cmd = file_name]
    <2>1. SetTop(a)
      BY <1>3 DEF Lookup
    <2>2. /\ a \in Activations /\ a.pc = "find"
          /\ a.over = Top.over /\ a.caller = Top.caller /\ a.new = Top.new
      <3>1. "find" \in Pcs /\ file_name \in Commands /\ Top \in Activations
        BY <1>1, <1>3, TopOk DEF Pcs, Commands
      <3> QED BY ONLY <3>1, SetPcCmd, ZenonT(40)
    <2> HIDE DEF a
    <2> QED BY <1>1, <1>2, <2>1, <2>2, WindowStep
  <1>4. CASE file_name \notin Programs
    <2>1. Finish(-1) /\ -1 \in Int /\ Top.pc \notin Counted
      BY <1>1, <1>4 DEF Lookup, Counted
    <2> QED BY <1>1, <1>2, <2>1, FinishStep
  <1> QED BY <1>3, <1>4

\* A free index is found.
LEMMA FindKeepsInv == ASSUME Inv, Find PROVE Inv'
  <1>1. user = NoUser /\ Top.pc = "find" /\ UNCHANGED <<user, esp, process_count>>
    BY DEF Find, Running
  <1>2. DataOk'
    BY DataOkUnchanged DEF Find, data
  <1>3. PICK i \in 0 .. MAXPROCESS : SetTop([Top EXCEPT !.pc = "mark", !.index = i])
    BY DEF Find
  <1> DEFINE a == [Top EXCEPT !.pc = "mark", !.index = i]
  <1>4. SetTop(a)
    BY <1>3
  <1>5. /\ a \in Activations /\ a.pc = "mark"
        /\ a.over = Top.over /\ a.caller = Top.caller /\ a.new = Top.new
    <2>1. "mark" \in Pcs /\ i \in Nat /\ Top \in Activations
      BY <1>1, Numbers, TopOk DEF Pcs
    <2> QED BY ONLY <2>1 DEF Activations
  <1> HIDE DEF a
  <1> QED BY <1>1, <1>2, <1>4, <1>5, WindowStep

\* The index is taken.
LEMMA MarkKeepsInv == ASSUME Inv, Mark PROVE Inv'
  <1>1. user = NoUser /\ Top.pc = "mark" /\ UNCHANGED <<user, esp, process_count>>
    BY DEF Mark, Running
  <1>2. DataOk'
    <2>1. curr_processes \in [0 .. MAXPROCESS -> 0 .. 1] /\ DataOk
      BY InvHasDataOk DEF DataOk
    <2>2. curr_processes' = [curr_processes EXCEPT ![Top.index] = 1]
      BY DEF Mark
    <2>3. curr_processes' \in [0 .. MAXPROCESS -> 0 .. 1]
      BY ONLY <2>1, <2>2, 1 \in 0 .. 1, ChangeOne
    <2> QED BY <2>1, <2>3 DEF Mark, DataOk, IdsOk
  <1> DEFINE a == [Top EXCEPT !.pc = "map", !.index = 0]
  <1>3. SetTop(a)
    BY DEF Mark
  <1>4. /\ a \in Activations /\ a.pc = "map"
        /\ a.over = Top.over /\ a.caller = Top.caller /\ a.new = Top.new
    <2>1. "map" \in Pcs /\ 0 \in Nat /\ Top \in Activations
      BY <1>1, TopOk DEF Pcs
    <2> QED BY ONLY <2>1, SetPcIndex, ZenonT(40)
  <1> HIDE DEF a
  <1> QED BY <1>1, <1>2, <1>3, <1>4, WindowStep

\* The page is mapped.
LEMMA MapKeepsInv == ASSUME Inv, Map PROVE Inv'
  <1>1. user = NoUser /\ Top.pc = "map" /\ UNCHANGED <<user, esp, process_count>>
    BY DEF Map, Running
  <1>2. DataOk'
    BY InvHasDataOk, Numbers, SMTT(30) DEF Map, DataOk, IdsOk, Counts
  <1> DEFINE a == [Top EXCEPT !.pc = "copy1"]
  <1>3. SetTop(a) /\ "copy1" \in Pcs
    BY DEF Map, GoTo, Pcs
  <1>4. /\ a \in Activations /\ a.pc = "copy1"
        /\ a.over = Top.over /\ a.caller = Top.caller /\ a.new = Top.new
    BY <1>1, <1>3, TopOk, SetPc
  <1> HIDE DEF a
  <1> QED BY <1>1, <1>2, <1>3, <1>4, WindowStep

\* A piece of the program is copied.
LEMMA CopyKeepsInv == ASSUME Inv, NEW half \in {1, 2}, Copy(half) PROVE Inv'
  <1>1. /\ user = NoUser /\ Top.pc \in {"copy1", "copy2"}
        /\ UNCHANGED <<user, esp, process_count>>
    BY DEF Copy, Running
  <1>2. Top \in Activations /\ Top.cmd \in Commands
    BY <1>1, TopOk DEF Activations
  <1>3. image' \in [Pids -> Commands \X Commands]
    <2>1. image \in [Pids -> Commands \X Commands]
      BY InvHasDataOk DEF DataOk
    <2>2. image' = [image EXCEPT ![prog_page] =
                      [image[prog_page] EXCEPT ![half] = Top.cmd]]
      BY DEF Copy
    <2>3. ASSUME prog_page \in Pids
          PROVE  [image[prog_page] EXCEPT ![half] = Top.cmd]
                    \in Commands \X Commands
      <3>1. PICK x \in Commands, y \in Commands : image[prog_page] = <<x, y>>
        BY <2>1, <2>3
      <3>2. \/ [<<x, y>> EXCEPT ![half] = Top.cmd] = <<Top.cmd, y>>
            \/ [<<x, y>> EXCEPT ![half] = Top.cmd] = <<x, Top.cmd>>
        OBVIOUS
      <3> QED BY <1>2, <3>1, <3>2
    <2> QED BY <2>1, <2>2, <2>3
  <1>4. DataOk'
    BY <1>3, InvHasDataOk DEF Copy, DataOk, IdsOk
  <1> DEFINE p == IF half = 1 THEN "copy2" ELSE "pcb"
             a == [Top EXCEPT !.pc = p]
  <1>5. SetTop(a) /\ p \in Pcs /\ p \in {"copy2", "pcb"}
    BY DEF Copy, GoTo, Pcs
  <1> HIDE DEF p
  <1>6. /\ a \in Activations /\ a.pc = p
        /\ a.over = Top.over /\ a.caller = Top.caller /\ a.new = Top.new
    BY <1>1, <1>5, TopOk, SetPc
  <1> HIDE DEF a
  <1> QED BY <1>1, <1>4, <1>5, <1>6, WindowStep

\* The process limit tested by Parse keeps the PCB filled in inside the array.
LEMMA FillPcbKeepsInv == ASSUME Inv, FillPcb PROVE Inv'
  <1>1. user = NoUser /\ Top.pc = "pcb" /\ UNCHANGED <<user, esp, process_count>>
    BY DEF FillPcb, Running
  <1>2. Top \in Activations /\ Fits(Top, process_count)
    BY <1>1, TopOk
  <1>3. process_count < MAXPROCESS /\ process_count \in Nat
    <2>1. process_count < MAXPROCESS
      BY <1>1, <1>2 DEF Fits, Window
    <2> QED BY <2>1, Numbers DEF Inv, Counts
  <1>4. DataOk'
    <2> DEFINE new == [pcb[process_count + 1] EXCEPT
                         !.currID = process_count,
                         !.parentID = IF process_count # 0
                                      THEN pcb[process_count].currID
                                      ELSE pcb[process_count + 1].parentID]
    <2>1. DataOk /\ process_count + 1 \in 1 .. MAXPROCESS
      BY <1>3, InvHasDataOk, Numbers
    <2>2. pcb \in [1 .. MAXPROCESS -> [currID : Int, parentID : Int,
                                       esp : Positions]]
      BY <2>1 DEF DataOk
    <2>3. process_count \in Pids /\ Pids \subseteq Int
      BY <1>3, Numbers DEF Pids
    <2>4. process_count # 0 => pcb[process_count].currID \in Pids
      BY <1>3, <2>1, Numbers DEF DataOk, IdsOk
    <2>5. pcb[process_count + 1].parentID \in Pids
      BY <2>1 DEF DataOk, IdsOk
    <2>6. /\ new \in [currID : Int, parentID : Int, esp : Positions]
          /\ new.currID = process_count /\ new.parentID \in Pids
      BY <2>1, <2>2, <2>3, <2>4, <2>5
    <2>7. pcb' = [pcb EXCEPT ![process_count + 1] = new]
      BY DEF FillPcb
    <2> HIDE DEF new
    <2>8. pcb' \in [1 .. MAXPROCESS -> [currID : Int, parentID : Int,
                                        esp : Positions]]
      BY ONLY <2>2, <2>6, <2>7, ChangeOne
    <2>9. IdsOk'
      <3> SUFFICES ASSUME NEW n \in 1 .. MAXPROCESS
                   PROVE  /\ pcb'[n].currID \in {0, n - 1}
                          /\ pcb'[n].currID \in Pids
                          /\ pcb'[n].parentID \in Pids
        BY DEF IdsOk
      <3>1. CASE n = process_count + 1
        <4>1. pcb'[n] = new
          BY <2>1, <2>2, <2>7, <3>1
        <4> QED BY <1>3, <2>3, <2>6, <3>1, <4>1
      <3>2. CASE n # process_count + 1
        <4>1. pcb'[n] = pcb[n]
          BY <2>2, <2>7, <3>2
        <4> QED BY <2>1, <4>1 DEF DataOk, IdsOk
      <3> QED BY <3>1, <3>2
    <2> QED BY <2>1, <2>8, <2>9 DEF DataOk, FillPcb
  <1> DEFINE a == [Top EXCEPT !.pc = "count", !.new = process_count + 1]
  <1>5. SetTop(a)
    BY DEF FillPcb
  <1>6. /\ a \in Activations /\ a.pc = "count"
        /\ a.over = Top.over /\ a.caller = Top.caller
        /\ a.new = process_count + 1
    <2>1. "count" \in Pcs /\ process_count + 1 \in Nat
      BY <1>3 DEF Pcs
    <2> QED BY ONLY <1>2, <2>1 DEF Activations
  <1> HIDE DEF a
  <1>7. Fits(a, process_count)
    BY <1>3, <1>6 DEF Fits, Counted
  <1>8. Beneath(a, process_count) = Beneath(Top, process_count)
    BY <1>1, <1>6 DEF Beneath, Counted
  <1>9. a.over # NoUser => process_count >= 1
    BY <1>1, <1>6, TopOk
  <1> QED BY <1>1, <1>4, <1>5, <1>6, <1>7, <1>8, <1>9, TopStep

\* The process is counted.
LEMMA CountKeepsInv == ASSUME Inv, Count PROVE Inv'
  <1>1. /\ user = NoUser /\ Top.pc = "count" /\ UNCHANGED <<user, esp>>
        /\ process_count' = process_count + 1
    BY DEF Count, Running
  <1>2. Top \in Activations /\ Fits(Top, process_count)
    BY <1>1, TopOk
  <1>3. process_count < MAXPROCESS /\ Top.new = process_count + 1
    BY <1>1, <1>2 DEF Fits, Window
  <1>4. process_count \in Nat /\ process_count + 1 \in Counts
    BY <1>3, Numbers DEF Inv, Counts
  <1>5. DataOk'
    BY <1>1, <1>4, InvHasDataOk DEF Count, DataOk, IdsOk
  <1> DEFINE a == [Top EXCEPT !.pc = "context"]
  <1>6. SetTop(a) /\ "context" \in Pcs
    BY DEF Count, GoTo, Pcs
  <1>7. /\ a \in Activations /\ a.pc = "context"
        /\ a.over = Top.over /\ a.caller = Top.caller /\ a.new = Top.new
    BY <1>2, <1>6, SetPc
  <1> HIDE DEF a
  <1>8. Fits(a, process_count')
    BY <1>1, <1>3, <1>4, <1>7 DEF Fits, Counted, Window
  <1>9. Beneath(a, process_count') = Beneath(Top, process_count)
    BY <1>1, <1>3, <1>4, <1>7 DEF Beneath, Counted
  <1>10. a.over # NoUser => process_count' >= 1
    BY <1>1, <1>4
  <1> QED BY <1>1, <1>5, <1>6, <1>7, <1>8, <1>9, <1>10, TopStep

\* The kernel context is saved.
LEMMA SaveContextKeepsInv == ASSUME Inv, SaveContext PROVE Inv'
  <1>1. /\ user = NoUser /\ Top.pc = "context"
        /\ UNCHANGED <<user, esp, process_count>>
    BY DEF SaveContext, Running
  <1>2. Top \in Activations /\ Fits(Top, process_count)
    BY <1>1, TopOk
  <1>3. Top.new = process_count /\ process_count >= 1
    BY <1>1, <1>2 DEF Fits, Counted
  <1>4. process_count \in 1 .. MAXPROCESS /\ process_count - 1 \in Pids
    BY <1>3, Numbers DEF Inv, Counts, Pids
  <1>5. DataOk'
    <2> DEFINE position == [region |-> esp, depth |-> Len(stk[esp])]
               new == [pcb[process_count] EXCEPT !.esp = position]
    <2>1. DataOk
      BY InvHasDataOk
    <2>2. pcb \in [1 .. MAXPROCESS -> [currID : Int, parentID : Int,
                                       esp : Positions]]
      BY <2>1 DEF DataOk
    <2>3. position \in Positions
      BY <1>1, TopOk DEF Inv, TypeOK, Positions
    <2> HIDE DEF position
    <2>4. /\ new \in [currID : Int, parentID : Int, esp : Positions]
          /\ new.currID = pcb[process_count].currID
          /\ new.parentID = pcb[process_count].parentID
      BY <1>4, <2>2, <2>3
    <2>5. pcb' = [pcb EXCEPT ![process_count] = new]
      BY <1>3 DEF SaveContext, position
    <2> HIDE DEF new
    <2>6. pcb' \in [1 .. MAXPROCESS -> [currID : Int, parentID : Int,
                                        esp : Positions]]
      BY ONLY <2>2, <2>4, <2>5, ChangeOne
    <2>7. \A n \in 1 .. MAXPROCESS : /\ pcb'[n].currID = pcb[n].currID
                                     /\ pcb'[n].parentID = pcb[n].parentID
      BY ONLY <2>2, <2>4, <2>5
    <2>8. IdsOk'
      BY <2>1, <2>7 DEF DataOk, IdsOk
    <2>9. esp0' \in Pids
      BY <1>4 DEF SaveContext
    <2> QED BY <2>1, <2>6, <2>8, <2>9 DEF DataOk, SaveContext
  <1> DEFINE a == [Top EXCEPT !.pc = "iret"]
  <1>6. SetTop(a) /\ "iret" \in Pcs
    BY DEF SaveContext, GoTo, Pcs
  <1>7. /\ a \in Activations /\ a.pc = "iret"
        /\ a.over = Top.over /\ a.caller = Top.caller /\ a.new = Top.new
    BY <1>2, <1>6, SetPc
  <1> HIDE DEF a
  <1>8. Fits(a, process_count) /\ (a.pc \in Counted <=> Top.pc \in Counted)
    BY <1>1, <1>3, <1>7 DEF Fits, Counted, Window
  <1> QED BY <1>1, <1>5, <1>6, <1>7, <1>8, GoOn

\* The program starts.
LEMMA IretKeepsInv == ASSUME Inv, Iret PROVE Inv'
  <1>1. /\ user = NoUser /\ Top.pc = "iret"
        /\ UNCHANGED <<esp, process_count>>
    BY DEF Iret, Running
  <1>2. Top \in Activations /\ Fits(Top, process_count)
    BY <1>1, TopOk
  <1>3. Top.new = process_count /\ process_count >= 1
    BY <1>1, <1>2 DEF Fits, Counted
  <1>4. DataOk'
    BY InvHasDataOk DEF Iret, DataOk, IdsOk
  <1>5. process_count' \in Counts /\ process_count' >= 1 /\ process_count \in Int
    BY <1>1, <1>3, Numbers DEF Inv, Counts
  <1> DEFINE a == [Top EXCEPT !.pc = "launched"]
  <1>6. SetTop(a) /\ "launched" \in Pcs
    BY DEF Iret, GoTo, Pcs
  <1>7. /\ a \in Activations /\ a.pc = "launched"
        /\ a.over = Top.over /\ a.caller = Top.caller /\ a.new = Top.new
    BY <1>2, <1>6, SetPc
  <1> HIDE DEF a
  <1>8. /\ Fits(a, process_count')
        /\ Beneath(a, process_count') = Beneath(Top, process_count)
    BY <1>1, <1>3, <1>7 DEF Fits, Beneath, Counted, Window
  <1>9. stk' \in [Pids -> Seq(Activations)] /\ (\A q \in Pids : StackOk(q))'
    BY <1>1, <1>5, <1>6, <1>7, <1>8, SetTopStep
  <1>10. user' \in Contexts
    <2>1. Top.cmd \in Commands /\ Top.new \in Int
      BY <1>2, <1>3, <1>5 DEF Activations
    <2>2. [slot |-> Top.new - 1, prog |-> Top.cmd, eax |-> 0] \in Contexts
      BY ONLY <2>1 DEF Contexts
    <2> QED BY <2>2 DEF Iret
  <1>11. esp' \in Pids
    BY <1>1 DEF Inv
  <1> QED BY <1>4, <1>5, <1>9, <1>10, <1>11, InvAfter

\* execute returns from the child.
LEMMA ExecuteLabelKeepsInv == ASSUME Inv, ExecuteLabel PROVE Inv'
  <1>1. /\ user = NoUser /\ Top.pc = "label" /\ Finish(0) /\ 0 \in Int
        /\ UNCHANGED <<user, esp, process_count>>
    BY DEF ExecuteLabel, Running
  <1>2. DataOk' /\ Top.pc \notin Counted
    BY <1>1, DataOkUnchanged DEF ExecuteLabel, data, Counted
  <1> QED BY <1>1, <1>2, FinishStep

-----------------------------------------------------------------------------
\* The steps of halt.

\* What holds when halt begins: it was called by a program, on an empty stack.
LEMMA BeginOk ==
    ASSUME Inv, Running("begin")
    PROVE  /\ user = NoUser /\ Top \in Activations /\ Top.pc = "begin"
           /\ Top.caller = "syscall" /\ Top.over # NoUser
           /\ stk[esp] \in Seq(Activations) /\ Len(stk[esp]) = 1
           /\ process_count \in 1 .. MAXPROCESS
           /\ process_count - 1 \in Counts
           /\ pcb[process_count].currID \in {0, process_count - 1}
           /\ pcb[process_count].parentID \in Pids
           /\ pcb[process_count].esp \in Positions
  <1>1. user = NoUser /\ Top.pc = "begin"
    BY DEF Running
  <1>2. Top \in Activations /\ Fits(Top, process_count)
    BY <1>1, TopOk
  <1>3. Top.caller = "syscall"
    BY <1>1, <1>2 DEF Fits
  <1>4. /\ Top.over # NoUser /\ process_count >= 1
        /\ stk[esp] \in Seq(Activations) /\ Len(stk[esp]) = 1
    BY <1>1, <1>3, TopOk
  <1>5. process_count \in 1 .. MAXPROCESS /\ process_count - 1 \in Counts
    BY <1>4, Numbers DEF Inv, Counts
  <1>6. /\ pcb[process_count].currID \in {0, process_count - 1}
        /\ pcb[process_count].parentID \in Pids
    BY <1>5 DEF Inv, IdsOk
  <1>7. pcb[process_count].esp \in Positions
    <2>1. pcb \in [1 .. MAXPROCESS -> [currID : Int, parentID : Int,
                                       esp : Positions]]
      BY DEF Inv, TypeOK
    <2> QED BY <1>5, <2>1
  <1> QED BY <1>1, <1>2, <1>3, <1>4, <1>5, <1>6, <1>7

\* A terminal's shell ends.
LEMMA HaltShellKeepsInv == ASSUME Inv, HaltShell PROVE Inv'
  <1> DEFINE s == stk[esp]
             a == Activation("halt", NoUser, "parse", Shell)
             t == Append(s, a)
             c == process_count - 1
             level == [i \in 1 .. 2 |-> c]
  <1>1. Running("begin") /\ UNCHANGED <<user, esp>> /\ process_count' = c
    BY DEF HaltShell
  <1>2. /\ user = NoUser /\ s \in Seq(Activations) /\ Len(s) = 1
        /\ s[1] = Top /\ Top.pc = "begin" /\ Top.caller = "syscall"
        /\ Top.over # NoUser /\ c \in Counts
    BY <1>1, BeginOk DEF Top
  <1>3. /\ a \in Activations /\ a.pc = "parse" /\ a.over = NoUser
        /\ a.caller = "halt"
    <2>1. /\ "halt" \in Callers /\ "parse" \in Pcs /\ Shell \in Commands
          /\ NoUser \in Contexts \cup {NoUser}
      BY ConstantsAssumption DEF Callers, Pcs, Commands
    <2> QED BY ONLY <2>1, NewActivation
  <1> HIDE DEF a
  <1>4. Fits(a, c) /\ a.pc \notin Counted
    BY ONLY <1>3 DEF Fits, Window, Counted
  <1>5. Fits(s[1], c)
    BY ONLY <1>2 DEF Fits, Window, Counted
  <1> HIDE DEF s, c
  <1>6. t \in Seq(Activations) /\ Len(t) = 2 /\ Levels(t, level)
    <2>1. s[1].over # NoUser
      BY <1>2
    <2> QED BY ONLY <1>2, <1>3, <1>4, <1>5, <2>1, HaltPushLevels
  <1>7. t # <<>> /\ level[Len(t)] = process_count'
    BY <1>1, <1>6
  <1>8. esp \in Pids /\ stk \in [Pids -> Seq(Activations)]
    BY DEF Inv, TypeOK
  <1>9. stk' = [stk EXCEPT ![esp] = t]
    BY DEF HaltShell, s, a
  <1> HIDE DEF t, level
  <1>10. /\ stk' \in [Pids -> Seq(Activations)] /\ stk'[esp] = t
         /\ \A q \in Pids \ {esp} : stk'[q] = stk[q]
    BY ONLY <1>6, <1>8, <1>9
  <1>11. (\A q \in Pids : StackOk(q))'
    BY <1>1, <1>6, <1>7, <1>8, <1>10, StackStep
  <1>12. DataOk'
    <2>1. DataOk /\ curr_processes \in [0 .. MAXPROCESS -> 0 .. 1]
      BY InvHasDataOk DEF DataOk
    <2>2. curr_processes' =
             [curr_processes EXCEPT ![pcb[process_count].currID] = 0]
      BY DEF HaltShell
    <2>3. curr_processes' \in [0 .. MAXPROCESS -> 0 .. 1]
      BY ONLY <2>1, <2>2, 0 \in 0 .. 1, ChangeOne
    <2> QED BY <1>1, <1>2, <2>1, <2>3 DEF HaltShell, DataOk, IdsOk
  <1>13. esp' \in Pids /\ user' \in Contexts \cup {NoUser} /\ user' = NoUser
    BY <1>1, <1>2, <1>8
  <1> QED BY <1>10, <1>11, <1>12, <1>13, InvAfter

\* A process that does not restart has an id above 2, so it is not the first.
LEMMA HaltChildKeepsInv == ASSUME Inv, HaltChild PROVE Inv'
  <1> DEFINE parent == pcb[process_count].parentID
             position == pcb[process_count].esp
             a == [Top EXCEPT !.pc = "jump", !.saved = position,
                              !.new = process_count]
             c == process_count - 1
  <1>1. /\ Running("begin") /\ UNCHANGED <<user, esp>>
        /\ process_count' = c /\ pcb[process_count].currID > 2
    BY DEF HaltChild
  <1>2. /\ user = NoUser /\ Top \in Activations /\ Top.caller = "syscall"
        /\ Top.over # NoUser /\ process_count \in 1 .. MAXPROCESS
        /\ c \in Counts /\ parent \in Pids /\ position \in Positions
        /\ pcb[process_count].currID \in {0, c}
    BY <1>1, BeginOk
  <1>3. /\ c > 2 /\ process_count \in Nat /\ c < MAXPROCESS
        /\ process_count = c + 1 /\ c \in Nat
    BY <1>1, <1>2, Numbers
  <1>4. SetTop(a)
    BY DEF HaltChild
  <1>5. /\ a \in Activations /\ a.pc = "jump"
        /\ a.over = Top.over /\ a.caller = Top.caller
        /\ a.new = process_count
    <2>1. "jump" \in Pcs
      BY DEF Pcs
    <2> HIDE DEF position
    <2> QED BY ONLY <1>2, <1>3, <2>1 DEF Activations
  <1> HIDE DEF a
  <1>6. Fits(a, process_count')
    <2> HIDE DEF c
    <2>1. a.new = c + 1 /\ a.new >= 2 /\ c < MAXPROCESS
      BY ONLY <1>3, <1>5
    <2> QED BY ONLY <1>1, <1>2, <1>5, <2>1 DEF Fits, Counted, Window
  <1>7. DataOk'
    <2>1. DataOk /\ curr_processes \in [0 .. MAXPROCESS -> 0 .. 1]
      BY InvHasDataOk DEF DataOk
    <2>2. /\ curr_processes' =
               [curr_processes EXCEPT ![pcb[process_count].currID] = 0]
          /\ prog_page' = parent /\ esp0' = parent /\ interrupts' = TRUE
          /\ UNCHANGED <<shell_count, pcb, image, file_name, ret_value>>
      BY DEF HaltChild
    <2>3. curr_processes' \in [0 .. MAXPROCESS -> 0 .. 1]
      BY ONLY <2>1, <2>2, 0 \in 0 .. 1, ChangeOne
    <2>4. parent \in Int
      BY <1>2 DEF Pids
    <2> QED BY <1>1, <1>2, <2>1, <2>2, <2>3, <2>4 DEF DataOk, IdsOk
  <1>8. process_count' >= 1 /\ a.over # NoUser
    BY <1>1, <1>2, <1>3, <1>5
  <1> QED BY <1>1, <1>2, <1>4, <1>5, <1>6, <1>7, <1>8, TopStep

\* The process_count that the jump leaves is the one its parent's call of
\* execute counts on: it is what that call incremented.
LEMMA JumpKeepsInv == ASSUME Inv, Jump PROVE Inv'
  <1> DEFINE r == Top.saved.region
             d == Top.saved.depth
             s == stk[r]
             a == [s[d] EXCEPT !.pc = "label", !.eax = Top.eax]
             t == SubSeq(s, 1, d - 1) \o <<a>>
             c == process_count
  <1>1. /\ user = NoUser /\ Top.pc = "jump" /\ UNCHANGED user
        /\ process_count' = c
        /\ r \in Pids /\ d \in 1 .. Len(s)
        /\ s[d].pc = "launched" /\ s[d].new = Top.new
        /\ esp' = r
        /\ stk' = [stk EXCEPT ![esp] = <<>>, ![r] = t]
    BY SMTT(30) DEF Jump, Running, Awaits
  <1>2. /\ Top \in Activations /\ Fits(Top, c)
        /\ stk \in [Pids -> Seq(Activations)] /\ esp \in Pids /\ c \in Counts
    BY <1>1, TopOk DEF Inv, TypeOK
  <1>3. Top.new = c + 1 /\ Top.new >= 2 /\ Top.eax \in Int /\ Top.new \in Nat
    BY <1>1, <1>2 DEF Fits, Activations
  <1>4. c \in Int /\ c >= 1
    BY <1>2, <1>3, Numbers, SMTT(30) DEF Counts
  <1>5. s \in Seq(Activations)
    BY <1>1, <1>2, SMTT(30)
  <1>6. PICK level \in [1 .. Len(s) -> Counts] : Levels(s, level)
    BY <1>1 DEF Inv, StackOk
  <1>7. s[d] \in Activations
    BY <1>1, <1>5, ElementOfSeq
  <1>8. /\ a \in Activations /\ a.pc = "label"
        /\ a.over = s[d].over /\ a.caller = s[d].caller
    <2>1. "label" \in Pcs
      BY DEF Pcs
    <2> HIDE DEF s, d
    <2> QED BY ONLY <1>3, <1>7, <2>1 DEF Activations
  <1> HIDE DEF a
  <1>9. Fits(a, c)
    BY ONLY <1>8 DEF Fits, Window, Counted
  <1>10. Beneath(a, c) = Beneath(s[d], level[d])
    BY ONLY <1>1, <1>3, <1>4, <1>8 DEF Beneath, Counted
  <1> DEFINE new == [i \in 1 .. d |-> IF i < d THEN level[i] ELSE c]
  <1>11. t \in Seq(Activations) /\ Len(t) = d /\ Levels(t, new)
    <2>1. d \in 1 .. Len(s) /\ c \in Counts /\ (a.over # NoUser => c >= 1)
      BY <1>1, <1>2, <1>4
    <2>2. a \in Activations /\ a.over = s[d].over /\ a.caller = s[d].caller
      BY <1>8
    <2> HIDE DEF s, d, c
    <2> QED BY ONLY <1>5, <1>6, <1>9, <1>10, <2>1, <2>2, CutLevels
  <1>12. d \in 1 .. d
    BY <1>1
  <1>13. t # <<>> /\ new[Len(t)] = process_count'
    <2>1. new[d] = c
      BY <1>12
    <2> HIDE DEF t, new
    <2>2. t # <<>>
      BY ONLY <1>11, <1>12, EmptySeq
    <2> QED BY <1>1, <1>11, <2>1, <2>2
  <1> HIDE DEF t, new, r, d, s, c
  <1>14. /\ stk' \in [Pids -> Seq(Activations)] /\ stk'[r] = t
         /\ \A q \in Pids \ {r} : stk'[q] = stk[q] \/ stk'[q] = <<>>
    <2>1. <<>> \in Seq(Activations)
      BY EmptySeq
    <2> QED BY ONLY <1>1, <1>2, <1>11, <2>1
  <1>15. (\A q \in Pids : StackOk(q))'
    BY <1>1, <1>11, <1>13, <1>14, StackStep
  <1>16. DataOk'
    BY DataOkUnchanged DEF Jump, data
  <1>17. esp' \in Pids /\ user' \in Contexts \cup {NoUser} /\ user' = NoUser
    BY <1>1
  <1> QED BY <1>14, <1>15, <1>16, <1>17, InvAfter

-----------------------------------------------------------------------------
\* The ways back.
LEMMA LinkageKeepsInv == ASSUME Inv, Linkage PROVE Inv'
  <1>1. /\ user = NoUser /\ Top.pc = "linkage"
        /\ UNCHANGED <<user, esp, process_count>>
    BY DEF Linkage, Running
  <1>2. Top \in Activations /\ Fits(Top, process_count) /\ Top.eax \in Int
    BY <1>1, TopOk DEF Activations
  <1>3. DataOk'
    BY <1>2, InvHasDataOk DEF Linkage, DataOk, IdsOk
  <1> DEFINE a == [Top EXCEPT !.pc = "popa"]
  <1>4. SetTop(a) /\ "popa" \in Pcs
    BY DEF Linkage, GoTo, Pcs
  <1>5. /\ a \in Activations /\ a.pc = "popa"
        /\ a.over = Top.over /\ a.caller = Top.caller /\ a.new = Top.new
    BY <1>2, <1>4, SetPc
  <1> HIDE DEF a
  <1>6. Fits(a, process_count) /\ (a.pc \in Counted <=> Top.pc \in Counted)
    BY <1>1, <1>2, <1>5 DEF Fits, Counted, Window
  <1> QED BY <1>1, <1>3, <1>4, <1>5, <1>6, GoOn

\* The last activation of a stack returns to a program.
LEMMA ReturnToUser ==
    ASSUME Inv, user = NoUser, Len(stk[esp]) = 1, user' \in Contexts,
           stk' = [stk EXCEPT ![esp] = Pop(@)],
           UNCHANGED <<esp, process_count>>, process_count >= 1, DataOk'
    PROVE  Inv'
  <1> DEFINE t == Pop(stk[esp])
             level == [i \in 1 .. 0 |-> 0]
  <1>1. esp \in Pids /\ stk \in [Pids -> Seq(Activations)]
    BY DEF Inv, TypeOK
  <1>2. t = <<>> /\ t \in Seq(Activations)
    BY <1>1, EmptySeq DEF Pop
  <1>3. Levels(t, level)
    BY <1>2 DEF Levels
  <1> HIDE DEF t, level
  <1>4. /\ stk' \in [Pids -> Seq(Activations)] /\ stk'[esp] = t
        /\ \A q \in Pids \ {esp} : stk'[q] = stk[q]
    BY <1>1, <1>2 DEF t
  <1>5. user' # NoUser
    BY ConstantsAssumption
  <1>6. (\A q \in Pids : StackOk(q))'
    BY <1>1, <1>2, <1>3, <1>4, <1>5, StackStep
  <1> QED BY <1>1, <1>4, <1>6, InvAfter

\* A system call returns.
LEMMA SyscallReturnKeepsInv == ASSUME Inv, SyscallReturn PROVE Inv'
  <1>1. /\ user = NoUser /\ Top.pc = "popa"
        /\ UNCHANGED <<esp, process_count>>
        /\ stk' = [stk EXCEPT ![esp] = Pop(@)]
    BY DEF SyscallReturn, Running
  <1>2. Top \in Activations /\ Fits(Top, process_count)
    BY <1>1, TopOk
  <1>3. Top.caller = "syscall"
    BY <1>1, <1>2 DEF Fits
  <1>4. Top.over # NoUser /\ process_count >= 1 /\ Len(stk[esp]) = 1
    BY <1>1, <1>3, TopOk
  <1>5. DataOk'
    BY InvHasDataOk DEF SyscallReturn, DataOk, IdsOk
  <1>6. user' \in Contexts
    <2>1. Top.over \in Contexts /\ ret_value \in Int
      BY <1>2, <1>4 DEF Activations, Inv, TypeOK
    <2>2. user' = [Top.over EXCEPT !.eax = ret_value]
      BY DEF SyscallReturn
    <2> QED BY ONLY <2>1, <2>2 DEF Contexts
  <1> QED BY <1>1, <1>4, <1>5, <1>6, ReturnToUser

\* The timer handler returns.
LEMMA PitReturnKeepsInv == ASSUME Inv, PitReturn PROVE Inv'
  <1>1. /\ user = NoUser /\ Top.pc = "return" /\ Top.caller = "pit"
        /\ UNCHANGED <<esp, process_count>> /\ user' = Top.over
        /\ stk' = [stk EXCEPT ![esp] = Pop(@)]
    BY DEF PitReturn, Running
  <1>2. Top \in Activations /\ Top.over \in Contexts \cup {NoUser}
    BY <1>1, TopOk DEF Activations
  <1>3. DataOk'
    BY InvHasDataOk DEF PitReturn, DataOk, IdsOk
  <1>4. CASE Top.over # NoUser
    <2>1. process_count >= 1 /\ Len(stk[esp]) = 1
      BY <1>1, <1>4, TopOk
    <2> QED BY <1>1, <1>2, <1>3, <1>4, <2>1, ReturnToUser
  <1>5. CASE Top.over = NoUser
    <2> DEFINE s == stk[esp]
               t == Pop(s)
    <2>1. s \in Seq(Activations) /\ Len(s) > 1 /\ s[Len(s)] = Top
      BY <1>1, <1>5, TopOk DEF Top
    <2>2. esp \in Pids /\ stk \in [Pids -> Seq(Activations)]
      BY DEF Inv, TypeOK
    <2>3. PICK level \in [1 .. Len(s) -> Counts] :
            Levels(s, level) /\ level[Len(s)] = process_count
      BY <1>1, <2>2 DEF Inv, StackOk
    <2> DEFINE new == [i \in 1 .. Len(s) - 1 |-> level[i]]
    <2>4. s[Len(s)].pc \notin Counted /\ s[Len(s)].caller # "halt"
      BY <1>1, <2>1 DEF Counted
    <2> HIDE DEF s
    <2>5. /\ t \in Seq(Activations) /\ Len(t) = Len(s) - 1
          /\ Levels(t, new)
          /\ level[Len(s) - 1] = level[Len(s)]
      BY <2>1, <2>3, <2>4, PopLevels
    <2>6. t # <<>> /\ new[Len(t)] = process_count
      <3>1. Len(s) - 1 \in 1 .. Len(s) - 1
        BY <2>1
      <3>2. new[Len(s) - 1] = process_count
        BY <2>3, <2>5, <3>1
      <3> HIDE DEF new, t
      <3> QED BY ONLY <2>5, <3>1, <3>2, EmptySeq
    <2> HIDE DEF new, t
    <2>7. /\ stk' \in [Pids -> Seq(Activations)] /\ stk'[esp] = t
          /\ \A q \in Pids \ {esp} : stk'[q] = stk[q]
      BY <1>1, <2>2, <2>5 DEF s, t
    <2>8. (\A q \in Pids : StackOk(q))'
      BY <1>1, <2>2, <2>5, <2>6, <2>7, StackStep
    <2> QED BY <1>1, <1>2, <1>3, <1>5, <2>2, <2>7, <2>8, InvAfter
  <1> QED BY <1>4, <1>5

-----------------------------------------------------------------------------
\* The ways in.

\* A trap from a program starts at the top of the stack that esp0 selects;
\* what lay there is gone.
LEMMA EnterFromUser ==
    ASSUME Inv, user # NoUser, NEW a \in Activations, a.over # NoUser,
           Fits(a, process_count), Enter(a), UNCHANGED process_count, DataOk'
    PROVE  Inv'
  <1> DEFINE t == <<a>>
             level == [i \in 1 .. 1 |-> process_count]
  <1>1. /\ esp0 \in Pids /\ stk \in [Pids -> Seq(Activations)]
        /\ process_count \in Counts /\ process_count >= 1
    BY DEF Inv, TypeOK
  <1>2. /\ stk' = [stk EXCEPT ![esp0] = t] /\ esp' = esp0 /\ user' = NoUser
    BY DEF Enter
  <1>3. t \in Seq(Activations) /\ Len(t) = 1 /\ Levels(t, level)
    BY <1>1, SingleLevels
  <1>4. t # <<>> /\ level[Len(t)] = process_count'
    BY <1>3
  <1> HIDE DEF t, level
  <1>5. /\ stk' \in [Pids -> Seq(Activations)] /\ stk'[esp0] = t
        /\ \A q \in Pids \ {esp0} : stk'[q] = stk[q]
    BY <1>1, <1>2, <1>3
  <1>6. (\A q \in Pids : StackOk(q))'
    BY <1>1, <1>2, <1>3, <1>4, <1>5, StackStep
  <1> QED BY <1>1, <1>2, <1>5, <1>6, InvAfter

\* The timer launches a shell.
LEMMA TickKeepsInv == ASSUME Inv, Tick PROVE Inv'
  <1> DEFINE a == Activation("pit", user, "parse", Shell)
  <1>1. Enter(a) /\ UNCHANGED process_count
    BY DEF Tick
  <1>2. DataOk'
    <2>1. DataOk /\ shell_count \in 0 .. MAX_SHELL_COUNT + 1
      BY InvHasDataOk DEF DataOk
    <2>2. shell_count' \in 0 .. MAX_SHELL_COUNT + 1
      BY <2>1, Numbers DEF Tick
    <2> QED BY <2>1, <2>2 DEF Tick, DataOk, IdsOk
  <1>3. /\ a \in Activations /\ a.pc = "parse" /\ a.over = user
        /\ a.caller = "pit"
    <2>1. /\ "pit" \in Callers /\ "parse" \in Pcs /\ Shell \in Commands
          /\ user \in Contexts \cup {NoUser}
      BY ConstantsAssumption DEF Callers, Pcs, Commands, Inv, TypeOK
    <2> QED BY ONLY <2>1, NewActivation
  <1> HIDE DEF a
  <1>4. Fits(a, process_count) /\ a.pc \notin Counted
    BY ONLY <1>3 DEF Fits, Window, Counted
  <1>5. CASE user # NoUser
    BY <1>1, <1>2, <1>3, <1>4, <1>5, EnterFromUser
  <1>6. CASE user = NoUser
    <2> DEFINE s == stk[esp]
               t == Append(s, a)
    <2>1. esp \in Pids /\ stk \in [Pids -> Seq(Activations)]
      BY DEF Inv, TypeOK
    <2>2. s \in Seq(Activations) /\ s # <<>> /\ Len(s) \in Nat
      BY <1>6, TopOk
    <2>3. PICK level \in [1 .. Len(s) -> Counts] :
            Levels(s, level) /\ level[Len(s)] = process_count
      BY <1>6, <2>1 DEF Inv, StackOk
    <2> DEFINE new == [i \in 1 .. Len(s) + 1 |->
                         IF i <= Len(s) THEN level[i] ELSE level[Len(s)]]
    <2>4. stk' = [stk EXCEPT ![esp] = t] /\ UNCHANGED <<esp, user>>
      BY <1>1, <1>6 DEF Enter
    <2> HIDE DEF s
    <2>5. a.over = NoUser /\ Fits(a, level[Len(s)])
      BY <1>3, <1>4, <1>6, <2>3
    <2>6. t \in Seq(Activations) /\ Len(t) = Len(s) + 1 /\ Levels(t, new)
      BY ONLY <1>3, <1>4, <2>2, <2>3, <2>5, PushLevels
    <2>7. t # <<>> /\ new[Len(t)] = process_count'
      <3>1. Len(s) + 1 \in 1 .. Len(s) + 1 /\ ~(Len(s) + 1 <= Len(s))
        BY <2>2
      <3>2. new[Len(s) + 1] = process_count'
        BY <1>1, <2>3, <3>1
      <3> HIDE DEF new, t
      <3> QED BY ONLY <2>2, <2>6, <3>1, <3>2, EmptySeq
    <2> HIDE DEF t, new
    <2>8. /\ stk' \in [Pids -> Seq(Activations)] /\ stk'[esp] = t
          /\ \A q \in Pids \ {esp} : stk'[q] = stk[q]
      BY <2>1, <2>4, <2>6
    <2>9. (\A q \in Pids : StackOk(q))'
      BY <2>1, <2>4, <2>6, <2>7, <2>8, StackStep
    <2>10. esp' \in Pids /\ user' \in Contexts \cup {NoUser} /\ user' = NoUser
      BY <1>6, <2>1, <2>4
    <2> QED BY <1>2, <2>8, <2>9, <2>10, InvAfter
  <1> QED BY <1>5, <1>6

\* What a system call saves of the program that made it.
LEMMA CallerContext ==
    ASSUME Inv, user # NoUser
    PROVE  LET context == [user EXCEPT !.eax = 0]
           IN  context \in Contexts /\ context # NoUser
  <1>1. user \in Contexts
    BY DEF Inv, TypeOK
  <1>2. [user EXCEPT !.eax = 0] \in Contexts
    BY ONLY <1>1 DEF Contexts
  <1> QED BY <1>2, ConstantsAssumption

\* A program calls execute.
LEMMA SyscallExecuteKeepsInv ==
    ASSUME Inv, NEW cmd \in Commands, SyscallExecute(cmd) PROVE Inv'
  <1> DEFINE context == [user EXCEPT !.eax = 0]
             a == Activation("syscall", context, "parse", cmd)
  <1>1. user # NoUser /\ Enter(a) /\ UNCHANGED data /\ UNCHANGED process_count
    BY DEF SyscallExecute, UserReady, data
  <1>2. context \in Contexts \cup {NoUser} /\ context # NoUser
    BY <1>1, CallerContext
  <1> HIDE DEF context
  <1>3. /\ a \in Activations /\ a.pc = "parse" /\ a.over = context
        /\ a.caller = "syscall"
    <2>1. "syscall" \in Callers /\ "parse" \in Pcs
      BY DEF Callers, Pcs
    <2> QED BY ONLY <1>2, <2>1, cmd \in Commands, NewActivation
  <1> HIDE DEF a
  <1>4. Fits(a, process_count)
    BY ONLY <1>3 DEF Fits, Window, Counted
  <1>5. DataOk'
    BY <1>1, DataOkUnchanged
  <1> QED BY <1>1, <1>2, <1>3, <1>4, <1>5, EnterFromUser

\* A program calls halt.
LEMMA SyscallHaltKeepsInv ==
    ASSUME Inv, NEW status \in Statuses, SyscallHalt(status) PROVE Inv'
  <1> DEFINE context == [user EXCEPT !.eax = 0]
             b == Activation("syscall", context, "begin", NoProgram)
             a == [b EXCEPT !.eax = status]
  <1>1. user # NoUser /\ Enter(a) /\ UNCHANGED data /\ UNCHANGED process_count
    BY DEF SyscallHalt, UserReady, data
  <1>2. context \in Contexts \cup {NoUser} /\ context # NoUser
    BY <1>1, CallerContext
  <1> HIDE DEF context
  <1>3. /\ b \in Activations /\ b.pc = "begin" /\ b.over = context
        /\ b.caller = "syscall"
    <2>1. "syscall" \in Callers /\ "begin" \in Pcs /\ NoProgram \in Commands
      BY DEF Callers, Pcs, Commands
    <2> QED BY ONLY <1>2, <2>1, NewActivation
  <1> HIDE DEF b
  <1>4. /\ a \in Activations /\ a.pc = "begin" /\ a.over = context
        /\ a.caller = "syscall"
    <2>1. status \in Int
      BY ConstantsAssumption
    <2> QED BY ONLY <1>3, <2>1 DEF Activations
  <1> HIDE DEF a
  <1>5. Fits(a, process_count)
    BY ONLY <1>4 DEF Fits, Window, Counted
  <1>6. DataOk'
    BY <1>1, DataOkUnchanged
  <1> QED BY <1>1, <1>2, <1>4, <1>5, <1>6, EnterFromUser

-----------------------------------------------------------------------------
\* The boot stack holds one activation, and no process runs.
LEMMA InitInv == Init => Inv
  <1> SUFFICES ASSUME Init PROVE Inv
    OBVIOUS
  <1> DEFINE a == Activation("entry", NoUser, "parse", Shell)
  <1>1. /\ a \in Activations /\ a.pc = "parse" /\ a.over = NoUser
        /\ a.caller = "entry"
    <2>1. /\ "entry" \in Callers /\ "parse" \in Pcs /\ Shell \in Commands
          /\ NoUser \in Contexts \cup {NoUser}
      BY ConstantsAssumption DEF Callers, Pcs, Commands
    <2> QED BY ONLY <2>1, NewActivation
  <1>2. stk = [r \in Pids |-> IF r = 0 THEN <<a>> ELSE <<>>]
    BY DEF Init
  <1> HIDE DEF a
  <1>3. stk \in [Pids -> Seq(Activations)]
    BY <1>1, <1>2, EmptySeq
  <1>4. NoPosition \in Positions /\ Pids \subseteq Int
    BY Numbers DEF NoPosition, Positions, Pids
  <1>5. /\ pcb \in [1 .. MAXPROCESS -> [currID : Int, parentID : Int,
                                        esp : Positions]]
        /\ IdsOk
    <2>1. \A n \in 1 .. MAXPROCESS : pcb[n] = Pcb(0, 0, NoPosition)
      BY DEF Init
    <2>2. /\ Pcb(0, 0, NoPosition) \in [currID : Int, parentID : Int,
                                        esp : Positions]
          /\ Pcb(0, 0, NoPosition).currID = 0
          /\ Pcb(0, 0, NoPosition).parentID = 0
      BY ONLY <1>4 DEF Pcb
    <2>3. IdsOk
      BY <2>1, <2>2, Numbers DEF IdsOk
    <2>4. pcb = [n \in 1 .. MAXPROCESS |-> Pcb(0, 0, NoPosition)]
      BY DEF Init
    <2> QED BY ONLY <2>2, <2>3, <2>4
  <1>6. image \in [Pids -> Commands \X Commands] /\ file_name \in Commands
    BY DEF Init, Commands
  <1>7. TypeOK
    BY <1>3, <1>5, <1>6, Numbers DEF Init, TypeOK
  <1>8. \A r \in Pids : StackOk(r)
    <2> SUFFICES ASSUME NEW r \in Pids PROVE StackOk(r)
      OBVIOUS
    <2>1. CASE r = 0
      <3> DEFINE level == [i \in 1 .. 1 |-> 0]
      <3>1. stk[r] = <<a>> /\ Len(<<a>>) = 1 /\ <<a>>[1] = a
        BY <1>1, <1>2, <2>1, Numbers
      <3>2. Fits(a, 0)
        BY ONLY <1>1 DEF Fits, Window, Counted
      <3>3. Placed(<<a>>, 1, 0)
        BY <1>1, <3>1 DEF Placed
      <3>4. level \in [1 .. 1 -> Counts] /\ level[1] = 0
        BY Numbers
      <3>5. Levels(<<a>>, level)
        BY <3>1, <3>2, <3>3, <3>4 DEF Levels
      <3>6. process_count = 0 /\ <<a>> # <<>>
        BY DEF Init
      <3> HIDE DEF level
      <3> QED BY <3>1, <3>4, <3>5, <3>6 DEF StackOk
    <2>2. CASE r # 0
      <3> DEFINE level == [i \in 1 .. 0 |-> 0]
      <3>1. stk[r] = <<>> /\ Len(<<>>) = 0
        BY <1>2, <2>2, EmptySeq
      <3>2. level \in [1 .. 0 -> Counts] /\ Levels(<<>>, level)
        BY <3>1 DEF Levels
      <3>3. r # esp
        BY <2>2 DEF Init
      <3> HIDE DEF level
      <3> QED BY <3>1, <3>2, <3>3 DEF StackOk
    <2> QED BY <2>1, <2>2
  <1>9. /\ esp \in Pids /\ esp0 \in Pids /\ process_count \in Counts
        /\ user = NoUser
    BY Numbers DEF Init
  <1> QED BY <1>5, <1>7, <1>8, <1>9 DEF Inv

\* Every step keeps the invariant.
LEMMA NextInv == Inv /\ [Next]_vars => Inv'
  <1> SUFFICES ASSUME Inv, [Next]_vars PROVE Inv'
    OBVIOUS
  <1>1. CASE Tick
    BY <1>1, TickKeepsInv
  <1>2. CASE \E cmd \in Commands : SyscallExecute(cmd)
    BY <1>2, SyscallExecuteKeepsInv
  <1>3. CASE \E status \in Statuses : SyscallHalt(status)
    BY <1>3, SyscallHaltKeepsInv
  <1>4. CASE UNCHANGED vars
    <2>1. DataOk'
      BY <1>4, DataOkUnchanged DEF vars, data
    <2>2. (\A r \in Pids : StackOk(r))'
      BY <1>4 DEF vars, Inv, StackOk
    <2> QED BY <1>4, <2>1, <2>2, InvAfter DEF vars, Inv, TypeOK
  <1>5. CASE Execute
    BY <1>5, ParseKeepsInv, LookupKeepsInv, FindKeepsInv, MarkKeepsInv,
       MapKeepsInv, CopyKeepsInv, FillPcbKeepsInv, CountKeepsInv,
       SaveContextKeepsInv, IretKeepsInv, ExecuteLabelKeepsInv DEF Execute
  <1>6. CASE Halt
    BY <1>6, HaltShellKeepsInv, HaltChildKeepsInv, JumpKeepsInv DEF Halt
  <1>7. CASE Linkage \/ SyscallReturn \/ PitReturn
    BY <1>7, LinkageKeepsInv, SyscallReturnKeepsInv, PitReturnKeepsInv
  <1> QED BY <1>1, <1>2, <1>3, <1>4, <1>5, <1>6, <1>7 DEF Next, Compute, Kernel

-----------------------------------------------------------------------------
\* Every stack of activations has levels, at every moment.
THEOREM InvCorrect == Spec => []Inv
  <1> QED BY InitInv, NextInv, PTL DEF Spec

\* The variables keep their types; in particular stk never leaves the kernel
\* stacks there are.
THEOREM TypeCorrect == Spec => []TypeOK
  <1>1. Inv => TypeOK
    BY DEF Inv
  <1> QED BY <1>1, InvCorrect, PTL

\* The limit that execute tests (line 154) is never exceeded, although it is
\* tested long before process_count is incremented (line 269) and the timer
\* may launch shells in between, and no halt takes process_count below 0.
THEOREM LimitKept == Spec => []ProcessLimit
  <1>1. Inv => ProcessLimit
    BY DEF Inv, ProcessLimit, Counts
  <1> QED BY <1>1, InvCorrect, PTL

\* PCBs, page directory entries and kernel stacks are selected by ids and
\* counters: those that system calls and halt use without a check, the fields
\* currID and parentID and the number process_count while a program runs, are
\* always ids of processes there may be.
THEOREM IdsCorrect ==
    Spec => [](/\ IdsOk
               /\ esp \in Pids /\ esp0 \in Pids
               /\ user # NoUser => process_count \in 1 .. MAXPROCESS)
  <1>1. Inv => (/\ IdsOk
                /\ esp \in Pids /\ esp0 \in Pids
                /\ user # NoUser => process_count \in 1 .. MAXPROCESS)
    BY Numbers DEF Inv, Counts
  <1> QED BY <1>1, InvCorrect, PTL

-----------------------------------------------------------------------------
\* How high a kernel stack grows.  It begins with a trap from user mode (or
\* the boot code); what lies above are launches by the timer, each counted in
\* shell_count, and at most one restart by halt: halt runs only at the bottom
\* of a stack, since only programs call it.
Restarts(s) == IF Len(s) >= 2 /\ s[2].caller = "halt" THEN 1 ELSE 0

\* A stack after n launches by the timer.
Bounded(s, n) ==
    /\ \A i \in 1 .. Len(s) : s[i].pc = "begin" => i = 1
    /\ Len(s) <= 1 + n + Restarts(s)

Heights == \A r \in Pids : Bounded(stk[r], shell_count)

-----------------------------------------------------------------------------
\* Stacks that change at their end.
LEMMA SetLastBounded ==
    ASSUME NEW s \in Seq(Activations), s # <<>>, NEW n \in Nat, Bounded(s, n),
           NEW a, a.caller = s[Len(s)].caller, a.pc # "begin"
    PROVE  Bounded(SetLast(s, a), n)
  <1> DEFINE t == SetLast(s, a)
             Some == Activations \cup {a}
  <1>1. /\ Len(s) \in Nat /\ Len(s) >= 1 /\ Len(t) = Len(s)
        /\ t[Len(s)] = a /\ \A i \in 1 .. Len(s) - 1 : t[i] = s[i]
    <2>1. s \in Seq(Some) /\ a \in Some
      BY SeqMonotonic
    <2>2. Len(s) \in 1 .. Len(s) /\ Len(s) \in Nat
      BY EmptySeq
    <2> HIDE DEF Some
    <2> QED BY <2>1, <2>2, ExceptSeq DEF SetLast
  <1> HIDE DEF t
  <1>2. \A i \in 1 .. Len(t) : t[i].caller = s[i].caller
    BY <1>1
  <1>3. Restarts(t) = Restarts(s)
    BY <1>1, <1>2 DEF Restarts
  <1>4. ASSUME NEW i \in 1 .. Len(t), t[i].pc = "begin" PROVE i = 1
    BY <1>1, <1>4 DEF Bounded
  <1>5. Len(t) <= 1 + n + Restarts(t)
    BY <1>1, <1>3 DEF Bounded
  <1>6. Bounded(t, n)
    BY <1>4, <1>5 DEF Bounded
  <1> QED BY <1>6 DEF t

\* A stack whose last activation is gone.
LEMMA PopBounded ==
    ASSUME NEW s \in Seq(Activations), s # <<>>, NEW n \in Nat, Bounded(s, n)
    PROVE  Bounded(Pop(s), n)
  <1>1. Len(s) \in Nat /\ Len(s) >= 1
    BY EmptySeq
  <1>2. /\ Len(Pop(s)) = Len(s) - 1
        /\ \A i \in 1 .. Len(s) - 1 : Pop(s)[i] = s[i]
    <2> DEFINE m == Len(s) - 1
    <2>1. m \in Int /\ m >= 0 /\ \A i \in 1 .. m : s[i] \in Activations
      BY <1>1, ElementOfSeq
    <2>2. /\ Len(SubSeq(s, 1, m)) = IF 1 <= m THEN m - 1 + 1 ELSE 0
          /\ \A i \in 1 .. m - 1 + 1 : SubSeq(s, 1, m)[i] = s[1 + i - 1]
      BY <2>1, SubSeqProperties
    <2> HIDE DEF m
    <2>3. Len(SubSeq(s, 1, m)) = m /\ \A i \in 1 .. m : SubSeq(s, 1, m)[i] = s[i]
      BY <2>1, <2>2
    <2> QED BY <2>3 DEF Pop, m
  <1>3. Restarts(s) \in 0 .. 1
    BY DEF Restarts
  <1>4. CASE Len(s) <= 2
    <2>1. Restarts(Pop(s)) = 0
      BY <1>1, <1>2, <1>4 DEF Restarts
    <2> QED BY <1>1, <1>2, <1>3, <1>4, <2>1 DEF Bounded
  <1>5. CASE Len(s) > 2
    <2>1. Restarts(Pop(s)) = Restarts(s)
      BY <1>1, <1>2, <1>5 DEF Restarts
    <2> QED BY <1>1, <1>2, <1>3, <1>5, <2>1 DEF Bounded
  <1> QED BY <1>1, <1>4, <1>5

\* The timer puts a launch on top, and counts it.
LEMMA AppendBounded ==
    ASSUME NEW s \in Seq(Activations), s # <<>>, NEW n \in Nat, Bounded(s, n),
           NEW a \in Activations, a.pc # "begin"
    PROVE  /\ Bounded(Append(s, a), n + 1)
           /\ a.caller = "halt" /\ Len(s) = 1 => Bounded(Append(s, a), n)
  <1> DEFINE t == Append(s, a)
  <1>1. Len(s) \in Nat /\ Len(s) >= 1
    BY EmptySeq
  <1>2. /\ Len(t) = Len(s) + 1 /\ t[Len(s) + 1] = a
        /\ \A i \in 1 .. Len(s) : t[i] = s[i]
    BY <1>1
  <1> HIDE DEF t
  <1>3. \A i \in 1 .. Len(t) : t[i].pc = "begin" => i = 1
    BY <1>1, <1>2 DEF Bounded
  <1>4. Restarts(s) \in 0 .. 1 /\ Restarts(t) \in 0 .. 1
    BY DEF Restarts
  <1>5. Len(s) >= 2 => Restarts(t) = Restarts(s)
    BY <1>1, <1>2 DEF Restarts
  <1>6. Len(s) = 1 => Restarts(s) = 0
    BY <1>1 DEF Restarts
  <1>7. Len(t) <= 1 + (n + 1) + Restarts(t)
    BY <1>1, <1>2, <1>4, <1>5, <1>6 DEF Bounded
  <1>8. a.caller = "halt" /\ Len(s) = 1 => Len(t) <= 1 + n + Restarts(t)
    BY <1>1, <1>2 DEF Restarts
  <1>9. Bounded(t, n + 1) /\ (a.caller = "halt" /\ Len(s) = 1 => Bounded(t, n))
    BY <1>3, <1>7, <1>8 DEF Bounded
  <1> QED BY <1>9 DEF t

\* A trap from user mode starts at the top.
LEMMA OneBounded ==
    ASSUME NEW a, NEW n \in Nat
    PROVE  Bounded(<<a>>, n) /\ Bounded(<<>>, n)
  BY DEF Bounded, Restarts

\* The bound grows with the launches.
LEMMA MoreLaunches ==
    ASSUME NEW s \in Seq(Activations), NEW n \in Nat, Bounded(s, n)
    PROVE  Bounded(s, n + 1)
  <1>1. Len(s) \in Nat /\ Restarts(s) \in 0 .. 1
    BY DEF Restarts
  <1> QED BY <1>1 DEF Bounded

\* halt cuts a stack off above the call of execute it returns to.
LEMMA CutBounded ==
    ASSUME NEW s \in Seq(Activations), NEW n \in Nat, Bounded(s, n),
           NEW d \in 1 .. Len(s), NEW a \in Activations,
           a.caller = s[d].caller, a.pc # "begin"
    PROVE  Bounded(SubSeq(s, 1, d - 1) \o <<a>>, n)
  <1> DEFINE t == SubSeq(s, 1, d - 1) \o <<a>>
  <1>1. Len(s) \in Nat /\ d \in Nat /\ d >= 1 /\ d <= Len(s)
    OBVIOUS
  <1>2. /\ Len(t) = d /\ t[d] = a /\ \A i \in 1 .. d - 1 : t[i] = s[i]
    BY <1>1
  <1> HIDE DEF t
  <1>3. \A i \in 1 .. Len(t) : t[i].pc = "begin" => i = 1
    BY <1>1, <1>2 DEF Bounded
  <1>4. Restarts(s) \in 0 .. 1 /\ Restarts(t) \in 0 .. 1
    BY DEF Restarts
  <1>5. d >= 2 => Restarts(t) = Restarts(s)
    BY <1>1, <1>2 DEF Restarts
  <1>6. Len(t) <= 1 + n + Restarts(t)
    BY <1>1, <1>2, <1>4, <1>5 DEF Bounded
  <1>7. Bounded(t, n)
    BY <1>3, <1>6 DEF Bounded
  <1> QED BY <1>7 DEF t

-----------------------------------------------------------------------------
\* A step that changes one stack to t, launched by the timer or not.
LEMMA OneStack ==
    ASSUME Inv, Heights, NEW r \in Pids, NEW t, stk' = [stk EXCEPT ![r] = t],
           shell_count' \in {shell_count, shell_count + 1},
           Bounded(t, shell_count')
    PROVE  Heights'
  <1>1. stk \in [Pids -> Seq(Activations)] /\ shell_count \in Nat
    BY Numbers DEF Inv, TypeOK
  <1> SUFFICES ASSUME NEW q \in Pids PROVE Bounded(stk'[q], shell_count')
    BY DEF Heights, Bounded, Restarts
  <1>2. CASE q = r
    BY <1>1, <1>2
  <1>3. CASE q # r
    <2>1. stk'[q] = stk[q] /\ Bounded(stk[q], shell_count)
      BY <1>1, <1>3 DEF Heights
    <2>2. Bounded(stk[q], shell_count + 1)
      BY <1>1, <2>1, MoreLaunches
    <2> QED BY <2>1, <2>2
  <1> QED BY <1>2, <1>3

\* The stack in use, of kernel code.
LEMMA InUse ==
    ASSUME Inv, Heights, user = NoUser
    PROVE  /\ esp \in Pids /\ stk[esp] \in Seq(Activations) /\ stk[esp] # <<>>
           /\ shell_count \in Nat /\ Bounded(stk[esp], shell_count)
           /\ Top \in Activations
  <1>1. esp \in Pids /\ shell_count \in Nat
    BY Numbers DEF Inv, TypeOK
  <1> QED BY <1>1, TopOk DEF Heights

\* The kernel goes on within one activation.
LEMMA TopMoves ==
    ASSUME Inv, Heights, user = NoUser, NEW a, SetTop(a), UNCHANGED shell_count,
           a.caller = Top.caller, a.pc # "begin"
    PROVE  Heights'
  <1>1. Bounded(SetLast(stk[esp], a), shell_count)
    BY InUse, SetLastBounded DEF Top
  <1>2. stk' = [stk EXCEPT ![esp] = SetLast(stk[esp], a)]
    BY DEF SetTop
  <1> QED BY <1>1, <1>2, InUse, OneStack

\* The same, where only the place changes.
LEMMA GoToMoves ==
    ASSUME Inv, Heights, user = NoUser, UNCHANGED shell_count,
           NEW p, p # "begin", GoTo(p)
    PROVE  Heights'
  <1> DEFINE a == [Top EXCEPT !.pc = p]
  <1>1. a.caller = Top.caller /\ a.pc = p
    BY InUse DEF Activations
  <1>2. SetTop(a)
    BY DEF GoTo
  <1> HIDE DEF a
  <1> QED BY <1>1, <1>2, TopMoves

\* The same, where execute returns.
LEMMA FinishMoves ==
    ASSUME Inv, Heights, user = NoUser, UNCHANGED shell_count,
           NEW value, Finish(value)
    PROVE  Heights'
  <1> DEFINE p == IF Top.caller = "syscall" THEN "linkage" ELSE "return"
             a == [Top EXCEPT !.pc = p, !.eax = value]
  <1>1. a.caller = Top.caller /\ a.pc # "begin"
    BY InUse DEF Activations
  <1>2. SetTop(a)
    BY DEF Finish
  <1> HIDE DEF a
  <1> QED BY <1>1, <1>2, TopMoves

-----------------------------------------------------------------------------
\* The steps.
LEMMA ExecuteKeepsHeights == ASSUME Inv, Heights, Execute PROVE Heights'
  <1>1. CASE Parse
    BY <1>1, FinishMoves, GoToMoves DEF Parse, Running
  <1>2. CASE Lookup
    <2>1. user = NoUser /\ UNCHANGED shell_count
      BY <1>2 DEF Lookup, Running
    <2>2. CASE Finish(-1)
      BY <2>1, <2>2, FinishMoves
    <2> DEFINE a == [Top EXCEPT !.pc = "find", !.cmd = file_name]
    <2>3. CASE SetTop(a)
      <3>1. a.caller = Top.caller /\ a.pc # "begin"
        BY <2>1, InUse DEF Activations
      <3> HIDE DEF a
      <3> QED BY <2>1, <2>3, <3>1, TopMoves
    <2> QED BY <1>2, <2>2, <2>3 DEF Lookup
  <1>3. CASE Find
    <2>1. user = NoUser /\ UNCHANGED shell_count
      BY <1>3 DEF Find, Running
    <2>2. PICK i \in 0 .. MAXPROCESS :
            SetTop([Top EXCEPT !.pc = "mark", !.index = i])
      BY <1>3 DEF Find
    <2> DEFINE a == [Top EXCEPT !.pc = "mark", !.index = i]
    <2>3. SetTop(a) /\ a.caller = Top.caller /\ a.pc # "begin"
      BY <2>1, <2>2, InUse DEF Activations
    <2> HIDE DEF a
    <2> QED BY <2>1, <2>3, TopMoves
  <1>4. CASE Mark
    <2> DEFINE a == [Top EXCEPT !.pc = "map", !.index = 0]
    <2>1. user = NoUser /\ UNCHANGED shell_count /\ SetTop(a)
      BY <1>4 DEF Mark, Running
    <2>2. a.caller = Top.caller /\ a.pc # "begin"
      BY <2>1, InUse DEF Activations
    <2> HIDE DEF a
    <2> QED BY <2>1, <2>2, TopMoves
  <1>5. CASE Map \/ Copy(1) \/ Copy(2)
    BY <1>5, GoToMoves DEF Map, Copy, Running
  <1>6. CASE FillPcb
    <2> DEFINE a == [Top EXCEPT !.pc = "count", !.new = process_count + 1]
    <2>1. user = NoUser /\ UNCHANGED shell_count /\ SetTop(a)
      BY <1>6 DEF FillPcb, Running
    <2>2. a.caller = Top.caller /\ a.pc # "begin"
      BY <2>1, InUse DEF Activations
    <2> HIDE DEF a
    <2> QED BY <2>1, <2>2, TopMoves
  <1>7. CASE Count \/ SaveContext
    BY <1>7, GoToMoves DEF Count, SaveContext, Running
  <1>8. CASE Iret
    BY <1>8, GoToMoves DEF Iret, Running
  <1>9. CASE ExecuteLabel
    BY <1>9, FinishMoves DEF ExecuteLabel, Running
  <1> QED BY <1>1, <1>2, <1>3, <1>4, <1>5, <1>6, <1>7, <1>8, <1>9 DEF Execute

\* halt was called by the program, at the bottom of its stack, and puts the
\* one launch it makes right above.
LEMMA HaltShellKeepsHeights == ASSUME Inv, Heights, HaltShell PROVE Heights'
  <1> DEFINE a == Activation("halt", NoUser, "parse", Shell)
             s == stk[esp]
  <1>1. /\ user = NoUser /\ Len(s) = 1 /\ UNCHANGED shell_count
        /\ stk' = [stk EXCEPT ![esp] = Append(s, a)]
    BY BeginOk DEF HaltShell
  <1>2. a \in Activations /\ a.pc = "parse" /\ a.caller = "halt"
    <2>1. /\ "halt" \in Callers /\ "parse" \in Pcs /\ Shell \in Commands
          /\ NoUser \in Contexts \cup {NoUser}
      BY ConstantsAssumption DEF Callers, Pcs, Commands
    <2> QED BY ONLY <2>1, NewActivation
  <1>3. /\ esp \in Pids /\ s \in Seq(Activations) /\ s # <<>>
        /\ shell_count \in Nat /\ Bounded(s, shell_count)
    BY <1>1, InUse
  <1> HIDE DEF a, s
  <1>4. Bounded(Append(s, a), shell_count)
    BY <1>1, <1>2, <1>3, AppendBounded
  <1> QED BY <1>1, <1>3, <1>4, OneStack

\* Another program ends.
LEMMA HaltChildKeepsHeights == ASSUME Inv, Heights, HaltChild PROVE Heights'
  <1> DEFINE a == [Top EXCEPT !.pc = "jump", !.saved = pcb[process_count].esp,
                              !.new = process_count]
  <1>1. user = NoUser /\ UNCHANGED shell_count /\ SetTop(a)
    BY DEF HaltChild, Running
  <1>2. a.caller = Top.caller /\ a.pc # "begin"
    BY <1>1, InUse DEF Activations
  <1> HIDE DEF a
  <1> QED BY <1>1, <1>2, TopMoves

\* halt leaves its own stack empty, and the parent's up to its call.
LEMMA JumpKeepsHeights == ASSUME Inv, Heights, Jump PROVE Heights'
  <1> DEFINE r == Top.saved.region
             d == Top.saved.depth
             s == stk[r]
             a == [s[d] EXCEPT !.pc = "label", !.eax = Top.eax]
             t == SubSeq(s, 1, d - 1) \o <<a>>
  <1>1. /\ user = NoUser /\ r \in Pids /\ d \in 1 .. Len(s)
        /\ stk' = [stk EXCEPT ![esp] = <<>>, ![r] = t]
        /\ UNCHANGED shell_count
    BY DEF Jump, Running, Awaits
  <1>2. /\ stk \in [Pids -> Seq(Activations)] /\ shell_count \in Nat
        /\ Bounded(s, shell_count)
    BY <1>1, InUse DEF Inv, TypeOK, Heights
  <1>3. s \in Seq(Activations) /\ s[d] \in Activations
    BY <1>1, <1>2, ElementOfSeq
  <1>4. a \in Activations /\ a.caller = s[d].caller /\ a.pc # "begin"
    <2>1. "label" \in Pcs /\ Top.eax \in Int
      BY <1>1, InUse DEF Pcs, Activations
    <2> HIDE DEF s, d
    <2> QED BY ONLY <1>3, <2>1 DEF Activations
  <1> HIDE DEF a
  <1>5. Bounded(t, shell_count)
    <2> HIDE DEF s, d
    <2> QED BY <1>1, <1>2, <1>3, <1>4, CutBounded
  <1> HIDE DEF t, r, d, s
  <1> SUFFICES ASSUME NEW q \in Pids PROVE Bounded(stk'[q], shell_count')
    BY DEF Heights, Bounded, Restarts
  <1>6. stk'[q] \in {stk[q], <<>>, t} /\ (stk'[q] = t \/ q # r)
    BY <1>1, <1>2
  <1>7. Bounded(<<>>, shell_count) /\ Bounded(stk[q], shell_count)
    BY <1>2 DEF Heights, Bounded, Restarts
  <1> QED BY <1>1, <1>5, <1>6, <1>7, SMTT(30)

\* Returns take the activation on top away.
LEMMA ReturnKeepsHeights ==
    ASSUME Inv, Heights, SyscallReturn \/ PitReturn PROVE Heights'
  <1>1. /\ user = NoUser /\ UNCHANGED shell_count
        /\ stk' = [stk EXCEPT ![esp] = Pop(stk[esp])]
    BY DEF SyscallReturn, PitReturn, Running
  <1>2. Bounded(Pop(stk[esp]), shell_count)
    BY <1>1, InUse, PopBounded
  <1> QED BY <1>1, <1>2, InUse, OneStack

\* A trap from a program starts a stack afresh.
LEMMA TrapKeepsHeights ==
    ASSUME Inv, Heights, user # NoUser, NEW a, Enter(a),
           shell_count' \in {shell_count, shell_count + 1}
    PROVE  Heights'
  <1>1. esp0 \in Pids /\ stk' = [stk EXCEPT ![esp0] = <<a>>]
    BY DEF Inv, Enter
  <1>2. shell_count \in Nat /\ shell_count' \in Nat
    BY Numbers DEF Inv, TypeOK
  <1>3. Bounded(<<a>>, shell_count')
    BY <1>2, OneBounded
  <1> QED BY <1>1, <1>3, OneStack

\* The timer launches a shell.
LEMMA TickKeepsHeights == ASSUME Inv, Heights, Tick PROVE Heights'
  <1> DEFINE a == Activation("pit", user, "parse", Shell)
  <1>1. Enter(a) /\ shell_count' = shell_count + 1
    BY DEF Tick
  <1>2. CASE user # NoUser
    BY <1>1, <1>2, TrapKeepsHeights
  <1>3. CASE user = NoUser
    <2>1. stk' = [stk EXCEPT ![esp] = Append(stk[esp], a)]
      BY <1>1, <1>3 DEF Enter
    <2>2. a \in Activations /\ a.pc = "parse"
      <3>1. /\ "pit" \in Callers /\ "parse" \in Pcs /\ Shell \in Commands
            /\ user \in Contexts \cup {NoUser}
        BY <1>3, ConstantsAssumption DEF Callers, Pcs, Commands
      <3> QED BY ONLY <3>1, NewActivation
    <2> HIDE DEF a
    <2>3. Bounded(Append(stk[esp], a), shell_count + 1)
      BY <1>3, <2>2, InUse, AppendBounded
    <2> QED BY <1>1, <1>3, <2>1, <2>3, InUse, OneStack
  <1> QED BY <1>2, <1>3

-----------------------------------------------------------------------------
\* One activation on the boot stack.
LEMMA InitHeights == Init => Heights
  <1> SUFFICES ASSUME Init, NEW r \in Pids PROVE Bounded(stk[r], shell_count)
    BY DEF Heights
  <1>1. shell_count \in Nat
    BY DEF Init
  <1>2. PICK a : stk[r] = <<>> \/ stk[r] = <<a>>
    BY DEF Init
  <1> QED BY <1>1, <1>2, OneBounded

\* Every step keeps the heights.
LEMMA NextHeights == Inv /\ Heights /\ [Next]_vars => Heights'
  <1> SUFFICES ASSUME Inv, Heights, [Next]_vars PROVE Heights'
    OBVIOUS
  <1>1. CASE Tick
    BY <1>1, TickKeepsHeights
  <1>2. CASE \E cmd \in Commands : SyscallExecute(cmd)
    BY <1>2, TrapKeepsHeights DEF SyscallExecute, UserReady
  <1>3. CASE \E status \in Statuses : SyscallHalt(status)
    BY <1>3, TrapKeepsHeights DEF SyscallHalt, UserReady
  <1>4. CASE UNCHANGED vars
    BY <1>4 DEF vars, Heights
  <1>5. CASE Execute
    BY <1>5, ExecuteKeepsHeights
  <1>6. CASE Halt
    BY <1>6, HaltShellKeepsHeights, HaltChildKeepsHeights, JumpKeepsHeights
       DEF Halt
  <1>7. CASE Linkage
    BY <1>7, GoToMoves DEF Linkage, Running
  <1>8. CASE SyscallReturn \/ PitReturn
    BY <1>8, ReturnKeepsHeights
  <1> QED BY <1>1, <1>2, <1>3, <1>4, <1>5, <1>6, <1>7, <1>8
          DEF Next, Compute, Kernel

\* No kernel stack ever holds more activations than the shells the timer
\* launches, the trap they come in and one restart by halt: shells that exit,
\* ticks and commands do not pile up on the 8 KB there are.
THEOREM StacksBounded == Spec => []KernelStackBounded
  <1>1. Inv /\ Heights => KernelStackBounded
    <2> SUFFICES ASSUME Inv, Heights, NEW r \in Pids
                 PROVE  Len(stk[r]) <= MAX_SHELL_COUNT + 3
      BY DEF KernelStackBounded
    <2>1. /\ shell_count \in Nat /\ shell_count <= MAX_SHELL_COUNT + 1
          /\ MAX_SHELL_COUNT \in Nat /\ stk[r] \in Seq(Activations)
      BY Numbers DEF Inv, TypeOK
    <2>2. Len(stk[r]) \in Nat /\ Restarts(stk[r]) \in 0 .. 1
      BY <2>1, EmptySeq DEF Restarts
    <2>3. Len(stk[r]) <= 1 + shell_count + Restarts(stk[r])
      BY DEF Heights, Bounded
    <2> QED BY <2>1, <2>2, <2>3
  <1> QED BY <1>1, InvCorrect, InitHeights, NextHeights, PTL DEF Spec

-----------------------------------------------------------------------------
(***************************************************************************)
(* execute and halt implement a stack of processes, the program that runs  *)
(* finds the machine set up for it, and its launchers wait for it: proof   *)
(* for any process limit and any programs, with the limit of shells the    *)
(* code has (halt asks for ids up to 2, whatever scheduling.c says), and   *)
(* no input before the timer has launched its shells.  Without the last    *)
(* none of it is true: the timer may come in between the steps of a call.  *)
(*                                                                         *)
(* The invariant, Ordered, says of every point of execute and halt what    *)
(* the call has done so far; that the image and the PCB of every process   *)
(* are complete; and that the launcher of each waits, alone on its stack.  *)
(***************************************************************************)

\* Where execute is between its call and the program it starts.
Launching == {"parse", "lookup", "find", "mark", "map", "copy1", "copy2", "pcb",
              "count", "context", "iret"}

\* The number of processes when the kernel was entered: execute has counted the
\* new one, or halt has stopped counting the old one.
EnteredAt(p, c) == IF p \in {"context", "iret"} THEN c - 1
                   ELSE IF p = "jump" THEN c + 1 ELSE c

Entered == IF user = NoUser THEN EnteredAt(Top.pc, process_count)
           ELSE process_count

\* The image and the PCB of process n are complete.
SetUp(n) ==
    /\ image[n - 1][1] = image[n - 1][2]
    /\ pcb[n].currID = n - 1
    /\ n > 1 => pcb[n].parentID = n - 2

AllSetUp == \A n \in 1 .. process_count : SetUp(n)

\* The launcher of process n waits, alone on the stack of process n - 1, to go
\* back to it.
Waits(n) ==
    LET a == stk[n - 2][1] IN
    /\ Len(stk[n - 2]) = 1
    /\ a.pc = "launched" /\ a.new = n
    /\ a.caller \in {"syscall", "pit"} /\ (a.caller = "pit" => a.cmd = Shell)
    /\ a.over # NoUser
    /\ a.over.slot = n - 2 /\ a.over.prog = image[n - 2][1]
    /\ pcb[n].esp = [region |-> n - 2, depth |-> 1]

AllWait == \A n \in 4 .. Entered : Waits(n)

\* A program runs.
ProgramRuns ==
    /\ user.slot = process_count - 1
    /\ prog_page = process_count - 1
    /\ esp0 = process_count - 1
    /\ image[process_count - 1][1] = user.prog
    /\ process_count >= shell_count

\* What the call of execute at the top has done so far.
Progress ==
    /\ Top.pc = "lookup" => file_name = Top.cmd
    /\ Top.pc \in Launching \ {"parse", "lookup"} => Top.cmd \in Programs
    /\ Top.pc \in {"copy1", "copy2", "pcb", "count", "context", "iret"} =>
          prog_page = Entered
    /\ Top.pc \in {"copy2", "pcb", "count", "context", "iret"} =>
          image[Entered][1] = Top.cmd
    /\ Top.pc \in {"pcb", "count", "context", "iret"} =>
          image[Entered][2] = Top.cmd
    /\ Top.pc = "count" => SetUp(Entered + 1)
    /\ Top.pc \in {"count", "context", "iret"} => Top.new = Entered + 1
    /\ Top.pc = "iret" =>
          /\ esp0 = Entered
          /\ pcb[Entered + 1].esp = [region |-> esp, depth |-> Len(stk[esp])]

\* The timer may launch a shell.
CanTick == interrupts /\ shell_count <= MAX_SHELL_COUNT

\* The kernel serves a program: a system call, or the timer interrupted it.
Serves ==
    /\ Top.caller \in {"syscall", "pit"} /\ Top.over # NoUser
    /\ Entered >= 1 /\ esp = Entered - 1 /\ Len(stk[esp]) = 1
    /\ Top.over.slot = esp /\ Top.over.prog = image[esp][1]
    /\ Top.pc \notin {"iret", "jump"} => esp0 = esp
    /\ Top.pc \in {"parse", "lookup", "find", "mark", "map", "begin", "label",
                   "linkage", "popa", "return"} => prog_page = esp
    /\ Top.pc = "jump" =>
          /\ Entered > 3 /\ prog_page = esp - 1 /\ esp0 = esp - 1
          /\ Top.new = Entered
          /\ Top.saved = [region |-> esp - 1, depth |-> 1]
    /\ Top.caller = "pit" => Top.cmd = Shell
    /\ Top.caller = "syscall" => shell_count > MAX_SHELL_COUNT /\ Entered >= shell_count
    /\ ~CanTick
    /\ Entered + 1 >= shell_count
    /\ Top.pc \notin Launching => Entered >= shell_count

\* halt restarts the shell of a terminal.
Replaces ==
    /\ Top.caller = "halt" /\ Top.over = NoUser /\ Top.cmd = Shell
    /\ Top.pc \in Launching
    /\ Entered \in 0 .. 2 /\ esp = Entered
    /\ Top.pc # "iret" => esp0 = esp
    /\ shell_count > MAX_SHELL_COUNT /\ Entered + 1 >= shell_count

\* The kernel launches the first shell, or the timer does instead.
Boots ==
    /\ Top.caller \in {"entry", "pit"} /\ Top.over = NoUser /\ Top.cmd = Shell
    /\ Top.pc \in Launching
    /\ Entered \in 0 .. 1 /\ esp = 0
    /\ Top.pc # "iret" => esp0 = 0
    /\ Top.caller = "entry" => shell_count = 0 /\ Entered = 0
    /\ Top.caller = "pit" => shell_count = 1 /\ ~CanTick

Works == Serves \/ Replaces \/ Boots

Ordered ==
    /\ AllSetUp /\ AllWait
    /\ user # NoUser => ProgramRuns
    /\ user = NoUser => Progress /\ Works

-----------------------------------------------------------------------------
\* The kernel has changed the activation at the top, and no other.
LEMMA TopAfter ==
    ASSUME Inv, user = NoUser, NEW a \in Activations, SetTop(a), esp' = esp
    PROVE  /\ Top' = a /\ Len(stk'[esp]) = Len(stk[esp])
           /\ \A r \in Pids \ {esp} : stk'[r] = stk[r]
<1>1. /\ stk[esp] \in Seq(Activations) /\ stk[esp] # <<>>
  BY TopOk
<1>2. esp \in Pids /\ stk \in [Pids -> Seq(Activations)]
  BY DEF Inv, TypeOK
<1> DEFINE s == stk[esp]
           t == SetLast(s, a)
<1>3. stk' = [stk EXCEPT ![esp] = t]
  BY DEF SetTop
<1>4. Len(t) = Len(s) /\ t[Len(s)] = a
  <2> HIDE DEF s
  <2>1. s \in Seq(Activations) /\ s # <<>>
    BY <1>1 DEF s
  <2>2. QED BY ONLY <2>1, a \in Activations, SetLastProperties DEF t
<1> HIDE DEF t
<1>5. stk'[esp] = t /\ \A r \in Pids \ {esp} : stk'[r] = stk[r]
  BY <1>2, <1>3
<1>6. Top' = stk'[esp][Len(stk'[esp])]
  BY DEF Top
<1>7. QED BY <1>4, <1>5, <1>6

\* Entered, in numbers.
LEMMA EnteredIs ==
    ASSUME Inv, user = NoUser
    PROVE  /\ process_count \in Nat /\ process_count <= MAXPROCESS
           /\ Entered \in Nat /\ Entered <= MAXPROCESS
           /\ Top.pc \in {"context", "iret"} => Entered = process_count - 1
           /\ Top.pc = "jump" => Entered = process_count + 1
           /\ Top.pc \notin {"context", "iret", "jump"} => Entered = process_count
<1>1. process_count \in Nat /\ process_count <= MAXPROCESS /\ MAXPROCESS \in Nat
  BY Numbers DEF Inv, Counts
<1>2. Fits(Top, process_count)
  BY TopOk
<1>3. /\ Top.pc \in {"context", "iret"} => process_count >= 1
      /\ Top.pc = "jump" => process_count < MAXPROCESS
  BY <1>2 DEF Fits, Window, Counted
<1>4. Entered = EnteredAt(Top.pc, process_count)
  BY DEF Entered
<1>5. QED BY ONLY <1>1, <1>3, <1>4 DEF EnteredAt

\* Nothing that the processes below depend on has changed.
LEMMA SetUpSteps ==
    ASSUME AllSetUp,
           \A n \in 1 .. process_count' :
               \/ SetUp(n)'
               \/ /\ n \in 1 .. process_count /\ image'[n - 1] = image[n - 1]
                  /\ pcb'[n].currID = pcb[n].currID /\ pcb'[n].parentID = pcb[n].parentID
    PROVE  AllSetUp'
<1>1. ASSUME NEW n \in 1 .. process_count',
             n \in 1 .. process_count, image'[n - 1] = image[n - 1],
             pcb'[n].currID = pcb[n].currID, pcb'[n].parentID = pcb[n].parentID
      PROVE  SetUp(n)'
  BY <1>1 DEF AllSetUp, SetUp
<1>2. QED BY <1>1 DEF AllSetUp

\* Nothing that the waiting launchers depend on has changed.
LEMMA WaitsSteps ==
    ASSUME AllWait,
           \A n \in 4 .. Entered' :
               /\ n \in 4 .. Entered /\ stk'[n - 2] = stk[n - 2]
               /\ image'[n - 2][1] = image[n - 2][1] /\ pcb'[n].esp = pcb[n].esp
    PROVE  AllWait'
<1>1. ASSUME NEW n \in 4 .. Entered' PROVE Waits(n)'
  BY <1>1 DEF AllWait, Waits
<1>2. QED BY <1>1 DEF AllWait

\* Launchers wait on stacks below the one in use.
LEMMA Below ==
    ASSUME Inv, user = NoUser, Works, NEW n \in 4 .. Entered
    PROVE  /\ n - 2 \in Pids \ {esp} /\ n - 2 >= 2 /\ n \in 1 .. MAXPROCESS
           /\ n <= Entered /\ esp = Entered - 1
<1>1. Entered \in Nat /\ Entered <= MAXPROCESS /\ MAXPROCESS \in Nat
  BY EnteredIs, Numbers
<1>2. n \in Nat /\ n >= 4 /\ n <= Entered
  BY ONLY <1>1, n \in 4 .. Entered
<1>3. Serves
  <2>1. Replaces => Entered <= 2
    BY DEF Replaces
  <2>2. Boots => Entered <= 1
    BY DEF Boots
  <2>3. QED BY <1>1, <1>2, <2>1, <2>2 DEF Works
<1>4. esp = Entered - 1
  BY <1>3 DEF Serves
<1>5. QED BY ONLY <1>1, <1>2, <1>4 DEF Pids

\* execute goes on, in the place where it was called.
Before == {"parse", "lookup", "find", "mark", "map"}

\* A step of execute stays in the place where execute was called from.
LEMMA PlaceSteps ==
    ASSUME Inv, user = NoUser, Works, NEW a, Top' = a,
           a.caller = Top.caller, a.over = Top.over, Top.cmd = Shell => a.cmd = Shell,
           Top.pc \in Launching, a.pc \in Launching,
           Entered' = Entered, UNCHANGED <<esp, shell_count, interrupts>>,
           Len(stk'[esp]) = Len(stk[esp]),
           image'[esp] = image[esp] \/ ~Serves,
           a.pc # "iret" => Top.pc # "iret" /\ esp0' = esp0,
           a.pc \in Before => Top.pc \in Before /\ prog_page' = prog_page
    PROVE  Works'
<1>1. CanTick' = CanTick
  BY ONLY UNCHANGED <<shell_count, interrupts>> DEF CanTick
<1>2. a.pc \notin {"begin", "label", "linkage", "popa", "return", "jump"}
      /\ Top.pc \notin {"begin", "label", "linkage", "popa", "return", "jump"}
  BY DEF Launching
<1>3. CASE Serves
  <2>1. /\ a.caller \in {"syscall", "pit"} /\ a.over # NoUser
        /\ Entered >= 1 /\ esp = Entered - 1 /\ Len(stk'[esp]) = 1
        /\ a.over.slot = esp /\ a.over.prog = image'[esp][1]
    BY <1>3 DEF Serves
  <2>2. a.pc # "iret" => esp0' = esp
    BY <1>2, <1>3 DEF Serves
  <2>3. a.pc \in Before => prog_page' = esp
    BY <1>3 DEF Serves, Before
  <2>4. /\ a.caller = "pit" => a.cmd = Shell
        /\ a.caller = "syscall" => shell_count > MAX_SHELL_COUNT /\ Entered >= shell_count
        /\ ~CanTick /\ Entered + 1 >= shell_count
    BY <1>3 DEF Serves
  <2>5. Serves'
    BY <1>1, <1>2, <2>1, <2>2, <2>3, <2>4 DEF Serves, Before
  <2>6. QED BY <2>5 DEF Works
<1>4. CASE Replaces
  <2>1. Replaces'
    BY <1>4 DEF Replaces
  <2>2. QED BY <2>1 DEF Works
<1>5. CASE Boots
  <2>1. Boots'
    BY <1>1, <1>5 DEF Boots
  <2>2. QED BY <2>1 DEF Works
<1>6. QED BY <1>3, <1>4, <1>5 DEF Works

\* The lines of execute before it counts the process.
LEMMA LaunchSteps ==
    ASSUME Inv, Ordered, user = NoUser, NEW a \in Activations, SetTop(a),
           UNCHANGED <<user, esp, process_count, shell_count, interrupts, esp0>>,
           a.caller = Top.caller, a.over = Top.over, Top.cmd = Shell => a.cmd = Shell,
           Top.pc \in Launching \ {"context", "iret"}, a.pc \in Launching \ {"context", "iret"},
           a.pc \in Before => Top.pc \in Before /\ prog_page' = prog_page,
           \A r \in 0 .. process_count - 1 : image'[r] = image[r],
           \A n \in 1 .. process_count : pcb'[n] = pcb[n]
    PROVE  /\ Top' = a /\ Entered = process_count /\ Entered' = process_count
           /\ AllSetUp' /\ AllWait' /\ Works'
<1>1. /\ Top' = a /\ Len(stk'[esp]) = Len(stk[esp])
      /\ \A r \in Pids \ {esp} : stk'[r] = stk[r]
  BY TopAfter
<1>2. Top.pc \notin {"context", "iret", "jump"} /\ a.pc \notin {"context", "iret", "jump"}
  BY DEF Launching
<1>3. Entered = process_count /\ process_count \in Nat
  BY <1>2, EnteredIs
<1>4. Entered' = process_count
  BY <1>1, <1>2 DEF Entered, EnteredAt
<1>5. AllSetUp /\ AllWait /\ Works
  BY DEF Ordered
<1>6. AllSetUp'
  <2>1. ASSUME NEW n \in 1 .. process_count
        PROVE  image'[n - 1] = image[n - 1] /\ pcb'[n] = pcb[n]
    <3>1. n - 1 \in 0 .. process_count - 1
      BY ONLY <1>3, n \in 1 .. process_count
    <3>2. QED BY <3>1
  <2>2. \A n \in 1 .. process_count' :
               /\ n \in 1 .. process_count /\ image'[n - 1] = image[n - 1]
               /\ pcb'[n].currID = pcb[n].currID /\ pcb'[n].parentID = pcb[n].parentID
    BY <2>1
  <2>3. QED BY ONLY <1>5, <2>2, SetUpSteps
<1>7. AllWait'
  <2>1. ASSUME NEW n \in 4 .. Entered
        PROVE  stk'[n - 2] = stk[n - 2] /\ image'[n - 2] = image[n - 2] /\ pcb'[n] = pcb[n]
    <3>1. n - 2 \in Pids \ {esp} /\ n - 2 >= 2 /\ n <= Entered
      BY <1>5, Below
    <3>2. n - 2 \in 0 .. process_count - 1 /\ n \in 1 .. process_count
      BY ONLY <1>3, <3>1, n \in 4 .. Entered
    <3>3. QED BY <1>1, <3>1, <3>2
  <2>2. \A n \in 4 .. Entered' :
               /\ n \in 4 .. Entered /\ stk'[n - 2] = stk[n - 2]
               /\ image'[n - 2][1] = image[n - 2][1] /\ pcb'[n].esp = pcb[n].esp
    BY <1>3, <1>4, <2>1
  <2>3. QED BY ONLY <1>5, <2>2, WaitsSteps
<1>8. Works'
  <2>1. image'[esp] = image[esp] \/ ~Serves
    <3>1. Serves => esp = Entered - 1 /\ Entered >= 1
      BY DEF Serves
    <3>2. Serves => esp \in 0 .. process_count - 1
      BY ONLY <1>3, <3>1
    <3>3. QED BY <3>2
  <2>2. a.pc # "iret" /\ Top.pc # "iret"
    BY <1>2
  <2>3. QED BY <1>1, <1>3, <1>4, <1>5, <2>1, <2>2, PlaceSteps
<1>9. QED BY <1>1, <1>3, <1>4, <1>6, <1>7, <1>8

\* The system is in order again if the call at the top is.
LEMMA InOrder ==
    ASSUME user' = NoUser, AllSetUp', AllWait', Works', Progress' PROVE Ordered'
BY DEF Ordered

\* There is room for another process: execute goes on.
LEMMA LimitOrdered ==
    ASSUME Inv, Ordered, Parse, process_count < MAXPROCESS PROVE Ordered'
<1> DEFINE a == [Top EXCEPT !.pc = "lookup"]
<1>1. user = NoUser /\ Top.pc = "parse" /\ Top \in Activations
  BY TopOk DEF Running, Parse
<1>2. process_count \in Nat /\ MAXPROCESS \in Nat
  BY <1>1, EnteredIs, Numbers
<1>3. SetTop(a) /\ file_name' = Top.cmd
  BY <1>2 DEF Parse, GoTo
<1>4. /\ a \in Activations /\ a.pc = "lookup" /\ a.caller = Top.caller
      /\ a.over = Top.over /\ a.cmd = Top.cmd
  BY <1>1 DEF Activations, Pcs
<1> HIDE DEF a
<1>5. UNCHANGED <<user, esp, process_count, shell_count, interrupts, esp0, image, pcb, prog_page>>
  BY DEF Parse
<1>6. /\ Top.pc \in Launching \ {"context", "iret"} /\ a.pc \in Launching \ {"context", "iret"}
      /\ a.pc \in Before => Top.pc \in Before
  BY <1>1, <1>4 DEF Launching, Before
<1>7. Top' = a /\ AllSetUp' /\ AllWait' /\ Works'
  BY <1>1, <1>3, <1>4, <1>5, <1>6, LaunchSteps
<1>8. Progress'
  BY <1>3, <1>4, <1>7 DEF Progress, Launching
<1>9. QED BY <1>1, <1>5, <1>7, <1>8, InOrder

\* The processes below have not changed.
LEMMA BelowSame ==
    ASSUME Inv, Ordered, user = NoUser, NEW a \in Activations, SetTop(a),
           UNCHANGED <<esp, process_count, image, pcb>>, Entered' = Entered
    PROVE  AllSetUp' /\ AllWait'
<1>1. \A r \in Pids \ {esp} : stk'[r] = stk[r]
  BY TopAfter
<1>2. AllSetUp /\ AllWait /\ Works
  BY DEF Ordered
<1>3. AllSetUp'
  BY <1>2, SetUpSteps
<1>4. ASSUME NEW n \in 4 .. Entered PROVE stk'[n - 2] = stk[n - 2]
  BY <1>1, <1>2, Below
<1>5. AllWait'
  BY <1>2, <1>4, WaitsSteps
<1>6. QED BY <1>3, <1>5

\* A reply is on its way to the program that called, or was interrupted.
LEMMA ReplyOrdered ==
    ASSUME Inv, Ordered, user = NoUser, Serves, NEW a \in Activations, SetTop(a),
           a.pc \in {"linkage", "popa", "return"}, a.caller = Top.caller,
           a.over = Top.over, a.cmd = Top.cmd,
           Top.pc \in {"parse", "lookup", "label", "linkage"}, Entered >= shell_count,
           UNCHANGED <<user, esp, process_count, shell_count, interrupts, esp0, image, pcb,
                       prog_page>>
    PROVE  Ordered'
<1>1. Top' = a /\ Len(stk'[esp]) = Len(stk[esp])
  BY TopAfter
<1>2. a.pc \notin Launching
  BY DEF Launching
<1>3. Entered = process_count /\ Entered' = process_count
  BY <1>1, EnteredIs DEF Entered, EnteredAt
<1>4. AllSetUp' /\ AllWait'
  BY <1>3, BelowSame
<1>5. CanTick' = CanTick
  BY ONLY UNCHANGED <<shell_count, interrupts>> DEF CanTick
<1>6. Works'
  <2>1. /\ a.caller \in {"syscall", "pit"} /\ a.over # NoUser
        /\ Entered >= 1 /\ esp = Entered - 1 /\ Len(stk'[esp]) = 1
        /\ a.over.slot = esp /\ a.over.prog = image'[esp][1]
        /\ esp0 = esp /\ prog_page = esp
    BY <1>1 DEF Serves
  <2>2. /\ a.caller = "pit" => a.cmd = Shell
        /\ a.caller = "syscall" => shell_count > MAX_SHELL_COUNT /\ Entered >= shell_count
        /\ ~CanTick /\ Entered + 1 >= shell_count
    BY DEF Serves
  <2>3. Serves'
    BY <1>1, <1>2, <1>3, <1>5, <2>1, <2>2 DEF Serves
  <2>4. QED BY <2>3 DEF Works
<1>7. Progress'
  BY <1>1, <1>2 DEF Progress, Launching
<1>8. QED BY <1>4, <1>6, <1>7, InOrder

\* execute returns to the program that called it or was interrupted.
LEMMA FinishOrdered ==
    ASSUME Inv, Ordered, user = NoUser, Serves, NEW value \in Int, Finish(value),
           Top.pc \in {"parse", "lookup", "label"}, Entered >= shell_count,
           UNCHANGED <<user, esp, process_count, shell_count, interrupts, esp0, image, pcb,
                       prog_page>>
    PROVE  Ordered'
<1> DEFINE p == IF Top.caller = "syscall" THEN "linkage" ELSE "return"
           a == [Top EXCEPT !.pc = p, !.eax = value]
<1>1. SetTop(a) /\ Top \in Activations /\ p \in {"linkage", "return"}
  BY TopOk DEF Finish
<1> HIDE DEF p
<1>2. /\ a \in Activations /\ a.pc = p /\ a.caller = Top.caller
      /\ a.over = Top.over /\ a.cmd = Top.cmd
  BY ONLY <1>1, value \in Int DEF Activations, Pcs
<1> HIDE DEF a
<1>3. QED BY <1>1, <1>2, ReplyOrdered

\* execute and halt find more processes only where a program called them.
LEMMA ParseOrdered ==
    ASSUME MAX_SHELL_COUNT = 2, Inv, Ordered, Parse PROVE Ordered'
<1>1. user = NoUser /\ Top.pc = "parse"
  BY DEF Parse, Running
<1>2. /\ Entered = process_count /\ process_count \in Nat
      /\ MAXPROCESS \in Nat /\ MAXPROCESS > 3
  BY <1>1, EnteredIs, Numbers
<1>3. CASE process_count < MAXPROCESS
  BY <1>3, LimitOrdered
<1>4. CASE process_count >= MAXPROCESS
  <2>1. Serves
    <3>1. ~Replaces /\ ~Boots
      BY <1>2, <1>4 DEF Replaces, Boots
    <3>2. QED BY <1>1, <3>1 DEF Ordered, Works
  <2>2. Finish(-1) /\ -1 \in Int
    BY <1>4 DEF Parse
  <2>3. Entered >= shell_count
    <3>1. shell_count \in 0 .. MAX_SHELL_COUNT + 1
      BY DEF Inv, TypeOK
    <3>2. QED BY ONLY <1>2, <1>4, <3>1, MAX_SHELL_COUNT = 2
  <2>4. UNCHANGED <<user, esp, process_count, shell_count, interrupts, esp0, image, pcb,
                       prog_page>>
    BY DEF Parse
  <2>5. QED BY <1>1, <2>1, <2>2, <2>3, <2>4, FinishOrdered
<1>5. QED BY ONLY <1>2, <1>3, <1>4

\* A name that is no program comes only from a program, which gets -1 back.
LEMMA LookupOrdered == ASSUME Inv, Ordered, Lookup PROVE Ordered'
<1>1. user = NoUser /\ Top.pc = "lookup" /\ Top \in Activations
  BY TopOk DEF Lookup, Running
<1>2. file_name = Top.cmd
  BY <1>1 DEF Ordered, Progress
<1>3. UNCHANGED <<user, esp, process_count, shell_count, interrupts, esp0, image, pcb, prog_page>>
  BY DEF Lookup
<1>4. CASE file_name \in Programs
  <2> DEFINE a == [Top EXCEPT !.pc = "find", !.cmd = file_name]
  <2>1. SetTop(a)
    BY <1>4 DEF Lookup
  <2>2. /\ a \in Activations /\ a.pc = "find" /\ a.caller = Top.caller
        /\ a.over = Top.over /\ a.cmd = Top.cmd
    BY <1>1, <1>2 DEF Activations, Pcs
  <2> HIDE DEF a
  <2>3. /\ Top.pc \in Launching \ {"context", "iret"} /\ a.pc \in Launching \ {"context", "iret"}
        /\ a.pc \in Before => Top.pc \in Before
    BY <1>1, <2>2 DEF Launching, Before
  <2>4. Top' = a /\ AllSetUp' /\ AllWait' /\ Works'
    BY <1>1, <1>3, <2>1, <2>2, <2>3, LaunchSteps
  <2>5. Progress'
    BY <1>2, <1>4, <2>2, <2>4 DEF Progress, Launching
  <2>6. QED BY <1>1, <1>3, <2>4, <2>5, InOrder
<1>5. CASE file_name \notin Programs
  <2>1. Top.cmd # Shell
    BY <1>2, <1>5, ConstantsAssumption
  <2>2. Serves /\ Top.caller = "syscall"
    BY <1>1, <2>1 DEF Ordered, Works, Serves, Replaces, Boots
  <2>3. Finish(-1) /\ -1 \in Int
    BY <1>5 DEF Lookup
  <2>4. Entered >= shell_count
    BY <2>2 DEF Serves
  <2>5. QED BY <1>1, <1>3, <2>2, <2>3, <2>4, FinishOrdered
<1>6. QED BY <1>4, <1>5

\* A free process index is found.
LEMMA FindOrdered == ASSUME Inv, Ordered, Find PROVE Ordered'
<1>1. user = NoUser /\ Top.pc = "find" /\ Top \in Activations
  BY TopOk DEF Find, Running
<1>2. UNCHANGED <<user, esp, process_count, shell_count, interrupts, esp0, image, pcb, prog_page>>
  BY DEF Find
<1>3. PICK i \in 0 .. MAXPROCESS : SetTop([Top EXCEPT !.pc = "mark", !.index = i])
  BY DEF Find
<1> DEFINE a == [Top EXCEPT !.pc = "mark", !.index = i]
<1>4. i \in Nat
  BY <1>3, Numbers
<1>5. /\ a \in Activations /\ a.pc = "mark" /\ a.caller = Top.caller
      /\ a.over = Top.over /\ a.cmd = Top.cmd
  BY <1>1, <1>4 DEF Activations, Pcs
<1>6. SetTop(a)
  BY <1>3
<1> HIDE DEF a
<1>7. /\ Top.pc \in Launching \ {"context", "iret"} /\ a.pc \in Launching \ {"context", "iret"}
      /\ a.pc \in Before => Top.pc \in Before
  BY <1>1, <1>5 DEF Launching, Before
<1>8. Top' = a /\ AllSetUp' /\ AllWait' /\ Works'
  BY <1>1, <1>2, <1>5, <1>6, <1>7, LaunchSteps
<1>9. Top.cmd \in Programs
  BY <1>1 DEF Ordered, Progress, Launching
<1>10. Progress'
  BY <1>5, <1>8, <1>9 DEF Progress, Launching
<1>11. QED BY <1>1, <1>2, <1>8, <1>10, InOrder

\* The index is taken.
LEMMA MarkOrdered == ASSUME Inv, Ordered, Mark PROVE Ordered'
<1> DEFINE a == [Top EXCEPT !.pc = "map", !.index = 0]
<1>1. user = NoUser /\ Top.pc = "mark" /\ Top \in Activations
  BY TopOk DEF Mark, Running
<1>2. /\ UNCHANGED <<user, esp, process_count, shell_count, interrupts, esp0, image, pcb, prog_page>>
      /\ SetTop(a)
  BY DEF Mark
<1>3. /\ a \in Activations /\ a.pc = "map" /\ a.caller = Top.caller
      /\ a.over = Top.over /\ a.cmd = Top.cmd
  BY <1>1 DEF Activations, Pcs
<1> HIDE DEF a
<1>4. /\ Top.pc \in Launching \ {"context", "iret"} /\ a.pc \in Launching \ {"context", "iret"}
      /\ a.pc \in Before => Top.pc \in Before
  BY <1>1, <1>3 DEF Launching, Before
<1>5. Top' = a /\ AllSetUp' /\ AllWait' /\ Works'
  BY <1>1, <1>2, <1>3, <1>4, LaunchSteps
<1>6. Top.cmd \in Programs
  BY <1>1 DEF Ordered, Progress, Launching
<1>7. Progress'
  BY <1>3, <1>5, <1>6 DEF Progress, Launching
<1>8. QED BY <1>1, <1>2, <1>5, <1>7, InOrder

\* The new program's page is mapped: the one after all the others.
LEMMA MapOrdered == ASSUME Inv, Ordered, Map PROVE Ordered'
<1> DEFINE a == [Top EXCEPT !.pc = "copy1"]
<1>1. user = NoUser /\ Top.pc = "map" /\ Top \in Activations
  BY TopOk DEF Map, Running
<1>2. /\ UNCHANGED <<user, esp, process_count, shell_count, interrupts, esp0, image, pcb>>
      /\ SetTop(a) /\ prog_page' = process_count
  BY DEF Map, GoTo
<1>3. /\ a \in Activations /\ a.pc = "copy1" /\ a.caller = Top.caller
      /\ a.over = Top.over /\ a.cmd = Top.cmd
  BY <1>1 DEF Activations, Pcs
<1> HIDE DEF a
<1>4. /\ Top.pc \in Launching \ {"context", "iret"} /\ a.pc \in Launching \ {"context", "iret"}
      /\ a.pc \notin Before
  BY <1>1, <1>3 DEF Launching, Before
<1>5. Top' = a /\ AllSetUp' /\ AllWait' /\ Works' /\ Entered' = process_count
  BY <1>1, <1>2, <1>3, <1>4, LaunchSteps
<1>6. Top.cmd \in Programs
  BY <1>1 DEF Ordered, Progress, Launching
<1>7. Progress'
  BY <1>2, <1>3, <1>5, <1>6 DEF Progress, Launching
<1>8. QED BY <1>1, <1>2, <1>5, <1>7, InOrder

\* The program goes there, whole in the end.
LEMMA CopyOrdered == ASSUME Inv, Ordered, NEW half \in {1, 2}, Copy(half) PROVE Ordered'
<1> DEFINE p == IF half = 1 THEN "copy2" ELSE "pcb"
           a == [Top EXCEPT !.pc = p]
<1>1. user = NoUser /\ Top.pc \in {"copy1", "copy2"} /\ Top \in Activations
      /\ (Top.pc = "copy1" <=> half = 1)
  BY TopOk DEF Copy, Running
<1>2. /\ UNCHANGED <<user, esp, process_count, shell_count, interrupts, esp0, pcb, prog_page>>
      /\ SetTop(a) /\ image' = [image EXCEPT ![prog_page][half] = Top.cmd]
  BY DEF Copy, GoTo
<1>3. p \in {"copy2", "pcb"} /\ (p = "copy2" <=> half = 1)
  OBVIOUS
<1> HIDE DEF p
<1>4. /\ a \in Activations /\ a.pc = p /\ a.caller = Top.caller
      /\ a.over = Top.over /\ a.cmd = Top.cmd
  BY <1>1, <1>3 DEF Activations, Pcs
<1> HIDE DEF a
<1>5. /\ Top.pc \in Launching \ {"context", "iret"} /\ a.pc \in Launching \ {"context", "iret"}
      /\ a.pc \notin Before
  BY <1>1, <1>3, <1>4 DEF Launching, Before
<1>6. /\ prog_page = process_count /\ process_count \in Pids /\ process_count \in Nat
      /\ Entered = process_count
  <2>1. Entered = process_count /\ process_count \in Nat /\ prog_page = Entered
    BY <1>1, EnteredIs DEF Ordered, Progress
  <2>2. process_count < MAXPROCESS /\ MAXPROCESS \in Nat
    BY <1>1, TopOk, Numbers DEF Fits, Window
  <2>3. QED BY ONLY <2>1, <2>2 DEF Pids
<1>7. \A r \in 0 .. process_count - 1 : image'[r] = image[r]
  <2>1. \A r \in 0 .. process_count - 1 : r \in Pids /\ r # prog_page
    BY ONLY <1>6, Numbers DEF Pids
  <2>2. image \in [Pids -> Commands \X Commands]
    BY DEF Inv, TypeOK
  <2>3. QED BY ONLY <1>2, <2>1, <2>2
<1>8. Top' = a /\ AllSetUp' /\ AllWait' /\ Works' /\ Entered' = process_count
  BY <1>1, <1>2, <1>4, <1>5, <1>7, LaunchSteps
<1>9. Top.cmd \in Programs /\ (Top.pc = "copy2" => image[process_count][1] = Top.cmd)
  BY <1>1, <1>6 DEF Ordered, Progress, Launching
<1>10. /\ half = 1 => image'[process_count][1] = Top.cmd
       /\ half = 2 => /\ image'[process_count][2] = Top.cmd
                      /\ image'[process_count][1] = image[process_count][1]
  <2>1. image \in [Pids -> Commands \X Commands]
    BY DEF Inv, TypeOK
  <2>2. image'[process_count] = [image[process_count] EXCEPT ![half] = Top.cmd]
    BY ONLY <1>2, <1>6, <2>1
  <2>3. image[process_count] \in Commands \X Commands
    BY ONLY <1>6, <2>1
  <2>4. image[process_count] = <<image[process_count][1], image[process_count][2]>>
    BY ONLY <2>3
  <2>5. QED BY ONLY <2>2, <2>4
<1>11. Progress'
  BY <1>1, <1>2, <1>3, <1>4, <1>6, <1>8, <1>9, <1>10 DEF Progress, Launching
<1>12. QED BY <1>1, <1>2, <1>8, <1>11, InOrder

\* Its PCB names it and its parent.
LEMMA FillPcbOrdered == ASSUME Inv, Ordered, FillPcb PROVE Ordered'
<1> DEFINE n == process_count + 1
           a == [Top EXCEPT !.pc = "count", !.new = n]
<1>1. user = NoUser /\ Top.pc = "pcb" /\ Top \in Activations
  BY TopOk DEF FillPcb, Running
<1>2. /\ UNCHANGED <<user, esp, process_count, shell_count, interrupts, esp0, image, prog_page>>
      /\ SetTop(a)
      /\ pcb' = [pcb EXCEPT ![n] =
                    [@ EXCEPT !.currID = process_count,
                              !.parentID = IF process_count # 0 THEN pcb[process_count].currID
                                           ELSE pcb[n].parentID]]
  BY DEF FillPcb
<1>3. /\ process_count \in Nat /\ Entered = process_count
      /\ n \in 1 .. MAXPROCESS /\ n \in Nat
  <2>1. Entered = process_count /\ process_count \in Nat
    BY <1>1, EnteredIs
  <2>2. process_count < MAXPROCESS /\ MAXPROCESS \in Nat
    BY <1>1, TopOk, Numbers DEF Fits, Window
  <2>3. QED BY ONLY <2>1, <2>2
<1> HIDE DEF n
<1>4. /\ a \in Activations /\ a.pc = "count" /\ a.caller = Top.caller
      /\ a.over = Top.over /\ a.cmd = Top.cmd /\ a.new = n
  BY <1>1, <1>3 DEF Activations, Pcs
<1> HIDE DEF a
<1>5. /\ Top.pc \in Launching \ {"context", "iret"} /\ a.pc \in Launching \ {"context", "iret"}
      /\ a.pc \notin Before
  BY <1>1, <1>4 DEF Launching, Before
<1>6. pcb \in [1 .. MAXPROCESS -> [currID : Int, parentID : Int, esp : Positions]]
  BY DEF Inv, TypeOK
<1>7. \A m \in 1 .. process_count : pcb'[m] = pcb[m]
  <2>1. \A m \in 1 .. process_count : m \in 1 .. MAXPROCESS /\ m # n
    BY ONLY <1>3, Numbers DEF n
  <2>2. QED BY ONLY <1>2, <1>6, <2>1
<1>8. Top' = a /\ AllSetUp' /\ AllWait' /\ Works' /\ Entered' = process_count
  BY <1>1, <1>2, <1>4, <1>5, <1>7, LaunchSteps
<1>9. /\ Top.cmd \in Programs /\ prog_page = process_count
      /\ image[process_count][1] = Top.cmd /\ image[process_count][2] = Top.cmd
  BY <1>1, <1>3 DEF Ordered, Progress, Launching
<1>10. SetUp(process_count + 1)'
  <2>1. /\ pcb'[n].currID = process_count
        /\ pcb'[n].parentID = IF process_count # 0 THEN pcb[process_count].currID
                              ELSE pcb[n].parentID
    BY ONLY <1>2, <1>3, <1>6
  <2>2. process_count > 0 => pcb[process_count].currID = process_count - 1
    <3>1. ASSUME process_count > 0 PROVE process_count \in 1 .. process_count
      BY ONLY <1>3, <3>1
    <3>2. QED BY <3>1 DEF Ordered, AllSetUp, SetUp
  <2>3. /\ n - 1 = process_count /\ n - 2 = process_count - 1
        /\ (n > 1 <=> process_count > 0) /\ (process_count > 0 => process_count # 0)
    BY ONLY <1>3 DEF n
  <2>4. n > 1 => pcb'[n].parentID = n - 2
    BY ONLY <2>1, <2>2, <2>3
  <2>5. QED BY ONLY <1>2, <1>9, <2>1, <2>3, <2>4 DEF SetUp, n
<1>11. Progress'
  <2>1. (Entered + 1)' = process_count + 1
    BY <1>8
  <2>2. SetUp(Entered + 1)'
    BY <1>2, <1>8, <1>10 DEF SetUp
  <2>3. QED BY <1>2, <1>4, <1>8, <1>9, <2>1, <2>2 DEF Progress, Launching, n
<1>12. QED BY <1>1, <1>2, <1>8, <1>11, InOrder

\* The process counts: it is set up as all below it are.
LEMMA CountOrdered == ASSUME Inv, Ordered, Count PROVE Ordered'
<1> DEFINE a == [Top EXCEPT !.pc = "context"]
<1>1. user = NoUser /\ Top.pc = "count" /\ Top \in Activations
  BY TopOk DEF Count, Running
<1>2. /\ UNCHANGED <<user, esp, shell_count, interrupts, esp0, image, pcb, prog_page>>
      /\ SetTop(a) /\ process_count' = process_count + 1
  BY DEF Count, GoTo
<1>3. /\ a \in Activations /\ a.pc = "context" /\ a.caller = Top.caller
      /\ a.over = Top.over /\ a.cmd = Top.cmd /\ a.new = Top.new
  BY <1>1 DEF Activations, Pcs
<1>4. Top.pc \in Launching /\ a.pc \in Launching /\ a.pc \notin Before
      /\ a.pc # "iret" /\ Top.pc # "iret"
  BY <1>1, <1>3 DEF Launching, Before
<1> HIDE DEF a
<1>5. /\ Top' = a /\ Len(stk'[esp]) = Len(stk[esp])
      /\ \A r \in Pids \ {esp} : stk'[r] = stk[r]
  BY <1>1, <1>2, <1>3, TopAfter
<1>6. Entered = process_count /\ process_count \in Nat
  BY <1>1, EnteredIs
<1>7. Entered' = process_count
  <2>1. Entered' = process_count' - 1
    BY <1>1, <1>2, <1>3, <1>5 DEF Entered, EnteredAt
  <2>2. QED BY ONLY <1>2, <1>6, <2>1
<1>8. AllSetUp /\ AllWait /\ Works /\ Progress
  BY <1>1 DEF Ordered
<1>9. /\ SetUp(process_count + 1) /\ Top.cmd \in Programs /\ Top.new = process_count + 1
      /\ prog_page = process_count
      /\ image[process_count][1] = Top.cmd /\ image[process_count][2] = Top.cmd
  BY <1>1, <1>6, <1>8 DEF Progress, Launching, SetUp
<1>10. AllSetUp'
  <2>1. \A n \in 1 .. process_count' : n = process_count + 1 \/ n \in 1 .. process_count
    BY ONLY <1>2, <1>6
  <2>2. ASSUME NEW n \in 1 .. process_count' PROVE SetUp(n)'
    <3>1. CASE n = process_count + 1
      BY <1>2, <1>9, <3>1 DEF SetUp
    <3>2. CASE n \in 1 .. process_count
      BY <1>2, <1>8, <3>2 DEF AllSetUp, SetUp
    <3>3. QED BY <2>1, <3>1, <3>2
  <2>3. QED BY <2>2 DEF AllSetUp
<1>11. AllWait'
  <2>1. ASSUME NEW n \in 4 .. Entered PROVE stk'[n - 2] = stk[n - 2]
    BY <1>1, <1>5, <1>8, Below
  <2>2. QED BY <1>2, <1>6, <1>7, <1>8, <2>1, WaitsSteps
<1>12. Works'
  BY <1>1, <1>2, <1>3, <1>4, <1>5, <1>6, <1>7, <1>8, PlaceSteps
<1>13. Progress'
  BY <1>2, <1>3, <1>5, <1>7, <1>9 DEF Progress, Launching
<1>14. QED BY <1>1, <1>2, <1>10, <1>11, <1>12, <1>13, InOrder

\* The place to come back to is this activation, at the end of its stack.
LEMMA SaveContextOrdered == ASSUME Inv, Ordered, SaveContext PROVE Ordered'
<1> DEFINE a == [Top EXCEPT !.pc = "iret"]
           place == [region |-> esp, depth |-> Len(stk[esp])]
<1>1. user = NoUser /\ Top.pc = "context" /\ Top \in Activations
  BY TopOk DEF SaveContext, Running
<1>2. /\ UNCHANGED <<user, esp, process_count, shell_count, interrupts, image, prog_page>>
      /\ SetTop(a) /\ esp0' = process_count - 1
      /\ pcb' = [pcb EXCEPT ![Top.new].esp = place]
  BY DEF SaveContext, GoTo
<1>3. /\ a \in Activations /\ a.pc = "iret" /\ a.caller = Top.caller
      /\ a.over = Top.over /\ a.cmd = Top.cmd /\ a.new = Top.new
  BY <1>1 DEF Activations, Pcs
<1>4. Top.pc \in Launching /\ a.pc \in Launching /\ a.pc \notin Before
  BY <1>1, <1>3 DEF Launching, Before
<1> HIDE DEF a, place
<1>5. /\ Top' = a /\ Len(stk'[esp]) = Len(stk[esp])
      /\ \A r \in Pids \ {esp} : stk'[r] = stk[r]
  BY <1>1, <1>2, <1>3, TopAfter
<1>6. Entered = process_count - 1 /\ process_count \in Nat /\ Entered \in Nat
      /\ process_count <= MAXPROCESS /\ MAXPROCESS \in Nat
  BY <1>1, EnteredIs, Numbers
<1>7. Entered' = Entered
  BY <1>1, <1>2, <1>3, <1>5, <1>6 DEF Entered, EnteredAt
<1>8. AllSetUp /\ AllWait /\ Works /\ Progress
  BY <1>1 DEF Ordered
<1>9. /\ Top.cmd \in Programs /\ Top.new = Entered + 1 /\ prog_page = Entered
      /\ image[Entered][1] = Top.cmd /\ image[Entered][2] = Top.cmd
  BY <1>1, <1>8 DEF Progress, Launching
<1>10. /\ pcb'[Entered + 1].esp = place
       /\ \A n \in 1 .. process_count :
             pcb'[n].currID = pcb[n].currID /\ pcb'[n].parentID = pcb[n].parentID
       /\ \A n \in 1 .. Entered : pcb'[n] = pcb[n]
  <2>1. pcb \in [1 .. MAXPROCESS -> [currID : Int, parentID : Int, esp : Positions]]
    BY DEF Inv, TypeOK
  <2>2. Entered + 1 \in 1 .. MAXPROCESS
    BY ONLY <1>6
  <2>3. \A n \in 1 .. process_count : n \in 1 .. MAXPROCESS
    BY ONLY <1>6
  <2>4. \A n \in 1 .. Entered : n \in 1 .. MAXPROCESS /\ n # Entered + 1
    BY ONLY <1>6
  <2>5. pcb' = [pcb EXCEPT ![Entered + 1] = [@ EXCEPT !.esp = place]]
    BY <1>2, <1>9
  <2>6. QED BY ONLY <2>1, <2>2, <2>3, <2>4, <2>5
<1>11. AllSetUp'
  BY <1>2, <1>8, <1>10, SetUpSteps
<1>12. AllWait'
  <2>1. ASSUME NEW n \in 4 .. Entered PROVE stk'[n - 2] = stk[n - 2] /\ pcb'[n] = pcb[n]
    <3>1. n - 2 \in Pids \ {esp}
      BY <1>1, <1>8, Below
    <3>2. n \in 1 .. Entered
      BY ONLY <1>6, n \in 4 .. Entered
    <3>3. QED BY <1>5, <1>10, <3>1, <3>2
  <2>2. QED BY <1>2, <1>7, <1>8, <2>1, WaitsSteps
<1>13. Works'
  BY <1>1, <1>2, <1>3, <1>4, <1>5, <1>7, <1>8, PlaceSteps
<1>14. Progress'
  <2>1. esp0' = Entered
    BY <1>2, <1>6
  <2>2. QED BY <1>2, <1>3, <1>5, <1>7, <1>9, <1>10, <2>1 DEF Progress, Launching, place
<1>15. QED BY <1>1, <1>2, <1>11, <1>12, <1>13, <1>14, InOrder

\* The program starts: it is the process that execute has set up, and its
\* launcher waits.
LEMMA IretOrdered == ASSUME Inv, Ordered, Iret PROVE Ordered'
<1> DEFINE a == [Top EXCEPT !.pc = "launched"]
           u == [slot |-> Top.new - 1, prog |-> Top.cmd, eax |-> 0]
<1>1. user = NoUser /\ Top.pc = "iret" /\ Top \in Activations
  BY TopOk DEF Iret, Running
<1>2. /\ UNCHANGED <<esp, process_count, shell_count, image, prog_page, pcb, esp0>>
      /\ SetTop(a) /\ user' = u
  BY DEF Iret, GoTo
<1>3. /\ a \in Activations /\ a.pc = "launched" /\ a.caller = Top.caller
      /\ a.over = Top.over /\ a.cmd = Top.cmd /\ a.new = Top.new
  BY <1>1 DEF Activations, Pcs
<1> HIDE DEF a
<1>4. /\ Top' = a /\ Len(stk'[esp]) = Len(stk[esp])
      /\ \A r \in Pids \ {esp} : stk'[r] = stk[r]
  BY <1>1, <1>2, <1>3, TopAfter
<1>5. Entered = process_count - 1 /\ process_count \in Nat /\ Entered \in Nat
      /\ Entered + 1 = process_count
  BY <1>1, EnteredIs
<1>6. AllSetUp /\ AllWait /\ Works /\ Progress
  BY <1>1 DEF Ordered
<1>7. /\ Top.cmd \in Programs /\ Top.new = Entered + 1 /\ prog_page = Entered
      /\ image[Entered][1] = Top.cmd /\ esp0 = Entered
      /\ pcb[Entered + 1].esp = [region |-> esp, depth |-> Len(stk[esp])]
  BY <1>1, <1>6 DEF Progress, Launching
<1>8. u # NoUser
  <2>1. u \in Contexts
    BY <1>1, <1>7 DEF Contexts, Activations, Commands
  <2>2. QED BY <2>1, ConstantsAssumption
<1>9. Entered' = process_count
  BY <1>2, <1>8 DEF Entered
<1>10. AllSetUp'
  BY <1>2, <1>6, SetUpSteps
<1>11. AllWait'
  <2>1. ASSUME NEW n \in 4 .. Entered PROVE Waits(n)'
    <3>1. stk'[n - 2] = stk[n - 2]
      BY <1>1, <1>4, <1>6, Below
    <3>2. QED BY <1>2, <1>6, <3>1 DEF AllWait, Waits
  <2>2. ASSUME process_count \in 4 .. process_count PROVE Waits(process_count)'
    <3>1. process_count >= 4
      BY <1>5, <2>2
    <3>2. Serves
      <4>1. Replaces => Entered <= 2
        BY DEF Replaces
      <4>2. Boots => Entered <= 1
        BY DEF Boots
      <4>3. QED BY <1>5, <1>6, <3>1, <4>1, <4>2 DEF Works
    <3>3. /\ Top.caller \in {"syscall", "pit"} /\ (Top.caller = "pit" => Top.cmd = Shell)
          /\ Top.over # NoUser /\ esp = Entered - 1 /\ Len(stk[esp]) = 1
          /\ Top.over.slot = esp /\ Top.over.prog = image[esp][1]
      BY <3>2 DEF Serves
    <3>4. process_count - 2 = esp
      BY <1>5, <3>3
    <3>5. stk'[esp][1] = a /\ Len(stk'[esp]) = 1
      BY <1>2, <1>4, <3>3 DEF Top
    <3>6. QED BY <1>2, <1>3, <1>5, <1>7, <3>3, <3>4, <3>5 DEF Waits
  <2>3. \A n \in 4 .. process_count : n \in 4 .. Entered \/ n = process_count
    BY ONLY <1>5
  <2>4. ASSUME NEW n \in 4 .. Entered' PROVE Waits(n)'
    <3>1. n \in 4 .. process_count
      BY <1>9
    <3>2. CASE n \in 4 .. Entered
      BY <2>1, <3>2
    <3>3. CASE n = process_count
      BY <1>2, <2>2, <3>1, <3>3 DEF Waits
    <3>4. QED BY <2>3, <3>1, <3>2, <3>3
  <2>5. QED BY <2>4 DEF AllWait
<1>12. ProgramRuns'
  <2>1. shell_count <= process_count
    <3>1. shell_count \in Int
      BY Numbers DEF Inv, TypeOK
    <3>2. Serves \/ Replaces => Entered + 1 >= shell_count
      BY DEF Serves, Replaces
    <3>3. Boots => shell_count <= 1
      BY DEF Boots
    <3>4. QED BY ONLY <1>5, <1>6, <3>1, <3>2, <3>3 DEF Works
  <2>2. /\ u.slot = process_count - 1 /\ u.prog = Top.cmd
    BY <1>5, <1>7
  <2>3. QED BY <1>2, <1>5, <1>7, <2>1, <2>2 DEF ProgramRuns
<1>13. QED BY <1>2, <1>8, <1>10, <1>11, <1>12 DEF Ordered

\* execute returns from the child.
LEMMA LabelOrdered == ASSUME Inv, Ordered, ExecuteLabel PROVE Ordered'
<1>1. user = NoUser /\ Top.pc = "label"
  BY DEF ExecuteLabel, Running
<1>2. Serves /\ Entered >= shell_count
  <2>1. Top.pc \notin Launching
    BY <1>1 DEF Launching
  <2>2. QED BY <1>1, <2>1 DEF Ordered, Works, Serves, Replaces, Boots
<1>3. /\ Finish(0) /\ 0 \in Int
      /\ UNCHANGED <<user, esp, process_count, shell_count, interrupts, esp0, image, pcb,
                     prog_page>>
  BY DEF ExecuteLabel
<1>4. QED BY <1>1, <1>2, <1>3, FinishOrdered

-----------------------------------------------------------------------------
\* The steps of halt.

\* halt was called by a program, after the shells were launched.
LEMMA AtHalt ==
    ASSUME MAX_SHELL_COUNT = 2, Inv, Ordered, Running("begin")
    PROVE  /\ user = NoUser /\ Serves /\ Top.caller = "syscall" /\ Top \in Activations
           /\ Entered = process_count /\ process_count \in Nat /\ shell_count = 3
           /\ process_count >= 3 /\ process_count \in 1 .. process_count
           /\ esp = process_count - 1 /\ SetUp(process_count)
<1>1. user = NoUser /\ Top.pc = "begin"
  BY DEF Running
<1>2. Top.caller = "syscall" /\ Top \in Activations
  BY <1>1, TopOk DEF Fits
<1>3. Serves
  <2>1. Top.pc \notin Launching
    BY <1>1 DEF Launching
  <2>2. QED BY <1>1, <2>1 DEF Ordered, Works, Replaces, Boots
<1>4. Entered = process_count /\ process_count \in Nat
  BY <1>1, EnteredIs
<1>5. shell_count \in 0 .. 3
  BY DEF Inv, TypeOK
<1>6. shell_count > 2 /\ Entered >= shell_count /\ esp = Entered - 1
  BY <1>2, <1>3 DEF Serves
<1>7. shell_count = 3 /\ process_count >= 3 /\ process_count \in 1 .. process_count
      /\ esp = process_count - 1
  BY ONLY <1>4, <1>5, <1>6
<1>8. SetUp(process_count)
  BY <1>7 DEF Ordered, AllSetUp
<1>9. QED BY <1>1, <1>2, <1>3, <1>4, <1>7, <1>8

\* A terminal's shell ends: the only one that can is the third.
LEMMA HaltShellOrdered ==
    ASSUME MAX_SHELL_COUNT = 2, Inv, Ordered, HaltShell PROVE Ordered'
<1> DEFINE b == Activation("halt", NoUser, "parse", Shell)
<1>1. /\ user = NoUser /\ Serves /\ Top.caller = "syscall"
      /\ Entered = process_count /\ process_count \in Nat /\ shell_count = 3
      /\ process_count >= 3 /\ process_count \in 1 .. process_count
      /\ esp = process_count - 1 /\ SetUp(process_count)
  BY AtHalt DEF HaltShell
<1>2. /\ UNCHANGED <<user, esp, shell_count, image, prog_page, pcb, esp0>>
      /\ pcb[process_count].currID <= 2 /\ process_count' = process_count - 1
      /\ stk' = [stk EXCEPT ![esp] = Append(stk[esp], b)]
  BY DEF HaltShell
<1>3. process_count = 3 /\ process_count' = 2 /\ esp = 2
  BY ONLY <1>1, <1>2 DEF SetUp
<1>4. b \in Activations /\ b.pc = "parse" /\ b.caller = "halt" /\ b.over = NoUser /\ b.cmd = Shell
  <2>1. Shell \in Commands
    BY ConstantsAssumption DEF Commands
  <2>2. QED BY <2>1 DEF Activations, Activation, Callers, Pcs, NoPosition, Positions
<1> HIDE DEF b
<1>5. Top' = b
  <2>1. stk[esp] \in Seq(Activations) /\ esp \in Pids /\ stk \in [Pids -> Seq(Activations)]
    BY DEF Inv, TypeOK
  <2>2. stk'[esp] = Append(stk[esp], b)
    BY ONLY <1>2, <2>1
  <2>3. Append(stk[esp], b)[Len(Append(stk[esp], b))] = b
    BY ONLY <1>4, <2>1
  <2>4. QED BY <1>2, <2>2, <2>3 DEF Top
<1>6. Entered' = 2
  BY <1>1, <1>2, <1>3, <1>4, <1>5 DEF Entered, EnteredAt
<1>7. AllSetUp'
  <2>1. \A n \in 1 .. process_count' : n \in 1 .. process_count
    BY ONLY <1>3
  <2>2. QED BY <1>2, <2>1, SetUpSteps DEF Ordered
<1>8. AllWait'
  BY <1>6 DEF AllWait
<1>9. Works'
  <2>1. esp0 = esp /\ b.pc \in Launching /\ b.pc # "iret"
    BY <1>1, <1>4, <1>2 DEF Serves, Launching, HaltShell, Running
  <2>2. Replaces'
    BY <1>1, <1>2, <1>3, <1>4, <1>5, <1>6, <2>1 DEF Replaces
  <2>3. QED BY <2>2 DEF Works
<1>10. Progress'
  BY <1>4, <1>5 DEF Progress
<1>11. QED BY <1>1, <1>2, <1>7, <1>8, <1>9, <1>10, InOrder

\* Another program ends.
LEMMA HaltChildOrdered ==
    ASSUME MAX_SHELL_COUNT = 2, Inv, Ordered, HaltChild PROVE Ordered'
<1> DEFINE a == [Top EXCEPT !.pc = "jump", !.saved = pcb[process_count].esp,
                            !.new = process_count]
<1>1. /\ user = NoUser /\ Serves /\ Top.caller = "syscall" /\ Top \in Activations
      /\ Entered = process_count /\ process_count \in Nat /\ shell_count = 3
      /\ process_count >= 3 /\ esp = process_count - 1 /\ SetUp(process_count)
  BY AtHalt DEF HaltChild
<1>2. /\ UNCHANGED <<user, esp, shell_count, image, pcb>>
      /\ pcb[process_count].currID > 2 /\ process_count' = process_count - 1
      /\ prog_page' = pcb[process_count].parentID /\ esp0' = pcb[process_count].parentID
      /\ SetTop(a)
  BY DEF HaltChild
<1>3. process_count > 3 /\ prog_page' = esp - 1 /\ esp0' = esp - 1
  BY ONLY <1>1, <1>2 DEF SetUp
<1>4. Waits(process_count) /\ pcb[process_count].esp = [region |-> esp - 1, depth |-> 1]
  <2>1. process_count \in 4 .. Entered
    BY ONLY <1>1, <1>3
  <2>2. Waits(process_count)
    BY <2>1 DEF Ordered, AllWait
  <2>3. process_count - 2 = esp - 1
    BY ONLY <1>1
  <2>4. QED BY <2>2, <2>3 DEF Waits
<1>5. /\ a \in Activations /\ a.pc = "jump" /\ a.caller = Top.caller /\ a.over = Top.over
      /\ a.cmd = Top.cmd /\ a.new = process_count
      /\ a.saved = [region |-> esp - 1, depth |-> 1]
  <2>1. pcb[process_count].esp \in Positions
    <3>1. esp \in Int
      BY ONLY <1>1
    <3>2. QED BY ONLY <1>4, <3>1 DEF Positions
  <2>2. QED BY <1>1, <1>4, <2>1 DEF Activations, Pcs
<1> HIDE DEF a
<1>6. Top' = a /\ Len(stk'[esp]) = Len(stk[esp]) /\ \A r \in Pids \ {esp} : stk'[r] = stk[r]
  BY <1>1, <1>2, <1>5, TopAfter
<1>7. Entered' = Entered
  <2>1. Entered' = process_count' + 1
    BY <1>1, <1>2, <1>5, <1>6 DEF Entered, EnteredAt
  <2>2. QED BY ONLY <1>1, <1>2, <2>1
<1>8. AllSetUp'
  <2>1. \A n \in 1 .. process_count' : n \in 1 .. process_count
    BY ONLY <1>1, <1>2
  <2>2. QED BY <1>2, <2>1, SetUpSteps DEF Ordered
<1>9. AllWait'
  <2>1. AllWait /\ Works
    BY <1>1 DEF Ordered
  <2>2. ASSUME NEW n \in 4 .. Entered PROVE stk'[n - 2] = stk[n - 2]
    BY <1>1, <1>6, <2>1, Below
  <2>3. QED BY <1>2, <1>7, <2>1, <2>2, WaitsSteps
<1>10. Works'
  <2>1. ~CanTick'
    BY <1>1, <1>2 DEF CanTick
  <2>2. a.pc \notin Launching
    BY <1>5 DEF Launching
  <2>3. /\ a.caller \in {"syscall", "pit"} /\ a.over # NoUser
        /\ Entered >= 1 /\ esp = Entered - 1 /\ Len(stk'[esp]) = 1
        /\ a.over.slot = esp /\ a.over.prog = image'[esp][1]
    BY <1>1, <1>2, <1>5, <1>6 DEF Serves
  <2>4. Entered > 3 /\ Entered >= shell_count /\ Entered + 1 >= shell_count
        /\ shell_count > MAX_SHELL_COUNT
    BY ONLY <1>1, <1>3, MAX_SHELL_COUNT = 2
  <2>5. Serves'
    BY <1>1, <1>2, <1>3, <1>5, <1>6, <1>7, <2>1, <2>2, <2>3, <2>4 DEF Serves
  <2>6. QED BY <2>5 DEF Works
<1>11. Progress'
  BY <1>5, <1>6 DEF Progress, Launching
<1>12. QED BY <1>1, <1>2, <1>8, <1>9, <1>10, <1>11, InOrder

\* What the jump in halt has done: control is with the launcher, r, again.
JumpedTo(r, a) ==
    /\ user = NoUser /\ Top.pc = "jump"
    /\ Entered = process_count + 1 /\ process_count \in Nat /\ Entered <= MAXPROCESS
    /\ Entered > 3 /\ esp = Entered - 1 /\ prog_page = r /\ esp0 = r
    /\ shell_count > MAX_SHELL_COUNT
    /\ a.caller \in {"syscall", "pit"} /\ (a.caller = "pit" => a.cmd = Shell)
    /\ a.over # NoUser /\ a.over.slot = r /\ a.over.prog = image[r][1]
    /\ r \in Pids /\ esp \in Pids /\ r # esp /\ r = process_count - 1
    /\ UNCHANGED <<user, process_count, shell_count, interrupts, image, pcb,
                   prog_page, esp0>>
    /\ esp' = r /\ Len(stk'[r]) = 1
    /\ \A q \in Pids \ {r, esp} : stk'[q] = stk[q]
    /\ Top'.pc = "label" /\ Top'.caller = a.caller /\ Top'.over = a.over
    /\ Top'.cmd = a.cmd

\* Control is back with the launcher.
LEMMA JumpBack ==
    ASSUME MAX_SHELL_COUNT = 2, Inv, Ordered, Jump
    PROVE  JumpedTo(esp - 1, stk[esp - 1][1])
<1> DEFINE r == esp - 1
           a == stk[r][1]
           b == [a EXCEPT !.pc = "label", !.eax = Top.eax]
<1>1. user = NoUser /\ Top.pc = "jump" /\ Top.caller = "syscall" /\ Top \in Activations
  BY TopOk DEF Jump, Running, Fits
<1>2. Serves
  <2>1. Top.pc \notin Launching
    BY <1>1 DEF Launching
  <2>2. QED BY <1>1, <2>1 DEF Ordered, Works, Replaces, Boots
<1>3. Entered = process_count + 1 /\ process_count \in Nat /\ Entered <= MAXPROCESS
  BY <1>1, EnteredIs
<1>4. /\ Entered > 3 /\ esp = Entered - 1 /\ prog_page = r /\ esp0 = r
      /\ Top.saved = [region |-> r, depth |-> 1] /\ shell_count > MAX_SHELL_COUNT
  BY <1>1, <1>2 DEF Serves
<1>5. Waits(Entered) /\ Entered - 2 = r
  <2>1. Entered \in 4 .. Entered /\ Entered - 2 = r
    BY ONLY <1>3, <1>4
  <2>2. QED BY <2>1 DEF Ordered, AllWait
<1>6. /\ Len(stk[r]) = 1 /\ a.pc = "launched"
      /\ a.caller \in {"syscall", "pit"} /\ (a.caller = "pit" => a.cmd = Shell)
      /\ a.over # NoUser /\ a.over.slot = r /\ a.over.prog = image[r][1]
  BY <1>5 DEF Waits
<1>7. r \in Pids /\ esp \in Pids /\ r # esp /\ r = process_count - 1
  <2>1. MAXPROCESS \in Nat
    BY Numbers
  <2>2. QED BY ONLY <1>3, <1>4, <2>1 DEF Pids
<1> HIDE DEF r
<1>8. stk[r] \in Seq(Activations) /\ stk \in [Pids -> Seq(Activations)] /\ a \in Activations
  <2>1. stk \in [Pids -> Seq(Activations)]
    BY DEF Inv, TypeOK
  <2>2. QED BY <1>6, <1>7, <2>1
<1>9. /\ b \in Activations /\ b.pc = "label" /\ b.caller = a.caller /\ b.over = a.over
      /\ b.cmd = a.cmd
  <2> HIDE DEF a
  <2>1. QED BY <1>1, <1>8 DEF Activations, Pcs
<1>10. /\ UNCHANGED <<user, process_count, shell_count, interrupts, image, pcb, prog_page, esp0>>
       /\ esp' = r
       /\ stk' = [stk EXCEPT ![esp] = <<>>, ![r] = SubSeq(stk[r], 1, 1 - 1) \o <<b>>]
  <2>1. Top.saved.region = r /\ Top.saved.depth = 1
    BY <1>4
  <2>2. QED BY <2>1 DEF Jump
<1> HIDE DEF a, b
<1>11. SubSeq(stk[r], 1, 1 - 1) \o <<b>> = <<b>>
  <2>1. stk[r] = <<a>>
    BY ONLY <1>6, <1>8 DEF a
  <2>2. SubSeq(<<a>>, 1, 1 - 1) = <<>>
    OBVIOUS
  <2>3. <<>> \o <<b>> = <<b>>
    OBVIOUS
  <2>4. QED BY ONLY <2>1, <2>2, <2>3
<1>12. /\ stk'[r] = <<b>> /\ \A q \in Pids \ {r, esp} : stk'[q] = stk[q]
  <2>1. stk' = [stk EXCEPT ![esp] = <<>>, ![r] = <<b>>]
    BY ONLY <1>10, <1>11
  <2>2. QED BY ONLY <1>7, <1>8, <2>1
<1>13. Top' = b /\ Len(stk'[r]) = 1
  <2>1. esp' = r
    BY <1>10
  <2>2. Top' = stk'[r][Len(stk'[r])]
    BY ONLY <2>1 DEF Top
  <2>3. Len(<<b>>) = 1 /\ <<b>>[1] = b
    OBVIOUS
  <2>4. QED BY ONLY <1>12, <2>2, <2>3
<1>14. JumpedTo(r, a)
  BY ONLY <1>1, <1>3, <1>4, <1>6, <1>7, <1>9, <1>10, <1>12, <1>13 DEF JumpedTo
<1>15. QED BY <1>14 DEF r, a

\* After the jump the launcher serves its program again.
LEMMA JumpOrdered ==
    ASSUME MAX_SHELL_COUNT = 2, Inv, Ordered, Jump PROVE Ordered'
<1> DEFINE r == esp - 1
           a == stk[r][1]
<1>1. JumpedTo(r, a)
  BY JumpBack
<1> HIDE DEF r, a
<1>2. /\ Entered = process_count + 1 /\ process_count \in Nat /\ Entered <= MAXPROCESS
      /\ Entered > 3 /\ esp = Entered - 1 /\ prog_page = r /\ esp0 = r
      /\ shell_count > MAX_SHELL_COUNT
      /\ a.caller \in {"syscall", "pit"} /\ (a.caller = "pit" => a.cmd = Shell)
      /\ a.over # NoUser /\ a.over.slot = r /\ a.over.prog = image[r][1]
      /\ r \in Pids /\ esp \in Pids /\ r # esp /\ r = process_count - 1
  BY ONLY <1>1 DEF JumpedTo
<1>3. /\ UNCHANGED <<process_count, shell_count, interrupts, image, pcb, prog_page, esp0>>
      /\ user' = NoUser /\ esp' = r /\ Len(stk'[r]) = 1
      /\ \A q \in Pids \ {r, esp} : stk'[q] = stk[q]
  BY ONLY <1>1 DEF JumpedTo
<1>4. Top'.pc = "label" /\ Top'.caller = a.caller /\ Top'.over = a.over /\ Top'.cmd = a.cmd
  BY ONLY <1>1 DEF JumpedTo
<1>5. Entered' = process_count
  BY <1>3, <1>4 DEF Entered, EnteredAt
<1>6. AllSetUp /\ AllWait
  BY <1>1 DEF Ordered
<1>7. AllSetUp'
  BY <1>3, <1>6, SetUpSteps
<1>8. AllWait'
  <2>1. ASSUME NEW n \in 4 .. process_count
        PROVE  n \in 4 .. Entered /\ stk'[n - 2] = stk[n - 2]
    <3>1. MAXPROCESS \in Nat
      BY Numbers
    <3>2. n \in 4 .. Entered /\ n - 2 \in Pids \ {r, esp}
      BY ONLY <1>2, <3>1, n \in 4 .. process_count DEF Pids
    <3>3. QED BY <1>3, <3>2
  <2>2. QED BY <1>3, <1>5, <1>6, <2>1, WaitsSteps
<1>9. Works'
  <2>1. ~CanTick'
    <3>1. shell_count \in Nat
      BY Numbers DEF Inv, TypeOK
    <3>2. ~(shell_count <= MAX_SHELL_COUNT)
      BY ONLY <1>2, <3>1, Numbers
    <3>3. QED BY <1>3, <3>2 DEF CanTick
  <2>2. shell_count \in 0 .. 3
    BY DEF Inv, TypeOK
  <2>3. /\ process_count >= 1 /\ process_count >= shell_count
        /\ process_count + 1 >= shell_count
    BY ONLY <1>2, <2>2
  <2>4. Serves'
    BY <1>2, <1>3, <1>4, <1>5, <2>1, <2>3 DEF Serves
  <2>5. QED BY <2>4 DEF Works
<1>10. Progress'
  BY <1>4 DEF Progress, Launching
<1>11. QED BY <1>3, <1>7, <1>8, <1>9, <1>10, InOrder

-----------------------------------------------------------------------------
\* The ways out of the kernel and into it.

\* The result of a system call is in ret_value.
LEMMA LinkageOrdered == ASSUME Inv, Ordered, Linkage PROVE Ordered'
<1> DEFINE a == [Top EXCEPT !.pc = "popa"]
<1>1. user = NoUser /\ Top.pc = "linkage" /\ Top \in Activations
  BY TopOk DEF Linkage, Running
<1>2. Serves /\ Entered >= shell_count
  <2>1. Top.pc \notin Launching
    BY <1>1 DEF Launching
  <2>2. QED BY <1>1, <2>1 DEF Ordered, Works, Serves, Replaces, Boots
<1>3. /\ UNCHANGED <<user, esp, process_count, shell_count, interrupts, esp0, image, pcb,
                     prog_page>>
      /\ SetTop(a)
  BY DEF Linkage, GoTo
<1>4. /\ a \in Activations /\ a.pc = "popa" /\ a.caller = Top.caller
      /\ a.over = Top.over /\ a.cmd = Top.cmd
  BY <1>1 DEF Activations, Pcs
<1> HIDE DEF a
<1>5. QED BY <1>1, <1>2, <1>3, <1>4, ReplyOrdered

\* The program goes on where it was interrupted.
LEMMA BackOrdered ==
    ASSUME Inv, Ordered, user = NoUser, Top.pc \in {"popa", "return"}, user' \in Contexts,
           user'.slot = Top.over.slot, user'.prog = Top.over.prog,
           stk' = [stk EXCEPT ![esp] = Pop(@)],
           UNCHANGED <<esp, process_count, shell_count, image, pcb, prog_page, esp0>>
    PROVE  Ordered'
<1>1. user' # NoUser
  BY ConstantsAssumption
<1>2. AllSetUp /\ AllWait /\ Works /\ Top.pc \notin Launching
  BY DEF Ordered, Launching
<1>3. Serves
  BY <1>2 DEF Works, Replaces, Boots
<1>4. Entered = process_count /\ Entered' = process_count
  BY <1>1, EnteredIs DEF Entered
<1>5. AllSetUp'
  BY <1>2, SetUpSteps
<1>6. AllWait'
  <2>1. stk \in [Pids -> Seq(Activations)]
    BY DEF Inv, TypeOK
  <2>2. ASSUME NEW n \in 4 .. Entered PROVE stk'[n - 2] = stk[n - 2]
    <3>1. n - 2 \in Pids \ {esp}
      BY <1>2, Below
    <3>2. QED BY ONLY <2>1, <3>1, stk' = [stk EXCEPT ![esp] = Pop(@)]
  <2>3. QED BY <1>2, <1>4, <2>2, WaitsSteps
<1>7. ProgramRuns'
  <2>1. /\ esp = process_count - 1 /\ Top.over.slot = esp /\ Top.over.prog = image[esp][1]
        /\ esp0 = esp /\ prog_page = esp /\ process_count >= shell_count
    BY <1>2, <1>3, <1>4 DEF Serves
  <2>2. QED BY <2>1 DEF ProgramRuns
<1>8. QED BY <1>1, <1>5, <1>6, <1>7 DEF Ordered

\* A system call returns to the program that made it.
LEMMA SyscallReturnOrdered == ASSUME Inv, Ordered, SyscallReturn PROVE Ordered'
<1>1. user = NoUser /\ Top.pc = "popa" /\ Top \in Activations
  BY TopOk DEF SyscallReturn, Running
<1>2. Top.over \in Contexts
  <2>1. Top.over # NoUser
    <3>1. Top.pc \notin Launching
      BY <1>1 DEF Launching
    <3>2. QED BY <1>1, <3>1 DEF Ordered, Works, Serves, Replaces, Boots
  <2>2. QED BY <1>1, <2>1 DEF Activations
<1>3. /\ user' = [Top.over EXCEPT !.eax = ret_value] /\ ret_value \in Int
      /\ stk' = [stk EXCEPT ![esp] = Pop(@)]
      /\ UNCHANGED <<esp, process_count, shell_count, image, pcb, prog_page, esp0>>
  BY DEF SyscallReturn, Inv, TypeOK
<1>4. user' \in Contexts /\ user'.slot = Top.over.slot /\ user'.prog = Top.over.prog
  BY ONLY <1>2, <1>3 DEF Contexts
<1>5. QED BY <1>1, <1>3, <1>4, BackOrdered

\* The timer handler returns to a program: kernel code never gets it back.
LEMMA PitReturnOrdered == ASSUME Inv, Ordered, PitReturn PROVE Ordered'
<1>1. user = NoUser /\ Top.pc = "return" /\ Top \in Activations
  BY TopOk DEF PitReturn, Running
<1>2. Top.over \in Contexts
  <2>1. Top.over # NoUser
    <3>1. Top.pc \notin Launching
      BY <1>1 DEF Launching
    <3>2. QED BY <1>1, <3>1 DEF Ordered, Works, Serves, Replaces, Boots
  <2>2. QED BY <1>1, <2>1 DEF Activations
<1>3. /\ user' = Top.over /\ stk' = [stk EXCEPT ![esp] = Pop(@)]
      /\ UNCHANGED <<esp, process_count, shell_count, image, pcb, prog_page, esp0>>
  BY DEF PitReturn
<1>4. QED BY <1>1, <1>2, <1>3, BackOrdered

\* A program traps into the kernel.
LEMMA EnterOrdered ==
    ASSUME Inv, Ordered, user # NoUser, NEW a \in Activations, Enter(a),
           a.caller \in {"syscall", "pit"}, a.over # NoUser,
           a.over.slot = user.slot, a.over.prog = user.prog, a.pc \in {"parse", "begin"},
           a.caller = "pit" => a.cmd = Shell,
           a.caller = "syscall" => shell_count > MAX_SHELL_COUNT,
           a.pc = "begin" \/ a.caller = "syscall" => shell_count' = shell_count,
           shell_count' \in {shell_count, shell_count + 1}, ~CanTick',
           UNCHANGED <<process_count, image, pcb, prog_page, esp0>>
    PROVE  Ordered'
<1>1. /\ stk' = [stk EXCEPT ![esp0] = <<a>>] /\ esp' = esp0 /\ user' = NoUser
  BY DEF Enter
<1>2. /\ stk \in [Pids -> Seq(Activations)] /\ esp0 \in Pids
      /\ process_count \in Nat /\ process_count >= 1 /\ process_count <= MAXPROCESS
      /\ shell_count \in Nat /\ MAXPROCESS \in Nat
  BY Numbers DEF Inv, TypeOK, Counts
<1>3. stk'[esp0] = <<a>> /\ \A r \in Pids \ {esp0} : stk'[r] = stk[r]
  BY ONLY <1>1, <1>2
<1>4. Top' = a /\ Len(stk'[esp0]) = 1
  <2>1. Top' = stk'[esp0][Len(stk'[esp0])]
    BY ONLY <1>1 DEF Top
  <2>2. Len(<<a>>) = 1 /\ <<a>>[1] = a
    OBVIOUS
  <2>3. QED BY ONLY <1>3, <2>1, <2>2
<1>5. Entered = process_count /\ Entered' = process_count
  BY <1>1, <1>4 DEF Entered, EnteredAt
<1>6. AllSetUp /\ AllWait /\ ProgramRuns
  BY DEF Ordered
<1>7. AllSetUp'
  BY <1>6, SetUpSteps
<1>8. AllWait'
  <2>1. ASSUME NEW n \in 4 .. process_count PROVE stk'[n - 2] = stk[n - 2]
    <3>1. esp0 = process_count - 1
      BY <1>6 DEF ProgramRuns
    <3>2. n - 2 \in Pids \ {esp0}
      BY ONLY <1>2, <3>1, n \in 4 .. process_count DEF Pids
    <3>3. QED BY <1>3, <3>2
  <2>2. QED BY <1>5, <1>6, <2>1, WaitsSteps
<1>9. Works'
  <2>1. /\ esp0 = process_count - 1 /\ prog_page = esp0 /\ a.over.slot = esp0
        /\ a.over.prog = image[esp0][1] /\ process_count >= shell_count
    BY <1>6 DEF ProgramRuns
  <2>2. process_count + 1 >= shell_count'
        /\ (shell_count' = shell_count => process_count >= shell_count')
    BY ONLY <1>2, <2>1, shell_count' \in {shell_count, shell_count + 1}
  <2>3. a.pc = "parse" \/ shell_count' = shell_count
    OBVIOUS
  <2>4. "parse" \in Launching
    BY DEF Launching
  <2>5. Serves'
    BY <1>1, <1>2, <1>4, <1>5, <2>1, <2>2, <2>3, <2>4 DEF Serves
  <2>6. QED BY <2>5 DEF Works
<1>10. Progress'
  BY <1>4 DEF Progress, Launching
<1>11. QED BY <1>1, <1>7, <1>8, <1>9, <1>10, InOrder

\* The timer launches a shell: from a program, or on top of the kernel's launch of
\* the first shell.
LEMMA TickOrdered == ASSUME Inv, Ordered, Tick PROVE Ordered'
<1> DEFINE a == Activation("pit", user, "parse", Shell)
<1>1. /\ CanTick /\ ~CanTick' /\ Enter(a) /\ shell_count' = shell_count + 1
      /\ UNCHANGED <<process_count, image, pcb, prog_page, esp0>>
  BY DEF Tick, CanTick
<1>2. a \in Activations /\ a.pc = "parse" /\ a.over = user /\ a.caller = "pit" /\ a.cmd = Shell
  <2>1. /\ "pit" \in Callers /\ "parse" \in Pcs /\ Shell \in Commands
        /\ user \in Contexts \cup {NoUser}
    BY ConstantsAssumption DEF Callers, Pcs, Commands, Inv, TypeOK
  <2>2. a.cmd = Shell
    BY DEF Activation
  <2>3. QED BY ONLY <2>1, <2>2, NewActivation
<1> HIDE DEF a
<1>3. CASE user # NoUser
  BY <1>1, <1>2, <1>3, EnterOrdered
<1>4. CASE user = NoUser
  <2>1. Boots /\ Top.caller = "entry" /\ Progress /\ AllSetUp /\ shell_count \in Nat
    <3>1. shell_count \in Nat
      BY Numbers DEF Inv, TypeOK
    <3>2. ~Serves
      BY <1>1 DEF Serves
    <3>3. ~Replaces
      <4>1. ~(shell_count > MAX_SHELL_COUNT)
        BY ONLY <1>1, <3>1, Numbers DEF CanTick
      <4>2. QED BY <4>1 DEF Replaces
    <3>4. QED BY <1>1, <1>4, <3>1, <3>2, <3>3 DEF Ordered, Works, Boots
  <2>2. /\ shell_count = 0 /\ Entered = 0 /\ esp = 0 /\ esp0 = 0
        /\ process_count \in 0 .. 1
    <3>1. Top.pc # "jump"
      BY <2>1 DEF Boots, Launching
    <3>2. shell_count = 0 /\ Entered = 0 /\ esp = 0
      BY <2>1 DEF Boots
    <3>3. process_count \in Nat /\ (process_count = 0 \/ process_count - 1 = 0)
      BY <1>4, <3>1, <3>2, EnteredIs
    <3>4. esp0 = 0
      BY <2>1, <3>2 DEF Boots, Progress, Launching
    <3>5. QED BY ONLY <3>2, <3>3, <3>4
  <2>3. stk' = [stk EXCEPT ![esp] = Append(stk[esp], a)] /\ UNCHANGED <<esp, user>>
    BY <1>1, <1>4 DEF Enter
  <2>4. Top' = a
    <3>1. stk[esp] \in Seq(Activations) /\ esp \in Pids /\ stk \in [Pids -> Seq(Activations)]
      BY DEF Inv, TypeOK
    <3>2. stk'[esp] = Append(stk[esp], a)
      BY ONLY <2>3, <3>1
    <3>3. Append(stk[esp], a)[Len(Append(stk[esp], a))] = a
      BY ONLY <1>2, <3>1
    <3>4. QED BY <2>3, <3>2, <3>3 DEF Top
  <2>5. Entered' = process_count
    BY <1>1, <1>2, <1>4, <2>3, <2>4 DEF Entered, EnteredAt
  <2>6. AllSetUp'
    BY <1>1, <2>1, SetUpSteps
  <2>7. AllWait'
    BY <2>2, <2>5 DEF AllWait
  <2>8. Works'
    <3>1. a.pc \in Launching /\ a.pc # "iret"
      BY <1>2 DEF Launching
    <3>2. shell_count' = 1
      BY ONLY <1>1, <2>2
    <3>3. Boots'
      BY <1>1, <1>2, <1>4, <2>2, <2>3, <2>4, <2>5, <3>1, <3>2 DEF Boots
    <3>4. QED BY <3>3 DEF Works
  <2>9. Progress'
    BY <1>2, <2>4 DEF Progress, Launching
  <2>10. QED BY <1>4, <2>3, <2>6, <2>7, <2>8, <2>9, InOrder
<1>5. QED BY <1>3, <1>4

\* What a system call saves of the program that made it.
LEMMA CallerSame ==
    ASSUME Inv, user # NoUser
    PROVE  LET context == [user EXCEPT !.eax = 0]
           IN  context.slot = user.slot /\ context.prog = user.prog
<1>1. user \in Contexts
  BY DEF Inv, TypeOK
<1>2. QED BY ONLY <1>1 DEF Contexts

\* A program calls execute.
LEMMA SyscallExecuteOrdered ==
    ASSUME EarlyInput = FALSE, Inv, Ordered, NEW cmd \in Commands, SyscallExecute(cmd)
    PROVE  Ordered'
<1> DEFINE context == [user EXCEPT !.eax = 0]
           a == Activation("syscall", context, "parse", cmd)
<1>1. /\ user # NoUser /\ shell_count > MAX_SHELL_COUNT /\ Enter(a)
      /\ UNCHANGED <<shell_count, process_count, image, pcb, prog_page, esp0>>
  BY DEF SyscallExecute, UserReady
<1>2. /\ context \in Contexts /\ context # NoUser
      /\ context.slot = user.slot /\ context.prog = user.prog
  BY <1>1, CallerContext, CallerSame
<1> HIDE DEF context
<1>3. a \in Activations /\ a.pc = "parse" /\ a.over = context /\ a.caller = "syscall"
  <2>1. "syscall" \in Callers /\ "parse" \in Pcs
    BY DEF Callers, Pcs
  <2>2. QED BY <1>2, <2>1, NewActivation
<1> HIDE DEF a
<1>4. ~CanTick'
  <2>1. shell_count \in Nat
    BY Numbers DEF Inv, TypeOK
  <2>2. ~(shell_count' <= MAX_SHELL_COUNT)
    BY ONLY <1>1, <2>1, Numbers
  <2>3. QED BY <2>2 DEF CanTick
<1>5. QED BY <1>1, <1>2, <1>3, <1>4, EnterOrdered

\* A program calls halt.
LEMMA SyscallHaltOrdered ==
    ASSUME EarlyInput = FALSE, Inv, Ordered, NEW status \in Statuses, SyscallHalt(status)
    PROVE  Ordered'
<1> DEFINE context == [user EXCEPT !.eax = 0]
           b == Activation("syscall", context, "begin", NoProgram)
           a == [b EXCEPT !.eax = status]
<1>1. /\ user # NoUser /\ shell_count > MAX_SHELL_COUNT /\ Enter(a)
      /\ UNCHANGED <<shell_count, process_count, image, pcb, prog_page, esp0>>
  BY DEF SyscallHalt, UserReady
<1>2. /\ context \in Contexts /\ context # NoUser
      /\ context.slot = user.slot /\ context.prog = user.prog
  BY <1>1, CallerContext, CallerSame
<1> HIDE DEF context
<1>3. b \in Activations /\ b.pc = "begin" /\ b.over = context /\ b.caller = "syscall"
  <2>1. "syscall" \in Callers /\ "begin" \in Pcs /\ NoProgram \in Commands
    BY DEF Callers, Pcs, Commands
  <2>2. QED BY <1>2, <2>1, NewActivation
<1> HIDE DEF b
<1>4. a \in Activations /\ a.pc = "begin" /\ a.over = context /\ a.caller = "syscall"
  <2>1. status \in Int
    BY ConstantsAssumption
  <2>2. QED BY ONLY <1>3, <2>1 DEF Activations
<1> HIDE DEF a
<1>5. ~CanTick'
  <2>1. shell_count \in Nat
    BY Numbers DEF Inv, TypeOK
  <2>2. ~(shell_count' <= MAX_SHELL_COUNT)
    BY ONLY <1>1, <2>1, Numbers
  <2>3. QED BY <2>2 DEF CanTick
<1>6. QED BY <1>1, <1>2, <1>4, <1>5, EnterOrdered

\* The kernel is about to launch the first shell.
LEMMA InitOrdered == Init => Ordered
<1> SUFFICES ASSUME Init PROVE Ordered
  OBVIOUS
<1> DEFINE a == Activation("entry", NoUser, "parse", Shell)
<1>1. /\ user = NoUser /\ esp = 0 /\ esp0 = 0 /\ process_count = 0 /\ shell_count = 0
  BY DEF Init
<1>2. a.pc = "parse" /\ a.caller = "entry" /\ a.over = NoUser /\ a.cmd = Shell
  BY DEF Activation
<1>3. Top = a
  <2>1. 0 \in Pids
    BY Numbers DEF Pids
  <2>2. stk[0] = <<a>>
    BY ONLY <2>1, Init DEF Init
  <2>3. Len(<<a>>) = 1 /\ <<a>>[1] = a
    OBVIOUS
  <2>4. QED BY ONLY <1>1, <2>2, <2>3 DEF Top
<1> HIDE DEF a
<1>4. Entered = 0
  BY <1>1, <1>2, <1>3 DEF Entered, EnteredAt
<1>5. AllSetUp /\ AllWait
  BY <1>1, <1>4 DEF AllSetUp, AllWait
<1>6. Works
  <2>1. Boots
    BY <1>1, <1>2, <1>3, <1>4 DEF Boots, Launching
  <2>2. QED BY <2>1 DEF Works
<1>7. Progress
  BY <1>2, <1>3 DEF Progress, Launching
<1>8. QED BY <1>1, <1>5, <1>6, <1>7 DEF Ordered

\* Ordered does not depend on anything but the variables.
LEMMA StutterOrdered == ASSUME Ordered, UNCHANGED vars PROVE Ordered'
<1>1. Top' = Top /\ Entered' = Entered /\ CanTick' = CanTick
  BY DEF vars, Top, Entered, CanTick
<1>2. AllSetUp' /\ AllWait'
  BY <1>1 DEF vars, Ordered, AllSetUp, SetUp, AllWait, Waits
<1>3. ProgramRuns' <=> ProgramRuns
  BY DEF vars, ProgramRuns
<1>4. Progress' <=> Progress
  BY <1>1 DEF vars, Progress, SetUp
<1>5. Works' <=> Works
  <2>1. Serves' <=> Serves
    BY <1>1 DEF vars, Serves
  <2>2. Replaces' <=> Replaces
    BY <1>1 DEF vars, Replaces
  <2>3. Boots' <=> Boots
    BY <1>1 DEF vars, Boots
  <2>4. QED BY ONLY <2>1, <2>2, <2>3 DEF Works
<1>6. user' = user
  BY DEF vars
<1>7. QED BY ONLY Ordered, <1>2, <1>3, <1>4, <1>5, <1>6 DEF Ordered

\* Every step keeps the order.
LEMMA NextOrdered ==
    ASSUME EarlyInput = FALSE, MAX_SHELL_COUNT = 2, Inv, Ordered, [Next]_vars
    PROVE  Ordered'
<1>1. CASE Tick
  BY <1>1, TickOrdered
<1>2. ASSUME NEW cmd \in Commands, SyscallExecute(cmd) PROVE Ordered'
  BY <1>2, SyscallExecuteOrdered
<1>3. ASSUME NEW status \in Statuses, SyscallHalt(status) PROVE Ordered'
  BY <1>3, SyscallHaltOrdered
<1>4. CASE Execute
  BY <1>4, ParseOrdered, LookupOrdered, FindOrdered, MarkOrdered, MapOrdered, CopyOrdered,
     FillPcbOrdered, CountOrdered, SaveContextOrdered, IretOrdered, LabelOrdered DEF Execute
<1>5. CASE Halt
  BY <1>5, HaltShellOrdered, HaltChildOrdered, JumpOrdered DEF Halt
<1>6. CASE Linkage \/ SyscallReturn \/ PitReturn
  BY <1>6, LinkageOrdered, SyscallReturnOrdered, PitReturnOrdered
<1>7. CASE UNCHANGED vars
  BY <1>7, StutterOrdered
<1>8. QED BY <1>1, <1>2, <1>3, <1>4, <1>5, <1>6, <1>7 DEF Next, Kernel, Compute

-----------------------------------------------------------------------------
\* What follows from the order.

\* The program that runs is the last process, whose page, PCB and stack are in use.
LEMMA RunsWell == ASSUME Inv, Ordered PROVE RunsAsItself
<1> SUFFICES ASSUME user # NoUser
             PROVE  /\ prog_page = user.slot
                    /\ image[user.slot] = <<user.prog, user.prog>>
                    /\ process_count = user.slot + 1
                    /\ pcb[process_count].currID = user.slot
                    /\ esp0 = user.slot
  BY DEF RunsAsItself
<1>1. ProgramRuns /\ AllSetUp
  BY DEF Ordered
<1>2. process_count \in Nat /\ process_count >= 1 /\ process_count <= MAXPROCESS
      /\ MAXPROCESS \in Nat
  BY Numbers DEF Inv, Counts
<1>3. user.slot = process_count - 1 /\ image[process_count - 1][1] = user.prog
      /\ prog_page = process_count - 1 /\ esp0 = process_count - 1
  BY <1>1 DEF ProgramRuns
<1>4. process_count \in 1 .. process_count /\ process_count - 1 \in Pids
      /\ process_count = user.slot + 1
  BY ONLY <1>2, <1>3 DEF Pids
<1>5. SetUp(process_count)
  BY <1>1, <1>4 DEF AllSetUp
<1>6. image[process_count - 1] = <<user.prog, user.prog>>
  <2>1. image[process_count - 1] \in Commands \X Commands
    BY <1>4 DEF Inv, TypeOK
  <2>2. image[process_count - 1][2] = user.prog
    BY <1>3, <1>5 DEF SetUp
  <2>3. QED BY ONLY <1>3, <2>1, <2>2
<1>7. QED BY <1>3, <1>4, <1>5, <1>6 DEF SetUp

\* Every process above the shells has its launcher waiting where its PCB says.
LEMMA LaunchersWait == ASSUME Inv, Ordered PROVE ParentsWait
<1> SUFFICES ASSUME user # NoUser, NEW n \in 4 .. process_count
             PROVE  LET p == pcb[n].esp IN
                    /\ Awaits(p, n)
                    /\ stk[p.region][p.depth].over # NoUser
                    /\ stk[p.region][p.depth].over.slot = pcb[n].parentID
                    /\ pcb[n].parentID = n - 2
  BY DEF ParentsWait
<1>1. Entered = process_count
  BY DEF Entered
<1>2. Waits(n)
  BY <1>1 DEF Ordered, AllWait
<1>3. /\ n - 2 \in Pids /\ n \in 1 .. process_count /\ n > 1
  <2>1. process_count \in Nat /\ process_count <= MAXPROCESS /\ MAXPROCESS \in Nat
    BY Numbers DEF Inv, Counts
  <2>2. QED BY ONLY <2>1, n \in 4 .. process_count DEF Pids
<1>4. pcb[n].parentID = n - 2
  BY <1>3 DEF Ordered, AllSetUp, SetUp
<1>5. pcb[n].esp.region = n - 2 /\ pcb[n].esp.depth = 1
  BY <1>2 DEF Waits
<1>6. 1 \in 1 .. Len(stk[n - 2])
  BY <1>2 DEF Waits
<1>7. QED BY <1>2, <1>3, <1>4, <1>5, <1>6 DEF Waits, Awaits

\* The system is in order at every moment.
LEMMA OrderedAlways ==
    ASSUME EarlyInput = FALSE, MAX_SHELL_COUNT = 2 PROVE Spec => [](Inv /\ Ordered)
<1>1. Init => Ordered
  BY InitOrdered
<1>2. Inv /\ Ordered /\ [Next]_vars => Ordered'
  BY NextOrdered
<1>3. QED BY <1>1, <1>2, InvCorrect, PTL DEF Spec

\* The program that runs finds its own image mapped, whole; get_pcb(process_count)
\* is its own PCB, and esp0 selects its own kernel stack (system_call.c 230-296,
\* 97-117): whatever the interleaving of execute, halt and the launches by the
\* timer has been.
THEOREM RunsCorrect ==
    ASSUME EarlyInput = FALSE, MAX_SHELL_COUNT = 2 PROVE Spec => []RunsAsItself
<1>1. Inv /\ Ordered => RunsAsItself
  BY RunsWell
<1>2. QED BY <1>1, OrderedAlways, PTL

\* While a program runs, the activation of execute that launched it, and that of
\* each process below it down to the shells, lies intact where the PCB says; halt
\* will go back there (121-125), and from there to the parent's context.
THEOREM ParentsCorrect ==
    ASSUME EarlyInput = FALSE, MAX_SHELL_COUNT = 2 PROVE Spec => []ParentsWait
<1>1. Inv /\ Ordered => ParentsWait
  BY LaunchersWait
<1>2. QED BY <1>1, OrderedAlways, PTL

-----------------------------------------------------------------------------
\* The stack of processes that the page slots show.
Row(c, im) == [i \in 1 .. c |-> im[i - 1][1]]

Restarting == /\ user = NoUser
            /\ Top.caller = "halt"
            /\ Top.pc \notin {"context", "iret", "launched"}

\* Only the first halves of the images in use show.
LEMMA RowSame ==
    ASSUME NEW c \in Nat, NEW im, NEW jm, \A r \in 0 .. c - 1 : jm[r][1] = im[r][1]
    PROVE  Row(c, jm) = Row(c, im)
<1>1. \A i \in 1 .. c : jm[i - 1][1] = im[i - 1][1]
  <2>1. \A i \in 1 .. c : i - 1 \in 0 .. c - 1
    OBVIOUS
  <2>2. QED BY <2>1
<1>2. QED BY <1>1 DEF Row

\* The stack is a sequence of programs, one for each process.
LEMMA RowIsSeq ==
    ASSUME NEW c \in Counts, NEW im \in [Pids -> Commands \X Commands]
    PROVE  Row(c, im) \in Seq(Commands) /\ Len(Row(c, im)) = c
<1>1. c \in Nat /\ c <= MAXPROCESS /\ MAXPROCESS \in Nat
  BY Numbers DEF Counts
<1>2. ASSUME NEW i \in 1 .. c PROVE im[i - 1][1] \in Commands
  <2>1. i - 1 \in Pids
    BY ONLY <1>1, i \in 1 .. c DEF Pids
  <2>2. im[i - 1] \in Commands \X Commands
    BY <2>1
  <2>3. QED BY ONLY <2>2
<1>3. QED BY ONLY <1>1, <1>2 DEF Row

\* One more process.
LEMMA RowGrows ==
    ASSUME NEW c \in Counts, c + 1 \in Counts, NEW im \in [Pids -> Commands \X Commands]
    PROVE  Row(c + 1, im) = Append(Row(c, im), im[c][1])
<1>1. c \in Nat
  BY Numbers DEF Counts
<1>2. /\ Row(c, im) \in Seq(Commands) /\ Len(Row(c, im)) = c
      /\ Row(c + 1, im) \in Seq(Commands) /\ Len(Row(c + 1, im)) = c + 1
  BY RowIsSeq
<1>3. im[c][1] \in Commands
  <2>1. c \in Pids
    BY Numbers DEF Counts, Pids
  <2>2. im[c] \in Commands \X Commands
    BY <2>1
  <2>3. QED BY ONLY <2>2
<1> DEFINE longer == Append(Row(c, im), im[c][1])
<1>4. longer \in Seq(Commands) /\ Len(longer) = c + 1
  BY ONLY <1>2, <1>3
<1>5. \A i \in 1 .. c + 1 : Row(c + 1, im)[i] = longer[i]
  <2>1. \A i \in 1 .. c : longer[i] = Row(c, im)[i]
    BY ONLY <1>1, <1>2, <1>3
  <2>2. longer[c + 1] = im[c][1]
    BY ONLY <1>1, <1>2, <1>3
  <2> HIDE DEF longer
  <2>3. \A i \in 1 .. c + 1 : i \in 1 .. c \/ (i = c + 1 /\ i - 1 = c)
    BY ONLY <1>1
  <2>4. QED BY ONLY <1>1, <2>1, <2>2, <2>3 DEF Row
<1> HIDE DEF longer
<1>6. Row(c + 1, im) = longer
  BY ONLY <1>2, <1>4, <1>5, SeqEqual
<1>7. QED BY <1>6 DEF longer

\* One process less.
LEMMA RowShrinks ==
    ASSUME NEW c \in Counts, c >= 1, NEW im \in [Pids -> Commands \X Commands]
    PROVE  SubSeq(Row(c, im), 1, Len(Row(c, im)) - 1) = Row(c - 1, im)
<1>1. c \in Nat /\ c - 1 \in Counts
  BY Numbers DEF Counts
<1>2. /\ Row(c, im) \in Seq(Commands) /\ Len(Row(c, im)) = c
      /\ Row(c - 1, im) \in Seq(Commands) /\ Len(Row(c - 1, im)) = c - 1
  BY <1>1, RowIsSeq
<1> DEFINE shorter == SubSeq(Row(c, im), 1, Len(Row(c, im)) - 1)
<1>3. /\ shorter \in Seq(Commands) /\ Len(shorter) = c - 1
      /\ \A i \in 1 .. c - 1 : shorter[i] = Row(c, im)[i]
  <2> DEFINE row == Row(c, im)
  <2> HIDE DEF row
  <2>1. row \in Seq(Commands) /\ Len(row) = c
    BY <1>2 DEF row
  <2>2. /\ SubSeq(row, 1, c - 1) \in Seq(Commands) /\ Len(SubSeq(row, 1, c - 1)) = c - 1
        /\ \A i \in 1 .. c - 1 : SubSeq(row, 1, c - 1)[i] = row[i]
    BY ONLY <1>1, <2>1, c >= 1
  <2>3. shorter = SubSeq(row, 1, c - 1)
    BY <1>2 DEF row
  <2>4. QED BY ONLY <2>2, <2>3 DEF row
<1> HIDE DEF shorter
<1>4. \A i \in 1 .. c - 1 : shorter[i] = Row(c - 1, im)[i]
  <2>1. \A i \in 1 .. c - 1 : i \in 1 .. c
    BY ONLY <1>1
  <2>2. QED BY ONLY <1>3, <2>1 DEF Row
<1>5. shorter = Row(c - 1, im)
  BY ONLY <1>2, <1>3, <1>4, SeqEqual
<1>6. QED BY <1>5 DEF shorter

-----------------------------------------------------------------------------
\* What the steps show of the stack of processes.

\* A step that the stack of processes does not show.
LEMMA Silent ==
    ASSUME Inv, process_count' = process_count,
           \A r \in 0 .. process_count - 1 : image'[r][1] = image[r][1],
           Restarting' <=> Restarting
    PROVE  UNCHANGED Stack!stackVars
<1>1. process_count \in Nat
  BY Numbers DEF Inv, Counts
<1>2. Row(process_count, image)' = Row(process_count, image)
  <2>1. Row(process_count, image') = Row(process_count, image)
    BY <1>1, RowSame
  <2>2. QED BY <2>1 DEF Row
<1>3. Restarting' = Restarting
  <2>1. Restarting' \in BOOLEAN /\ Restarting \in BOOLEAN
    BY DEF Restarting
  <2>2. QED BY <2>1
<1>4. QED BY ONLY <1>2, <1>3 DEF Stack!stackVars, Row, Restarting

\* The call of execute at the top goes on, to p.
LEMMA TopSilent ==
    ASSUME Inv, user = NoUser, NEW a \in Activations, SetTop(a),
           UNCHANGED <<user, esp, process_count>>, a.caller = Top.caller,
           a.pc \in Counted <=> Top.pc \in Counted,
           \A r \in 0 .. process_count - 1 : image'[r] = image[r]
    PROVE  UNCHANGED Stack!stackVars
<1>1. Top' = a
  BY TopAfter
<1>2. Restarting' <=> Restarting
  BY <1>1 DEF Restarting, Counted
<1>3. QED BY <1>2, Silent

\* The same, where only the place changes.
LEMMA GoToSilent ==
    ASSUME Inv, user = NoUser, NEW p \in Pcs, GoTo(p),
           UNCHANGED <<user, esp, process_count>>,
           p \in Counted <=> Top.pc \in Counted,
           \A r \in 0 .. process_count - 1 : image'[r] = image[r]
    PROVE  UNCHANGED Stack!stackVars
<1> DEFINE a == [Top EXCEPT !.pc = p]
<1>1. a \in Activations /\ a.pc = p /\ a.caller = Top.caller
  BY TopOk, SetPc
<1>2. SetTop(a)
  BY DEF GoTo
<1> HIDE DEF a
<1>3. QED BY <1>1, <1>2, TopSilent

\* The same, where execute returns.
LEMMA FinishSilent ==
    ASSUME Inv, user = NoUser, NEW value \in Int, Finish(value), Top.pc \notin Counted,
           UNCHANGED <<user, esp, process_count, image>>
    PROVE  UNCHANGED Stack!stackVars
<1> DEFINE p == IF Top.caller = "syscall" THEN "linkage" ELSE "return"
           a == [Top EXCEPT !.pc = p, !.eax = value]
<1>1. SetTop(a) /\ Top \in Activations /\ p \in Pcs \ Counted
  BY TopOk DEF Finish, Pcs, Counted
<1> HIDE DEF p
<1>2. a \in Activations /\ a.pc = p /\ a.caller = Top.caller
  BY ONLY <1>1, value \in Int DEF Activations
<1> HIDE DEF a
<1>3. a.pc \notin Counted
  BY <1>1, <1>2
<1>4. (a.pc \in Counted <=> Top.pc \in Counted)
      /\ \A r \in 0 .. process_count - 1 : image'[r] = image[r]
  BY <1>3
<1>5. QED BY <1>1, <1>2, <1>4, TopSilent

\* execute shows only when it counts the process.
LEMMA ExecuteSilent ==
    ASSUME Inv, Ordered,
           \/ Parse \/ Lookup \/ Find \/ Mark \/ Map \/ Copy(1) \/ Copy(2)
           \/ FillPcb \/ SaveContext \/ ExecuteLabel \/ Linkage
    PROVE  UNCHANGED Stack!stackVars
<1> USE DEF Running
<1>1. CASE Parse
  <2>1. user = NoUser /\ Top.pc = "parse" /\ UNCHANGED <<user, esp, process_count, image>>
        /\ (Finish(-1) \/ GoTo("lookup"))
    BY <1>1 DEF Parse
  <2>2. "lookup" \in Pcs /\ Top.pc \notin Counted /\ "lookup" \notin Counted /\ -1 \in Int
    BY <2>1 DEF Pcs, Counted
  <2>3. QED BY <2>1, <2>2, FinishSilent, GoToSilent
<1>2. CASE Lookup
  <2>1. user = NoUser /\ Top.pc = "lookup" /\ UNCHANGED <<user, esp, process_count, image>>
    BY <1>2 DEF Lookup
  <2>2. "find" \in Pcs /\ Top.pc \notin Counted /\ "find" \notin Counted /\ -1 \in Int
        /\ Top \in Activations /\ file_name \in Commands
    BY <2>1, TopOk DEF Pcs, Counted, Inv, TypeOK
  <2>3. CASE Finish(-1)
    BY <2>1, <2>2, <2>3, FinishSilent
  <2>4. CASE SetTop([Top EXCEPT !.pc = "find", !.cmd = file_name])
    <3> DEFINE a == [Top EXCEPT !.pc = "find", !.cmd = file_name]
    <3>1. a \in Activations /\ a.pc = "find" /\ a.caller = Top.caller
      BY ONLY <2>2 DEF Activations
    <3>2. SetTop(a)
      BY <2>4
    <3> HIDE DEF a
    <3>3. (a.pc \in Counted <=> Top.pc \in Counted)
          /\ \A r \in 0 .. process_count - 1 : image'[r] = image[r]
      BY <2>1, <2>2, <3>1
    <3>4. QED BY <2>1, <3>1, <3>2, <3>3, TopSilent
  <2>5. QED BY <1>2, <2>3, <2>4 DEF Lookup
<1>3. CASE Find
  <2>1. user = NoUser /\ Top.pc = "find" /\ UNCHANGED <<user, esp, process_count, image>>
    BY <1>3 DEF Find
  <2>2. PICK i \in 0 .. MAXPROCESS : SetTop([Top EXCEPT !.pc = "mark", !.index = i])
    BY <1>3 DEF Find
  <2>3. "mark" \in Pcs /\ Top.pc \notin Counted /\ "mark" \notin Counted
        /\ Top \in Activations /\ i \in Nat
    BY <2>1, <2>2, TopOk, Numbers DEF Pcs, Counted
  <2> DEFINE a == [Top EXCEPT !.pc = "mark", !.index = i]
  <2>4. a \in Activations /\ a.pc = "mark" /\ a.caller = Top.caller
    BY ONLY <2>3 DEF Activations
  <2>5. SetTop(a)
    BY <2>2
  <2> HIDE DEF a
  <2>6. (a.pc \in Counted <=> Top.pc \in Counted)
        /\ \A r \in 0 .. process_count - 1 : image'[r] = image[r]
    BY <2>1, <2>3, <2>4
  <2>7. QED BY <2>1, <2>4, <2>5, <2>6, TopSilent
<1>4. CASE Mark
  <2> DEFINE a == [Top EXCEPT !.pc = "map", !.index = 0]
  <2>1. user = NoUser /\ Top.pc = "mark" /\ UNCHANGED <<user, esp, process_count, image>>
        /\ SetTop(a)
    BY <1>4 DEF Mark
  <2>2. "map" \in Pcs /\ Top.pc \notin Counted /\ "map" \notin Counted /\ Top \in Activations
    BY <2>1, TopOk DEF Pcs, Counted
  <2>3. a \in Activations /\ a.pc = "map" /\ a.caller = Top.caller
    BY ONLY <2>2 DEF Activations
  <2> HIDE DEF a
  <2>4. (a.pc \in Counted <=> Top.pc \in Counted)
        /\ \A r \in 0 .. process_count - 1 : image'[r] = image[r]
    BY <2>1, <2>2, <2>3
  <2>5. QED BY <2>1, <2>3, <2>4, TopSilent
<1>5. CASE Map \/ SaveContext \/ Linkage
  <2>1. /\ user = NoUser /\ UNCHANGED <<user, esp, process_count, image>>
        /\ \/ Top.pc = "map" /\ GoTo("copy1")
           \/ Top.pc = "context" /\ GoTo("iret")
           \/ Top.pc = "linkage" /\ GoTo("popa")
    BY <1>5 DEF Map, SaveContext, Linkage
  <2>2. /\ {"copy1", "iret", "popa"} \subseteq Pcs
        /\ "map" \notin Counted /\ "copy1" \notin Counted /\ "context" \in Counted
        /\ "iret" \in Counted /\ "linkage" \notin Counted /\ "popa" \notin Counted
    BY DEF Pcs, Counted
  <2>3. QED BY <2>1, <2>2, GoToSilent
<1>6. ASSUME NEW half \in {1, 2}, Copy(half) PROVE UNCHANGED Stack!stackVars
  <2> DEFINE p == IF half = 1 THEN "copy2" ELSE "pcb"
  <2>1. /\ user = NoUser /\ UNCHANGED <<user, esp, process_count>> /\ GoTo(p)
        /\ Top.pc \in {"copy1", "copy2"}
        /\ image' = [image EXCEPT ![prog_page][half] = Top.cmd]
    BY <1>6 DEF Copy
  <2>2. p \in Pcs /\ p \notin Counted /\ Top.pc \notin Counted
    BY <2>1 DEF Pcs, Counted
  <2> HIDE DEF p
  <2>3. prog_page = process_count /\ process_count \in Pids /\ process_count \in Nat
    <3>1. Entered = process_count /\ process_count \in Nat /\ prog_page = Entered
      BY <2>1, EnteredIs DEF Ordered, Progress
    <3>2. process_count < MAXPROCESS /\ MAXPROCESS \in Nat
      BY <2>1, TopOk, Numbers DEF Fits, Window
    <3>3. QED BY ONLY <3>1, <3>2 DEF Pids
  <2>4. \A r \in 0 .. process_count - 1 : image'[r] = image[r]
    <3>1. \A r \in 0 .. process_count - 1 : r \in Pids /\ r # prog_page
      BY ONLY <2>3, Numbers DEF Pids
    <3>2. image \in [Pids -> Commands \X Commands]
      BY DEF Inv, TypeOK
    <3>3. QED BY ONLY <2>1, <3>1, <3>2
  <2>5. QED BY <2>1, <2>2, <2>4, GoToSilent
<1>7. CASE FillPcb
  <2> DEFINE a == [Top EXCEPT !.pc = "count", !.new = process_count + 1]
  <2>1. user = NoUser /\ Top.pc = "pcb" /\ UNCHANGED <<user, esp, process_count, image>>
        /\ SetTop(a)
    BY <1>7 DEF FillPcb
  <2>2. "count" \in Pcs /\ Top.pc \notin Counted /\ "count" \notin Counted /\ Top \in Activations
        /\ process_count + 1 \in Nat
    BY <2>1, TopOk, EnteredIs DEF Pcs, Counted
  <2>3. a \in Activations /\ a.pc = "count" /\ a.caller = Top.caller
    BY ONLY <2>2 DEF Activations
  <2> HIDE DEF a
  <2>4. (a.pc \in Counted <=> Top.pc \in Counted)
        /\ \A r \in 0 .. process_count - 1 : image'[r] = image[r]
    BY <2>1, <2>2, <2>3
  <2>5. QED BY <2>1, <2>3, <2>4, TopSilent
<1>8. CASE ExecuteLabel
  <2>1. user = NoUser /\ Top.pc = "label" /\ UNCHANGED <<user, esp, process_count, image>>
        /\ Finish(0) /\ 0 \in Int
    BY <1>8 DEF ExecuteLabel
  <2>2. Top.pc \notin Counted
    BY <2>1 DEF Counted
  <2>3. QED BY <2>1, <2>2, FinishSilent
<1>9. QED BY <1>1, <1>2, <1>3, <1>4, <1>5, <1>6, <1>7, <1>8

\* Only a restart is under way while halt calls execute.
LEMMA RestartingIs ==
    ASSUME Inv, Ordered
    PROVE  /\ Restarting => Replaces
           /\ user # NoUser \/ CanTick \/ Top.pc \notin Launching => ~Restarting
<1>1. Restarting => Replaces
  BY DEF Restarting, Ordered, Works, Serves, Boots
<1>2. user # NoUser => ~Restarting
  BY DEF Restarting
<1>3. Replaces => Top.pc \in Launching /\ ~CanTick
  <2>1. shell_count \in Nat
    BY Numbers DEF Inv, TypeOK
  <2>2. shell_count > MAX_SHELL_COUNT => ~(shell_count <= MAX_SHELL_COUNT)
    BY ONLY <2>1, Numbers
  <2>3. QED BY <2>2 DEF Replaces, CanTick
<1>4. QED BY <1>1, <1>2, <1>3

\* The ways into the kernel and out of it do not show.
LEMMA TrapSilent ==
    ASSUME Inv, Ordered,
           \/ Tick \/ \E cmd \in Commands : SyscallExecute(cmd)
           \/ \E status \in Statuses : SyscallHalt(status)
    PROVE  UNCHANGED Stack!stackVars
<1>1. ASSUME NEW a, a.caller # "halt", Enter(a) PROVE ~Restarting'
  <2>1. CASE user = NoUser
    <3>1. stk[esp] \in Seq(Activations) /\ esp \in Pids /\ stk \in [Pids -> Seq(Activations)]
      BY DEF Inv, TypeOK
    <3>2. stk' = [stk EXCEPT ![esp] = Append(stk[esp], a)] /\ esp' = esp
      BY <1>1, <2>1 DEF Enter
    <3>3. stk'[esp] = Append(stk[esp], a)
      BY ONLY <3>1, <3>2
    <3>4. Append(stk[esp], a)[Len(Append(stk[esp], a))] = a
      BY ONLY <3>1
    <3>5. Top' = a
      BY <3>2, <3>3, <3>4 DEF Top
    <3>6. QED BY <1>1, <3>5 DEF Restarting
  <2>2. CASE user # NoUser
    <3>1. stk \in [Pids -> Seq(Activations)] /\ esp0 \in Pids
      BY DEF Inv, TypeOK
    <3>2. stk' = [stk EXCEPT ![esp0] = <<a>>] /\ esp' = esp0
      BY <1>1, <2>2 DEF Enter
    <3>3. stk'[esp0] = <<a>>
      BY ONLY <3>1, <3>2
    <3>4. Top' = stk'[esp0][Len(stk'[esp0])]
      BY ONLY <3>2 DEF Top
    <3>5. Len(<<a>>) = 1 /\ <<a>>[1] = a
      OBVIOUS
    <3>6. Top' = a
      BY ONLY <3>3, <3>4, <3>5
    <3>7. QED BY <1>1, <3>6 DEF Restarting
  <2>3. QED BY <2>1, <2>2
<1>2. ~Restarting' /\ UNCHANGED <<process_count, image>>
  <2>1. CASE Tick
    BY <1>1, <2>1 DEF Tick, Activation
  <2>2. CASE \E cmd \in Commands : SyscallExecute(cmd)
    BY <1>1, <2>2 DEF SyscallExecute, Activation
  <2>3. ASSUME NEW status \in Statuses, SyscallHalt(status)
        PROVE  ~Restarting' /\ UNCHANGED <<process_count, image>>
    <3> DEFINE b == Activation("syscall", [user EXCEPT !.eax = 0], "begin", NoProgram)
               a == [b EXCEPT !.eax = status]
    <3>1. Enter(a) /\ UNCHANGED <<process_count, image>>
      BY <2>3 DEF SyscallHalt
    <3>2. a.caller = "syscall"
      BY DEF Activation
    <3> HIDE DEF a
    <3>3. QED BY <1>1, <3>1, <3>2
  <2>4. QED BY <2>1, <2>2, <2>3
<1>3. ~Restarting
  BY RestartingIs DEF Tick, CanTick, SyscallExecute, SyscallHalt, UserReady
<1>4. QED BY <1>2, <1>3, Silent

\* The ways out of the kernel do not show either.
LEMMA ReturnSilent ==
    ASSUME Inv, Ordered, Iret \/ SyscallReturn \/ PitReturn
    PROVE  UNCHANGED Stack!stackVars
<1>1. user = NoUser /\ UNCHANGED <<process_count, image>>
  BY DEF Iret, SyscallReturn, PitReturn, Running
<1>2. ~Restarting
  <2>1. Top.pc \in {"iret", "popa", "return"}
    BY DEF Iret, SyscallReturn, PitReturn, Running
  <2>2. CASE Top.pc = "iret"
    BY <2>2 DEF Restarting
  <2>3. CASE Top.pc # "iret"
    <3>1. Top.pc \notin Launching
      BY <2>1, <2>3 DEF Launching
    <3>2. QED BY <3>1, RestartingIs
  <2>4. QED BY <2>2, <2>3
<1>3. ~Restarting'
  <2>1. CASE Iret
    <3>1. user' = [slot |-> Top.new - 1, prog |-> Top.cmd, eax |-> 0]
      BY <2>1 DEF Iret
    <3>2. Top \in Activations
      BY <1>1, TopOk
    <3>3. user' \in Contexts
      BY ONLY <3>1, <3>2 DEF Activations, Contexts
    <3>4. QED BY <3>3, ConstantsAssumption DEF Restarting
  <2>2. CASE SyscallReturn \/ PitReturn
    <3>1. user' # NoUser
      <4>1. Top.over # NoUser /\ Top \in Activations
        <5>1. Top.pc \in {"popa", "return"}
          BY <2>2 DEF SyscallReturn, PitReturn, Running
        <5>2. Top.pc \notin Launching
          BY <5>1 DEF Launching
        <5>3. QED BY <1>1, <5>2, TopOk DEF Ordered, Works, Serves, Replaces, Boots
      <4>2. Top.over \in Contexts /\ ret_value \in Int
        BY <4>1 DEF Activations, Inv, TypeOK
      <4>3. user' = Top.over \/ user' = [Top.over EXCEPT !.eax = ret_value]
        BY <2>2 DEF SyscallReturn, PitReturn
      <4>4. user' \in Contexts
        BY ONLY <4>2, <4>3 DEF Contexts
      <4>5. QED BY <4>4, ConstantsAssumption
    <3>2. QED BY <3>1 DEF Restarting
  <2>3. QED BY <2>1, <2>2
<1>4. QED BY <1>1, <1>2, <1>3, Silent

\* The stack of processes, before a step and after it.
LEMMA Rows ==
    ASSUME Inv
    PROVE  /\ process_count \in Counts /\ process_count \in Nat
           /\ image \in [Pids -> Commands \X Commands]
           /\ Row(process_count, image) \in Seq(Commands)
           /\ Len(Row(process_count, image)) = process_count
<1>1. process_count \in Counts /\ image \in [Pids -> Commands \X Commands]
  BY DEF Inv, TypeOK
<1>2. QED BY <1>1, Numbers, RowIsSeq DEF Counts

\* Where execute counts the process, the stack grows.
LEMMA CountShows == ASSUME Inv, Ordered, MAX_SHELL_COUNT = 2, Count PROVE Stack!StackNext
<1> DEFINE a == [Top EXCEPT !.pc = "context"]
           row == Row(process_count, image)
<1>1. user = NoUser /\ Top.pc = "count" /\ Top \in Activations
  BY TopOk DEF Count, Running
<1>2. UNCHANGED <<user, esp, image>> /\ SetTop(a) /\ process_count' = process_count + 1
  BY DEF Count, GoTo
<1>3. a \in Activations /\ a.pc = "context"
  BY <1>1 DEF Activations, Pcs
<1> HIDE DEF a
<1>4. Top' = a
  BY <1>1, <1>2, <1>3, TopAfter
<1>5. ~Restarting'
  BY <1>3, <1>4 DEF Restarting
<1>6. /\ Entered = process_count /\ process_count \in Counts /\ process_count + 1 \in Counts
      /\ process_count < MAXPROCESS
  <2>1. Entered = process_count /\ process_count \in Nat
    BY <1>1, EnteredIs
  <2>2. process_count < MAXPROCESS /\ MAXPROCESS \in Nat
    BY <1>1, TopOk, Numbers DEF Fits, Window
  <2>3. QED BY ONLY <2>1, <2>2 DEF Counts
<1>7. Progress /\ Works
  BY <1>1 DEF Ordered
<1>8. Top.cmd \in Programs /\ image[process_count][1] = Top.cmd
  BY <1>1, <1>6, <1>7 DEF Progress, Launching
<1>9. Restarting \/ process_count < MAX_SHELL_COUNT + 1 => Top.cmd = Shell
  <2>1. Restarting => Top.cmd = Shell
    BY RestartingIs DEF Replaces
  <2>2. CASE Serves
    <3>1. shell_count \in Nat
      BY Numbers DEF Inv, TypeOK
    <3>2. Top.caller = "syscall" => shell_count > 2 /\ process_count >= shell_count
      BY <1>6, <2>2 DEF Serves
    <3>3. Top.caller = "syscall" => ~(process_count < 2 + 1)
      BY ONLY <1>6, <3>1, <3>2, Numbers DEF Counts
    <3>4. QED BY <2>1, <2>2, <3>3 DEF Serves
  <2>3. QED BY <1>7, <2>1, <2>2 DEF Works, Replaces, Boots
<1>10. Row(process_count, image)' = Append(row, Top.cmd) /\ Len(row) = process_count
  <2>1. Row(process_count + 1, image) = Append(row, Top.cmd)
    BY <1>6, <1>8, Rows, RowGrows
  <2>2. Row(process_count, image)' = Row(process_count + 1, image)
    BY <1>2 DEF Row
  <2>3. QED BY <2>1, <2>2, Rows
<1>11. (Restarting)' = FALSE
  <2>1. Restarting' \in BOOLEAN
    BY DEF Restarting
  <2>2. QED BY ONLY <1>5, <2>1
<1>12. /\ Len(row) < MAXPROCESS
       /\ Restarting \/ Len(row) < MAX_SHELL_COUNT + 1 => Top.cmd = Shell
  BY ONLY <1>6, <1>9, <1>10
<1>13. QED BY ONLY <1>8, <1>10, <1>11, <1>12
          DEF Stack!StackNext, Stack!Launch, Row, Restarting

\* Where halt uncounts it, the stack shrinks.
LEMMA HaltShows ==
    ASSUME Inv, Ordered, MAX_SHELL_COUNT = 2, HaltShell \/ HaltChild PROVE Stack!StackNext
<1> DEFINE row == Row(process_count, image)
<1>1. /\ user = NoUser /\ Top.caller = "syscall" /\ Top \in Activations /\ Top.pc = "begin"
      /\ process_count >= 3 /\ SetUp(process_count)
  BY AtHalt DEF HaltShell, HaltChild, Running
<1>2. /\ UNCHANGED <<user, esp, image>> /\ process_count' = process_count - 1
  BY DEF HaltShell, HaltChild
<1>3. process_count \in Counts /\ process_count \in Nat /\ Len(row) = process_count
      /\ row # <<>>
  <2>1. row \in Seq(Commands) /\ Len(row) = process_count /\ process_count \in Nat
    BY Rows
  <2> HIDE DEF row
  <2>2. row # <<>>
    BY ONLY <1>1, <2>1, EmptySeq
  <2>3. QED BY <2>1, <2>2, Rows
<1>4. Row(process_count, image)' = SubSeq(row, 1, Len(row) - 1)
  <2>1. SubSeq(row, 1, Len(row) - 1) = Row(process_count - 1, image)
    BY <1>1, <1>3, Rows, RowShrinks
  <2>2. Row(process_count, image)' = Row(process_count - 1, image)
    BY <1>2 DEF Row
  <2>3. QED BY ONLY <2>1, <2>2
<1>5. ~Restarting
  BY <1>1 DEF Restarting
<1>6. Restarting' <=> process_count <= 3
  <2>1. pcb[process_count].currID = process_count - 1
    BY <1>1 DEF SetUp
  <2>2. CASE HaltShell
    <3> DEFINE b == Activation("halt", NoUser, "parse", Shell)
    <3>1. process_count <= 3
      <4>1. pcb[process_count].currID <= 2
        BY <2>2 DEF HaltShell
      <4>2. QED BY ONLY <1>3, <2>1, <4>1
    <3>2. b.pc = "parse" /\ b.caller = "halt" /\ b \in Activations
      <4>1. Shell \in Commands
        BY ConstantsAssumption DEF Commands
      <4>2. QED BY <4>1 DEF Activations, Activation, Callers, Pcs, NoPosition, Positions
    <3>3. stk' = [stk EXCEPT ![esp] = Append(stk[esp], b)]
      BY <2>2 DEF HaltShell
    <3> HIDE DEF b
    <3>4. stk[esp] \in Seq(Activations) /\ esp \in Pids /\ stk \in [Pids -> Seq(Activations)]
      BY DEF Inv, TypeOK
    <3>5. stk'[esp] = Append(stk[esp], b)
      BY ONLY <3>3, <3>4
    <3>6. Append(stk[esp], b)[Len(Append(stk[esp], b))] = b
      BY ONLY <3>2, <3>4
    <3>7. Top' = b
      BY <1>2, <3>5, <3>6 DEF Top
    <3>8. QED BY <1>1, <1>2, <3>1, <3>2, <3>7 DEF Restarting
  <2>3. CASE HaltChild
    <3> DEFINE a == [Top EXCEPT !.pc = "jump", !.saved = pcb[process_count].esp,
                                !.new = process_count]
    <3>1. ~(process_count <= 3)
      <4>1. pcb[process_count].currID > 2
        BY <2>3 DEF HaltChild
      <4>2. QED BY ONLY <1>3, <2>1, <4>1
    <3>2. SetTop(a)
      BY <2>3 DEF HaltChild
    <3>3. a \in Activations /\ a.caller = "syscall"
      <4>1. process_count \in 1 .. MAXPROCESS
        BY <1>1, <1>3, Numbers DEF Counts
      <4>2. pcb[process_count].esp \in Positions
        BY <4>1 DEF Inv, TypeOK
      <4>3. QED BY ONLY <1>1, <1>3, <4>2 DEF Activations, Pcs
    <3> HIDE DEF a
    <3>4. Top' = a
      BY <1>1, <1>2, <3>2, <3>3, TopAfter
    <3>5. QED BY <3>1, <3>3, <3>4 DEF Restarting
  <2>4. QED BY <2>2, <2>3
<1>7. Restarting' = (Len(row) <= MAX_SHELL_COUNT + 1)
  <2>1. (Len(row) <= MAX_SHELL_COUNT + 1) <=> process_count <= 3
    BY <1>3
  <2>2. Restarting' <=> (Len(row) <= MAX_SHELL_COUNT + 1)
    BY ONLY <1>6, <2>1
  <2>3. Restarting' \in BOOLEAN /\ (Len(row) <= MAX_SHELL_COUNT + 1) \in BOOLEAN
    BY DEF Restarting
  <2>4. QED BY ONLY <2>2, <2>3
<1>8. QED BY ONLY <1>3, <1>4, <1>5, <1>7 DEF Stack!StackNext, Stack!Exit, Row, Restarting

\* Nor does the jump in halt: the process has gone before.
LEMMA JumpSilent ==
    ASSUME MAX_SHELL_COUNT = 2, Inv, Ordered, Jump PROVE UNCHANGED Stack!stackVars
<1> DEFINE r == esp - 1
           a == stk[r][1]
<1>1. JumpedTo(r, a)
  BY JumpBack
<1> HIDE DEF r, a
<1>2. /\ user = NoUser /\ Top.pc = "jump" /\ UNCHANGED <<process_count, image>>
      /\ a.caller \in {"syscall", "pit"} /\ Top'.caller = a.caller
  BY ONLY <1>1 DEF JumpedTo
<1>3. ~Restarting
  <2>1. Top.pc \notin Launching
    BY <1>2 DEF Launching
  <2>2. QED BY <2>1, RestartingIs
<1>4. ~Restarting'
  BY <1>2 DEF Restarting
<1>5. QED BY <1>2, <1>3, <1>4, Silent

\* No process at first.
LEMMA InitShows == Init => Stack!StackInit
<1> SUFFICES ASSUME Init PROVE Stack!StackInit
  OBVIOUS
<1>1. process_count = 0 /\ user = NoUser /\ esp = 0
  BY DEF Init
<1>2. Row(process_count, image) = <<>>
  BY <1>1 DEF Row
<1>3. Top.caller = "entry"
  <2>1. 0 \in Pids
    BY Numbers DEF Pids
  <2>2. stk[0] = <<Activation("entry", NoUser, "parse", Shell)>>
    BY ONLY <2>1, Init DEF Init
  <2>3. Top = Activation("entry", NoUser, "parse", Shell)
    BY ONLY <1>1, <2>2 DEF Top
  <2>4. QED BY <2>3 DEF Activation
<1>4. Restarting = FALSE
  BY <1>3 DEF Restarting
<1>5. QED BY ONLY <1>2, <1>4 DEF Stack!StackInit, Row, Restarting

\* Every step is one of the stack of processes, or does not show.
LEMMA NextShows ==
    ASSUME EarlyInput = FALSE, MAX_SHELL_COUNT = 2, Inv, Ordered, [Next]_vars
    PROVE  [Stack!StackNext]_Stack!stackVars
<1>1. CASE Parse \/ Lookup \/ Find \/ Mark \/ Map \/ Copy(1) \/ Copy(2) \/ FillPcb
            \/ SaveContext \/ ExecuteLabel \/ Linkage
  BY <1>1, ExecuteSilent
<1>2. CASE Count
  BY <1>2, CountShows
<1>3. CASE HaltShell \/ HaltChild
  BY <1>3, HaltShows
<1>4. CASE Jump
  BY <1>4, JumpSilent
<1>5. CASE Iret \/ SyscallReturn \/ PitReturn
  BY <1>5, ReturnSilent
<1>6. CASE \/ Tick \/ \E cmd \in Commands : SyscallExecute(cmd)
           \/ \E status \in Statuses : SyscallHalt(status)
  BY <1>6, TrapSilent
<1>7. CASE UNCHANGED vars
  <2>1. Top' = Top /\ UNCHANGED <<process_count, image, user>>
    BY <1>7 DEF vars, Top
  <2>2. Restarting' <=> Restarting
    BY <2>1 DEF Restarting
  <2>3. QED BY <2>1, <2>2, Silent
<1>8. QED BY <1>1, <1>2, <1>3, <1>4, <1>5, <1>6, <1>7
          DEF Next, Kernel, Execute, Halt, Compute

\* execute and halt implement the stack of processes: at the line where execute
\* counts a process (269) a program is pushed, at the line where halt uncounts it
\* (93, 97) one is popped, a terminal's shell is replaced by a shell, and nothing
\* else they do shows.
THEOREM StackCorrect ==
    ASSUME EarlyInput = FALSE, MAX_SHELL_COUNT = 2 PROVE Spec => IsProcessStack
<1>1. Init => Stack!StackInit
  BY InitShows
<1>2. Inv /\ Ordered /\ [Next]_vars => [Stack!StackNext]_Stack!stackVars
  BY NextShows
<1>3. QED BY <1>1, <1>2, OrderedAlways, PTL DEF Spec, IsProcessStack, Stack!StackSpec

=============================================================================
