----------------------------- MODULE PartsProof -----------------------------
(***************************************************************************)
(* The two small parts of the kernel that are started and set up alone: the *)
(* modifiers of the keyboard, and the start of the kernel.                 *)
(*                                                                         *)
(* Keys: the statement is about what a key has typed; what makes it so is  *)
(* the relation between the flags the handler keeps and the keys that are  *)
(* down.  As long as neither of the two exceptions has happened, the flags *)
(* of the terminal in front are exactly the keys held, and those of every  *)
(* other terminal are clear, so that switching with nothing held finds     *)
(* clear flags again.                                                      *)
(*                                                                         *)
(* Boot: interrupts are on long before the end, so that it is the masks of *)
(* the controllers that hold the lines back; what has to be shown is that  *)
(* a line is unmasked only where its gate and its data are behind.         *)
(***************************************************************************)
EXTENDS Keys, Boot, TLAPS

-----------------------------------------------------------------------------
\* The modifiers.

KeysTyped ==
    /\ down \subseteq Modifiers
    /\ cur_terminal \in Terminals
    /\ shift_pressed \in [Terminals -> 0 .. 1]
    /\ cntrl_pressed \in [Terminals -> 0 .. 1]
    /\ caps_pressed \in 0 .. 1
    /\ alt_pressed \in 0 .. 1

\* The flag of terminal t says whether a key of `some' is held in front of it.
Shows(flag, t, some) == flag[t] = 1 <=> t = cur_terminal /\ Held(some)

\* While nothing was carried and the right shift key is unused, flags and
\* keys agree.
FlagsAsHeld ==
    ~carried /\ ~right =>
        /\ "right shift" \notin down
        /\ \A t \in Terminals : /\ Shows(shift_pressed, t, Shifts)
                                /\ Shows(cntrl_pressed, t, {"control"})

KeysInv == KeysTyped /\ FlagsAsHeld /\ KeysTypeAsHeld

\* No key is held at first.
LEMMA KeysInitial == KeysInit => KeysInv
<1>1. First \in Terminals
  BY TerminalsAssumption DEF First, Terminals
<1>2. QED
  BY <1>1 DEF KeysInit, KeysInv, KeysTyped, FlagsAsHeld, KeysTypeAsHeld, Nothing, CharKeys,
         Shows, Held

\* Which of a key's four layers is taken.
LEMMA Layers ==
    ASSUME shift_pressed[cur_terminal] \in 0 .. 1, caps_pressed \in 0 .. 1,
           NEW plain, NEW shifted, NEW caps, NEW both
    PROVE  <<plain, shifted, caps, both>>[key_type + 1] =
               IF shift_pressed[cur_terminal] = 1
                 THEN IF caps_pressed = 1 THEN both ELSE shifted
                 ELSE IF caps_pressed = 1 THEN caps ELSE plain
<1>1. CASE shift_pressed[cur_terminal] = 1 /\ caps_pressed = 1
  <2>1. key_type = 3  BY <1>1 DEF key_type
  <2>2. QED BY <1>1, <2>1
<1>2. CASE shift_pressed[cur_terminal] = 1 /\ caps_pressed = 0
  <2>1. key_type = 1  BY <1>2 DEF key_type
  <2>2. QED BY <1>2, <2>1
<1>3. CASE shift_pressed[cur_terminal] = 0 /\ caps_pressed = 1
  <2>1. key_type = 2  BY <1>3 DEF key_type
  <2>2. QED BY <1>3, <2>1
<1>4. CASE shift_pressed[cur_terminal] = 0 /\ caps_pressed = 0
  <2>1. key_type = 0  BY <1>4 DEF key_type
  <2>2. QED BY <1>4, <2>1
<1>5. QED BY <1>1, <1>2, <1>3, <1>4

\* A key that types the same with and without shift and caps lock.
LEMMA FourAlike ==
    ASSUME NEW char
    PROVE  \A i \in 1 .. 4 : <<char, char, char, char>>[i] = char
OBVIOUS

\* A function and a tuple with the same three values.
LEMMA ThreeTimes ==
    ASSUME NEW char PROVE [k \in 1 .. 3 |-> char] = <<char, char, char>>
<1>1. \A k \in 1 .. 3 : <<char, char, char>>[k] = char
  OBVIOUS
<1>2. QED BY <1>1

\* What a key types, once the flags agree with the keys held.
LEMMA TypesAsHeld ==
    ASSUME KeysTyped, FlagsAsHeld, ~carried, ~right, NEW key \in CharKeys
    PROVE  handle_key(key) = ShouldType(key)
<1> DEFINE shift == shift_pressed[cur_terminal]
           control == cntrl_pressed[cur_terminal]
<1>1. /\ shift \in 0 .. 1 /\ control \in 0 .. 1 /\ caps_pressed \in 0 .. 1
      /\ shift = 1 <=> Held(Shifts)
      /\ control = 1 <=> Held({"control"})
  BY DEF KeysTyped, FlagsAsHeld, Shows, Held
<1> DEFINE char == keys(key)[key_type + 1]
<1>2. handle_key(key) =
          IF control = 1
            THEN IF char \in {"l", "L"} THEN <<"clear">> ELSE <<>>
            ELSE IF char = "\t"
                   THEN [k \in 1 .. 3 |-> keys("space")[key_type + 1]]
                   ELSE <<char>>
  BY DEF handle_key
<1>3. CASE key = "a"
  <2>1. char = IF shift = 1 THEN IF caps_pressed = 1 THEN "a" ELSE "A"
               ELSE IF caps_pressed = 1 THEN "A" ELSE "a"
    BY <1>1, <1>3, Layers DEF keys
  <2>2. QED BY <1>1, <1>2, <1>3, <2>1 DEF ShouldType, Held
<1>4. CASE key = "l"
  <2>1. char = IF shift = 1 THEN IF caps_pressed = 1 THEN "l" ELSE "L"
               ELSE IF caps_pressed = 1 THEN "L" ELSE "l"
    BY <1>1, <1>4, Layers DEF keys
  <2>2. QED BY <1>1, <1>2, <1>4, <2>1 DEF ShouldType, Held
<1>5. CASE key = "1"
  <2>1. char = IF shift = 1 THEN IF caps_pressed = 1 THEN "!" ELSE "!"
               ELSE IF caps_pressed = 1 THEN "1" ELSE "1"
    BY <1>1, <1>5, Layers DEF keys
  <2>2. QED BY <1>1, <1>2, <1>5, <2>1 DEF ShouldType, Held
<1>6. CASE key = "tab"
  <2>1. char = "\t"
    <3>1. char = <<"\t", "\t", "\t", "\t">>[key_type + 1]
      BY <1>6 DEF keys
    <3>2. QED BY ONLY <1>1, <3>1, Layers
  <2>2. keys("space")[key_type + 1] = " "
    <3>1. keys("space") = <<" ", " ", " ", " ">>
      BY DEF keys
    <3>2. \A i \in 1 .. 4 : <<" ", " ", " ", " ">>[i] = " "
      BY ONLY FourAlike
    <3>3. key_type + 1 \in 1 .. 4
      BY <1>1 DEF key_type
    <3>4. QED BY <3>1, <3>2, <3>3
  <2>3. handle_key(key) = IF control = 1 THEN <<>> ELSE <<" ", " ", " ">>
    <3> DEFINE space == keys("space")[key_type + 1]
    <3>1. [k \in 1 .. 3 |-> space] = <<space, space, space>>
      BY ONLY ThreeTimes
    <3> HIDE DEF space
    <3>2. space = " "
      BY <2>2 DEF space
    <3>3. handle_key(key) =
            IF control = 1
              THEN IF char \in {"l", "L"} THEN <<"clear">> ELSE <<>>
              ELSE IF char = "\t" THEN [k \in 1 .. 3 |-> space] ELSE <<char>>
      BY <1>2 DEF space
    <3> HIDE DEF char
    <3>4. CASE control = 1  BY <2>1, <3>3, <3>4
    <3>5. CASE control # 1  BY <2>1, <3>1, <3>2, <3>3, <3>5
    <3>6. QED BY <3>4, <3>5
  <2>4. ShouldType(key) =
            IF Held({"control"}) THEN <<>> ELSE <<" ", " ", " ">>
    BY <1>6 DEF ShouldType
  <2>5. CASE control = 1  BY <1>1, <2>3, <2>4, <2>5
  <2>6. CASE control # 1  BY <1>1, <2>3, <2>4, <2>6
  <2>7. QED BY <2>5, <2>6
<1>7. QED BY <1>3, <1>4, <1>5, <1>6 DEF CharKeys

\* A modifier is pressed.
LEMMA PressKeeps ==
    ASSUME KeysInv, NEW key \in Modifiers, Press(key)
    PROVE  KeysInv'
<1>1. KeysTyped'
  <2>0. down' \subseteq Modifiers /\ cur_terminal' \in Terminals
    BY DEF KeysInv, KeysTyped, Press
  <2>1. CASE PressShift(key)
    BY <2>0, <2>1 DEF KeysInv, KeysTyped, PressShift
  <2>2. CASE MoveControl(key, 1)
    BY <2>0, <2>2 DEF KeysInv, KeysTyped, MoveControl
  <2>3. CASE MoveAlt(key, 1)
    BY <2>0, <2>3 DEF KeysInv, KeysTyped, MoveAlt
  <2>4. CASE PressCaps(key)
    BY <2>0, <2>4 DEF KeysInv, KeysTyped, PressCaps
  <2>5. QED BY <2>1, <2>2, <2>3, <2>4 DEF Press
<1>2. FlagsAsHeld'
  <2>1. SUFFICES ASSUME ~carried', ~right'
                 PROVE  FlagsAsHeld'
    BY DEF FlagsAsHeld
  <2>2. /\ ~carried /\ ~right /\ key # "right shift"
        /\ down' = down \cup {key} /\ cur_terminal' = cur_terminal
    BY <2>1 DEF Press
  <2>3. "right shift" \notin down'
    BY <2>2 DEF KeysInv, FlagsAsHeld
  <2>4. Held(Shifts)' <=> Held(Shifts) \/ key = "left shift"
    BY <2>2 DEF Held, Shifts
  <2>5. Held({"control"})' <=> Held({"control"}) \/ key = "control"
    BY <2>2 DEF Held
  <2>6. ASSUME NEW t \in Terminals
        PROVE  Shows(shift_pressed, t, Shifts)' /\ Shows(cntrl_pressed, t, {"control"})'
    <3>1. /\ Shows(shift_pressed, t, Shifts)
          /\ Shows(cntrl_pressed, t, {"control"})
      BY <2>2 DEF KeysInv, FlagsAsHeld
    <3>2. CASE PressShift(key)
      BY <2>2, <2>4, <2>5, <3>1, <3>2 DEF KeysInv, KeysTyped, Shows, Shifts, PressShift
    <3>3. CASE MoveControl(key, 1)
      BY <2>2, <2>4, <2>5, <3>1, <3>3 DEF KeysInv, KeysTyped, Shows, Shifts, MoveControl
    <3>4. CASE MoveAlt(key, 1)
      BY <2>2, <2>4, <2>5, <3>1, <3>4 DEF KeysInv, KeysTyped, Shows, Shifts, MoveAlt
    <3>5. CASE PressCaps(key)
      BY <2>2, <2>4, <2>5, <3>1, <3>5 DEF KeysInv, KeysTyped, Shows, Shifts, PressCaps
    <3>6. QED BY <3>2, <3>3, <3>4, <3>5 DEF Press
  <2>7. QED BY <2>3, <2>6 DEF FlagsAsHeld
<1>3. KeysTypeAsHeld'
  BY DEF Press, KeysTypeAsHeld, Nothing, CharKeys
<1>4. QED BY <1>1, <1>2, <1>3 DEF KeysInv

\* A modifier is released.
LEMMA ReleaseKeeps ==
    ASSUME KeysInv, NEW key \in Modifiers, Release(key)
    PROVE  KeysInv'
<1>1. KeysTyped'
  <2>0. down' \subseteq Modifiers /\ cur_terminal' \in Terminals
    BY DEF KeysInv, KeysTyped, Release
  <2>1. CASE ReleaseShift(key)
    <3>1. CASE key = "left shift"
      <4>1. shift_pressed' = [shift_pressed EXCEPT ![cur_terminal] = 0]
        BY <2>1, <3>1 DEF ReleaseShift
      <4>2. UNCHANGED <<cntrl_pressed, caps_pressed, alt_pressed>>
        BY <2>1 DEF ReleaseShift
      <4>3. QED BY <2>0, <4>1, <4>2 DEF KeysInv, KeysTyped
    <3>2. CASE key # "left shift"
      BY <2>0, <2>1, <3>2 DEF KeysInv, KeysTyped, ReleaseShift
    <3>3. QED BY <3>1, <3>2
  <2>2. CASE MoveControl(key, 0)
    BY <2>0, <2>2 DEF KeysInv, KeysTyped, MoveControl
  <2>3. CASE MoveAlt(key, 0)
    BY <2>0, <2>3 DEF KeysInv, KeysTyped, MoveAlt
  <2>4. CASE key = "caps" /\ UNCHANGED flags
    BY <2>0, <2>4 DEF KeysInv, KeysTyped, flags
  <2>5. QED BY <2>1, <2>2, <2>3, <2>4 DEF Release
<1>2. FlagsAsHeld'
  <2>1. SUFFICES ASSUME ~carried', ~right'
                 PROVE  FlagsAsHeld'
    BY DEF FlagsAsHeld
  <2>2. /\ ~carried /\ ~right /\ key \in down
        /\ down' = down \ {key} /\ cur_terminal' = cur_terminal
    BY <2>1 DEF Release
  <2>3. "right shift" \notin down /\ key # "right shift"
    BY <2>2 DEF KeysInv, FlagsAsHeld
  <2>4. Held(Shifts)' <=> Held(Shifts) /\ key # "left shift"
    BY <2>2, <2>3 DEF Held, Shifts
  <2>5. Held({"control"})' <=> Held({"control"}) /\ key # "control"
    BY <2>2 DEF Held
  <2>6. ASSUME NEW t \in Terminals
        PROVE  Shows(shift_pressed, t, Shifts)' /\ Shows(cntrl_pressed, t, {"control"})'
    <3>1. /\ Shows(shift_pressed, t, Shifts)
          /\ Shows(cntrl_pressed, t, {"control"})
      BY <2>2 DEF KeysInv, FlagsAsHeld
    <3>2. CASE ReleaseShift(key)
      <4>1. /\ key = "left shift"
            /\ shift_pressed' = [shift_pressed EXCEPT ![cur_terminal] = 0]
            /\ cntrl_pressed' = cntrl_pressed
        BY <2>3, <3>2 DEF ReleaseShift, Shifts
      <4>2. ~Held(Shifts)' /\ (Held({"control"})' <=> Held({"control"}))
        BY <2>4, <2>5, <4>1
      <4>3. shift_pressed'[t] = IF t = cur_terminal THEN 0 ELSE shift_pressed[t]
        BY <4>1 DEF KeysInv, KeysTyped
      <4>4. Shows(shift_pressed, t, Shifts)'
        <5>1. CASE t = cur_terminal
          BY <2>2, <4>2, <4>3, <5>1 DEF Shows
        <5>2. CASE t # cur_terminal
          BY <2>2, <3>1, <4>3, <5>2 DEF Shows
        <5>3. QED BY <5>1, <5>2
      <4>5. Shows(cntrl_pressed, t, {"control"})'
        BY <2>2, <3>1, <4>1, <4>2 DEF Shows
      <4>6. QED BY <4>4, <4>5
    <3>3. CASE MoveControl(key, 0)
      <4>1. /\ key = "control" /\ shift_pressed' = shift_pressed
            /\ cntrl_pressed' = [cntrl_pressed EXCEPT ![cur_terminal] = 0]
        BY <3>3 DEF MoveControl
      <4>2. QED BY <2>2, <2>4, <2>5, <3>1, <4>1 DEF KeysInv, KeysTyped, Shows
    <3>4. CASE MoveAlt(key, 0)
      BY <2>2, <2>4, <2>5, <3>1, <3>4 DEF KeysInv, KeysTyped, Shows, Shifts, MoveAlt
    <3>5. CASE key = "caps" /\ UNCHANGED flags
      BY <2>2, <2>4, <2>5, <3>1, <3>5 DEF KeysInv, KeysTyped, Shows, Shifts, flags
    <3>6. QED BY <3>2, <3>3, <3>4, <3>5 DEF Release
  <2>7. QED BY <2>2, <2>3, <2>6 DEF FlagsAsHeld
<1>3. KeysTypeAsHeld'
  BY DEF Release, KeysTypeAsHeld, Nothing, CharKeys
<1>4. QED BY <1>1, <1>2, <1>3 DEF KeysInv

\* A key is typed.
LEMMA TypeKeeps ==
    ASSUME KeysInv, NEW key \in CharKeys, Type(key)
    PROVE  KeysInv'
<1>1. KeysTyped' /\ FlagsAsHeld'
  BY DEF KeysInv, KeysTyped, FlagsAsHeld, Shows, Held, Type, flags
<1>2. ShouldType(key)' = ShouldType(key)
  BY DEF Type, flags, ShouldType, Held
<1>3. KeysTypeAsHeld'
  BY <1>2, TypesAsHeld DEF KeysInv, KeysTypeAsHeld, Type
<1>4. QED BY <1>1, <1>3 DEF KeysInv

\* A function key is pressed.
LEMMA PressFKeeps ==
    ASSUME KeysInv, NEW t \in Terminals, PressF(t)
    PROVE  KeysInv'
<1>1. KeysTyped'
  BY DEF KeysInv, KeysTyped, PressF, flags
<1>2. FlagsAsHeld'
  <2>1. SUFFICES ASSUME ~carried', ~right'
                 PROVE  FlagsAsHeld'
    BY DEF FlagsAsHeld
  <2>2. ~carried /\ ~right
    BY <2>1 DEF PressF
  <2>3. CASE cur_terminal' = cur_terminal
    BY <2>2, <2>3 DEF KeysInv, FlagsAsHeld, Shows, Held, PressF, flags
  <2>4. CASE cur_terminal' # cur_terminal
    <3>1. ~Held(Shifts) /\ ~Held({"control"})
      BY <2>1, <2>4 DEF PressF, Held
    <3>2. QED BY <2>2, <3>1 DEF KeysInv, FlagsAsHeld, Shows, Held, PressF, flags
  <2>5. QED BY <2>3, <2>4
<1>3. KeysTypeAsHeld'
  BY DEF PressF, KeysTypeAsHeld, Nothing, CharKeys
<1>4. QED BY <1>1, <1>2, <1>3 DEF KeysInv

\* Every step keeps the invariant.
LEMMA KeysStep == KeysInv /\ [KeysNext]_kvars => KeysInv'
<1>1. SUFFICES ASSUME KeysInv, [KeysNext]_kvars PROVE KeysInv'
  OBVIOUS
<1>2. CASE KeysNext
  <2>1. CASE \E key \in Modifiers : Press(key) \/ Release(key)
    BY <1>1, <2>1, PressKeeps, ReleaseKeeps
  <2>2. CASE \E key \in CharKeys : Type(key)
    BY <1>1, <2>2, TypeKeeps
  <2>3. CASE \E t \in Terminals : PressF(t)
    BY <1>1, <2>3, PressFKeeps
  <2>4. QED BY <1>2, <2>1, <2>2, <2>3 DEF KeysNext
<1>3. CASE UNCHANGED kvars
  BY <1>1, <1>3 DEF kvars, KeysInv, KeysTyped, FlagsAsHeld, KeysTypeAsHeld, ShouldType,
                    Shows, Held
<1>4. QED BY <1>1, <1>2, <1>3

\* A key types what the keys held at that moment ask for, however many
\* terminals there are, after any presses, releases, repeats and switches, as
\* long as nothing is held across a switch and the right shift key is unused.
THEOREM TypedAsHeld == KeysSpec => []KeysTypeAsHeld
<1>1. KeysInit => KeysInv
  BY KeysInitial
<1>2. KeysInv => KeysTypeAsHeld
  BY DEF KeysInv
<1>3. QED BY <1>1, <1>2, KeysStep, PTL DEF KeysSpec

-----------------------------------------------------------------------------
\* A number is what is above the cut and what is below it.
LEMMA Cut ==
    ASSUME NEW n \in Nat
    PROVE  /\ \A q, r : q = n \div Half /\ r = n % Half =>
                q \in Nat /\ r \in Nat /\ q * Half + r = n
           /\ \A q, r : q = n \div Byte /\ r = n % Byte =>
                q \in Nat /\ r \in Nat /\ q * Byte + r = n
  BY DEF Half, Byte

\* Cutting at both powers is cutting at their product.
LEMMA CutTwice ==
    ASSUME NEW n \in Nat PROVE n \div (Half * Byte) = (n \div Half) \div Byte
  BY Z3 DEF Half, Byte

\* Fields of a descriptor hold its address and its limit.
LEMMA SegmentHolds ==
    ASSUME NEW opsize, NEW type, NEW addr \in Nat, NEW lim \in Nat
    PROVE  LET desc == SetParams(Segment(opsize, type), addr, lim) IN
           /\ Base(desc) = addr /\ Limit(desc) = lim
           /\ desc.present = 1 /\ desc.type = type
<1> DEFINE desc == SetParams(Segment(opsize, type), addr, lim)
<1>1. PICK above, low, high, mid, limhigh, limlow :
        /\ above = addr \div Half /\ low = addr % Half
        /\ high = above \div Byte /\ mid = above % Byte
        /\ limhigh = lim \div Half /\ limlow = lim % Half
  OBVIOUS
<1>2. /\ above \in Nat /\ low \in Nat /\ above * Half + low = addr
      /\ limhigh * Half + limlow = lim
  BY <1>1, Cut
<1>3. high \in Nat /\ mid \in Nat /\ high * Byte + mid = above
  BY <1>1, <1>2, Cut
<1>4. /\ desc.base_31_24 = high /\ desc.base_23_16 = mid /\ desc.base_15_00 = low
      /\ desc.seg_lim_19_16 = limhigh /\ desc.seg_lim_15_00 = limlow
      /\ desc.present = 1 /\ desc.type = type
  BY <1>1, CutTwice DEF SetParams, Segment
<1> HIDE DEF desc
<1>5. high * Half * Byte + mid * Half + low = addr
  BY <1>2, <1>3 DEF Half, Byte
<1> QED
  BY <1>2, <1>4, <1>5 DEF Base, Limit, desc

\* A gate leads to the handler it was made for.
LEMMA GateLeads ==
    ASSUME NEW handler \in Nat, NEW dpl
    PROVE  Offset(Gate(handler, dpl)) = handler
<1>1. PICK above, low : above = handler \div Half /\ low = handler % Half
  OBVIOUS
<1>2. above * Half + low = handler
  BY <1>1, Cut
<1> QED
  BY <1>1, <1>2 DEF Gate, Offset

-----------------------------------------------------------------------------
\* The controllers.
Pair == {"MASTER", "SLAVE"}
Fields == {"expects", "vectors", "cascade", "mask"}
IsChip(chip) == DOMAIN chip = Fields /\ chip = [field \in Fields |-> chip[field]]
Set(vectors, cascade, mask) ==
    [expects |-> "mask", vectors |-> vectors, cascade |-> cascade, mask |-> mask]
Two(m, s) == [chip \in Pair |-> IF chip = "MASTER" THEN m ELSE s]

\* A word to each of two chips.
LEMMA BothTell ==
    ASSUME NEW m, NEW s, NEW port, NEW a, NEW b
    PROVE  Both(Two(m, s), port, a, b) = Two(Told(m, port, a), Told(s, port, b))
  BY DEF Both, outb, Two, Pair

\* The four control words set up a chip whatever state it is in.
LEMMA ChipProgrammed ==
    ASSUME NEW chip, IsChip(chip), NEW vectors, NEW cascade, NEW mode, NEW mask
    PROVE  Told(Told(Told(Told(Told(chip, "COMMAND", ICW1), "DATA", vectors),
                               "DATA", cascade), "DATA", mode), "DATA", mask)
             = Set(vectors, cascade, mask)
<1>1. PICK one : one = Told(chip, "COMMAND", ICW1)
  OBVIOUS
<1>2. IsChip(one) /\ one.expects = "vectors"
  BY <1>1 DEF Told, IsChip, Fields
<1>3. PICK two : two = Told(one, "DATA", vectors)
  OBVIOUS
<1>4. IsChip(two) /\ two.expects = "cascade" /\ two.vectors = vectors
  BY <1>2, <1>3 DEF Told, IsChip, Fields
<1>5. PICK three : three = Told(two, "DATA", cascade)
  OBVIOUS
<1>6. /\ IsChip(three) /\ three.expects = "mode" /\ three.vectors = vectors
      /\ three.cascade = cascade
  BY <1>4, <1>5 DEF Told, IsChip, Fields
<1>7. PICK four : four = Told(three, "DATA", mode)
  OBVIOUS
<1>8. /\ IsChip(four) /\ four.expects = "mask" /\ four.vectors = vectors
      /\ four.cascade = cascade
  BY <1>6, <1>7 DEF Told, IsChip, Fields
<1>9. Told(four, "DATA", mask) = Set(vectors, cascade, mask)
  BY <1>8 DEF Told, IsChip, Fields, Set
<1> QED
  BY <1>1, <1>3, <1>5, <1>7, <1>9

\* So do the words that go to both.
LEMMA ControlWordsProgram ==
    ASSUME NEW m, NEW s, IsChip(m), IsChip(s)
    PROVE  ControlWords(Two(m, s)) =
             Two(Set(ICW2_MASTER, ICW3_MASTER, MASK_VAL),
                 Set(ICW2_SLAVE, ICW3_SLAVE, MASK_VAL))
<1>1. ControlWords(Two(m, s)) =
        Both(Both(Both(Both(Both(Two(m, s), "COMMAND", ICW1, ICW1),
                            "DATA", ICW2_MASTER, ICW2_SLAVE),
                       "DATA", ICW3_MASTER, ICW3_SLAVE),
                  "DATA", ICW4, ICW4), "DATA", MASK_VAL, MASK_VAL)
  BY DEF ControlWords
<1> QED
  BY <1>1, BothTell, ChipProgrammed

\* Unmasking a line is all that enable_irq does to chips that are set up.
LEMMA MasterUnmasks ==
    ASSUME NEW v, NEW w, NEW c, NEW d, NEW master, NEW slave, NEW q, Chip(q) = "MASTER"
    PROVE  enable_irq(Two(Set(v, c, master), Set(w, d, slave)), q)
             = Two(Set(v, c, master \ {q % 8}), Set(w, d, slave))
<1> DEFINE chips == Two(Set(v, c, master), Set(w, d, slave))
<1>1. chips[Chip(q)] = Set(v, c, master) /\ chips[Chip(q)].mask = master
  BY DEF Two, Pair, Set
<1>2. Told(Set(v, c, master), "DATA", master \ {q % 8}) = Set(v, c, master \ {q % 8})
  BY DEF Told, Set
<1>3. enable_irq(chips, q) =
        [chips EXCEPT !["MASTER"] = Set(v, c, master \ {q % 8})]
  BY <1>1, <1>2 DEF enable_irq, outb
<1> QED
  BY <1>3 DEF Two, Pair

\* The same on the other chip.
LEMMA SlaveUnmasks ==
    ASSUME NEW v, NEW w, NEW c, NEW d, NEW master, NEW slave, NEW q, Chip(q) = "SLAVE"
    PROVE  enable_irq(Two(Set(v, c, master), Set(w, d, slave)), q)
             = Two(Set(v, c, master), Set(w, d, slave \ {q % 8}))
<1> DEFINE chips == Two(Set(v, c, master), Set(w, d, slave))
<1>1. chips[Chip(q)] = Set(w, d, slave) /\ chips[Chip(q)].mask = slave
  BY DEF Two, Pair, Set
<1>2. Told(Set(w, d, slave), "DATA", slave \ {q % 8}) = Set(w, d, slave \ {q % 8})
  BY DEF Told, Set
<1>3. enable_irq(chips, q) =
        [chips EXCEPT !["SLAVE"] = Set(w, d, slave \ {q % 8})]
  BY <1>1, <1>2 DEF enable_irq, outb
<1> QED
  BY <1>3 DEF Two, Pair

-----------------------------------------------------------------------------
\* How far entry has come.
AfterPit == {"execute", "running"}
AfterFiles == {"pit_init"} \cup AfterPit
AfterRtc == {"filesystem_init"} \cup AfterFiles
AfterKeyboard == {"rtc_init", "rtc_enable"} \cup AfterRtc
AfterTerminal == {"keyboard_init"} \cup AfterKeyboard
AfterPics == {"restore_flags", "terminal_init"} \cup AfterTerminal
AfterPaging == {"i8259_init"} \cup AfterPics
AfterIdt == {"paging_init"} \cup AfterPaging
AfterTss == {"idt_init"} \cup AfterIdt
AfterModules == {"bits", "ldt", "tss"} \cup AfterTss

BootTyped ==
    /\ pc \in {"start", "magic", "modules", "halted"} \cup AfterModules
    /\ linked \in Links /\ mbi.mods \in ModuleLists
    /\ \E m, s : IsChip(m) /\ IsChip(s) /\ pics = Two(m, s)
    /\ {"ss0", "esp0"} \subseteq DOMAIN tss

\* No interrupt comes before the controllers are set up.
OffAtFirst == pc # "start" /\ pc \notin AfterPics => interrupts = FALSE

\* Every gate of a handler leads there.
GatesLead ==
    pc \in AfterIdt =>
        \A vector \in {PIT_INT, KEYBOARD_INT, RTC_INT} :
            vector \in DOMAIN gates /\ Offset(gates[vector]) = LinkageAt(vector)

\* A line stays masked until its device is set up.
LinesMasked ==
    pc \in AfterPics =>
        \E master, slave :
            /\ pics = Two(Set(ICW2_MASTER, ICW3_MASTER, master),
                          Set(ICW2_SLAVE, ICW3_SLAVE, slave))
            /\ pc \notin AfterKeyboard => KEYBOARD_IRQ \in master
            /\ pc \notin AfterPit => PIT_IRQ \in master
            /\ pc \notin AfterRtc => RTC_IRQ % 8 \in slave

SetUpBefore ==
    /\ pc \in AfterPaging => "page_directory" \in ready
    /\ pc \in AfterTerminal => "terminal" \in ready
    /\ pc \in AfterFiles => "boot" \in ready

\* The loop over the modules leaves the last one's start.
LastStays ==
    /\ mod_count \in 0 .. Len(mbi.mods)
    /\ mod_count # 0 => memory_address = mbi.mods[mod_count]
    /\ pc \in AfterModules /\ 3 \in mbi.flags => mod_count = Len(mbi.mods)
    /\ pc \in AfterFiles => boot = memory_address

BootInv ==
    /\ BootTyped /\ OffAtFirst /\ GatesLead /\ LinesMasked /\ SetUpBefore /\ LastStays
    /\ pc \in AfterTss => StackFound

\* When the loader jumps, nothing is set up and nothing is claimed.
LEMMA BootInitial == BootInit => BootInv
<1> SUFFICES ASSUME BootInit PROVE BootInv
  OBVIOUS
<1> DEFINE m == [expects |-> "mask", vectors |-> 8, cascade |-> 4, mask |-> {}]
           s == [expects |-> "mask", vectors |-> 112, cascade |-> 2, mask |-> {}]
<1>1. IsChip(m) /\ IsChip(s)
  BY DEF IsChip, Fields
<1>2. pics = Two(m, s)
  <2>1. pics = [MASTER |-> m, SLAVE |-> s]
    BY DEF BootInit
  <2> HIDE DEF m, s
  <2> QED
    BY <2>1 DEF Two, Pair
<1>3. pc = "start" /\ linked \in Links /\ mbi.mods \in ModuleLists /\ mod_count = 0
      /\ {"ss0", "esp0"} \subseteq DOMAIN tss
  BY DEF BootInit, tss_t
<1>4. BootTyped
  BY <1>1, <1>2, <1>3 DEF BootTyped
<1>5. LastStays
  BY <1>3, BootAssumption
     DEF LastStays, AfterModules, AfterTss, AfterIdt, AfterPaging, AfterPics,
         AfterTerminal, AfterKeyboard, AfterRtc, AfterFiles, AfterPit
<1> QED
  BY <1>3, <1>4, <1>5
     DEF BootInv, OffAtFirst, GatesLead, LinesMasked, SetUpBefore, AfterTss, AfterIdt,
         AfterPaging, AfterPics, AfterTerminal, AfterKeyboard, AfterRtc, AfterFiles,
         AfterPit

\* The steps up to the first descriptor.
LEMMA FirstSteps ==
    ASSUME BootInv, start \/ CheckMagic \/ Module \/ CheckBits
    PROVE  BootInv'
<1> USE DEF AfterModules, AfterTss, AfterIdt, AfterPaging, AfterPics, AfterTerminal,
            AfterKeyboard, AfterRtc, AfterFiles, AfterPit
<1> mbi.mods \in Seq(STRING) /\ Len(mbi.mods) \in Nat
  BY BootAssumption DEF BootInv, BootTyped
<1>1. /\ UNCHANGED <<arguments, pics, segments, saved, gates, boot, ready>>
      /\ pc' \in {"magic", "modules", "bits", "halted", "ldt"}
      /\ interrupts' = FALSE
  BY DEF start, CheckMagic, Module, CheckBits, Still, cli, BootInv, OffAtFirst, modules
<1>2. BootTyped' /\ OffAtFirst'
  BY <1>1 DEF BootInv, BootTyped, OffAtFirst, arguments, segments
<1>3. GatesLead' /\ LinesMasked' /\ SetUpBefore' /\ pc' \notin AfterTss
  BY <1>1 DEF GatesLead, LinesMasked, SetUpBefore
<1>4. LastStays'
  <2>1. CASE Module
    BY <2>1, <1>1 DEF Module, BootInv, LastStays, modules, arguments
  <2>2. CASE start \/ CheckMagic \/ CheckBits
    BY <2>2, <1>1 DEF start, CheckMagic, CheckBits, BootInv, LastStays, modules, arguments
  <2> QED
    BY <2>1, <2>2
<1> QED
  BY <1>2, <1>3, <1>4 DEF BootInv

\* The descriptors and the gates.
LEMMA TableSteps ==
    ASSUME BootInv, Ldt \/ Tss \/ idt_init
    PROVE  BootInv'
<1> USE DEF AfterModules, AfterTss, AfterIdt, AfterPaging, AfterPics, AfterTerminal,
            AfterKeyboard, AfterRtc, AfterFiles, AfterPit
<1>1. /\ UNCHANGED <<arguments, modules, interrupts, saved, pics, boot, ready>>
      /\ pc' \in {"tss", "idt_init", "paging_init"}
      /\ pc \in {"ldt", "tss", "idt_init"}
  BY DEF Ldt, Tss, idt_init, Rest, At, Order
<1>2. linked \in Nat
  <2>1. linked \in Links
    BY DEF BootInv, BootTyped
  <2> QED
    BY <2>1, BootAssumption, SMT
<1>3. BootTyped'
  <2>1. {"ss0", "esp0"} \subseteq DOMAIN tss'
    <3>1. {"ss0", "esp0"} \subseteq DOMAIN tss
      BY DEF BootInv, BootTyped
    <3>2. CASE Tss
      <4>1. DOMAIN tss' = DOMAIN tss
        BY <3>2, SMT DEF Tss
      <4> QED
        BY <3>1, <4>1
    <3>3. CASE Ldt \/ idt_init
      BY <3>1, <3>3, SMT DEF Ldt, idt_init, segments
    <3> QED
      BY <3>2, <3>3
  <2> QED
    BY <1>1, <2>1 DEF BootInv, BootTyped, arguments
<1>4. OffAtFirst' /\ LinesMasked' /\ SetUpBefore'
  BY <1>1 DEF BootInv, OffAtFirst, LinesMasked, SetUpBefore
<1>5. LastStays'
  BY <1>1 DEF BootInv, LastStays, arguments, modules
<1>6. GatesLead'
  <2>1. CASE idt_init
    <3> SUFFICES ASSUME NEW vector \in {PIT_INT, KEYBOARD_INT, RTC_INT}
                 PROVE  vector \in DOMAIN gates' /\ Offset(gates'[vector]) = LinkageAt(vector)'
      BY DEF GatesLead
    <3>1. /\ vector \in 0 .. RTC_INT /\ vector \in Vectors /\ vector # SYS_CALL
      BY DEF PIT_INT, KEYBOARD_INT, RTC_INT, Vectors, SYS_CALL
    <3>2. vector \in DOMAIN gates' /\ gates'[vector] = Gate(LinkageAt(vector), 0)
      BY <2>1, <3>1 DEF idt_init
    <3>3. LinkageAt(vector) \in Nat /\ LinkageAt(vector)' = LinkageAt(vector)
      BY <1>1, <1>2 DEF LinkageAt, arguments, PIT_INT, KEYBOARD_INT, RTC_INT
    <3> QED
      BY <3>2, <3>3, GateLeads
  <2>2. CASE Ldt \/ Tss
    BY <2>2 DEF Ldt, Tss, At, Order, GatesLead
  <2> QED
    BY <2>1, <2>2
<1>7. pc' \in AfterTss => StackFound'
  <2>1. CASE Tss
    <3> DEFINE desc == SetParams(Segment(0, 9), TssAt, TSS_SIZE - 1)
    <3>1. /\ tr' = KERNEL_TSS /\ gdt'[KERNEL_TSS] = desc
          /\ tss'.ss0 = KERNEL_DS /\ tss'.esp0 # 0
      BY <2>1, SMT DEF Tss, ltr, KERNEL_TSS, KERNEL_LDT, BootInv, BootTyped
    <3>2. /\ Base(desc) = TssAt /\ Limit(desc) = TSS_SIZE - 1
          /\ desc.present = 1 /\ desc.type = 9
      <4>1. TssAt \in Nat /\ TSS_SIZE - 1 \in Nat
        BY <1>2 DEF TssAt, TSS_SIZE
      <4> QED
        BY <4>1, SegmentHolds
    <3>3. TssAt' = TssAt
      BY <1>1 DEF TssAt, arguments
    <3> HIDE DEF desc
    <3> QED
      BY <3>1, <3>2, <3>3 DEF StackFound
  <2>2. CASE Ldt
    BY <2>2 DEF Ldt, At, Order
  <2>3. CASE idt_init
    BY <2>3, <1>1 DEF idt_init, At, Order, BootInv, StackFound, segments, arguments, TssAt
  <2> QED
    BY <2>1, <2>2, <2>3
<1> QED
  BY <1>3, <1>4, <1>5, <1>6, <1>7 DEF BootInv

\* What is set up without the controllers.
LEMMA SetUpSteps ==
    ASSUME BootInv, Paging \/ terminal_init \/ filesystem_init
    PROVE  BootInv'
<1> USE DEF AfterModules, AfterTss, AfterIdt, AfterPaging, AfterPics, AfterTerminal,
            AfterKeyboard, AfterRtc, AfterFiles, AfterPit
<1>1. UNCHANGED <<arguments, modules, interrupts, saved, pics, segments, gates>>
  BY DEF Paging, terminal_init, filesystem_init, SetsUp
<1>2. \/ /\ pc = "paging_init" /\ pc' = "i8259_init" /\ UNCHANGED boot
         /\ ready' = ready \cup {"page_directory"}
      \/ /\ pc = "terminal_init" /\ pc' = "keyboard_init" /\ UNCHANGED boot
         /\ ready' = ready \cup {"terminal"}
      \/ /\ pc = "filesystem_init" /\ pc' = "pit_init" /\ boot' = memory_address
         /\ ready' = ready \cup {"boot"}
  BY DEF Paging, terminal_init, filesystem_init, SetsUp, At, Order
<1>3. BootTyped' /\ OffAtFirst'
  BY <1>1, <1>2 DEF BootInv, BootTyped, OffAtFirst, arguments, segments
<1>4. GatesLead' /\ LinesMasked'
  BY <1>1, <1>2 DEF BootInv, GatesLead, LinesMasked, LinkageAt, arguments
<1>5. SetUpBefore'
  BY <1>2 DEF BootInv, SetUpBefore
<1>6. LastStays'
  BY <1>1, <1>2 DEF BootInv, LastStays, arguments, modules
<1>7. pc' \in AfterTss => StackFound'
  BY <1>1, <1>2 DEF BootInv, StackFound, segments, arguments, TssAt
<1> QED
  BY <1>3, <1>4, <1>5, <1>6, <1>7 DEF BootInv

\* The controllers come up masked but for the line between them, whatever the
\* BIOS has left in them.
LEMMA PicsSetUp ==
    ASSUME BootInv, i8259_init
    PROVE  BootInv'
<1> USE DEF AfterModules, AfterTss, AfterIdt, AfterPaging, AfterPics, AfterTerminal,
            AfterKeyboard, AfterRtc, AfterFiles, AfterPit
<1> DEFINE v == ICW2_MASTER  c == ICW3_MASTER  w == ICW2_SLAVE  d == ICW3_SLAVE
           after == Two(Set(v, c, MASK_VAL \ {SLAVE_IRQ % 8}), Set(w, d, MASK_VAL))
<1>1. /\ UNCHANGED <<arguments, modules, segments, gates, boot, ready>>
      /\ pc = "i8259_init" /\ pc' = "restore_flags"
      /\ pics' = enable_irq(ControlWords(pics), SLAVE_IRQ)
  BY DEF i8259_init, At, Order
<1>2. pics' = after
  <2>1. PICK m, s : IsChip(m) /\ IsChip(s) /\ pics = Two(m, s)
    BY DEF BootInv, BootTyped
  <2>2. ControlWords(pics) = Two(Set(v, c, MASK_VAL), Set(w, d, MASK_VAL))
    BY <2>1, ControlWordsProgram
  <2>3. Chip(SLAVE_IRQ) = "MASTER"
    BY DEF SLAVE_IRQ, Chip
  <2>4. enable_irq(Two(Set(v, c, MASK_VAL), Set(w, d, MASK_VAL)), SLAVE_IRQ) = after
    BY <2>3, MasterUnmasks
  <2> QED
    BY <1>1, <2>2, <2>4, Zenon
<1>3. \A a, b, e : IsChip(Set(a, b, e))
  BY DEF IsChip, Set, Fields
<1>4. BootTyped' /\ OffAtFirst'
  BY <1>1, <1>2, <1>3 DEF BootInv, BootTyped, OffAtFirst, arguments, segments
<1>5. GatesLead'
  BY <1>1 DEF BootInv, GatesLead, LinkageAt, arguments
<1>6. LinesMasked'
  <2>1. /\ KEYBOARD_IRQ \in MASK_VAL \ {SLAVE_IRQ % 8}
        /\ PIT_IRQ \in MASK_VAL \ {SLAVE_IRQ % 8}
        /\ RTC_IRQ % 8 \in MASK_VAL
    BY DEF KEYBOARD_IRQ, PIT_IRQ, RTC_IRQ, SLAVE_IRQ, MASK_VAL
  <2> QED
    BY <1>1, <1>2, <2>1 DEF LinesMasked
<1>7. SetUpBefore' /\ LastStays'
  BY <1>1 DEF BootInv, SetUpBefore, LastStays, arguments, modules
<1>8. StackFound'
  BY <1>1 DEF BootInv, StackFound, segments, arguments, TssAt
<1> QED
  BY <1>4, <1>5, <1>6, <1>7, <1>8 DEF BootInv

\* Each device unmasks its own line.
LEMMA DeviceSteps ==
    ASSUME BootInv,
           RestoreFlags \/ keyboard_init \/ rtc_init \/ rtc_enable \/ pit_init \/ execute
    PROVE  BootInv'
<1> USE DEF AfterModules, AfterTss, AfterIdt, AfterPaging, AfterPics, AfterTerminal,
            AfterKeyboard, AfterRtc, AfterFiles, AfterPit
<1>1. UNCHANGED <<arguments, modules, segments, gates, boot, ready>>
  BY DEF RestoreFlags, keyboard_init, rtc_init, rtc_enable, pit_init, execute, Settled
<1>2. \/ pc = "restore_flags" /\ pc' = "terminal_init" /\ pics' = pics
      \/ pc = "keyboard_init" /\ pc' = "rtc_init" /\ pics' = enable_irq(pics, KEYBOARD_IRQ)
      \/ pc = "rtc_init" /\ pc' = "rtc_enable" /\ pics' = pics
      \/ pc = "rtc_enable" /\ pc' = "filesystem_init" /\ pics' = enable_irq(pics, RTC_IRQ)
      \/ pc = "pit_init" /\ pc' = "execute" /\ pics' = enable_irq(pics, PIT_IRQ)
      \/ pc = "execute" /\ pc' = "running" /\ pics' = pics
  BY DEF RestoreFlags, keyboard_init, rtc_init, rtc_enable, pit_init, execute, At, Order,
         Enables
<1>3. PICK master, slave :
        /\ pics = Two(Set(ICW2_MASTER, ICW3_MASTER, master),
                      Set(ICW2_SLAVE, ICW3_SLAVE, slave))
        /\ pc \notin AfterKeyboard => KEYBOARD_IRQ \in master
        /\ pc \notin AfterPit => PIT_IRQ \in master
        /\ pc \notin AfterRtc => RTC_IRQ % 8 \in slave
  BY <1>2 DEF BootInv, LinesMasked
<1>4. \A a, b, e : IsChip(Set(a, b, e))
  BY DEF IsChip, Set, Fields
<1>5. /\ Chip(KEYBOARD_IRQ) = "MASTER" /\ Chip(PIT_IRQ) = "MASTER"
      /\ Chip(RTC_IRQ) = "SLAVE" /\ PIT_IRQ # KEYBOARD_IRQ % 8
  BY DEF KEYBOARD_IRQ, PIT_IRQ, RTC_IRQ, Chip
<1>6. \E m, s :
        /\ pics' = Two(Set(ICW2_MASTER, ICW3_MASTER, m), Set(ICW2_SLAVE, ICW3_SLAVE, s))
        /\ pc' \notin AfterKeyboard => KEYBOARD_IRQ \in m
        /\ pc' \notin AfterPit => PIT_IRQ \in m
        /\ pc' \notin AfterRtc => RTC_IRQ % 8 \in s
  <2>1. CASE pics' = pics
    BY <1>2, <1>3, <2>1
  <2>2. CASE pc = "keyboard_init" /\ pc' = "rtc_init" /\ pics' = enable_irq(pics, KEYBOARD_IRQ)
    <3>1. pics' = Two(Set(ICW2_MASTER, ICW3_MASTER, master \ {KEYBOARD_IRQ % 8}),
                      Set(ICW2_SLAVE, ICW3_SLAVE, slave))
      <4>1. enable_irq(Two(Set(ICW2_MASTER, ICW3_MASTER, master),
                           Set(ICW2_SLAVE, ICW3_SLAVE, slave)), KEYBOARD_IRQ)
              = Two(Set(ICW2_MASTER, ICW3_MASTER, master \ {KEYBOARD_IRQ % 8}),
                    Set(ICW2_SLAVE, ICW3_SLAVE, slave))
        BY <1>5, MasterUnmasks
      <4> QED
        BY <1>3, <2>2, <4>1, Zenon
    <3> QED
      BY <1>3, <1>5, <2>2, <3>1
  <2>3. CASE pc = "rtc_enable" /\ pc' = "filesystem_init" /\ pics' = enable_irq(pics, RTC_IRQ)
    <3>1. pics' = Two(Set(ICW2_MASTER, ICW3_MASTER, master),
                      Set(ICW2_SLAVE, ICW3_SLAVE, slave \ {RTC_IRQ % 8}))
      <4>1. enable_irq(Two(Set(ICW2_MASTER, ICW3_MASTER, master),
                           Set(ICW2_SLAVE, ICW3_SLAVE, slave)), RTC_IRQ)
              = Two(Set(ICW2_MASTER, ICW3_MASTER, master),
                    Set(ICW2_SLAVE, ICW3_SLAVE, slave \ {RTC_IRQ % 8}))
        BY <1>5, SlaveUnmasks
      <4> QED
        BY <1>3, <2>3, <4>1, Zenon
    <3> QED
      BY <1>3, <2>3, <3>1
  <2>4. CASE pc = "pit_init" /\ pc' = "execute" /\ pics' = enable_irq(pics, PIT_IRQ)
    <3>1. pics' = Two(Set(ICW2_MASTER, ICW3_MASTER, master \ {PIT_IRQ % 8}),
                      Set(ICW2_SLAVE, ICW3_SLAVE, slave))
      <4>1. enable_irq(Two(Set(ICW2_MASTER, ICW3_MASTER, master),
                           Set(ICW2_SLAVE, ICW3_SLAVE, slave)), PIT_IRQ)
              = Two(Set(ICW2_MASTER, ICW3_MASTER, master \ {PIT_IRQ % 8}),
                    Set(ICW2_SLAVE, ICW3_SLAVE, slave))
        BY <1>5, MasterUnmasks
      <4> QED
        BY <1>3, <2>4, <4>1, Zenon
    <3> QED
      BY <2>4, <3>1
  <2> QED
    BY <1>2, <2>1, <2>2, <2>3, <2>4
<1>7. BootTyped' /\ OffAtFirst'
  BY <1>1, <1>2, <1>4, <1>6 DEF BootInv, BootTyped, OffAtFirst, arguments, segments
<1>8. GatesLead'
  BY <1>1, <1>2 DEF BootInv, GatesLead, LinkageAt, arguments
<1>9. LinesMasked'
  BY <1>6 DEF LinesMasked
<1>10. SetUpBefore' /\ LastStays'
  BY <1>1, <1>2 DEF BootInv, SetUpBefore, LastStays, arguments, modules
<1>11. StackFound'
  BY <1>1, <1>2 DEF BootInv, StackFound, segments, arguments, TssAt
<1> QED
  BY <1>7, <1>8, <1>9, <1>10, <1>11 DEF BootInv

\* Every step of the start keeps what the later ones rely on.
LEMMA BootStep ==
    ASSUME BootInv, [BootNext]_bootVars
    PROVE  BootInv'
<1>1. CASE start \/ CheckMagic \/ Module \/ CheckBits
  BY <1>1, FirstSteps
<1>2. CASE Ldt \/ Tss \/ idt_init
  BY <1>2, TableSteps
<1>3. CASE Paging \/ terminal_init \/ filesystem_init
  BY <1>3, SetUpSteps
<1>4. CASE i8259_init
  BY <1>4, PicsSetUp
<1>5. CASE RestoreFlags \/ keyboard_init \/ rtc_init \/ rtc_enable \/ pit_init \/ execute
  BY <1>5, DeviceSteps
<1>6. CASE UNCHANGED bootVars
  BY <1>6 DEF bootVars, BootInv, BootTyped, OffAtFirst, GatesLead, LinesMasked, SetUpBefore,
              LastStays, StackFound, LinkageAt, TssAt
<1> QED
  BY <1>1, <1>2, <1>3, <1>4, <1>5, <1>6 DEF BootNext

\* What can be delivered has been unmasked after its handler was ready.
LEMMA BootInvReady == BootInv => ReadyForInterrupts
<1> USE DEF AfterModules, AfterTss, AfterIdt, AfterPaging, AfterPics, AfterTerminal,
            AfterKeyboard, AfterRtc, AfterFiles, AfterPit
<1> SUFFICES ASSUME BootInv PROVE ReadyForInterrupts
  OBVIOUS
<1>1. ASSUME pc # "start", NEW q \in {PIT_IRQ, KEYBOARD_IRQ, RTC_IRQ}, Deliverable(q)
      PROVE  /\ Vector(q) \in DOMAIN gates
             /\ Offset(gates[Vector(q)]) = LinkageAt(HandlerOf(q))
             /\ Uses(q) \subseteq ready
             /\ StackFound
  <2>1. interrupts /\ q % 8 \notin pics[Chip(q)].mask
    BY <1>1, Zenon DEF Deliverable
  <2>2. pc \in AfterPics
    BY <1>1, <2>1 DEF BootInv, OffAtFirst
  <2>3. PICK master, slave :
          /\ pics = Two(Set(ICW2_MASTER, ICW3_MASTER, master),
                        Set(ICW2_SLAVE, ICW3_SLAVE, slave))
          /\ pc \notin AfterKeyboard => KEYBOARD_IRQ \in master
          /\ pc \notin AfterPit => PIT_IRQ \in master
          /\ pc \notin AfterRtc => RTC_IRQ % 8 \in slave
    BY <2>2 DEF BootInv, LinesMasked
  <2>4. /\ pics["MASTER"].mask = master /\ pics["SLAVE"].mask = slave
        /\ pics["MASTER"].vectors = ICW2_MASTER /\ pics["SLAVE"].vectors = ICW2_SLAVE
    BY <2>3 DEF Two, Set, Pair
  <2>5. /\ q = PIT_IRQ => pc \in AfterPit
        /\ q = KEYBOARD_IRQ => pc \in AfterKeyboard
        /\ q = RTC_IRQ => pc \in AfterRtc
    BY <2>1, <2>3, <2>4 DEF Chip, PIT_IRQ, KEYBOARD_IRQ, RTC_IRQ
  <2>6. /\ Vector(q) = HandlerOf(q)
        /\ HandlerOf(q) \in {PIT_INT, KEYBOARD_INT, RTC_INT}
    BY <2>4 DEF Vector, HandlerOf, Chip, PIT_IRQ, KEYBOARD_IRQ, RTC_IRQ, PIT_INT,
                KEYBOARD_INT, RTC_INT, ICW2_MASTER, ICW2_SLAVE
  <2>7. Uses(q) \subseteq ready
    BY <2>5 DEF Uses, BootInv, SetUpBefore, PIT_IRQ, KEYBOARD_IRQ, RTC_IRQ
  <2> QED
    BY <2>2, <2>6, <2>7 DEF BootInv, GatesLead
<1>2. ASSUME pc = "running", 3 \in mbi.flags, mbi.mods # <<>>
      PROVE  boot = mbi.mods[Len(mbi.mods)]
  <2>1. mbi.mods \in Seq(STRING)
    BY BootAssumption DEF BootInv, BootTyped
  <2>2. Len(mbi.mods) # 0
    BY <1>2, <2>1
  <2> QED
    BY <1>2, <2>2 DEF BootInv, LastStays
<1> QED
  BY <1>1, <1>2 DEF ReadyForInterrupts

\* From the loader's jump to the first shell, no interrupt comes before its
\* gate, its handler's data and the stack are in place: wherever the tables are
\* linked, however many modules are loaded, whatever the BIOS left in the flag.
THEOREM BootCorrect == BootSpec => []ReadyForInterrupts
<1>1. BootInv /\ [BootNext]_bootVars => BootInv'
  BY BootStep
<1> QED
  BY BootInitial, <1>1, BootInvReady, PTL DEF BootSpec
=============================================================================
