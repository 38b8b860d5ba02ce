-------------------------------- MODULE Keys --------------------------------
(***************************************************************************)
(* The keyboard interrupt's view of the keys (keyboard.c): which modifiers *)
(* it takes for held, and what a key then types.  Shift and control are    *)
(* kept in the terminal that is in front when they move, caps lock and alt *)
(* for all terminals.                                                      *)
(*                                                                         *)
(* The handler runs under cli: a scan code is one action.  A key stands    *)
(* for its codes, made when it goes down (and again while it stays there)  *)
(* and when it comes up.  The table keys[4][NUM_KEYS] is represented by a  *)
(* letter, by the letter that control makes special, and by a digit, which *)
(* has another character with shift but not with caps lock.  What a        *)
(* character does to the line is in module LineDiscipline.                 *)
(***************************************************************************)
EXTENDS Sequences, Front

Shifts == {"left shift", "right shift"}
CharKeys == {"a", "l", "1", "tab"}
Modifiers == Shifts \cup {"caps", "alt", "control"}

VARIABLES
    down,             \* the modifiers that are held
    shift_pressed, cntrl_pressed,   \* per terminal
    caps_pressed, alt_pressed,
    typed,            \* the last key, and what the handler made of it
    carried,          \* a terminal came to the front with shift or control held
    right             \* the right shift key has been used

kvars == <<down, cur_terminal, shift_pressed, cntrl_pressed, caps_pressed,
           alt_pressed, typed, carried, right>>
flags == <<shift_pressed, cntrl_pressed, caps_pressed, alt_pressed>>

Nothing == [key |-> "none", gives |-> <<>>]

KeysInit ==
    /\ down = {} /\ cur_terminal = First
    /\ shift_pressed = [t \in Terminals |-> 0]
    /\ cntrl_pressed = [t \in Terminals |-> 0]
    /\ caps_pressed = 0 /\ alt_pressed = 0
    /\ typed = Nothing
    /\ carried = FALSE /\ right = FALSE

\* The four layers of a key of the table.
keys(key) ==
    CASE key = "a" -> <<"a", "A", "A", "a">>
      [] key = "l" -> <<"l", "L", "L", "l">>
      [] key = "1" -> <<"1", "!", "1", "!">>
      [] key = "tab" -> <<"\t", "\t", "\t", "\t">>
      [] key = "space" -> <<" ", " ", " ", " ">>

\* Mutant of key_type: caps lock wins over shift.
key_type_caps ==
    IF caps_pressed = 1 THEN 2
    ELSE IF shift_pressed[cur_terminal] = 1 THEN 1 ELSE 0

key_type ==
    CASE shift_pressed[cur_terminal] = 1 /\ caps_pressed = 1 -> 3
      [] shift_pressed[cur_terminal] = 0 /\ caps_pressed = 1 -> 2
      [] shift_pressed[cur_terminal] = 1 /\ caps_pressed = 0 -> 1
      [] OTHER -> 0

\* handle_key: control takes every key, and clears the screen with l; a tab
\* is three spaces.
handle_key(key) ==
    LET char == keys(key)[key_type + 1] IN
    IF cntrl_pressed[cur_terminal] = 1
      THEN IF char \in {"l", "L"} THEN <<"clear">> ELSE <<>>
      ELSE IF char = "\t"
             THEN [k \in 1 .. 3 |-> keys("space")[key_type + 1]]
             ELSE <<char>>

-----------------------------------------------------------------------------
\* The modifiers, as the handler sees their codes.  A key that is held makes
\* its code again; this changes caps lock again.
PressShift(key) ==
    /\ key \in Shifts
    /\ shift_pressed' = [shift_pressed EXCEPT ![cur_terminal] = 1]
    /\ UNCHANGED <<cntrl_pressed, caps_pressed, alt_pressed>>

\* SHIFT_UNPRESS_R is the code of the press, 0x36, which the branch before
\* has taken: what the right key sends when it comes up, 0xB6, is no code the
\* handler knows.
ReleaseShift(key) ==
    /\ key \in Shifts
    /\ shift_pressed' = IF key = "left shift"
                          THEN [shift_pressed EXCEPT ![cur_terminal] = 0]
                          ELSE shift_pressed
    /\ UNCHANGED <<cntrl_pressed, caps_pressed, alt_pressed>>

MoveControl(key, value) ==
    /\ key = "control"
    /\ cntrl_pressed' = [cntrl_pressed EXCEPT ![cur_terminal] = value]
    /\ UNCHANGED <<shift_pressed, caps_pressed, alt_pressed>>

MoveAlt(key, value) ==
    /\ key = "alt" /\ alt_pressed' = value
    /\ UNCHANGED <<shift_pressed, cntrl_pressed, caps_pressed>>

PressCaps(key) ==
    /\ key = "caps" /\ caps_pressed' = 1 - caps_pressed
    /\ UNCHANGED <<shift_pressed, cntrl_pressed, alt_pressed>>

Press(key) ==
    /\ down' = down \cup {key}
    /\ PressShift(key) \/ MoveControl(key, 1) \/ MoveAlt(key, 1)
         \/ PressCaps(key)
    /\ right' = (right \/ key = "right shift")
    /\ typed' = Nothing
    /\ UNCHANGED <<cur_terminal, carried>>

Release(key) ==
    /\ key \in down /\ down' = down \ {key}
    /\ \/ ReleaseShift(key) \/ MoveControl(key, 0) \/ MoveAlt(key, 0)
       \/ key = "caps" /\ UNCHANGED flags
    /\ typed' = Nothing
    /\ UNCHANGED <<cur_terminal, carried, right>>

\* Any other key; its coming up is no code the handler knows.
Type(key) ==
    /\ typed' = [key |-> key, gives |-> handle_key(key)]
    /\ UNCHANGED <<down, cur_terminal, flags, carried, right>>

\* F(t + 1) switches only while alt is held.
PressF(t) ==
    /\ cur_terminal' = IF alt_pressed = 1 THEN t ELSE cur_terminal
    /\ carried' = (carried \/ /\ cur_terminal' # cur_terminal
                              /\ down \cap (Shifts \cup {"control"}) # {})
    /\ typed' = Nothing
    /\ UNCHANGED <<down, flags, right>>

KeysNext ==
    \/ \E key \in Modifiers : Press(key) \/ Release(key)
    \/ \E key \in CharKeys : Type(key)
    \/ \E t \in Terminals : PressF(t)

KeysSpec == KeysInit /\ [][KeysNext]_kvars

-----------------------------------------------------------------------------
\* What a key should type, by what is held at that moment.
Held(some) == down \cap some # {}
ShouldType(key) ==
    IF Held({"control"}) THEN IF key = "l" THEN <<"clear">> ELSE <<>>
    ELSE IF key = "tab" THEN <<" ", " ", " ">>
    ELSE IF key = "1" THEN IF Held(Shifts) THEN <<"!">> ELSE <<"1">>
    ELSE LET capital == Held(Shifts) # (caps_pressed = 1)
         IN  IF key = "a" THEN IF capital THEN <<"A">> ELSE <<"a">>
             ELSE IF capital THEN <<"L">> ELSE <<"l">>

\* A key types what the keys held at that moment ask for, in whichever
\* terminal, after any presses, releases, repeats and switches: caps lock
\* turns letters only, and shift turns them back.  This is so as long as no
\* terminal comes to the front while shift or control is held (the release
\* would be noted in another terminal than the press) and the right shift
\* key is not used: its release is never seen, and shift stays on until the
\* left key comes up.
KeysTypeAsHeld ==
    ~carried /\ ~right /\ typed.key \in CharKeys =>
        typed.gives = ShouldType(typed.key)
=============================================================================
