----------------------------- MODULE BlinkList -----------------------------
(***************************************************************************)
(* What blink.S promises fish: a list of blinking characters, the newest   *)
(* first, of which each changes between its two characters after as many   *)
(* ticks as it asks for.  There is no memory here, no links between        *)
(* structures and no arithmetic on words.                                  *)
(***************************************************************************)
EXTENDS Integers, Sequences

CONSTANTS
    SLOTS,     \* how many blinks there may be
    PLACES,    \* places on the screen
    Blinks,    \* what may be added
    Blank      \* a character no blink shows

VARIABLES
    blinks,    \* the list, each with the ticks left to its next change
    screen,    \* place -> character
    ret        \* what the last call gave

bvars == <<blinks, screen, ret>>

At(place) == {i \in 1 .. Len(blinks) : blinks[i].location = place}
Newest(places) == CHOOSE i \in places : \A j \in places : i <= j
Oldest(places) == CHOOSE i \in places : \A j \in places : i >= j

Add(b) ==
    IF b.location < PLACES /\ Len(blinks) < SLOTS
      THEN /\ blinks' = <<[location |-> b.location, on_char |-> b.on_char,
                           off_char |-> b.off_char, on_length |-> b.on_length,
                           off_length |-> b.off_length,
                           left |-> b.on_length, on |-> TRUE]>> \o blinks
           /\ screen' = [screen EXCEPT ![b.location] = b.on_char]
           /\ ret' = 0
      ELSE ret' = -1 /\ UNCHANGED <<blinks, screen>>

\* The newest blink of the place goes; what it showed stays on the screen.
Remove(place) ==
    /\ IF At(place) = {} THEN ret' = -1 /\ UNCHANGED blinks
       ELSE /\ LET i == Newest(At(place)) IN
               blinks' = SubSeq(blinks, 1, i - 1)
                           \o SubSeq(blinks, i + 1, Len(blinks))
            /\ ret' = 0
    /\ UNCHANGED screen

\* The one blink takes the times and the phase of the other, and shows the
\* character of its off time.
Sync(from, to) ==
    IF At(from) = {} \/ At(to) = {}
      THEN ret' = -1 /\ UNCHANGED <<blinks, screen>>
      ELSE /\ blinks' = [blinks EXCEPT ![Newest(At(to))] =
                [@ EXCEPT !.on_length = blinks[Newest(At(from))].on_length,
                          !.off_length = blinks[Newest(At(from))].off_length,
                          !.left = blinks[Newest(At(from))].left,
                          !.on = blinks[Newest(At(from))].on]]
           /\ screen' = [screen EXCEPT ![to] =
                            blinks[Newest(At(to))].off_char]
           /\ ret' = 0

Find(place) ==
    /\ ret' = IF At(place) = {} THEN -1 ELSE 0
    /\ UNCHANGED <<blinks, screen>>

\* Where several change at one place, the oldest is seen.
Tick ==
    LET Expires(i) == blinks[i].left = 1
        Next(b) == [b EXCEPT
            !.left = IF b.left > 1 THEN b.left - 1
                     ELSE IF b.on THEN b.off_length ELSE b.on_length,
            !.on = IF b.left > 1 THEN @ ELSE ~@]
        Changing(place) == {i \in At(place) : Expires(i)}
        Shows(b) == IF b.on THEN b.off_char ELSE b.on_char
    IN  /\ blinks' = [i \in 1 .. Len(blinks) |-> Next(blinks[i])]
        /\ screen' = [place \in DOMAIN screen |->
                        IF Changing(place) = {} THEN screen[place]
                        ELSE Shows(blinks[Oldest(Changing(place))])]
        /\ UNCHANGED ret

Init ==
    /\ blinks = <<>>
    /\ screen = [place \in 0 .. PLACES - 1 |-> Blank]
    /\ ret = 0

Next ==
    \/ \E b \in Blinks : Add(b)
    \/ \E place \in {b.location : b \in Blinks} : Remove(place) \/ Find(place)
    \/ \E from, to \in {b.location : b \in Blinks} : Sync(from, to)
    \/ Tick

Spec == Init /\ [][Next]_bvars
=============================================================================
