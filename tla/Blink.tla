------------------------------- MODULE Blink -------------------------------
(***************************************************************************)
(* The blinking characters of fish: the singly linked list of blink.S over *)
(* the structures that fish.c allocates from an array.  A structure whose  *)
(* location is 0 is free; this is also a place on the screen, so that      *)
(* nothing may be added there (fish never does: its picture begins at      *)
(* column 40).                                                             *)
(*                                                                         *)
(* fish is one process: the calls and the tasklet, which it calls after a  *)
(* read of the real-time clock, follow each other.                         *)
(***************************************************************************)
EXTENDS Integers, Sequences

CONSTANTS
    SLOTS,     \* structures in blink_array: 80*25
    PLACES,    \* places on the screen: 80*25
    WORD,      \* 2^16
    Blinks,    \* what may be added: the caller's part of the structure
    Blank      \* a character no blink shows

\* The times a blink can ask for: cmpw with jg, in the tasklet, takes a longer
\* one, which the unsigned short of blink.h holds, for one that is over, as it
\* takes 0.  fish asks for 6, 7 and 15 ticks (48-49, 86-87).
Lengths == 1 .. WORD \div 2

\* fish adds nothing at place 0, and asks for such times.
ASSUME BlinksAssumption ==
    /\ SLOTS \in Nat /\ PLACES \in Nat /\ WORD \in Nat \ {0}
    /\ Blank \in STRING
    /\ Blinks \subseteq [location : Nat \ {0}, on_char : STRING, off_char : STRING,
                         on_length : Lengths, off_length : Lengths]

VARIABLES
    blink_array,    \* slot -> structure
    mp1_list_head,  \* a slot, or 0 for NULL
    screen,         \* place -> character
    ret             \* what the last call gave: 0 or -1

listVars == <<blink_array, mp1_list_head, screen, ret>>
Slots == 1 .. SLOTS
Places == {b.location : b \in Blinks}

\* mp1_free: memset to 0
Free == [location |-> 0, on_char |-> Blank, off_char |-> Blank,
         on_length |-> 0, off_length |-> 0, countdown |-> 0, status |-> 0,
         next |-> 0]

ListInit ==
    /\ blink_array = [s \in Slots |-> Free]
    /\ mp1_list_head = 0
    /\ screen = [place \in 0 .. PLACES - 1 |-> Blank]
    /\ ret = 0

\* The list: the slots that the links lead through, from the head to NULL.
\* What is behind the i-th slot of a list; behind none of them is the head.
Behind(list, i) == IF i < Len(list) THEN list[i + 1] ELSE 0
Leads(array, head, list) ==
    /\ head = Behind(list, 0)
    /\ \A i \in 1 .. Len(list) : array[list[i]].next = Behind(list, i)
Walks == UNION {[1 .. n -> Slots] : n \in 0 .. SLOTS}
List == CHOOSE list \in Walks : Leads(blink_array, mp1_list_head, list)

\* mp1_find_helper: the first of the list, so the newest
mp1_find_helper(place) ==
    LET found == {i \in 1 .. Len(List) : blink_array[List[i]].location = place}
    IN  IF found = {} THEN 0
        ELSE List[CHOOSE i \in found : \A j \in found : i <= j]

\* mp1_malloc, 0 when the array is full
mp1_malloc ==
    LET free == {s \in Slots : blink_array[s].location = 0}
    IN  IF free = {} THEN 0 ELSE CHOOSE s \in free : \A t \in free : s <= t

mp1_ioctl_add(b) ==
    IF b.location < PLACES /\ mp1_malloc # 0
      THEN /\ blink_array' = [blink_array EXCEPT ![mp1_malloc] =
                [location |-> b.location, on_char |-> b.on_char,
                 off_char |-> b.off_char, on_length |-> b.on_length,
                 off_length |-> b.off_length, countdown |-> b.on_length,
                 status |-> 1, next |-> mp1_list_head]]
           /\ mp1_list_head' = mp1_malloc
           /\ screen' = [screen EXCEPT ![b.location] = b.on_char]
           /\ ret' = 0
      ELSE ret' = -1 /\ UNCHANGED <<blink_array, mp1_list_head, screen>>

\* Mutant of mp1_ioctl_remove: the head is set even if another structure is removed.
RemoveAtHead(place) ==
    LET s == mp1_find_helper(place) IN
    /\ s # 0
    /\ mp1_list_head' = blink_array[s].next
    /\ blink_array' = [blink_array EXCEPT ![s] = Free]
    /\ ret' = 0
    /\ UNCHANGED screen

\* The link that leads to the structure, the head's or another's, skips it.
mp1_ioctl_remove(place) ==
    LET s == mp1_find_helper(place)
        next == blink_array[s].next
    IN  IF s = 0
          THEN ret' = -1 /\ UNCHANGED <<blink_array, mp1_list_head, screen>>
          ELSE /\ IF mp1_list_head = s
                    THEN /\ mp1_list_head' = next
                         /\ blink_array' = [blink_array EXCEPT ![s] = Free]
                    ELSE LET before == CHOOSE i \in 1 .. Len(List) :
                                          blink_array[List[i]].next = s
                         IN  /\ blink_array' = [blink_array EXCEPT
                                   ![List[before]].next = next, ![s] = Free]
                             /\ UNCHANGED mp1_list_head
               /\ ret' = 0
               /\ UNCHANGED screen

\* cmovl after testb never moves: OFF_CHAR is shown in either state.
mp1_ioctl_sync(from, to) ==
    LET esi == mp1_find_helper(from)
        edi == mp1_find_helper(to)
    IN  IF esi = 0 \/ edi = 0
          THEN ret' = -1 /\ UNCHANGED <<blink_array, mp1_list_head, screen>>
          ELSE /\ blink_array' = [blink_array EXCEPT ![edi] =
                    [@ EXCEPT !.on_length = blink_array[esi].on_length,
                              !.off_length = blink_array[esi].off_length,
                              !.countdown = blink_array[esi].countdown,
                              !.status = blink_array[esi].status]]
               /\ screen' = [screen EXCEPT
                                ![to] = blink_array[edi].off_char]
               /\ ret' = 0
               /\ UNCHANGED mp1_list_head

mp1_ioctl_find(place) ==
    /\ ret' = IF mp1_find_helper(place) = 0 THEN -1 ELSE 0
    /\ UNCHANGED <<blink_array, mp1_list_head, screen>>

\* decw, and cmpw with jg: a word as a signed number that is not above zero
Down(s) == IF blink_array[s].countdown = 0 THEN WORD - 1
           ELSE blink_array[s].countdown - 1
Expires(s) == Down(s) = 0 \/ Down(s) >= WORD \div 2
IsOn(s) == blink_array[s].status = 1

\* mp1_poke, from the tasklet: what it makes of a screen that is shown
Other(s) == IF IsOn(s) THEN blink_array[s].off_char ELSE blink_array[s].on_char
mp1_poke(shown, s) ==
    IF Expires(s) THEN [shown EXCEPT ![blink_array[s].location] = Other(s)] ELSE shown

\* The screen after the tasklet has been at the first i of the list.
Drawn[i \in 0 .. Len(List)] ==
    IF i = 0 THEN screen ELSE mp1_poke(Drawn[i - 1], List[i])

\* What becomes of a structure of the list.
Counted(s) ==
    IF Expires(s)
      THEN [blink_array[s] EXCEPT
              !.countdown = IF IsOn(s) THEN blink_array[s].off_length
                            ELSE blink_array[s].on_length,
              !.status = 1 - @]
      ELSE [blink_array[s] EXCEPT !.countdown = Down(s)]

mp1_rtc_tasklet ==
    /\ screen' = Drawn[Len(List)]
    /\ blink_array' = [s \in Slots |->
          IF \E i \in 1 .. Len(List) : List[i] = s THEN Counted(s) ELSE blink_array[s]]
    /\ UNCHANGED <<mp1_list_head, ret>>

ListNext ==
    \/ \E b \in Blinks : mp1_ioctl_add(b)
    \/ \E place \in Places : mp1_ioctl_remove(place) \/ mp1_ioctl_find(place)
    \/ \E from, to \in Places : mp1_ioctl_sync(from, to)
    \/ mp1_rtc_tasklet

ListSpec == ListInit /\ [][ListNext]_listVars

-----------------------------------------------------------------------------
\* What a structure stands for.
BlinkOf(b) ==
    [location |-> b.location, on_char |-> b.on_char, off_char |-> b.off_char,
     on_length |-> b.on_length, off_length |-> b.off_length,
     left |-> b.countdown, on |-> b.status = 1]

ListOf ==
    INSTANCE BlinkList WITH
        blinks <- [i \in 1 .. Len(List) |-> BlinkOf(blink_array[List[i]])]

\* The structures implement a list of blinks (module BlinkList): the newest
\* of a place is the one found, synchronised and removed, the oldest is drawn
\* last, and each blink changes after exactly the ticks it asked for, as long
\* as that is at least one and no more than a signed word can count (Lengths).
\* mp1_malloc, which looks at the locations only, gives no structure that the
\* links still reach, and none is lost.
IsBlinkList == ListOf!Spec
=============================================================================
