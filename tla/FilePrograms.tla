---------------------------- MODULE FilePrograms ----------------------------
(***************************************************************************)
(* The user programs that read files: cat (ece391cat.c), ls (ece391ls.c),  *)
(* grep (ece391grep.c) and the part of fish that reads its two frames      *)
(* (add_frames, fish.c).  An action is one system call with the code up to *)
(* the next one, or one line of grep's search, or one column of fish's     *)
(* frames.                                                                 *)
(*                                                                         *)
(* An open file is what is left to read of it (module FileStreams, which   *)
(* FileDescriptors implements).  The directory is its names in order; the  *)
(* entry after the last has an empty name, which ends a listing.           *)
(***************************************************************************)
EXTENDS Integers, FiniteSets, Sequences, SequencesExt

CONSTANTS
    BUFSIZE,       \* bytes of the buffers of cat and grep
    NL, NUL, SP,   \* '\n', '\0' and ' '
    Directory,     \* the names in the order of the boot block
    Texts,         \* what the two text files may hold
    Frames,        \* the texts fish may find in its frames
    Patterns,      \* the arguments of grep
    Leftovers,     \* the bytes a buffer may hold before it is written
    COLS, OFFSET   \* 80, and where fish's picture begins in a row: 40

\* Arguments are strings of C, and a row of the screen has room for a frame's.
ASSUME TextsAssumption ==
    /\ BUFSIZE \in Nat \ {0} /\ COLS \in Nat /\ OFFSET \in Nat
    /\ {NL, NUL, SP} \subseteq STRING /\ NL \notin {NUL, "0"}
    /\ Leftovers \subseteq STRING /\ Directory \in Seq(STRING)
    /\ Texts \cup Frames \cup Patterns \subseteq Seq(STRING)
    /\ \A s \in Patterns : \A i \in 1 .. Len(s) : s[i] # NUL
    /\ \A s \in Frames : \A e \in COLS + 1 .. Len(s) : \E k \in e - COLS .. e : s[k] = NL

Dot == "."
Rtc == "rtc"
Files == {"first", "second"}

VARIABLES
    prog, arg,     \* which program runs, and its argument
    text,          \* the contents of the files
    stage,
    pos,           \* position in the open directory
    rest,          \* per open file what is left of it
    fname,         \* the file grep is in
    data, spare,   \* grep's buffer 0 .. BUFSIZE; its last byte at the start
    last, cnt, line_start,
    c, eof, row, col,   \* fish: the two characters, ends of file, position
    shown,         \* what went to the screen, or to the blink list
    status

fileVars == <<prog, arg, text, stage, pos, rest, fname, data, spare, last,
              cnt, line_start, c, eof, row, col, shown, status>>
buffer == <<data, last, cnt, line_start>>
frame == <<c, eof, row, col>>

Lesser(m, n) == IF m < n THEN m ELSE n
Take(s, n) == SubSeq(s, 1, n)
After(s, n) == SubSeq(s, n + 1, Len(s))

FilesInit ==
    /\ \/ /\ prog = "cat" /\ arg \in Files \cup {Dot, Rtc, "none"}
          /\ text \in [Files -> Texts]
       \/ /\ prog = "ls" /\ arg = <<>> /\ text \in [Files -> {<<>>}]
       \/ /\ prog = "grep" /\ arg \in Patterns /\ text \in [Files -> Texts]
       \/ /\ prog = "fish" /\ arg = <<>> /\ text \in [Files -> Frames]
    /\ stage = "start" /\ pos = 1 /\ fname = Dot
    /\ rest = [f \in Files |-> <<>>]
    /\ spare \in IF prog = "grep" THEN Leftovers ELSE {NUL}
    /\ data = [k \in 0 .. BUFSIZE |-> spare]
    /\ last = 0 /\ cnt = 0 /\ line_start = 0
    /\ c = <<"0", "0">> /\ eof = <<FALSE, FALSE>> /\ row = 0 /\ col = 0
    /\ shown = <<>> /\ status = -1

Exit(s) == stage' = "halted" /\ status' = s
Puts(a) == shown' = shown \o a

-----------------------------------------------------------------------------
\* cat.  terminal_write leaves out the NULs (terminal.c, line 90).
Visible(s) ==
    FlattenSeq([i \in 1 .. Len(s) |-> IF s[i] = NUL THEN <<>> ELSE <<s[i]>>])

CatOpen ==
    /\ prog = "cat" /\ stage = "start"
    /\ \/ /\ arg = "none"
          /\ Puts(<<"file not found">>) /\ Exit(2) /\ UNCHANGED rest
       \/ /\ arg # "none" /\ stage' = "read"
          /\ rest' = IF arg \in Files THEN [rest EXCEPT ![arg] = text[arg]]
                     ELSE rest
          /\ UNCHANGED <<shown, status>>
    /\ UNCHANGED <<prog, arg, text, pos, fname, spare, buffer, frame>>

CatRead ==
    /\ prog = "cat" /\ stage = "read"
    /\ \/ /\ arg \in Files
          /\ LET n == Lesser(BUFSIZE, Len(rest[arg])) IN
             \/ n = 0 /\ Exit(0) /\ UNCHANGED <<rest, shown>>
             \/ /\ n > 0 /\ Puts(Visible(Take(rest[arg], n)))
                /\ rest' = [rest EXCEPT ![arg] = After(@, n)]
                /\ UNCHANGED <<stage, status>>
          /\ UNCHANGED pos
       \/ /\ arg = Rtc /\ Exit(0)      \* rtc_read gives 0
          /\ UNCHANGED <<rest, shown, pos>>
       \/ /\ arg = Dot /\ pos' = pos + 1
          /\ \/ pos > Len(Directory) /\ Exit(0) /\ UNCHANGED shown
             \/ /\ pos <= Len(Directory) /\ Puts(<<Directory[pos]>>)
                /\ UNCHANGED <<stage, status>>
          /\ UNCHANGED rest
    /\ UNCHANGED <<prog, arg, text, fname, spare, buffer, frame>>

Ls ==
    /\ prog = "ls" /\ stage = "start" /\ pos' = pos + 1
    /\ \/ pos > Len(Directory) /\ Exit(0) /\ UNCHANGED shown
       \/ /\ pos <= Len(Directory) /\ Puts(<<Directory[pos], NL>>)
          /\ UNCHANGED <<stage, status>>
    /\ UNCHANGED <<prog, arg, text, rest, fname, spare, buffer, frame>>

-----------------------------------------------------------------------------
\* grep: main opens the next file; do_one_file searches it.  The buffer lies
\* on the stack in the same place for each file, and is not cleared.
GrepNext ==
    /\ prog = "grep" /\ stage = "start" /\ pos' = pos + 1
    /\ \/ /\ pos > Len(Directory) /\ Exit(0)
          /\ UNCHANGED <<rest, fname, last>>
       \/ /\ pos <= Len(Directory) /\ Directory[pos] = Dot
          /\ UNCHANGED <<stage, status, rest, fname, last>>
       \/ /\ pos <= Len(Directory) /\ Directory[pos] # Dot
          /\ fname' = Directory[pos] /\ last' = 0 /\ stage' = "read"
          /\ rest' = IF fname' \in Files
                       THEN [rest EXCEPT ![fname'] = text[fname']] ELSE rest
          /\ UNCHANGED status
    /\ UNCHANGED <<prog, arg, text, spare, data, cnt, line_start, frame, shown>>

GrepRead ==
    /\ prog = "grep" /\ stage = "read"
    /\ LET left == IF fname \in Files THEN rest[fname] ELSE <<>>
           n == Lesser(BUFSIZE - last, Len(left))
       IN  /\ cnt' = n
           /\ data' = [k \in 0 .. BUFSIZE |->
                         IF k \in last .. last + n - 1 THEN left[k - last + 1]
                         ELSE data[k]]
           /\ last' = last + n
           /\ rest' = IF n = 0 THEN rest ELSE [rest EXCEPT ![fname] = After(@, n)]
    /\ line_start' = 0 /\ stage' = "line"
    /\ UNCHANGED <<prog, arg, text, pos, fname, spare, frame, shown, status>>

\* strcpy, and a string from a place of the buffer on
StrEnd(d, k) ==
    CHOOSE e \in k .. BUFSIZE : d[e] = NUL /\ \A j \in k .. e - 1 : d[j] # NUL
Str(d, k) == [j \in 1 .. StrEnd(d, k) - k |-> d[k + j - 1]]
StrCpy(d, from) ==
    [k \in 0 .. BUFSIZE |->
        IF k <= StrEnd(d, from) - from THEN d[from + k] ELSE d[k]]

LineEnd ==
    CHOOSE e \in line_start .. BUFSIZE :
        /\ e >= last \/ data[e] = NL
        /\ \A j \in line_start .. e - 1 : j < last /\ data[j] # NL

\* the first byte, and then ece391_strncmp over the length of the pattern
MatchesAt(d, k) ==
    /\ arg # <<>>
    /\ \A j \in 1 .. Len(arg) : k + j - 1 <= BUFSIZE /\ d[k + j - 1] = arg[j]

\* Mutant of Kept: the cut line is copied down, but last is not fixed.
KeptAsBefore == last
\* what is in the buffer when the cut line has been copied to its front
Kept == last - line_start

AfterLine(e) == e + 1

\* Mutant of Searched: only a read that fails ends the loop.
SearchedUnlessFailed == "read"
\* the buffer is searched: the file is over when its last read gave nothing
Searched == IF cnt = 0 THEN "start" ELSE "read"

GrepLine ==
    /\ prog = "grep" /\ stage = "line"
    /\ LET e == LineEnd
           d == [data EXCEPT ![e] = NUL]
       IN  IF data[e] # NL /\ cnt # 0 /\ line_start # 0
             THEN /\ data' = StrCpy(d, line_start)
                  /\ last' = Kept
                  /\ stage' = "read"
                  /\ UNCHANGED <<shown, line_start>>
             ELSE /\ data' = d
                  /\ IF \E k \in line_start .. e - 1 : MatchesAt(d, k)
                       THEN Puts(<<fname, ":">> \o Str(d, line_start) \o <<NL>>)
                       ELSE UNCHANGED shown
                  /\ line_start' = AfterLine(e)
                  /\ IF AfterLine(e) >= last
                       THEN last' = 0 /\ stage' = Searched
                       ELSE UNCHANGED <<last, stage>>
    /\ UNCHANGED <<prog, arg, text, pos, rest, fname, spare, cnt, frame, status>>

-----------------------------------------------------------------------------
\* fish: a blink for each place where either frame has a character
FrameOpen ==
    /\ prog = "fish" /\ stage = "start" /\ stage' = "column"
    /\ rest' = text
    /\ UNCHANGED <<prog, arg, text, pos, fname, spare, buffer, frame, shown,
                   status>>

FrameFile(k) == IF k = 1 THEN "first" ELSE "second"
\* Mutant of Shown: the newline of the shorter line goes into the blink.
ShownAsRead(ch) == ch
\* past the end of its line a frame is blank
Shown(ch) == IF ch = NL THEN SP ELSE ch

\* a frame at its end has no more characters
NextRow(end) == [k \in 1 .. 2 |-> IF end[k] THEN NL ELSE "0"]

Column ==
    /\ prog = "fish" /\ stage = "column"
    /\ LET Reads(k) == c[k] # NL
           Ends(k) == Reads(k) /\ rest[FrameFile(k)] = <<>>
           Read(k) == IF ~Reads(k) \/ Ends(k) THEN NL ELSE Head(rest[FrameFile(k)])
           ch == <<Read(1), Read(2)>>
           end == <<eof[1] \/ Ends(1), eof[2] \/ Ends(2)>>
       IN  /\ rest' = [f \in Files |->
                IF \E k \in 1 .. 2 : f = FrameFile(k) /\ Reads(k) /\ ~Ends(k)
                  THEN Tail(rest[f]) ELSE rest[f]]
           /\ eof' = end
           /\ IF ch = <<NL, NL>>
                THEN /\ c' = NextRow(end)
                     /\ row' = row + 1 /\ col' = 0
                     /\ IF end[1] /\ end[2] THEN Exit(0)
                        ELSE UNCHANGED <<stage, status>>
                     /\ UNCHANGED shown
                ELSE /\ c' = ch /\ col' = col + 1
                     /\ IF Shown(ch[1]) # SP \/ Shown(ch[2]) # SP
                          THEN Puts(<<[location |-> row * COLS + col + OFFSET,
                                         on_char |-> Shown(ch[1]),
                                         off_char |-> Shown(ch[2])]>>)
                          ELSE UNCHANGED shown
                     /\ UNCHANGED <<row, stage, status>>
    /\ UNCHANGED <<prog, arg, text, pos, fname, spare, buffer>>

-----------------------------------------------------------------------------
FilesNext == CatOpen \/ CatRead \/ Ls \/ GrepNext \/ GrepRead \/ GrepLine
        \/ FrameOpen \/ Column

FilesSpec == FilesInit /\ [][FilesNext]_fileVars

-----------------------------------------------------------------------------
\* Where a text can be cut: its start and behind each newline.
Breaks(s) == {0} \cup {k \in 1 .. Len(s) : s[k] = NL}
\* The break before the line that the e-th character is in, and whether it is
\* the last character of that line.
Opens(s, e) == CHOOSE b \in Breaks(s) : b < e /\ \A k \in b + 1 .. e - 1 : s[k] # NL
Closes(s, e) == s[e] # NL /\ (e = Len(s) \/ s[e + 1] = NL)
LineTo(s, e) == SubSeq(s, Opens(s, e) + 1, e)

HasMatch(line) ==
    arg # <<>> /\ \E k \in 0 .. Len(line) - Len(arg) :
                     SubSeq(line, k + 1, k + Len(arg)) = arg

\* The lines of a file that match, each at its last character; empty ones do not.
Found(f, e) ==
    IF Closes(text[f], e) /\ HasMatch(LineTo(text[f], e))
      THEN <<f, ":">> \o LineTo(text[f], e) \o <<NL>> ELSE <<>>
Matching(f) == FlattenSeq([e \in 1 .. Len(text[f]) |-> Found(f, e)])

FitsBuffer(s) ==
    \A e \in 1 .. Len(s) : /\ s[e] # NUL
                           /\ Closes(s, e) => e - Opens(s, e) <= BUFSIZE

\* grep prints, for every file of the directory in turn, exactly the lines
\* that contain its argument, each once: although lines lie across the ends
\* of its buffer and are moved to its front, and although the buffer still
\* holds the file before.  Left out are lines longer than the buffer, texts
\* with NUL bytes, and a stack that happens to hold a newline in the byte
\* after the buffer, which is read before it is ever written.
GrepPrintsMatches ==
    (/\ prog = "grep" /\ stage = "halted" /\ spare # NL
     /\ \A f \in Files : FitsBuffer(text[f]))
    => shown = FlattenSeq([k \in 1 .. Len(Directory) |->
                 IF Directory[k] \in Files THEN Matching(Directory[k]) ELSE <<>>])

\* Where a character stands, and the blinks of two frames laid over each other.
Row(s, e) == Cardinality({k \in 1 .. e - 1 : s[k] = NL})
Col(s, e) == e - 1 - Opens(s, e)
CharAt(s, r, k) ==
    LET there == {e \in 1 .. Len(s) : s[e] # NL /\ Row(s, e) = r /\ Col(s, e) = k}
    IN  IF there = {} THEN SP ELSE s[CHOOSE e \in there : TRUE]
BlinkAt(r, k) == [location |-> r * COLS + k + OFFSET,
                  on_char |-> CharAt(text["first"], r, k),
                  off_char |-> CharAt(text["second"], r, k)]
Sides == 0 .. Len(text["first"]) + Len(text["second"])
Overlay == {b \in {BlinkAt(r, k) : r, k \in Sides} : b.on_char # SP \/ b.off_char # SP}

\* cat prints the file, less its NULs, whatever part of the buffer the last
\* read fills; ls and cat of the directory print its names, and a missing
\* file is reported.  fish adds one blink for each place that is not blank
\* in both frames, however their lines differ in length and number.
FilesArePrinted ==
    stage = "halted" =>
      /\ prog = "cat" =>
           /\ arg \in Files => shown = Visible(text[arg])
           /\ arg = Dot => shown = Directory
           /\ arg = Rtc => shown = <<>>
           /\ status = IF arg = "none" THEN 2 ELSE 0
      /\ prog = "ls" =>
           shown = FlattenSeq([k \in 1 .. Len(Directory) |-> <<Directory[k], NL>>])
      /\ prog = "fish" =>
           /\ ToSet(shown) = Overlay
           /\ \A i, j \in 1 .. Len(shown) :
                shown[i].location = shown[j].location => i = j

\* Every program that reads files comes to its end: grep does not read, or
\* search, the same bytes over again, and fish stops at the end of both
\* frames.
Halts == <>(stage = "halted")
=============================================================================
