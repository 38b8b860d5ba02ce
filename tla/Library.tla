------------------------------ MODULE Library ------------------------------
(***************************************************************************)
(* The routines that kernel and programs share out among their copies:     *)
(* lib.c's memory, string and number routines and the conversions of its   *)
(* printf, those of ece391support.c, the words that execute takes from a   *)
(* command line, and what ece391emulate.c, with which the programs run on  *)
(* Linux, puts in the place of three system calls.  They are functions of  *)
(* their arguments: a run makes one call, and what it gives is compared    *)
(* with what the routine is for.                                           *)
(*                                                                         *)
(* Memory is a function from addresses to bytes; a string is a function    *)
(* from 0 on that has a NUL.  Registers have 4 * DIGITS bits.              *)
(***************************************************************************)
EXTENDS Integers, Sequences, SequencesExt

CONSTANTS
    MEMORY,      \* bytes of memory, at addresses from 0 on
    LENGTH,      \* bytes of a string's buffer
    DIGITS,      \* hexadecimal digits of a register: 8
    NAMELEN,     \* what execute keeps of a name, and a directory shows: 32
    COMMAND,     \* the longest command the emulation takes: 1023
    Bytes,       \* the bytes of strings; 0 is NUL
    LineBytes,   \* the characters of command lines
    Pieces       \* of formats: [text, with], the argument or <<>>

VARIABLES
    call,        \* the call that is made
    result       \* <<>>, or what it gave

bvars == <<call, result>>

Nul == 0
Space == " "
Newline == "\n"
REGISTER == 16 ^ DIGITS
Addresses == 0 .. MEMORY - 1
Strings == {s \in [0 .. LENGTH - 1 -> Bytes] : \E k \in DOMAIN s : s[k] = Nul}
Lesser(m, n) == IF m < n THEN m ELSE n
SignOf(n) == IF n < 0 THEN -1 ELSE IF n > 0 THEN 1 ELSE 0

-----------------------------------------------------------------------------
\* Memory.  One store or move of `size' bytes, as stosb to stosl and movsb
\* to movsl do it: all of it is read before any is written.
Stored(mem, at, pattern) ==
    [k \in DOMAIN mem |-> IF k \in at .. at + Len(pattern) - 1
                            THEN pattern[k - at + 1] ELSE mem[k]]
Moved(mem, to, from, size) ==
    Stored(mem, to, [k \in 1 .. size |-> mem[from + k - 1]])

\* memset and memcpy go bytewise until the destination is aligned, then in
\* double words, then bytewise: the offset and size of each of their moves.
Moves(dest, n) ==
    LET lead == Lesser(n, (4 - (dest % 4)) % 4)
        words == (n - lead) \div 4
        tail == lead + 4 * words
    IN  [k \in 1 .. lead |-> <<k - 1, 1>>]
        \o [k \in 1 .. words |-> <<lead + 4 * (k - 1), 4>>]
        \o [k \in 1 .. n - tail |-> <<tail + k - 1, 1>>]

\* c in every byte of EAX; each store takes as much of it as it is long
memset(mem, s, c, n) ==
    LET EAX == <<c, c, c, c>>
        Put(m, move) == Stored(m, s + move[1], SubSeq(EAX, 1, move[2]))
    IN  FoldLeft(Put, mem, Moves(s, n))

\* AX, and EAX, n times, the low byte first: n counts words and double words,
\* though the headers call it a number of bytes (423, 443).
memset_word(mem, s, c, n) ==
    FoldLeft(LAMBDA m, k : Stored(m, s + 2 * (k - 1), SubSeq(c, 1, 2)), mem,
             [k \in 1 .. n |-> k])
memset_dword(mem, s, c, n) ==
    FoldLeft(LAMBDA m, k : Stored(m, s + 4 * (k - 1), c), mem,
             [k \in 1 .. n |-> k])

memcpy(mem, dest, src, n) ==
    FoldLeft(LAMBDA m, move : Moved(m, dest + move[1], src + move[1], move[2]),
             mem, Moves(dest, n))

\* Mutant of memmove: always from the front.
memmove_forward(mem, dest, src, n) ==
    FoldLeft(LAMBDA m, k : Moved(m, dest + k, src + k, 1), mem,
             [k \in 1 .. n |-> k - 1])
\* from the back when the source lies before the destination.  The direction
\* flag then stays set (521), which no routine here minds: each clears it
\* before it moves a string.
memmove(mem, dest, src, n) ==
    FoldLeft(LAMBDA m, k : Moved(m, dest + k, src + k, 1), mem,
             [k \in 1 .. n |-> IF src >= dest THEN k - 1 ELSE n - k])

\* fish's own, a byte at a time from the front
ece391_memcpy(mem, dest, src, n) ==
    LET from[k \in 0 .. n] ==
            IF k = 0 THEN mem ELSE Moved(from[k - 1], dest + k - 1, src + k - 1, 1)
    IN  from[n]

-----------------------------------------------------------------------------
\* Strings
strlen(s) ==
    LET from[k \in 0 .. LENGTH] == IF s[k] # Nul THEN from[k + 1] ELSE k
    IN  from[0]

strrev(s) ==
    LET swap(t, beg, end) == [t EXCEPT ![beg] = t[end], ![end] = t[beg]]
        from[beg \in 0 .. LENGTH, t \in Strings] ==
            LET end == strlen(s) - 1 - beg
            IN  IF beg < end THEN from[beg + 1, swap(t, beg, end)] ELSE t
    IN  from[0, s]

ece391_strrev(s) == IF strlen(s) - 1 <= 0 THEN s ELSE strrev(s)

\* int8_t is signed
Signed(byte) == IF byte >= 128 THEN byte - 256 ELSE byte
strncmp(s, t, n) ==
    LET from[k \in 0 .. n] ==
            IF k = n THEN 0
            ELSE IF s[k] # t[k] \/ s[k] = Nul THEN Signed(s[k]) - Signed(t[k])
            ELSE from[k + 1]
    IN  from[0]

strcpy(dest, src) ==
    [k \in DOMAIN dest |-> IF k <= strlen(src) THEN src[k] ELSE dest[k]]

\* not ended with a NUL if the source is too long
strncpy(dest, src, n) ==
    LET copied == Lesser(strlen(src), n)
    IN  [k \in DOMAIN dest |-> IF k < copied THEN src[k]
                               ELSE IF k < n THEN Nul ELSE dest[k]]

\* The programs' own: bytes are unsigned here.
ece391_strcmp(s, t) ==
    LET from[k \in 0 .. LENGTH - 1] ==
            IF s[k] # t[k] THEN s[k] - t[k]
            ELSE IF s[k] = Nul THEN 0 ELSE from[k + 1]
    IN  from[0]

ece391_strncmp(s, t, n) ==
    LET from[k \in 0 .. LENGTH - 1, left \in 0 .. n] ==
            IF s[k] # t[k] THEN s[k] - t[k]
            ELSE IF s[k] = Nul \/ left = 1 THEN 0 ELSE from[k + 1, left - 1]
    IN  IF n = 0 THEN 0 ELSE from[0, n]

-----------------------------------------------------------------------------
\* Numbers.  The digits come lowest first, and are reversed.
lookup == <<"0", "1", "2", "3", "4", "5", "6", "7", "8", "9", "A", "B", "C",
            "D", "E", "F">>
itoa(value, radix) ==
    LET from[newval \in 0 .. REGISTER - 1] ==
            IF newval = 0 THEN <<>>
            ELSE <<lookup[(newval % radix) + 1]>> \o from[newval \div radix]
    IN  IF value = 0 THEN <<"0">> ELSE Reverse(from[value])

\* the same again for programs
ece391_itoa(value, radix) == itoa(value, radix)

\* %#x: zeros from strlen(digits) to 8, where the digits begin
Padded(digits) ==
    [k \in 1 .. DIGITS - Len(digits) |-> "0"] \o digits
Negative(value) == value >= REGISTER \div 2

Converted(letter, alternate, arg) ==
    CASE letter = "x" -> IF alternate THEN Padded(itoa(arg, 16)) ELSE itoa(arg, 16)
      [] letter = "u" -> itoa(arg, 10)
      [] letter = "d" -> IF Negative(arg)
                           THEN <<"-">> \o itoa((REGISTER - arg) % REGISTER, 10)
                           ELSE itoa(arg, 10)
      [] letter = "c" -> <<arg>>
      [] letter = "s" -> arg

\* printf: what it puts, for the format and the words above it on the stack.
\* A format that ends within a conversion, which the code reads past its NUL
\* (252), is none it is called with.
printf(format, args) ==
    LET Char(k) == IF k <= Len(format) THEN format[k] ELSE "end"
        from[k \in 1 .. Len(format) + 1, esp \in 1 .. Len(args) + 1,
             conversion \in {"none", "%", "#"}] ==
            LET ch == Char(k) IN
            CASE ch = "end" -> <<>>
              [] ch # "end" /\ conversion = "none" ->
                    IF ch = "%" THEN from[k + 1, esp, "%"]
                    ELSE <<ch>> \o from[k + 1, esp, "none"]
              [] ch # "end" /\ conversion # "none" ->
                    IF ch = "%" THEN <<"%">> \o from[k + 1, esp, "none"]
                    ELSE IF ch = "#" THEN from[k + 1, esp, "#"]
                    ELSE IF ch \in {"x", "u", "d", "c", "s"}
                      THEN Converted(ch, conversion = "#", args[esp])
                             \o from[k + 1, esp + 1, "none"]
                    ELSE from[k + 1, esp, "none"]
    IN  from[1, 1, "none"]

-----------------------------------------------------------------------------
\* execute's two words.  The line ends with NUL, or a newline: here its end.
Until(line, k, stops) ==
    CHOOSE e \in k .. Len(line) + 1 :
        /\ e > Len(line) \/ line[e] \in stops
        /\ \A j \in k .. e - 1 : line[j] \notin stops
NotSpace == LineBytes \ {Space}
Ends == {Space, Newline}

parse(line) ==
    LET name == Until(line, 1, NotSpace)
        rest == Lesser(Until(line, name, Ends), name + NAMELEN)
        arg == Until(line, rest, NotSpace)
    IN  <<SubSeq(line, name, rest - 1),
          SubSeq(line, arg, Until(line, arg, Ends) - 1)>>

-----------------------------------------------------------------------------
\* The emulation.  Its execute takes all words, and begins with the one at the
\* very front of the line, which is empty if that is a space.
emulated_execute(line) ==
    LET from[k \in 1 .. Len(line) + 2] ==
            LET word == Until(line, k, NotSpace)
                end == Until(line, word, Ends)
            IN  IF k > Len(line) THEN <<>>
                ELSE IF word > Len(line) \/ line[word] = Newline THEN <<>>
                ELSE <<SubSeq(line, word, end - 1)>> \o from[end + 1]
        first == Until(line, 1, Ends)
    IN  IF Len(line) > COMMAND THEN <<>>
        ELSE <<SubSeq(line, 1, first - 1)>> \o from[first + 1]

\* <<>> when the words, the spaces between them and the NUL do not fit
emulated_getargs(words, nbytes) ==
    LET from[k \in DOMAIN words, left \in 0 .. nbytes] ==
            LET room == left - Len(words[k])
                later == from[k + 1, room - 1]
            IN  IF room < 1 THEN <<>>
                ELSE IF k = Len(words) THEN <<words[k]>>
                ELSE IF later = <<>> THEN <<>>
                ELSE <<words[k] \o <<Space>> \o later[1]>>
    IN  IF words # <<>> THEN from[1, nbytes]
        ELSE IF nbytes < 1 THEN <<>> ELSE << <<>> >>

\* a read of the directory: the name, and then NULs
emulated_read(name, nbytes) ==
    LET from[copied \in 0 .. Len(name)] ==
            IF copied = Len(name)
              THEN [k \in 1 .. Lesser(nbytes, NAMELEN) - copied |-> Nul]
            ELSE IF copied + 1 \in {nbytes, NAMELEN} THEN <<name[copied + 1]>>
            ELSE <<name[copied + 1]>> \o from[copied + 1]
    IN  from[0]

-----------------------------------------------------------------------------
Numbered == [k \in Addresses |-> k]
Fits(at, n) == at + n <= MEMORY

Init ==
    /\ result = <<>>
    /\ \/ \E op \in {"memset", "memset_word", "memset_dword"}, s, n \in 0 .. MEMORY :
            /\ Fits(s, n * (CASE op = "memset" -> 1 [] op = "memset_word" -> 2
                              [] op = "memset_dword" -> 4))
            /\ call = [op |-> op, s |-> s, n |-> n]
       \/ \E op \in {"memcpy", "memmove", "ece391_memcpy"}, dest, src, n \in 0 .. MEMORY :
            /\ Fits(dest, n) /\ Fits(src, n)
            /\ call = [op |-> op, dest |-> dest, src |-> src, n |-> n]
       \/ \E op \in {"strlen", "strrev", "ece391_strrev"}, s \in Strings :
            call = [op |-> op, s |-> s]
       \/ \E op \in {"strncmp", "ece391_strncmp", "strncpy"}, s, t \in Strings,
             n \in 0 .. LENGTH :
            call = [op |-> op, s |-> s, t |-> t, n |-> n]
       \/ \E op \in {"ece391_strcmp", "strcpy"}, s, t \in Strings :
            call = [op |-> op, s |-> s, t |-> t]
       \/ \E p, q \in Pieces, between \in {<<>>, <<"a">>, <<"%", "%">>} :
            call = [op |-> "printf", p |-> p, between |-> between, q |-> q]
       \/ \E value \in 0 .. REGISTER - 1, radix \in {10, 16} :
            call = [op |-> "ece391_itoa", value |-> value, radix |-> radix]
       \/ \E op \in {"parse", "emulated_execute"}, n \in 0 .. NAMELEN + 4 :
            \E line \in [1 .. n -> LineBytes] : call = [op |-> op, line |-> line]
       \/ \E n \in 0 .. 3, nbytes \in 0 .. 7 :
            \E words \in [1 .. n -> {<<"a">>, <<"b", "c">>}] :
                call = [op |-> "emulated_getargs", words |-> words, n |-> nbytes]
       \/ \E len, nbytes \in 1 .. NAMELEN + 2 :
            call = [op |-> "emulated_read", name |-> [k \in 1 .. len |-> k],
                    n |-> nbytes]

Return ==
    /\ result = <<>>
    /\ LET Is(op) == call.op = op IN
       result' = <<
         CASE Is("memset") -> memset(Numbered, call.s, -1, call.n)
           [] Is("memset_word") ->
                memset_word(Numbered, call.s, <<-1, -2, -3, -4>>, call.n)
           [] Is("memset_dword") ->
                memset_dword(Numbered, call.s, <<-1, -2, -3, -4>>, call.n)
           [] Is("memcpy") -> memcpy(Numbered, call.dest, call.src, call.n)
           [] Is("memmove") -> memmove(Numbered, call.dest, call.src, call.n)
           [] Is("ece391_memcpy") ->
                ece391_memcpy(Numbered, call.dest, call.src, call.n)
           [] Is("strlen") -> strlen(call.s)
           [] Is("strrev") -> strrev(call.s)
           [] Is("ece391_strrev") -> ece391_strrev(call.s)
           [] Is("ece391_itoa") -> ece391_itoa(call.value, call.radix)
           [] Is("strncmp") -> strncmp(call.s, call.t, call.n)
           [] Is("ece391_strncmp") -> ece391_strncmp(call.s, call.t, call.n)
           [] Is("ece391_strcmp") -> ece391_strcmp(call.s, call.t)
           [] Is("strcpy") -> strcpy(call.s, call.t)
           [] Is("strncpy") -> strncpy(call.s, call.t, call.n)
           [] Is("printf") ->
                printf(call.p.text \o call.between \o call.q.text,
                       call.p.with \o call.q.with)
           [] Is("parse") -> parse(call.line)
           [] Is("emulated_execute") -> emulated_execute(call.line)
           [] Is("emulated_getargs") -> emulated_getargs(call.words, call.n)
           [] Is("emulated_read") -> emulated_read(call.name, call.n) >>
    /\ UNCHANGED call

Next == Return

-----------------------------------------------------------------------------
\* What the routines are for, said without following them.
Filled(s, size, n, pattern) ==
    [k \in Addresses |-> IF k \in s .. s + size * n - 1
                           THEN pattern[((k - s) % size) + 1] ELSE k]
Copied == [k \in Addresses |-> IF k \in call.dest .. call.dest + call.n - 1
                                 THEN k - call.dest + call.src ELSE k]

\* A string as a sequence without its end.
Text(s) ==
    LET len == CHOOSE n \in DOMAIN s : s[n] = Nul /\ \A k \in 0 .. n - 1 : s[k] # Nul
    IN  [k \in 1 .. len |-> s[k - 1]]
First(s, n) == SubSeq(Text(s), 1, Lesser(n, Len(Text(s))))

\* Equal, or the sign of the first difference, where the end counts as 0.
Order(a, b, Value(_)) ==
    LET At(s, k) == IF k <= Len(s) THEN Value(s[k]) ELSE 0
        differ == {k \in 1 .. Len(a) + Len(b) : At(a, k) # At(b, k)}
    IN  IF differ = {} THEN 0
        ELSE LET k == CHOOSE d \in differ : \A e \in differ : d <= e
             IN  SignOf(At(a, k) - At(b, k))
AsSigned(byte) == IF byte > 127 THEN byte - 256 ELSE byte
AsIs(byte) == byte

\* The places of a number from the highest down.
Places(value, radix, n) ==
    [k \in 1 .. n |-> lookup[((value \div radix ^ (n - k)) % radix) + 1]]
Number(value, radix) ==
    Places(value, radix,
           CHOOSE n \in 1 .. 4 * DIGITS :
               /\ value < radix ^ n
               /\ n = 1 \/ value >= radix ^ (n - 1))

Meaning(piece) ==
    LET Is(text) == piece.text = text
        value == piece.with[1]
    IN  CASE Is(<<"%", "x">>) -> Number(value, 16)
          [] Is(<<"%", "#", "x">>) -> Places(value, 16, DIGITS)
          [] Is(<<"%", "u">>) -> Number(value, 10)
          [] Is(<<"%", "d">>) ->
                IF value < REGISTER \div 2 THEN Number(value, 10)
                ELSE <<"-">> \o Number(REGISTER - value, 10)
          [] Is(<<"%", "c">>) -> <<value>>
          [] Is(<<"%", "s">>) -> value
          [] Is(<<"%", "%">>) -> <<"%">>
          [] OTHER -> piece.text

\* The words of the line, up to a newline.
Words(line) ==
    LET lineEnd == SelectInSeq(line, LAMBDA ch : ch = Newline)
        text == IF lineEnd = 0 THEN line ELSE SubSeq(line, 1, lineEnd - 1)
        IsWord(i, j) ==
            /\ \A k \in i .. j : text[k] # Space
            /\ i = 1 \/ text[i - 1] = Space
            /\ j = Len(text) \/ text[j + 1] = Space
        words == {ij \in (1 .. Len(text)) \X (1 .. Len(text)) :
                     ij[1] <= ij[2] /\ IsWord(ij[1], ij[2])}
        sorted == SetToSortSeq(words, LAMBDA v, w : v[1] < w[1])
    IN  [k \in 1 .. Len(sorted) |-> SubSeq(text, sorted[k][1], sorted[k][2])]
Joined(words) ==
    FlattenSeq([k \in DOMAIN words |->
                  IF k = 1 THEN words[k] ELSE <<Space>> \o words[k]])
OneLine(line) == \A k \in 1 .. Len(line) - 1 : line[k] # Newline
Word(line, k) == IF k <= Len(Words(line)) THEN Words(line)[k] ELSE <<>>

\* Each routine does what it is called for, for every alignment, overlap,
\* length and value: memory outside what was asked for is not touched, and
\* memmove's copy is right for any overlap, memcpy's for a destination below
\* or beyond its source; texts are compared, copied and reversed to their
\* ends, and no further than n; a number is printed in all its digits, the
\* least one too; each conversion of a format takes its own argument.  The n
\* of memset_word and memset_dword is taken as the code takes it, as a number
\* of words and double words; their headers say bytes (423, 443).  A
\* command's name and argument are its first two words, and of a name that
\* is too long the rest is taken for the argument.  The emulation passes on
\* all words of a line, whose first character belongs to the name, gives a
\* program its words or refuses, and shows names in 32 bytes or fewer.
LibraryKeepsPromises ==
    \A given \in ToSet(result) :
      LET Is(op) == call.op = op IN
      /\ Is("memset") => given = Filled(call.s, 1, call.n, <<-1>>)
      /\ Is("memset_word") => given = Filled(call.s, 2, call.n, <<-1, -2>>)
      /\ Is("memset_dword") =>
            given = Filled(call.s, 4, call.n, <<-1, -2, -3, -4>>)
      /\ (Is("memcpy") \/ Is("ece391_memcpy"))
            /\ (call.dest <= call.src \/ call.dest >= call.src + call.n)
            => given = Copied
      /\ Is("memmove") => given = Copied
      /\ Is("strlen") => given = Len(Text(call.s))
      /\ (Is("strrev") \/ Is("ece391_strrev")) => Text(given) = Reverse(Text(call.s))
      /\ Is("strncmp") => SignOf(given) =
            Order(First(call.s, call.n), First(call.t, call.n), AsSigned)
      /\ Is("ece391_strncmp") => SignOf(given) =
            Order(First(call.s, call.n), First(call.t, call.n), AsIs)
      /\ Is("ece391_strcmp") =>
            SignOf(given) = Order(Text(call.s), Text(call.t), AsIs)
      /\ Is("strcpy") =>
            /\ Text(given) = Text(call.t)
            /\ \A k \in DOMAIN given :
                  k > Len(Text(call.t)) => given[k] = call.s[k]
      /\ Is("strncpy") =>
            LET kept == First(call.t, call.n) IN
            \A k \in DOMAIN given :
                given[k] = IF k >= call.n THEN call.s[k]
                            ELSE IF k < Len(kept) THEN kept[k + 1] ELSE Nul
      /\ Is("ece391_itoa") => given = Number(call.value, call.radix)
      /\ Is("printf") =>
            given = Meaning(call.p)
                     \o (IF call.between = <<"a">> THEN <<"a">>
                         ELSE IF call.between = <<>> THEN <<>> ELSE <<"%">>)
                     \o Meaning(call.q)
      /\ Is("parse") =>
            LET first == Word(call.line, 1) IN
            given = IF Len(first) <= NAMELEN
                       THEN <<first, Word(call.line, 2)>>
                       ELSE <<SubSeq(first, 1, NAMELEN),
                              SubSeq(first, NAMELEN + 1, Len(first))>>
      /\ Is("emulated_execute") /\ OneLine(call.line) =>
            LET words == Words(call.line) IN
            given = IF Len(call.line) > COMMAND THEN <<>>
                    ELSE IF words # <<>> /\ call.line[1] # Space THEN words
                    ELSE << <<>> >> \o words
      /\ Is("emulated_getargs") =>
            given = IF Len(Joined(call.words)) < call.n THEN <<Joined(call.words)>>
                    ELSE <<>>
      /\ Is("emulated_read") =>
            given = [k \in 1 .. Lesser(call.n, NAMELEN) |->
                        IF k <= Len(call.name) THEN call.name[k] ELSE Nul]
=============================================================================
