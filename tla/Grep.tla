-------------------------------- MODULE Grep --------------------------------
(***************************************************************************)
(* The line buffer of grep (do_one_file of ece391grep.c) over file_read:   *)
(* it is refilled behind the unfinished line, which is moved to its front. *)
(***************************************************************************)
EXTENDS Strings

CONSTANTS
  BUFSIZE,
  Files,     \* the contents of the files
  Patterns,  \* what is searched for: getargs gives no empty one
  Garbage,   \* what the buffer may hold before anything is read
  EOL        \* '\n'

ASSUME GrepAssumption ==
  /\ BUFSIZE \in Nat \ {0}
  /\ EOL \in Characters \ {NUL}
  /\ Files \subseteq Seq(Characters) /\ Garbage \subseteq Characters
  /\ Patterns \subseteq Seq(Characters \ {NUL}) \ {<<>>}

VARIABLES
  file, pattern,
  garbage,               \* what the buffer held before anything was read
  position,              \* of the descriptor in the file
  line, filled, line_start, \* data[BUFSIZE + 1], last, line_start
  got,                   \* cnt, what the last read returned
  grepping,              \* "reading", "lines", "closed"
  printed                \* the lines printed behind the file's name

grepVars == <<file, pattern, garbage, position, line, filled, line_start, got, grepping, printed>>

GrepInit ==
  /\ file \in Files
  /\ pattern \in Patterns
  /\ position = 0
  /\ garbage \in Garbage
  /\ line = [i \in 0 .. BUFSIZE |-> garbage]
  /\ filled = 0 /\ line_start = 0 /\ got = 0
  /\ grepping = "reading"
  /\ printed = <<>>

\* read(fd, data + last, BUFSIZE - last) of a file that is not damaged.
Refill ==
  LET room == BUFSIZE - filled
      rest == Len(file) - position
      n    == IF rest < room THEN rest ELSE room
  IN
  /\ grepping = "reading"
  /\ line' = [i \in 0 .. BUFSIZE |-> IF i \in filled .. filled + n - 1
                                     THEN file[position + i - filled + 1] ELSE line[i]]
  /\ filled' = filled + n
  /\ position' = position + n
  /\ got' = n
  /\ line_start' = 0
  /\ grepping' = "lines"
  /\ UNCHANGED printed

\* The end of the line: its newline, or the end of what was read.
line_end ==
  CHOOSE e \in line_start .. filled :
    /\ \A i \in line_start .. e - 1 : line[i] # EOL
    /\ e = filled \/ line[e] = EOL

NeverUnfinished == FALSE                             \* mutant

\* The place data[last], behind what was read, is looked at too.
Unfinished == line[line_end] # EOL /\ got # 0 /\ line_start # 0

\* data[line_end] = '\0'.
Ended == [line EXCEPT ![line_end] = NUL]

\* data + place.
From(place, bytes) == [k \in 0 .. BUFSIZE - place |-> bytes[place + k]]

\* The unfinished line is copied to the front (strcpy) and read on behind it.
KeepUnfinished ==
  /\ grepping = "lines"
  /\ Unfinished
  /\ line' = ece391_strcpy(Ended, From(line_start, Ended))
  /\ filled' = filled - line_start
  /\ grepping' = "reading"
  /\ UNCHANGED <<position, line_start, got, printed>>

\* What is printed of the line, and whether the pattern begins at one of its
\* places.
LineText == TextOf(From(line_start, Ended))
Found ==
  \E check \in line_start .. line_end - 1 :
    ece391_strncmp(From(check, Ended),
                   Buffer(pattern, <<>>), Len(pattern))

\* The line is searched. Behind the last one the buffer is empty again; after
\* a read of nothing the file is closed.
SearchLine ==
  /\ grepping = "lines"
  /\ ~Unfinished
  /\ printed' = IF Found THEN Append(printed, LineText) ELSE printed
  /\ line' = Ended
  /\ line_start' = line_end + 1
  /\ IF line_end + 1 >= filled
     THEN /\ filled' = 0
          /\ grepping' = IF got = 0 THEN "closed" ELSE "reading"
     ELSE UNCHANGED <<filled, grepping>>
  /\ UNCHANGED <<position, got>>

GrepNext ==
  /\ Refill \/ KeepUnfinished \/ SearchLine
  /\ UNCHANGED <<file, pattern, garbage>>

GrepSpec == GrepInit /\ [][GrepNext]_grepVars

-----------------------------------------------------------------------------

\* The places where the lines of a text begin, and the line there.
Starts(text) == {p \in 1 .. Len(text) : p = 1 \/ text[p - 1] = EOL}
LineAt(text, p) ==
  LET end == CHOOSE e \in p - 1 .. Len(text) :
               /\ \A j \in p .. e : text[j] # EOL
               /\ e = Len(text) \/ text[e + 1] = EOL
  IN SubSeq(text, p, end)

Occurs(word, text) ==
  \E j \in 1 .. Len(text) - Len(word) + 1 :
    SubSeq(text, j, j + Len(word) - 1) = word

\* The lines with the word, in order.
MatchingLines(word, text) ==
  LET upto[p \in 0 .. Len(text)] ==
        IF p = 0 THEN <<>>
        ELSE IF p \in Starts(text) /\ Occurs(word, LineAt(text, p))
             THEN Append(upto[p - 1], LineAt(text, p))
             ELSE upto[p - 1]
  IN upto[Len(text)]

\* A text whose lines are shorter than the buffer.
IsText ==
  /\ \A i \in 1 .. Len(file) : file[i] # NUL
  /\ \A p \in Starts(file) : Len(LineAt(file, p)) < BUFSIZE

\* With lines shorter than the buffer grep prints every line with the pattern
\* once and in order, wherever the refills cut the file and whether a newline
\* ends it, unless the byte behind the buffer, which nothing has set when the
\* buffer is filled for the first time, happens to be '\n'.
EachMatchOnce ==
  grepping = "closed" /\ garbage # EOL /\ IsText =>
    printed = MatchingLines(pattern, file)

=============================================================================
