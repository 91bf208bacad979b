----------------------------- MODULE GrepProofs -----------------------------
(***************************************************************************)
(* Proofs about grep, for every size of its buffer, every file and every   *)
(* pattern.                                                                *)
(***************************************************************************)
EXTENDS Grep, TextProofs

-----------------------------------------------------------------------------
(* Grep: the buffer and the file *)

GrepMemory ==
  /\ file \in Seq(Characters)
  /\ pattern \in Seq(Characters \ {NUL}) /\ pattern # <<>>
  /\ line \in [0 .. BUFSIZE -> Characters]
  /\ filled \in 0 .. BUFSIZE /\ position \in 0 .. Len(file)
  /\ line_start \in Nat /\ got \in Nat
  /\ grepping \in {"reading", "lines", "closed"}
  /\ grepping = "lines" => line_start <= filled

Regular == garbage # EOL /\ IsText

\* How many bytes of the file went by before the buffer's.
Base == position - filled

\* From here on a line is read, or nothing is left.
Begins(text, p) == p \in Starts(text) \/ p = Len(text) + 1

\* The lines before place p + 1 that have the word.
MatchedUpTo(f, word, text, n) ==
  f = [p \in 0 .. n |->
         IF p = 0 THEN <<>>
         ELSE IF p \in Starts(text) /\ Occurs(word, LineAt(text, p))
              THEN Append(f[p - 1], LineAt(text, p))
              ELSE f[p - 1]]
Matched(word, text, p) == (CHOOSE f : MatchedUpTo(f, word, text, Len(text)))[p]

\* The bytes of the file from place first of the buffer on; the lines before
\* are searched.
Holds(first) ==
  /\ first <= filled /\ filled <= position
  /\ \A k \in first .. filled - 1 : line[k] = file[Base + k + 1]
  /\ Begins(file, Base + first + 1)
  /\ printed = Matched(pattern, file, Base + first)

\* A newline in the buffer is one that was read and not yet searched for: what
\* lies elsewhere in it is no line.
Newlines ==
  \A k \in 0 .. BUFSIZE :
    line[k] = EOL => grepping = "lines" /\ line_start <= k /\ k < filled

GInv ==
  /\ GrepMemory
  /\ Regular =>
       /\ Newlines
       /\ grepping = "reading" => Holds(0)
       /\ grepping = "lines" =>
            /\ Holds(line_start)
            /\ filled < BUFSIZE \/ got = 0 => position = Len(file)
       /\ grepping = "closed" => printed = Matched(pattern, file, Len(file))

-----------------------------------------------------------------------------
(* Grep: lines of a text *)

\* Nothing but the line that begins at place p lies before place stop + 1.
IsLine(text, p, stop) ==
  /\ p - 1 <= stop /\ stop <= Len(text)
  /\ \A j \in p .. stop : text[j] # EOL
  /\ stop = Len(text) \/ text[stop + 1] = EOL

LEMMA LineAtIs ==
  ASSUME NEW text, Len(text) \in Nat, NEW p \in Nat \ {0}, NEW stop \in Nat,
         IsLine(text, p, stop)
  PROVE  LineAt(text, p) = SubSeq(text, p, stop)
  <1> DEFINE Is(e) == /\ \A j \in p .. e : text[j] # EOL
                      /\ e = Len(text) \/ text[e + 1] = EOL
  <1>1. stop \in p - 1 .. Len(text) /\ Is(stop)
    BY DEF IsLine
  <1>2. \A e \in p - 1 .. Len(text) : Is(e) => e = stop
    <2> SUFFICES ASSUME NEW e \in p - 1 .. Len(text), Is(e), e # stop PROVE FALSE
      OBVIOUS
    <2>1. CASE e < stop
      <3>1. e + 1 \in p .. stop /\ e # Len(text)
        BY <1>1, <2>1
      <3>2. QED
        BY <1>1, <3>1
    <2>2. CASE e > stop
      <3>1. stop + 1 \in p .. e /\ stop # Len(text)
        BY <1>1, <2>2
      <3>2. QED
        BY <1>1, <3>1
    <2>3. QED
      BY <1>1, <2>1, <2>2
  <1>3. stop = CHOOSE e \in p - 1 .. Len(text) : Is(e)
    <2> HIDE DEF Is
    <2>1. QED
      BY <1>1, <1>2
  <1>4. QED
    BY <1>3, Zenon DEF LineAt

\* Every line has an end.
LEMMA LineEnds ==
  ASSUME NEW text, Len(text) \in Nat, NEW p \in 1 .. Len(text)
  PROVE  \E stop \in Nat : IsLine(text, p, stop)
  <1> DEFINE Stops == {e \in Nat : /\ p - 1 <= e
                                   /\ e = Len(text) \/ (e < Len(text) /\ text[e + 1] = EOL)}
  <1>1. PICK stop \in Stops : \A e \in Stops : stop <= e
    <2>1. Len(text) \in Stops /\ Stops \subseteq Nat
      OBVIOUS
    <2> HIDE DEF Stops
    <2>2. QED
      BY <2>1, LeastNumber
  <1>2. stop \in Nat /\ p - 1 <= stop /\ stop <= Len(text)
        /\ (stop = Len(text) \/ text[stop + 1] = EOL)
    BY <1>1
  <1>3. \A j \in p .. stop : text[j] # EOL
    <2> SUFFICES ASSUME NEW j \in p .. stop, text[j] = EOL PROVE FALSE
      OBVIOUS
    <2>1. j - 1 \in Stops
      BY <1>2
    <2>2. QED
      BY <1>1, <1>2, <2>1
  <1>4. QED
    BY <1>2, <1>3 DEF IsLine

\* So many places without a newline belong to one line.
LEMMA LineIsAsLong ==
  ASSUME NEW text, Len(text) \in Nat, NEW p \in 1 .. Len(text), NEW count \in Nat,
         p + count <= Len(text) + 1, \A j \in p .. p + count - 1 : text[j] # EOL
  PROVE  count <= Len(LineAt(text, p))
  <1>1. PICK stop \in Nat : IsLine(text, p, stop)
    BY LineEnds
  <1>2. p - 1 <= stop /\ stop <= Len(text) /\ (stop = Len(text) \/ text[stop + 1] = EOL)
    BY <1>1 DEF IsLine
  <1>3. p + count - 1 <= stop
    <2> SUFFICES ASSUME p + count - 1 > stop PROVE FALSE
      BY <1>2
    <2>1. stop + 1 \in p .. p + count - 1 /\ stop # Len(text)
      BY <1>2
    <2>2. QED
      BY <1>2, <2>1
  <1>4. LineAt(text, p) = SubSeq(text, p, stop)
    BY <1>1, LineAtIs
  <1>5. Len(SubSeq(text, p, stop)) = stop - p + 1
    <2>1. SubSeq(text, p, stop) = [k \in 1 .. stop - p + 1 |-> text[k + p - 1]]
      BY <1>2 DEF SubSeq
    <2>2. stop - p + 1 \in Nat
      BY <1>2
    <2>3. QED
      BY <2>1, <2>2
  <1>6. QED
    BY <1>2, <1>3, <1>4, <1>5

LEMMA MatchedExists ==
  ASSUME NEW word, NEW text, NEW len \in Nat
  PROVE  \E f : MatchedUpTo(f, word, text, len)
  <1> DEFINE S == {m \in Nat : \E f : MatchedUpTo(f, word, text, m)}
             Hit(p) == p \in Starts(text) /\ Occurs(word, LineAt(text, p))
  <1>1. 0 \in S
    <2> DEFINE f == [p \in 0 .. 0 |-> <<>>]
    <2>1. MatchedUpTo(f, word, text, 0)
      BY DEF MatchedUpTo
    <2>2. QED
      BY <2>1
  <1>2. ASSUME NEW m \in Nat, m \in S PROVE m + 1 \in S
    <2>1. PICK f : MatchedUpTo(f, word, text, m)
      BY <1>2
    <2> DEFINE next == IF Hit(m + 1) THEN Append(f[m], LineAt(text, m + 1)) ELSE f[m]
               g == [p \in 0 .. m + 1 |-> IF p = m + 1 THEN next ELSE f[p]]
    <2>2. \A p \in 0 .. m : g[p] = f[p]
      OBVIOUS
    <2>3. ASSUME NEW p \in 0 .. m + 1
          PROVE  g[p] = IF p = 0 THEN <<>>
                        ELSE IF Hit(p) THEN Append(g[p - 1], LineAt(text, p)) ELSE g[p - 1]
      <3>1. CASE p = m + 1
        <4>1. g[p] = next /\ p # 0 /\ p - 1 = m /\ g[m] = f[m]
          BY <2>2, <3>1
        <4> HIDE DEF g, Hit
        <4>2. QED
          BY <3>1, <4>1, Zenon
      <3>2. CASE p # m + 1
        <4>1. p \in 0 .. m /\ (p # 0 => p - 1 \in 0 .. m)
          BY <3>2
        <4>2. f[p] = IF p = 0 THEN <<>>
                     ELSE IF Hit(p) THEN Append(f[p - 1], LineAt(text, p)) ELSE f[p - 1]
          BY <2>1, <4>1, Zenon DEF MatchedUpTo
        <4> HIDE DEF g, Hit
        <4>3. QED
          BY <2>2, <4>1, <4>2, Zenon
      <3>3. QED
        BY <3>1, <3>2
    <2>4. DOMAIN g = 0 .. m + 1 /\ g = [p \in DOMAIN g |-> g[p]]
      OBVIOUS
    <2> HIDE DEF g
    <2>5. MatchedUpTo(g, word, text, m + 1)
      BY <2>3, <2>4, Zenon DEF MatchedUpTo
    <2>6. QED
      BY <2>5
  <1> HIDE DEF S
  <1>3. Nat \subseteq S
    BY <1>1, <1>2, Induction
  <1>4. QED
    BY <1>3 DEF S

LEMMA MatchedIs ==
  ASSUME NEW word, NEW text, Len(text) \in Nat, NEW p \in 0 .. Len(text)
  PROVE  Matched(word, text, p) =
           IF p = 0 THEN <<>>
           ELSE IF p \in Starts(text) /\ Occurs(word, LineAt(text, p))
                THEN Append(Matched(word, text, p - 1), LineAt(text, p))
                ELSE Matched(word, text, p - 1)
  <1> DEFINE the == CHOOSE f : MatchedUpTo(f, word, text, Len(text))
  <1>1. MatchedUpTo(the, word, text, Len(text))
    BY MatchedExists
  <1>2. \A q : Matched(word, text, q) = the[q]
    BY DEF Matched
  <1> HIDE DEF the
  <1>3. QED
    BY <1>1, <1>2, Zenon DEF MatchedUpTo

LEMMA MatchingIs ==
  ASSUME NEW word, NEW text
  PROVE  MatchingLines(word, text) = Matched(word, text, Len(text))
  BY Zenon DEF MatchingLines, Matched, MatchedUpTo

LEMMA NoLineBegins ==
  ASSUME NEW word, NEW text, Len(text) \in Nat, NEW p \in 1 .. Len(text),
         NEW q \in p .. Len(text), \A j \in p .. q - 1 : text[j] # EOL
  PROVE  Matched(word, text, q) = Matched(word, text, p)
  <1> DEFINE Bad == {r \in Nat : /\ p <= r /\ r <= q
                                 /\ Matched(word, text, r) # Matched(word, text, p)}
  <1>1. SUFFICES ASSUME Bad # {} PROVE FALSE
    OBVIOUS
  <1>2. PICK r \in Bad : \A v \in Bad : r <= v
    <2>1. Bad \subseteq Nat
      OBVIOUS
    <2> HIDE DEF Bad
    <2>2. QED
      BY <1>1, <2>1, LeastNumber
  <1>3. /\ r \in Nat /\ p <= r /\ r <= q
        /\ Matched(word, text, r) # Matched(word, text, p)
    BY <1>2
  <1>4. r # p /\ r - 1 \in p .. q - 1 /\ r \in 0 .. Len(text) /\ r # 0 /\ r # 1
    BY <1>3
  <1>5. r \notin Starts(text)
    BY <1>4 DEF Starts
  <1>6. Matched(word, text, r) = Matched(word, text, r - 1)
    BY <1>4, <1>5, MatchedIs
  <1>7. r - 1 \notin Bad
    BY <1>2, <1>3
  <1>8. Matched(word, text, r - 1) = Matched(word, text, p)
    BY <1>3, <1>4, <1>7
  <1>9. QED
    BY <1>3, <1>6, <1>8

\* Behind the end of a line, or of its newline, the line has been searched.
LEMMA LineSearched ==
  ASSUME NEW word, NEW text, Len(text) \in Nat, NEW p \in Starts(text),
         NEW stop \in Nat, IsLine(text, p, stop),
         NEW q \in p .. Len(text), q = stop \/ q = stop + 1
  PROVE  Matched(word, text, q) =
           IF Occurs(word, LineAt(text, p))
           THEN Append(Matched(word, text, p - 1), LineAt(text, p))
           ELSE Matched(word, text, p - 1)
  <1>1. p \in 1 .. Len(text) /\ p \in 0 .. Len(text) /\ p # 0
    BY DEF Starts
  <1>2. \A j \in p .. q - 1 : text[j] # EOL
    BY <1>1 DEF IsLine
  <1>3. Matched(word, text, q) = Matched(word, text, p)
    BY <1>1, <1>2, NoLineBegins
  <1>4. QED
    BY <1>1, <1>3, MatchedIs

-----------------------------------------------------------------------------
(* Grep: a line in the buffer *)

LEMMA LineEndIs ==
  ASSUME GrepMemory, line_start <= filled
  PROVE  /\ line_end \in line_start .. filled
         /\ \A k \in line_start .. line_end - 1 : line[k] # EOL
         /\ line_end = filled \/ line[line_end] = EOL
  <1> DEFINE Stops == {e \in Nat : /\ line_start <= e
                                   /\ e = filled \/ (e < filled /\ line[e] = EOL)}
  <1>1. filled \in Nat /\ line_start \in Nat
    BY DEF GrepMemory
  <1>2. PICK e \in Stops : \A k \in Stops : e <= k
    <2>1. filled \in Stops /\ Stops \subseteq Nat
      BY <1>1
    <2> HIDE DEF Stops
    <2>2. QED
      BY <2>1, LeastNumber
  <1>3. e \in line_start .. filled /\ (e = filled \/ line[e] = EOL)
    BY <1>1, <1>2
  <1>4. \A k \in line_start .. e - 1 : line[k] # EOL
    <2> SUFFICES ASSUME NEW k \in line_start .. e - 1, line[k] = EOL PROVE FALSE
      OBVIOUS
    <2>1. k \in Stops
      BY <1>1, <1>3
    <2>2. QED
      BY <1>1, <1>2, <1>3, <2>1
  <1>5. QED
    BY <1>3, <1>4 DEF line_end

LEMMA EndedIs ==
  ASSUME GrepMemory, line_start <= filled
  PROVE  /\ Ended \in [0 .. BUFSIZE -> Characters]
         /\ Ended[line_end] = NUL
         /\ \A k \in 0 .. BUFSIZE : k # line_end => Ended[k] = line[k]
  <1>1. /\ line_end \in 0 .. BUFSIZE /\ NUL \in Characters
        /\ line \in [0 .. BUFSIZE -> Characters]
    <2>1. line_end \in line_start .. filled
      BY LineEndIs
    <2>2. line_start \in Nat /\ filled \in 0 .. BUFSIZE /\ line \in [0 .. BUFSIZE -> Characters]
      BY DEF GrepMemory
    <2>3. QED
      BY <2>1, <2>2, StringsAssumption, GrepAssumption
  <1>2. QED
    BY <1>1 DEF Ended

\* The bytes from a place of the line on, up to the NUL at its end.
LEMMA FromIs ==
  ASSUME GrepMemory, line_start <= filled, NEW place \in line_start .. line_end
  PROVE  /\ From(place, Ended) \in [0 .. BUFSIZE - place -> Characters]
         /\ BUFSIZE - place \in Nat /\ line_end - place \in 0 .. BUFSIZE - place
         /\ From(place, Ended)[line_end - place] = NUL
         /\ \A k \in 0 .. line_end - place - 1 : From(place, Ended)[k] = line[place + k]
         /\ (\A k \in line_start .. line_end - 1 : line[k] # NUL)
              => strlen(From(place, Ended)) = line_end - place
  <1> DEFINE src == From(place, Ended)
             stop == line_end
             top == BUFSIZE - place
  <1>1. /\ stop \in Nat /\ stop <= BUFSIZE /\ line_start \in Nat /\ BUFSIZE \in Nat
        /\ stop \in line_start .. filled
    BY LineEndIs, GrepAssumption DEF GrepMemory
  <1> HIDE DEF stop
  <1>2. place \in Nat /\ place <= stop /\ line_start <= place
    BY <1>1 DEF stop
  <1>3. /\ Ended \in [0 .. BUFSIZE -> Characters] /\ Ended[stop] = NUL
        /\ \A k \in 0 .. BUFSIZE : k # stop => Ended[k] = line[k]
    BY EndedIs DEF stop
  <1>4. src = [k \in 0 .. top |-> Ended[place + k]]
    BY DEF From
  <1>5. top \in Nat /\ stop - place \in 0 .. top
    BY <1>1, <1>2
  <1>6. src \in [0 .. top -> Characters]
    <2>1. \A k \in 0 .. top : place + k \in 0 .. BUFSIZE
      BY <1>1, <1>2
    <2>2. \A k \in 0 .. top : Ended[place + k] \in Characters
      BY <1>3, <2>1
    <2>3. QED
      BY <1>4, <2>2
  <1>7. src[stop - place] = NUL
    <2>1. place + (stop - place) = stop
      BY <1>1, <1>2
    <2>2. QED
      BY <1>3, <1>4, <1>5, <2>1
  <1>8. ASSUME NEW k \in 0 .. stop - place - 1
        PROVE  src[k] = line[place + k] /\ place + k \in line_start .. stop - 1
    <2>1. /\ k \in 0 .. top /\ place + k \in 0 .. BUFSIZE /\ place + k # stop
          /\ place + k \in line_start .. stop - 1
      BY <1>1, <1>2
    <2>2. src[k] = line[place + k]
      BY <1>3, <1>4, <2>1
    <2>3. QED
      BY <2>1, <2>2
  <1> HIDE DEF src, top
  <1>9. (\A k \in line_start .. stop - 1 : line[k] # NUL) => strlen(src) = stop - place
    BY <1>5, <1>6, <1>7, <1>8, TerminatorIs
  <1>10. QED
    BY <1>5, <1>6, <1>7, <1>8, <1>9 DEF src, top, stop

LEMMA SubSeqIs ==
  ASSUME NEW text, NEW a \in Nat, NEW b \in Int, b >= a - 1
  PROVE  /\ SubSeq(text, a, b) = [k \in 1 .. b - a + 1 |-> text[k + a - 1]]
         /\ Len(SubSeq(text, a, b)) = b - a + 1
  <1>1. SubSeq(text, a, b) = [k \in 1 .. b - a + 1 |-> text[k + a - 1]]
    BY DEF SubSeq
  <1>2. b - a + 1 \in Nat
    OBVIOUS
  <1>3. QED
    BY <1>1, <1>2

LEMMA StandsAt ==
  ASSUME NEW C, NEW text, NEW word \in Seq(C), Len(word) \in Nat, NEW j \in Nat
  PROVE  SubSeq(text, j, j + Len(word) - 1) = word
           <=> \A k \in 1 .. Len(word) : text[j + k - 1] = word[k]
  <1> DEFINE m == Len(word)
  <1>1. word = [k \in 1 .. m |-> word[k]]
    BY LenProperties
  <1>2. SubSeq(text, j, j + m - 1) = [k \in 1 .. m |-> text[j + k - 1]]
    <2>1. (j + m - 1) - j + 1 = m /\ j + m - 1 \in Int /\ j + m - 1 >= j - 1
      OBVIOUS
    <2>2. \A k \in 1 .. m : k + j - 1 = j + k - 1
      OBVIOUS
    <2>3. QED
      BY <2>1, <2>2, SubSeqIs
  <1> HIDE DEF m
  <1>3. [k \in 1 .. m |-> text[j + k - 1]] = [k \in 1 .. m |-> word[k]]
          <=> \A k \in 1 .. m : text[j + k - 1] = word[k]
    OBVIOUS
  <1>4. QED
    BY <1>1, <1>2, <1>3 DEF m

\* The bytes of the line are those of the file at place p.
LineIs(p) ==
  /\ line_start <= filled /\ p \in Nat
  /\ \A k \in line_start .. line_end - 1 :
       line[k] = file[p + (k - line_start)] /\ line[k] # NUL

LEMMA LineTextIs ==
  ASSUME GrepMemory, NEW p \in Nat, LineIs(p)
  PROVE  LineText = SubSeq(file, p, p + (line_end - line_start) - 1)
  <1> DEFINE src == From(line_start, Ended)
             size_of == line_end - line_start
  <1>1. line_start \in Nat /\ line_end \in line_start .. filled
    BY LineEndIs DEF GrepMemory, LineIs
  <1>2. size_of \in Nat /\ line_start \in line_start .. line_end
    BY <1>1 DEF GrepMemory
  <1>3. /\ strlen(src) = size_of
        /\ \A k \in 0 .. size_of - 1 : src[k] = line[line_start + k]
    BY <1>2, FromIs DEF LineIs
  <1>4. \A k \in 1 .. size_of : src[k - 1] = file[k + p - 1]
    <2> TAKE k \in 1 .. size_of
    <2>1. PICK place \in line_start .. line_end - 1 : place = line_start + (k - 1)
      BY <1>1, <1>2
    <2>2. k - 1 \in 0 .. size_of - 1 /\ p + (place - line_start) = k + p - 1
      BY <1>1, <1>2, <2>1
    <2>3. src[k - 1] = line[place]
      BY <1>3, <2>1, <2>2
    <2>4. line[place] = file[p + (place - line_start)]
      BY DEF LineIs
    <2> HIDE DEF src
    <2>5. QED
      BY <2>2, <2>3, <2>4
  <1> HIDE DEF src, size_of
  <1>5. LineText = [k \in 1 .. size_of |-> src[k - 1]]
    BY <1>3 DEF LineText, TextOf, src
  <1>6. SubSeq(file, p, p + size_of - 1) = [k \in 1 .. size_of |-> file[k + p - 1]]
    <2>1. p + size_of - 1 \in Int /\ p + size_of - 1 >= p - 1
          /\ (p + size_of - 1) - p + 1 = size_of
      BY <1>2
    <2>2. QED
      BY <2>1, SubSeqIs
  <1>7. QED
    BY <1>4, <1>5, <1>6 DEF size_of

\* The search of the line finds the pattern where it occurs in the file's line.
LEMMA FoundIs ==
  ASSUME GrepMemory, NEW p \in Nat, LineIs(p)
  PROVE  Found <=> Occurs(pattern, SubSeq(file, p, p + (line_end - line_start) - 1))
  <1> DEFINE size_of == line_end - line_start
             text == SubSeq(file, p, p + size_of - 1)
             m == Len(pattern)
             B == Buffer(pattern, <<>>)
  <1>1. line_start \in Nat /\ line_end \in line_start .. filled /\ line_end \in Nat
    BY LineEndIs DEF GrepMemory, LineIs
  <1>2. /\ pattern \in Seq(Characters \ {NUL}) /\ m \in Nat \ {0}
        /\ \A k \in 1 .. m : pattern[k] # NUL
    <2>1. pattern \in Seq(Characters \ {NUL}) /\ pattern # <<>>
      BY DEF GrepMemory
    <2>2. \A k \in 1 .. Len(pattern) : pattern[k] \in Characters \ {NUL}
      BY <2>1, ElementOfSeq
    <2>3. QED
      BY <2>1, <2>2
  <1>3. \A k \in 0 .. m - 1 : B[k] = pattern[k + 1] /\ B[k] # NUL
    <2>1. pattern \in Seq(Characters) /\ <<>> \in Seq(Characters)
      BY <1>2, SeqMonotonic
    <2>2. \A k \in 0 .. Len(pattern) - 1 : B[k] = pattern[k + 1]
      BY <2>1, BufferIs
    <2>3. \A k \in 0 .. m - 1 : k + 1 \in 1 .. m
      BY <1>2
    <2> HIDE DEF B
    <2>4. QED
      BY <1>2, <2>2, <2>3
  <1>4. size_of \in Nat
    BY <1>1
  <1>5. Len(text) = size_of /\ text = [k \in 1 .. size_of |-> file[k + p - 1]]
    <2>1. p + size_of - 1 \in Int /\ p + size_of - 1 >= p - 1
          /\ (p + size_of - 1) - p + 1 = size_of
      BY <1>4
    <2>2. QED
      BY <2>1, SubSeqIs
  <1> HIDE DEF text, m, B
  <1>6. ASSUME NEW check \in line_start .. line_end - 1
        PROVE  ece391_strncmp(From(check, Ended), B, m)
                 <=> /\ check - line_start + 1 <= size_of - m + 1
                     /\ SubSeq(text, check - line_start + 1,
                               check - line_start + 1 + m - 1) = pattern
    <2> DEFINE src == From(check, Ended)
               j == check - line_start + 1
    <2>1. /\ src[line_end - check] = NUL
          /\ \A k \in 0 .. line_end - check - 1 : src[k] = line[check + k]
      <3>1. check \in line_start .. line_end
            /\ \A k \in line_start .. line_end - 1 : line[k] # NUL
        BY <1>1 DEF LineIs
      <3>2. QED
        BY <3>1, FromIs DEF LineIs
    <2>2. j \in Nat /\ j >= 1 /\ check \in Nat /\ size_of = line_end - line_start
      BY <1>1
    <2>3. ASSUME NEW k \in 0 .. line_end - check - 1
          PROVE  src[k] = text[j + k] /\ src[k] # NUL
      <3>1. PICK place \in line_start .. line_end - 1 : place = check + k
        BY <1>1, <2>2
      <3>2. line[place] = file[p + (place - line_start)] /\ line[place] # NUL
        BY DEF LineIs
      <3>3. /\ j + k \in 1 .. size_of
            /\ (j + k) + p - 1 = p + (place - line_start)
        BY <1>1, <2>2, <3>1
      <3>4. text[j + k] = file[p + (place - line_start)]
        BY <1>5, <3>3
      <3>5. src[k] = line[place]
        BY <2>1, <3>1
      <3>6. QED
        BY <3>2, <3>4, <3>5
    <2> HIDE DEF src
    <2>4. ece391_strncmp(src, B, m) <=> \A k \in 0 .. m - 1 : src[k] = pattern[k + 1]
      <3>1. ASSUME ece391_strncmp(src, B, m), NEW k \in 0 .. m - 1
            PROVE  src[k] = pattern[k + 1]
        <4>1. PICK n_same \in 0 .. m :
                /\ \A l \in 0 .. n_same - 1 : src[l] = B[l] /\ src[l] # NUL
                /\ n_same < m => src[n_same] = NUL /\ B[n_same] = NUL
          BY <1>2, <3>1 DEF ece391_strncmp, strncmp
        <4>2. n_same = m
          <5>1. n_same < m => n_same \in 0 .. m - 1
            BY <1>2
          <5>2. QED
            BY <1>2, <1>3, <4>1, <5>1
        <4>3. QED
          BY <1>3, <4>1, <4>2
      <3>2. ASSUME \A k \in 0 .. m - 1 : src[k] = pattern[k + 1]
            PROVE  ece391_strncmp(src, B, m)
        <4>1. m \in 0 .. m /\ ~(m < m)
          BY <1>2
        <4>2. \A l \in 0 .. m - 1 : src[l] = B[l] /\ src[l] # NUL
          BY <1>3, <3>2
        <4>3. strncmp(src, B, m)
          BY <4>1, <4>2 DEF strncmp
        <4>4. QED
          BY <4>3 DEF ece391_strncmp
      <3>3. QED
        BY <3>1, <3>2
    <2>5. SubSeq(text, j, j + m - 1) = pattern
            <=> \A k \in 1 .. m : text[j + k - 1] = pattern[k]
      <3>1. /\ pattern \in Seq(Characters \ {NUL}) /\ Len(pattern) \in Nat
            /\ Len(pattern) = m /\ j \in Nat
        BY <1>2, <2>2 DEF m
      <3> HIDE DEF j
      <3>2. pattern = [k \in 1 .. m |-> pattern[k]]
        BY <3>1, LenProperties
      <3>3. SubSeq(text, j, j + m - 1) = [k \in 1 .. m |-> text[j + k - 1]]
        <4>1. /\ (j + m - 1) - j + 1 = m /\ j + m - 1 \in Int
              /\ j + m - 1 >= j - 1
              /\ \A k \in 1 .. m : k + j - 1 = j + k - 1
          BY <3>1
        <4>2. SubSeq(text, j, j + m - 1)
                = [k \in 1 .. (j + m - 1) - j + 1 |-> text[k + j - 1]]
          BY <3>1, <4>1, SubSeqIs
        <4>3. QED
          BY <4>1, <4>2
      <3>4. [k \in 1 .. m |-> text[j + k - 1]] = [k \in 1 .. m |-> pattern[k]]
              <=> \A k \in 1 .. m : text[j + k - 1] = pattern[k]
        OBVIOUS
      <3>5. QED
        BY <3>2, <3>3, <3>4
    <2> HIDE DEF j
    <2>6. ASSUME \A k \in 0 .. m - 1 : src[k] = pattern[k + 1]
          PROVE  j <= size_of - m + 1 /\ SubSeq(text, j, j + m - 1) = pattern
      <3>1. j <= size_of - m + 1
        <4> SUFFICES ASSUME ~(j <= size_of - m + 1) PROVE FALSE
          OBVIOUS
        <4>1. PICK k \in 0 .. m - 1 : k = line_end - check
          BY <1>1, <1>2, <1>4, <2>2 DEF j
        <4>2. src[k] = NUL /\ src[k] = pattern[k + 1] /\ k + 1 \in 1 .. m
          BY <1>2, <2>1, <2>6, <4>1 DEF src
        <4>3. QED
          BY <1>2, <4>2
      <3>2. ASSUME NEW k \in 1 .. m PROVE text[j + k - 1] = pattern[k]
        <4>1. PICK l \in 0 .. m - 1 : l = k - 1
          BY <1>2
        <4>2. l \in 0 .. line_end - check - 1
          BY <1>1, <1>2, <1>4, <2>2, <3>1 DEF j
        <4>3. src[l] = pattern[l + 1] /\ src[l] = text[j + l]
          BY <2>3, <2>6, <4>2
        <4>4. l + 1 = k /\ j + l = j + k - 1
          BY <2>2, <4>1
        <4>5. QED
          BY <4>3, <4>4
      <3>3. QED
        BY <2>5, <3>1, <3>2
    <2>7. ASSUME j <= size_of - m + 1, SubSeq(text, j, j + m - 1) = pattern,
                 NEW k \in 0 .. m - 1
          PROVE  src[k] = pattern[k + 1]
      <3>1. PICK l \in 1 .. m : l = k + 1
        BY <1>2
      <3>2. k \in 0 .. line_end - check - 1 /\ j + l - 1 = j + k
        BY <1>1, <1>2, <1>4, <2>2, <2>7, <3>1 DEF j
      <3>3. text[j + l - 1] = pattern[l]
        BY <2>5, <2>7
      <3>4. src[k] = text[j + k]
        BY <2>3, <3>2
      <3>5. QED
        BY <3>1, <3>2, <3>3, <3>4
    <2>8. QED
      BY <2>4, <2>6, <2>7 DEF src, j
  <1>7. Found <=> \E check \in line_start .. line_end - 1 :
                    ece391_strncmp(From(check, Ended), B, m)
    BY DEF Found, B, m
  <1>8. Occurs(pattern, text) <=> \E j \in 1 .. size_of - m + 1 :
                                    SubSeq(text, j, j + m - 1) = pattern
    BY <1>5 DEF Occurs, m
  <1>9. ASSUME Found PROVE Occurs(pattern, text)
    <2>1. PICK check \in line_start .. line_end - 1 : ece391_strncmp(From(check, Ended), B, m)
      BY <1>7, <1>9
    <2>2. PICK j \in Nat : j = check - line_start + 1 /\ j \in 1 .. size_of - m + 1
      BY <1>1, <1>2, <1>4, <1>6, <2>1
    <2>3. SubSeq(text, j, j + m - 1) = pattern
      BY <1>6, <2>1, <2>2
    <2>4. QED
      BY <1>8, <2>2, <2>3
  <1>10. ASSUME Occurs(pattern, text) PROVE Found
    <2>1. PICK j \in 1 .. size_of - m + 1 : SubSeq(text, j, j + m - 1) = pattern
      BY <1>8, <1>10
    <2>2. PICK check \in line_start .. line_end - 1 : check = line_start + j - 1
      BY <1>1, <1>2, <1>4
    <2>3. check - line_start + 1 = j
      BY <1>1, <2>2
    <2>4. ece391_strncmp(From(check, Ended), B, m)
      BY <1>6, <2>1, <2>3
    <2>5. QED
      BY <1>7, <2>4
  <1>11. QED
    BY <1>9, <1>10 DEF text

-----------------------------------------------------------------------------
(* Grep: every step keeps GInv *)

LEMMA GrepInitHolds == GrepInit => GInv
  <1> SUFFICES ASSUME GrepInit PROVE GInv
    OBVIOUS
  <1>1. /\ file \in Seq(Characters) /\ garbage \in Characters
        /\ pattern \in Seq(Characters \ {NUL}) /\ pattern # <<>>
        /\ BUFSIZE \in Nat \ {0} /\ Len(file) \in Nat
    BY GrepAssumption, LenProperties DEF GrepInit
  <1>2. /\ line \in [0 .. BUFSIZE -> Characters]
        /\ \A k \in 0 .. BUFSIZE : line[k] = garbage
    BY <1>1 DEF GrepInit
  <1>3. filled = 0 /\ position = 0 /\ line_start = 0 /\ got = 0 /\ grepping = "reading"
        /\ printed = <<>>
    BY DEF GrepInit
  <1>4. GrepMemory
    BY <1>1, <1>2, <1>3 DEF GrepMemory
  <1>5. Regular => Newlines
    BY <1>2 DEF Regular, Newlines
  <1>6. Holds(0)
    <2>1. Begins(file, 1)
      BY <1>1 DEF Begins, Starts
    <2>2. Matched(pattern, file, 0) = <<>>
      <3>1. 0 \in 0 .. Len(file)
        BY <1>1
      <3>2. QED
        BY <1>1, <3>1, MatchedIs
    <2>3. Base + 0 + 1 = 1 /\ Base + 0 = 0
      BY <1>3 DEF Base
    <2>4. QED
      BY <1>3, <2>1, <2>2, <2>3 DEF Holds
  <1>7. QED
    BY <1>3, <1>4, <1>5, <1>6 DEF GInv

\* A line that is not finished does not fill the buffer.
LEMMA PartialLine ==
  ASSUME GrepMemory, IsText, NEW first \in Nat, Holds(first),
         \A k \in first .. filled - 1 : line[k] # EOL
  PROVE  filled - first < BUFSIZE
  <1>1. /\ first <= filled /\ filled \in Nat /\ position \in Nat /\ filled <= position
        /\ Len(file) \in Nat /\ position <= Len(file) /\ BUFSIZE \in Nat \ {0}
        /\ \A k \in first .. filled - 1 : line[k] = file[Base + k + 1]
        /\ Begins(file, Base + first + 1) /\ Base = position - filled
    BY GrepAssumption, LenProperties DEF GrepMemory, Holds, Base
  <1>2. CASE first = filled
    BY <1>1, <1>2
  <1>3. CASE first # filled
    <2> DEFINE p == Base + first + 1
               count == filled - first
    <2>1. p \in 1 .. Len(file) /\ count \in Nat /\ p + count = position + 1
      <3>1. PICK base \in Int : base = Base /\ base = position - filled
        BY <1>1
      <3>2. first \in Nat /\ first < filled
        BY <1>1, <1>3
      <3>3. /\ base + first + 1 \in 1 .. Len(file) /\ filled - first \in Nat
            /\ base + first + 1 + (filled - first) = position + 1
        BY <1>1, <3>1, <3>2
      <3>4. QED
        BY <3>1, <3>3
    <2>2. p \in Starts(file)
      <3>1. p # Len(file) + 1
        BY <2>1
      <3>2. QED
        BY <1>1, <3>1 DEF Begins
    <2>3. \A j \in p .. p + count - 1 : file[j] # EOL
      <3> TAKE j \in p .. p + count - 1
      <3>1. PICK k \in first .. filled - 1 : j = Base + k + 1
        <4>1. j - Base - 1 \in first .. filled - 1 /\ j = Base + (j - Base - 1) + 1
          BY <1>1, <2>1
        <4>2. QED
          BY <4>1
      <3>2. QED
        BY <1>1, <3>1
    <2> HIDE DEF p, count
    <2>4. p + count <= Len(file) + 1
      BY <1>1, <2>1
    <2>5. count <= Len(LineAt(file, p))
      BY <1>1, <2>1, <2>3, <2>4, LineIsAsLong
    <2>6. Len(LineAt(file, p)) < BUFSIZE
      BY <2>2 DEF IsText
    <2>7. PICK e \in Nat : LineAt(file, p) = SubSeq(file, p, e) /\ p - 1 <= e
      <3>1. PICK e \in Nat : IsLine(file, p, e)
        BY <1>1, <2>1, LineEnds
      <3>2. p \in Nat \ {0}
        BY <1>1, <2>1
      <3>3. LineAt(file, p) = SubSeq(file, p, e)
        BY <1>1, <3>1, <3>2, LineAtIs
      <3>4. QED
        BY <3>1, <3>3 DEF IsLine
    <2>8. Len(LineAt(file, p)) \in Int
      <3>1. Len(SubSeq(file, p, e)) = e - p + 1
        BY <2>1, <2>7, SubSeqIs
      <3>2. QED
        BY <2>1, <2>7, <3>1
    <2>9. QED
      BY <1>1, <2>1, <2>5, <2>6, <2>8 DEF count
  <1>4. QED
    BY <1>2, <1>3

GrepFixed == <<file, pattern, garbage>>

LEMMA RefillKeeps ==
  ASSUME GInv, Refill, UNCHANGED GrepFixed
  PROVE  GInv'
  <1> DEFINE room == BUFSIZE - filled
             rest == Len(file) - position
  <1>1. /\ GrepMemory /\ grepping = "reading" /\ file' = file /\ pattern' = pattern
        /\ garbage' = garbage
    BY DEF GInv, Refill, GrepFixed
  <1>2. /\ Len(file) \in Nat /\ position \in 0 .. Len(file) /\ filled \in 0 .. BUFSIZE
        /\ BUFSIZE \in Nat \ {0} /\ line \in [0 .. BUFSIZE -> Characters]
        /\ file \in Seq(Characters)
    BY <1>1, GrepAssumption, LenProperties DEF GrepMemory
  <1>3. PICK n_read \in Nat :
          /\ n_read <= room /\ n_read <= rest /\ (n_read = room \/ n_read = rest)
          /\ line' = [k \in 0 .. BUFSIZE |-> IF k \in filled .. filled + n_read - 1
                                             THEN file[position + k - filled + 1] ELSE line[k]]
          /\ filled' = filled + n_read /\ position' = position + n_read
          /\ got' = n_read /\ line_start' = 0 /\ grepping' = "lines" /\ printed' = printed
    <2> DEFINE n_read == IF rest < room THEN rest ELSE room
    <2>1. /\ n_read \in Nat /\ n_read <= room /\ n_read <= rest
          /\ (n_read = room \/ n_read = rest)
      BY <1>2
    <2>2. /\ line' = [k \in 0 .. BUFSIZE |-> IF k \in filled .. filled + n_read - 1
                                             THEN file[position + k - filled + 1] ELSE line[k]]
          /\ filled' = filled + n_read /\ position' = position + n_read
          /\ got' = n_read /\ line_start' = 0 /\ grepping' = "lines" /\ printed' = printed
      BY Zenon DEF Refill
    <2> HIDE DEF n_read
    <2>3. QED
      BY <2>1, <2>2
  <1>4. /\ \A k \in filled .. filled + n_read - 1 : line'[k] = file[position + k - filled + 1]
        /\ \A k \in 0 .. BUFSIZE : k \notin filled .. filled + n_read - 1 => line'[k] = line[k]
    BY <1>2, <1>3
  <1>5. GrepMemory'
    <2>1. line' \in [0 .. BUFSIZE -> Characters]
      <3>1. \A k \in filled .. filled + n_read - 1 : position + k - filled + 1 \in 1 .. Len(file)
        BY <1>2, <1>3
      <3>2. \A k \in filled .. filled + n_read - 1 : file[position + k - filled + 1] \in Characters
        BY <1>2, <3>1, ElementOfSeq
      <3>3. QED
        BY <1>2, <1>3, <3>2
    <2>2. /\ filled' \in 0 .. BUFSIZE /\ position' \in 0 .. Len(file') /\ line_start' \in Nat
          /\ got' \in Nat /\ grepping' \in {"reading", "lines", "closed"}
          /\ line_start' <= filled'
      BY <1>1, <1>2, <1>3
    <2>3. QED
      BY <1>1, <2>1, <2>2 DEF GrepMemory
  <1>6. ASSUME Regular
        PROVE  Newlines' /\ Holds(0)' /\ (filled' < BUFSIZE \/ got' = 0 => position' = Len(file'))
    <2>1. Newlines /\ Holds(0) /\ IsText
      BY <1>1, <1>6 DEF GInv, Regular
    <2>2. \A k \in 0 .. BUFSIZE : line[k] # EOL
      BY <1>1, <2>1 DEF Newlines
    <2>3. Newlines'
      <3>1. \A k \in 0 .. BUFSIZE : line'[k] = EOL => k \in filled .. filled + n_read - 1
        BY <1>4, <2>2
      <3>2. QED
        BY <1>2, <1>3, <3>1 DEF Newlines
    <2>4. /\ filled <= position /\ Base = position - filled
          /\ \A k \in 0 .. filled - 1 : line[k] = file[Base + k + 1]
          /\ Begins(file, Base + 0 + 1) /\ printed = Matched(pattern, file, Base + 0)
      BY <2>1 DEF Holds, Base
    <2>5. Base' = Base
      BY <1>2, <1>3 DEF Base
    <2>6. Holds(0)'
      <3>1. ASSUME NEW k \in 0 .. filled' - 1 PROVE line'[k] = file[Base + k + 1]
        <4>1. CASE k < filled
          BY <1>2, <1>3, <1>4, <2>4, <4>1
        <4>2. CASE ~(k < filled)
          <5>1. k \in filled .. filled + n_read - 1 /\ position + k - filled + 1 = Base + k + 1
            BY <1>2, <1>3, <2>4, <4>2
          <5>2. QED
            BY <1>4, <5>1
        <4>3. QED
          BY <4>1, <4>2
      <3>2. 0 <= filled' /\ filled' <= position'
        BY <1>2, <1>3, <2>4
      <3>3. QED
        BY <1>1, <1>3, <2>4, <2>5, <3>1, <3>2 DEF Holds
    <2>7. filled < BUFSIZE
      <3>1. \A k \in 0 .. filled - 1 : line[k] # EOL
        BY <1>2, <2>2
      <3>2. filled - 0 < BUFSIZE
        BY <1>1, <2>1, <3>1, PartialLine
      <3>3. QED
        BY <1>2, <3>2
    <2>8. filled' < BUFSIZE \/ got' = 0 => position' = Len(file')
      BY <1>1, <1>2, <1>3, <2>7
    <2>9. QED
      BY <2>3, <2>6, <2>8
  <1>7. Regular' => Regular
    BY <1>1 DEF Regular, IsText
  <1>8. QED
    BY <1>3, <1>5, <1>6, <1>7 DEF GInv

LEMMA KeepKeeps ==
  ASSUME GInv, KeepUnfinished, UNCHANGED GrepFixed
  PROVE  GInv'
  <1> DEFINE src == From(line_start, Ended)
             stop == line_end
             left == filled - line_start
  <1>1. /\ GrepMemory /\ grepping = "lines" /\ file' = file /\ pattern' = pattern
        /\ garbage' = garbage /\ line_start <= filled
    BY DEF GInv, GrepMemory, KeepUnfinished, GrepFixed
  <1>2. /\ Len(file) \in Nat /\ position \in 0 .. Len(file) /\ filled \in 0 .. BUFSIZE
        /\ BUFSIZE \in Nat /\ line_start \in Nat /\ got \in Nat
        /\ stop \in line_start .. filled
        /\ \A k \in line_start .. stop - 1 : line[k] # EOL
        /\ stop = filled \/ line[stop] = EOL
    BY <1>1, GrepAssumption, LenProperties, LineEndIs DEF GrepMemory
  <1>3. /\ line' = strcpy(Ended, src) /\ filled' = left /\ grepping' = "reading"
        /\ position' = position /\ line_start' = line_start /\ got' = got
        /\ printed' = printed /\ line[stop] # EOL
    BY DEF KeepUnfinished, Unfinished, ece391_strcpy
  <1>4. /\ Ended \in [0 .. BUFSIZE -> Characters] /\ Ended[stop] = NUL
        /\ \A k \in 0 .. BUFSIZE : k # stop => Ended[k] = line[k]
    BY <1>1, EndedIs
  <1>5. stop = filled
    BY <1>2, <1>3
  <1>6. /\ src \in [0 .. BUFSIZE - line_start -> Characters]
        /\ BUFSIZE - line_start \in Nat /\ left \in 0 .. BUFSIZE - line_start
        /\ src[left] = NUL
        /\ \A k \in 0 .. left - 1 : src[k] = line[line_start + k]
        /\ (\A k \in line_start .. stop - 1 : line[k] # NUL) => strlen(src) = left
    <2>1. line_start \in line_start .. line_end
      BY <1>2
    <2>2. /\ src \in [0 .. BUFSIZE - line_start -> Characters]
          /\ BUFSIZE - line_start \in Nat /\ line_end - line_start \in 0 .. BUFSIZE - line_start
          /\ src[line_end - line_start] = NUL
          /\ \A k \in 0 .. line_end - line_start - 1 : src[k] = line[line_start + k]
          /\ (\A k \in line_start .. line_end - 1 : line[k] # NUL)
               => strlen(src) = line_end - line_start
      BY <1>1, <2>1, FromIs
    <2>3. QED
      BY <1>5, <2>2
  <1> HIDE DEF src, stop
  <1>7. strlen(src) \in 0 .. left
    BY <1>6, Terminator
  <1>8. line' = [k \in 0 .. BUFSIZE |-> IF k <= strlen(src) THEN src[k] ELSE Ended[k]]
    BY <1>3, <1>4 DEF strcpy
  <1>9. GrepMemory'
    <2>1. line' \in [0 .. BUFSIZE -> Characters]
      <3>1. \A k \in 0 .. BUFSIZE : k <= strlen(src) => src[k] \in Characters
        BY <1>2, <1>6, <1>7
      <3>2. QED
        BY <1>4, <1>8, <3>1
    <2>2. /\ filled' \in 0 .. BUFSIZE /\ position' \in 0 .. Len(file')
          /\ line_start' \in Nat /\ got' \in Nat /\ grepping' = "reading"
      BY <1>1, <1>2, <1>3
    <2>3. QED
      BY <1>1, <2>1, <2>2 DEF GrepMemory
  <1>10. ASSUME Regular
         PROVE  Newlines' /\ Holds(0)'
    <2>1. Newlines /\ Holds(line_start) /\ IsText
      BY <1>1, <1>10 DEF GInv, Regular
    <2>2. /\ filled <= position /\ Base = position - filled
          /\ \A k \in line_start .. filled - 1 : line[k] = file[Base + k + 1]
          /\ Begins(file, Base + line_start + 1)
          /\ printed = Matched(pattern, file, Base + line_start)
      BY <2>1 DEF Holds, Base
    <2>3. \A k \in line_start .. filled - 1 : line[k] # NUL
      <3> TAKE k \in line_start .. filled - 1
      <3>1. PICK place \in 1 .. Len(file) : place = Base + k + 1
        BY <1>2, <2>2
      <3>2. QED
        BY <2>1, <2>2, <3>1 DEF IsText
    <2>4. strlen(src) = left
      BY <1>5, <1>6, <2>3
    <2>5. /\ \A k \in 0 .. left - 1 : line'[k] = line[line_start + k]
          /\ line'[left] = NUL
          /\ \A k \in left + 1 .. BUFSIZE : line'[k] = Ended[k]
      <3>1. \A k \in 0 .. BUFSIZE : line'[k] = IF k <= left THEN src[k] ELSE Ended[k]
        BY <1>8, <2>4
      <3>2. left \in 0 .. BUFSIZE /\ left \in Nat
        BY <1>2, <1>6
      <3>3. \A k \in 0 .. left - 1 : src[k] = line[line_start + k]
        BY <1>6
      <3>4. src[left] = NUL
        BY <1>6
      <3> HIDE DEF left
      <3>5. \A k \in 0 .. left - 1 : line'[k] = line[line_start + k]
        BY <1>2, <3>1, <3>2, <3>3
      <3>6. line'[left] = NUL
        BY <1>2, <3>1, <3>2, <3>4
      <3>7. \A k \in left + 1 .. BUFSIZE : line'[k] = Ended[k]
        BY <1>2, <3>1, <3>2
      <3>8. QED
        BY <3>5, <3>6, <3>7
    <2>6. \A k \in 0 .. BUFSIZE : line'[k] # EOL
      <3> TAKE k \in 0 .. BUFSIZE
      <3>1. CASE k < left
        <4>1. PICK place \in line_start .. filled - 1 : place = line_start + k
          BY <1>2, <3>1
        <4>2. line'[k] = line[place] /\ line[place] # EOL
          BY <1>2, <1>5, <2>5, <3>1, <4>1
        <4>3. QED
          BY <4>2
      <3>2. CASE k = left
        BY <2>5, <3>2, GrepAssumption
      <3>3. CASE k > left
        <4>1. line'[k] = Ended[k]
          BY <1>2, <2>5, <3>3
        <4>2. Ended[k] = NUL \/ (Ended[k] = line[k] /\ k # stop)
          BY <1>4
        <4>3. line[k] = EOL => line_start <= k /\ k < filled
          BY <2>1 DEF Newlines
        <4>4. line[k] = EOL => FALSE
          BY <1>2, <1>5, <4>3
        <4>5. QED
          BY <4>1, <4>2, <4>4, GrepAssumption
      <3>4. QED
        BY <1>2, <3>1, <3>2, <3>3
    <2>7. Newlines'
      BY <2>6 DEF Newlines
    <2>8. Base' = Base + line_start
      BY <1>2, <1>3, <2>2 DEF Base
    <2>9. Holds(0)'
      <3>1. ASSUME NEW k \in 0 .. filled' - 1 PROVE line'[k] = file'[Base' + k + 1]
        <4>1. PICK place \in line_start .. filled - 1 : place = line_start + k
          BY <1>2, <1>3
        <4>2. line'[k] = line[place]
          BY <1>3, <2>5, <4>1
        <4>3. Base' + k + 1 = Base + place + 1
          BY <1>2, <2>2, <2>8, <4>1
        <4>4. QED
          BY <1>1, <2>2, <4>2, <4>3
      <3>2. 0 <= filled' /\ filled' <= position'
        BY <1>2, <1>3, <2>2
      <3>3. Base' + 0 + 1 = Base + line_start + 1 /\ Base' + 0 = Base + line_start
        BY <1>2, <2>2, <2>8
      <3>4. QED
        BY <1>1, <1>3, <2>2, <3>1, <3>2, <3>3 DEF Holds
    <2>10. QED
      BY <2>7, <2>9
  <1>11. Regular' => Regular
    BY <1>1 DEF Regular, IsText
  <1>12. QED
    BY <1>3, <1>9, <1>10, <1>11 DEF GInv

\* The line that ends at line_end is searched, and all before it have been.
LEMMA SearchIs ==
  ASSUME GrepMemory, Regular, Newlines, grepping = "lines", Holds(line_start),
         filled < BUFSIZE \/ got = 0 => position = Len(file), SearchLine
  PROVE  \E q \in 0 .. Len(file) :
           /\ q = Base + (IF line_end = filled THEN filled ELSE line_end + 1)
           /\ line_end = filled => q = Len(file)
           /\ Begins(file, q + 1)
           /\ printed' = Matched(pattern, file, q)
  <1> DEFINE e == line_end
             p == Base + line_start + 1
             stop == Base + e
  <1>1. /\ line_start <= filled /\ filled <= position /\ Base = position - filled
        /\ \A k \in line_start .. filled - 1 : line[k] = file[Base + k + 1]
        /\ Begins(file, p) /\ printed = Matched(pattern, file, Base + line_start)
    BY DEF Holds, Base
  <1>2. /\ Len(file) \in Nat /\ position \in 0 .. Len(file) /\ filled \in 0 .. BUFSIZE
        /\ BUFSIZE \in Nat \ {0} /\ line_start \in Nat /\ got \in Nat
    BY GrepAssumption, LenProperties DEF GrepMemory
  <1>3. /\ e \in line_start .. filled
        /\ \A k \in line_start .. e - 1 : line[k] # EOL
        /\ e = filled \/ line[e] = EOL
    BY <1>1, LineEndIs
  <1>4. IsText
    BY DEF Regular
  <1>5. Base \in Nat
    BY <1>1, <1>2
  <1>6. e = filled => line[e] # EOL /\ position = Len(file)
    <2> SUFFICES ASSUME e = filled PROVE line[e] # EOL /\ position = Len(file)
      OBVIOUS
    <2>1. line[e] # EOL
      BY <1>2 DEF Newlines
    <2>2. got = 0 \/ line_start = 0
      BY <2>1 DEF SearchLine, Unfinished
    <2>3. CASE got = 0
      BY <2>1, <2>3
    <2>4. CASE line_start = 0
      <3>1. filled - line_start < BUFSIZE
        BY <1>2, <1>3, <1>4, PartialLine
      <3>2. QED
        BY <1>2, <2>1, <2>4, <3>1
    <2>5. QED
      BY <2>1, <2>2, <2>3, <2>4
  <1> HIDE DEF e
  <1>7. PICK q \in 0 .. Len(file) : q = Base + (IF e = filled THEN filled ELSE e + 1)
    <2>1. Base + (IF e = filled THEN filled ELSE e + 1) \in 0 .. Len(file)
      BY <1>1, <1>2, <1>3, <1>5
    <2>2. QED
      BY <2>1
  <1>8. e = filled => q = Len(file)
    BY <1>1, <1>2, <1>6, <1>7
  <1>9. Begins(file, q + 1)
    <2>1. CASE e = filled
      BY <1>8, <2>1 DEF Begins
    <2>2. CASE e # filled
      <3>1. e \in line_start .. filled - 1 /\ q = Base + e + 1 /\ q \in Nat
        BY <1>2, <1>3, <1>5, <1>7, <2>2
      <3>2. file[q] = EOL
        BY <1>1, <1>3, <2>2, <3>1
      <3>3. q = Len(file) \/ (q + 1 \in 1 .. Len(file) /\ (q + 1) - 1 = q)
        BY <1>2, <3>1
      <3>4. QED
        BY <3>2, <3>3 DEF Begins, Starts
    <2>3. QED
      BY <2>1, <2>2
  <1>10. printed' = Matched(pattern, file, q)
    <2>1. CASE line_start = filled
      <3>1. e = filled /\ q = Base + line_start
        BY <1>2, <1>3, <1>7, <2>1
      <3>2. ~Found
        BY <1>2, <2>1, <3>1 DEF Found, e
      <3>3. printed' = printed
        BY <3>2 DEF SearchLine
      <3>4. QED
        BY <1>1, <3>1, <3>3
    <2>2. CASE line_start # filled
      <3>1. /\ p \in 1 .. Len(file) /\ p - 1 = Base + line_start /\ p \in Nat \ {0}
            /\ stop \in Nat /\ p - 1 <= stop /\ stop <= Len(file)
            /\ stop = p + (e - line_start) - 1
        BY <1>1, <1>2, <1>3, <1>5, <2>2
      <3>2. p \in Starts(file)
        <4>1. p # Len(file) + 1
          BY <1>2, <3>1
        <4>2. QED
          BY <1>1, <4>1 DEF Begins
      <3>3. IsLine(file, p, stop)
        <4>1. ASSUME NEW j \in p .. stop PROVE file[j] # EOL
          <5>1. PICK k \in line_start .. e - 1 : j = Base + k + 1
            <6>1. j - Base - 1 \in line_start .. e - 1 /\ j = Base + (j - Base - 1) + 1
              BY <1>2, <1>3, <1>5, <3>1
            <6>2. QED
              BY <6>1
          <5>2. k \in line_start .. filled - 1
            BY <1>2, <1>3
          <5>3. QED
            BY <1>1, <1>3, <5>1, <5>2
        <4>2. stop = Len(file) \/ file[stop + 1] = EOL
          <5>1. CASE e = filled
            BY <1>1, <1>2, <1>6, <5>1
          <5>2. CASE e # filled
            <6>1. e \in line_start .. filled - 1 /\ stop + 1 = Base + e + 1
              BY <1>2, <1>3, <1>5, <5>2
            <6>2. QED
              BY <1>1, <1>3, <5>2, <6>1
          <5>3. QED
            BY <5>1, <5>2
        <4>3. QED
          BY <3>1, <4>1, <4>2 DEF IsLine
      <3> HIDE DEF p, stop
      <3>4. LineAt(file, p) = SubSeq(file, p, p + (e - line_start) - 1)
        BY <1>2, <3>1, <3>3, LineAtIs
      <3>5. LineIs(p)
        <4>1. ASSUME NEW k \in line_start .. e - 1
              PROVE  line[k] = file[p + (k - line_start)] /\ line[k] # NUL
          <5>1. k \in line_start .. filled - 1
            BY <1>2, <1>3
          <5>2. PICK place \in 1 .. Len(file) :
                  place = Base + k + 1 /\ place = p + (k - line_start)
            BY <1>1, <1>2, <1>5, <5>1 DEF p
          <5>3. line[k] = file[place]
            BY <1>1, <5>1, <5>2
          <5>4. QED
            BY <1>4, <5>2, <5>3 DEF IsText
        <4>2. QED
          BY <1>1, <3>1, <4>1 DEF LineIs, e
      <3>6. LineText = LineAt(file, p) /\ (Found <=> Occurs(pattern, LineAt(file, p)))
        <4>1. p \in Nat
          BY <3>1
        <4>2. LineText = SubSeq(file, p, p + (line_end - line_start) - 1)
          BY <3>5, <4>1, LineTextIs
        <4>3. Found <=> Occurs(pattern, SubSeq(file, p, p + (line_end - line_start) - 1))
          BY <3>5, <4>1, FoundIs
        <4>4. QED
          BY <3>4, <4>2, <4>3 DEF e
      <3>7. printed' = IF Occurs(pattern, LineAt(file, p))
                       THEN Append(Matched(pattern, file, p - 1), LineAt(file, p))
                       ELSE Matched(pattern, file, p - 1)
        <4>1. printed' = IF Found THEN Append(printed, LineText) ELSE printed
          BY DEF SearchLine
        <4>2. printed = Matched(pattern, file, p - 1)
          BY <1>1, <3>1
        <4>3. QED
          BY <3>6, <4>1, <4>2
      <3>8. q \in p .. Len(file) /\ (q = stop \/ q = stop + 1)
        BY <1>2, <1>3, <1>5, <1>7, <2>2, <3>1 DEF p, stop
      <3>9. Matched(pattern, file, q) =
              IF Occurs(pattern, LineAt(file, p))
              THEN Append(Matched(pattern, file, p - 1), LineAt(file, p))
              ELSE Matched(pattern, file, p - 1)
        BY <1>2, <3>1, <3>2, <3>3, <3>8, LineSearched
      <3>10. QED
        BY <3>7, <3>9
    <2>3. QED
      BY <2>1, <2>2
  <1>11. QED
    BY <1>7, <1>8, <1>9, <1>10 DEF e

LEMMA SearchKeeps ==
  ASSUME GInv, SearchLine, UNCHANGED GrepFixed
  PROVE  GInv'
  <1> DEFINE e == line_end
  <1>1. /\ GrepMemory /\ grepping = "lines" /\ file' = file /\ pattern' = pattern
        /\ garbage' = garbage /\ line_start <= filled
    BY DEF GInv, GrepMemory, SearchLine, GrepFixed
  <1>2. /\ Len(file) \in Nat /\ position \in 0 .. Len(file) /\ filled \in 0 .. BUFSIZE
        /\ BUFSIZE \in Nat /\ line_start \in Nat /\ got \in Nat
    BY <1>1, GrepAssumption, LenProperties DEF GrepMemory
  <1>3. /\ e \in line_start .. filled
        /\ \A k \in line_start .. e - 1 : line[k] # EOL
        /\ e = filled \/ line[e] = EOL
    BY <1>1, LineEndIs
  <1>4. /\ Ended \in [0 .. BUFSIZE -> Characters] /\ Ended[e] = NUL
        /\ \A k \in 0 .. BUFSIZE : k # e => Ended[k] = line[k]
    BY <1>1, EndedIs
  <1>5. /\ line' = Ended /\ line_start' = e + 1 /\ position' = position /\ got' = got
        /\ IF e + 1 >= filled
           THEN filled' = 0 /\ grepping' = IF got = 0 THEN "closed" ELSE "reading"
           ELSE filled' = filled /\ grepping' = grepping
    BY DEF SearchLine
  <1> HIDE DEF e
  <1>6. GrepMemory'
    <2>1. /\ filled' \in 0 .. BUFSIZE /\ position' \in 0 .. Len(file') /\ line_start' \in Nat
          /\ got' \in Nat /\ grepping' \in {"reading", "lines", "closed"}
          /\ grepping' = "lines" => line_start' <= filled'
      BY <1>1, <1>2, <1>3, <1>5
    <2>2. QED
      BY <1>1, <1>4, <1>5, <2>1 DEF GrepMemory
  <1>7. ASSUME Regular
        PROVE  /\ Newlines'
               /\ grepping' = "reading" => Holds(0)'
               /\ grepping' = "lines" =>
                    /\ Holds(line_start)'
                    /\ filled' < BUFSIZE \/ got' = 0 => position' = Len(file')
               /\ grepping' = "closed" => printed' = Matched(pattern', file', Len(file'))
    <2>1. /\ Newlines /\ Holds(line_start)
          /\ filled < BUFSIZE \/ got = 0 => position = Len(file)
      BY <1>1, <1>7 DEF GInv
    <2>2. /\ filled <= position /\ Base = position - filled
          /\ \A k \in line_start .. filled - 1 : line[k] = file[Base + k + 1]
      BY <2>1 DEF Holds, Base
    <2>3. PICK q \in 0 .. Len(file) :
            /\ q = Base + (IF e = filled THEN filled ELSE e + 1)
            /\ e = filled => q = Len(file)
            /\ Begins(file, q + 1)
            /\ printed' = Matched(pattern, file, q)
      BY <1>1, <1>7, <2>1, SearchIs DEF e
    <2>4. \A k \in 0 .. BUFSIZE : Ended[k] = EOL => e < k /\ k < filled
      <3> SUFFICES ASSUME NEW k \in 0 .. BUFSIZE, Ended[k] = EOL
                   PROVE  e < k /\ k < filled
        OBVIOUS
      <3>1. k # e /\ line[k] = EOL
        BY <1>4, GrepAssumption
      <3>2. line_start <= k /\ k < filled
        BY <2>1, <3>1 DEF Newlines
      <3>3. QED
        BY <1>2, <1>3, <3>1, <3>2
    <2>5. CASE e + 1 >= filled
      <3>1. filled' = 0 /\ grepping' = IF got = 0 THEN "closed" ELSE "reading"
        BY <1>5, <2>5
      <3>2. \A k \in 0 .. BUFSIZE : line'[k] # EOL
        BY <1>2, <1>3, <1>5, <2>4, <2>5
      <3>3. Newlines'
        BY <3>2 DEF Newlines
      <3>4. q = position
        BY <1>2, <1>3, <2>2, <2>3, <2>5
      <3>5. got = 0 => q = Len(file)
        BY <2>1, <3>4
      <3>6. Holds(0)'
        <4>1. Base' = position /\ position + 0 + 1 = q + 1 /\ position + 0 = q
          BY <1>2, <1>5, <3>1, <3>4 DEF Base
        <4>2. 0 <= filled' /\ filled' <= position' /\ 0 .. filled' - 1 = {}
          BY <1>2, <1>5, <3>1
        <4>3. QED
          BY <1>1, <2>3, <4>1, <4>2 DEF Holds
      <3>7. grepping' = "closed" => printed' = Matched(pattern', file', Len(file'))
        BY <1>1, <2>3, <3>1, <3>5
      <3>8. QED
        BY <3>1, <3>3, <3>6, <3>7
    <2>6. CASE ~(e + 1 >= filled)
      <3>1. filled' = filled /\ grepping' = "lines" /\ e # filled
        BY <1>1, <1>2, <1>3, <1>5, <2>6
      <3>2. Newlines'
        <4>1. \A k \in 0 .. BUFSIZE : line'[k] = EOL => line_start' <= k /\ k < filled'
          BY <1>2, <1>3, <1>5, <2>4, <3>1
        <4>2. QED
          BY <3>1, <4>1 DEF Newlines
      <3>3. Base' = Base /\ Base \in Nat
        BY <1>2, <1>5, <2>2, <3>1 DEF Base
      <3>4. Holds(line_start)'
        <4>1. ASSUME NEW k \in line_start' .. filled' - 1 PROVE line'[k] = file'[Base' + k + 1]
          <5>1. k \in line_start .. filled - 1 /\ k # e /\ k \in 0 .. BUFSIZE
            BY <1>2, <1>3, <1>5, <3>1
          <5>2. QED
            BY <1>1, <1>4, <1>5, <2>2, <3>3, <5>1
        <4>2. line_start' <= filled' /\ filled' <= position'
          BY <1>2, <1>3, <1>5, <2>2, <2>6, <3>1
        <4>3. Base' + line_start' = q /\ Base' + line_start' + 1 = q + 1
          BY <1>2, <1>3, <1>5, <2>3, <3>1, <3>3
        <4>4. QED
          BY <1>1, <2>3, <4>1, <4>2, <4>3 DEF Holds
      <3>5. filled' < BUFSIZE \/ got' = 0 => position' = Len(file')
        BY <1>1, <1>5, <2>1, <3>1
      <3>6. QED
        BY <3>1, <3>2, <3>4, <3>5
    <2>7. QED
      BY <2>5, <2>6
  <1>8. Regular' => Regular
    BY <1>1 DEF Regular, IsText
  <1>9. QED
    BY <1>6, <1>7, <1>8 DEF GInv

LEMMA GrepStepKeeps == GInv /\ [GrepNext]_grepVars => GInv'
  <1> SUFFICES ASSUME GInv, [GrepNext]_grepVars PROVE GInv'
    OBVIOUS
  <1>1. CASE GrepNext
    BY <1>1, RefillKeeps, KeepKeeps, SearchKeeps DEF GrepNext, GrepFixed
  <1>2. CASE UNCHANGED grepVars
    BY <1>2 DEF grepVars, GInv, GrepMemory, Regular, IsText, Newlines, Holds, Base
  <1>3. QED
    BY <1>1, <1>2

\* grep prints every line with the pattern once and in order, for every size of
\* its buffer, every file whose lines are shorter, and every pattern.
THEOREM GrepPrintsMatches == GrepSpec => []EachMatchOnce
  <1>1. GInv => EachMatchOnce
    BY MatchingIs DEF GInv, Regular, EachMatchOnce
  <1>2. QED
    BY <1>1, GrepInitHolds, GrepStepKeeps, PTL DEF GrepSpec

=============================================================================
