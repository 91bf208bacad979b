--------------------------- MODULE LineInputProofs ---------------------------
(***************************************************************************)
(* Proofs about LineInput for every number of terminals, size of the key   *)
(* buffer, set of keys and of lengths: the types hold in every             *)
(* interleaving, and the attended keyboard implements LineDiscipline.      *)
(***************************************************************************)
EXTENDS MCLineInput, SequenceTheorems, TLAPS

\* Outside the two loops the loop variable is 0; until the copy is made the
\* length is the one asked for.
Loops ==
  \A t \in Terms :
    /\ at[t] \in {"user", "wait", "reset"} => idx[t] = 0
    /\ at[t] \in {"wait", "reset", "copy"} => length[t] \in Lengths

TInv == TypeOK /\ got \in [Terms -> Seq(Chars)] /\ Loops

\* Between Enter and the end of the read, in the terminal on the screen.
Busy(t) == at[t] \in {"reset", "copy", "clear"}
Entered == term[cur_term_id].enter_state # 0 \/ Busy(cur_term_id)

\* Enter was pressed only for the terminal on the screen, and only its process
\* is past its wait: the terminal stays on the screen until the line is read.
OnlyOnScreen ==
  \A t \in Terms :
    /\ term[t].enter_state # 0 => t = cur_term_id /\ at[t] \in {"wait", "reset"}
    /\ Busy(t) => t = cur_term_id

\* A text of n characters without a newline.
HalfLine(buf, n) == IsText(buf, n) /\ \A i \in Places : i < n => buf[i] # NL

\* The key buffer: being cleared, a line with its newline, or half a line.
KeyBufHolds ==
  IF at[cur_term_id] = "clear"
    THEN /\ key_buf_idx > 0
         /\ \A i \in Places : i < idx[cur_term_id] => key_buf[i] = NUL
    ELSE IF Entered
    THEN IsText(key_buf, key_buf_idx) /\ key_buf_idx > 0 /\ key_buf[key_buf_idx - 1] = NL
    ELSE HalfLine(key_buf, key_buf_idx)

SavedHold ==
  \A t \in Terms \ {cur_term_id} : HalfLine(term[t].key_buf, term[t].key_buf_idx)

\* The reader has copied what lies below its loop variable.
CopiedSoFar ==
  at[cur_term_id] = "copy" =>
    /\ idx[cur_term_id] <= key_buf_idx
    /\ idx[cur_term_id] <= length[cur_term_id]
    /\ got[cur_term_id] = Prefix(key_buf, idx[cur_term_id])

LInv == TInv /\ OnlyOnScreen /\ KeyBufHolds /\ SavedHold /\ CopiedSoFar

-----------------------------------------------------------------------------
(* Types *)

SavedLine == [key_buf : [Places -> Chars], key_buf_idx : 0 .. KEY_BUF_MAX,
              enter_state : {0, 1}]

\* Buffers written at one place, and empty ones, are buffers.
LEMMA Buffers ==
  /\ Empty \in [Places -> Chars]
  /\ \A buf \in [Places -> Chars], i \in Int, c \in Chars :
       [buf EXCEPT ![i] = c] \in [Places -> Chars]
  /\ NUL \in Chars /\ NL \in Chars /\ Keys \subseteq Chars
  /\ KEY_BUF_MAX \in Nat \ {0} /\ TERM_MAX \in Nat \ {0}
BY KeysAssumption DEF Empty, Chars

\* What a write to a terminal's record leaves.
LEMMA Records ==
  ASSUME NEW terms \in [Terms -> SavedLine], NEW t \in Terms, NEW r \in SavedLine
  PROVE  /\ [terms EXCEPT ![t] = r] \in [Terms -> SavedLine]
         /\ [terms EXCEPT ![t] = r][t] = r
         /\ \A u \in Terms \ {t} : [terms EXCEPT ![t] = r][u] = terms[u]
OBVIOUS

WithEnter(terms, t, e) == [terms EXCEPT ![t].enter_state = e]

LEMMA EnterFields ==
  ASSUME NEW terms \in [Terms -> SavedLine], NEW t \in Terms, NEW e \in {0, 1}
  PROVE  /\ WithEnter(terms, t, e) \in [Terms -> SavedLine]
         /\ WithEnter(terms, t, e)[t] =
              [key_buf |-> terms[t].key_buf, key_buf_idx |-> terms[t].key_buf_idx,
               enter_state |-> e]
         /\ \A u \in Terms \ {t} : WithEnter(terms, t, e)[u] = terms[u]
<1> DEFINE r == [key_buf |-> terms[t].key_buf, key_buf_idx |-> terms[t].key_buf_idx,
                 enter_state |-> e]
<1>1. r \in SavedLine
  BY DEF SavedLine
<1>2. [terms[t] EXCEPT !.enter_state = e] = r
  BY DEF SavedLine
<1>3. WithEnter(terms, t, e) = [terms EXCEPT ![t] = [terms[t] EXCEPT !.enter_state = e]]
  BY DEF WithEnter
<1>4. WithEnter(terms, t, e) = [terms EXCEPT ![t] = r]
  BY <1>2, <1>3
<1> HIDE DEF r
<1>5. QED
  BY <1>1, <1>4, Records DEF r

\* What term_save writes for a terminal.
WithLine(terms, t, buf, n) == [terms EXCEPT ![t].key_buf = buf, ![t].key_buf_idx = n]

LEMMA LineFields ==
  ASSUME NEW terms \in [Terms -> SavedLine], NEW t \in Terms,
         NEW buf \in [Places -> Chars], NEW n \in 0 .. KEY_BUF_MAX
  PROVE  /\ WithLine(terms, t, buf, n) \in [Terms -> SavedLine]
         /\ WithLine(terms, t, buf, n)[t] =
              [key_buf |-> buf, key_buf_idx |-> n, enter_state |-> terms[t].enter_state]
         /\ \A u \in Terms \ {t} : WithLine(terms, t, buf, n)[u] = terms[u]
<1> DEFINE r == [key_buf |-> buf, key_buf_idx |-> n, enter_state |-> terms[t].enter_state]
           first == [terms[t] EXCEPT !.key_buf = buf]
<1>1. r \in SavedLine
  BY DEF SavedLine
<1>2. first = [key_buf |-> buf, key_buf_idx |-> terms[t].key_buf_idx,
               enter_state |-> terms[t].enter_state]
  BY DEF SavedLine
<1>3. WithLine(terms, t, buf, n) = [terms EXCEPT ![t] = [first EXCEPT !.key_buf_idx = n]]
  BY DEF WithLine
<1> HIDE DEF first
<1>4. [first EXCEPT !.key_buf_idx = n] = r
  BY <1>2
<1>5. WithLine(terms, t, buf, n) = [terms EXCEPT ![t] = r]
  BY <1>3, <1>4
<1> HIDE DEF r
<1>6. QED
  BY <1>1, <1>5, Records DEF r

LEMMA TermType ==
  ASSUME TInv
  PROVE  /\ term \in [Terms -> SavedLine]
         /\ cur_term_id \in Terms /\ now_term_id \in Terms
         /\ key_buf \in [Places -> Chars] /\ key_buf_idx \in 0 .. KEY_BUF_MAX
BY DEF TInv, TypeOK, SavedLine

\* The bookkeeping of the readers of a terminal whose process ends.
LEMMA EndsKeeps ==
  ASSUME TInv, NEW t \in Terms, Ends(t), UNCHANGED <<cur_term_id, now_term_id, term>>,
         buf_clear
  PROVE  TInv'
<1>1. key_buf' \in [Places -> Chars] /\ key_buf_idx' \in 0 .. KEY_BUF_MAX
  BY Buffers DEF buf_clear
<1>2. /\ at' \in [Terms -> {"user", "wait", "reset", "copy", "clear"}]
      /\ idx' \in [Terms -> 0 .. KEY_BUF_MAX]
      /\ length' \in [Terms -> Lengths \cup {0}]
  BY Buffers DEF TInv, TypeOK, Ends
<1>3. <<>> \in Seq(Chars) /\ Len(<<>>) = 0
  OBVIOUS
<1>4. got' \in [Terms -> Seq(Chars)]
  BY <1>3 DEF TInv, Ends
<1>5. \A u \in Terms : Len(got'[u]) = IF at'[u] = "copy" THEN idx'[u] ELSE 0
  BY <1>3 DEF TInv, TypeOK, Ends
<1>6. Loops'
  BY DEF TInv, TypeOK, Loops, Ends
<1>7. QED
  BY <1>1, <1>2, <1>4, <1>5, <1>6 DEF TInv, TypeOK

\* The keyboard's handler writes inside the buffer.
LEMMA KeysKeepTypes ==
  ASSUME TInv, \/ \E k \in Keys : Type(k)
               \/ Enter
               \/ Backspace
               \/ \E n \in Terms : AltF(n)
  PROVE  TInv'
<1> USE Buffers
<1>1. UNCHANGED <<now_term_id, readerVars>>
  BY DEF Type, Enter, Backspace, AltF
<1>2. SUFFICES /\ cur_term_id' \in Terms
               /\ key_buf' \in [Places -> Chars]
               /\ key_buf_idx' \in 0 .. KEY_BUF_MAX
               /\ term' \in [Terms -> SavedLine]
  BY <1>1, <1>2 DEF TInv, TypeOK, Loops, readerVars, SavedLine
<1> USE TermType
<1>3. CASE \E k \in Keys : Type(k)
  <2>1. PICK k \in Keys : Type(k)
    BY <1>3
  <2>2. key_buf' \in [Places -> Chars]
    BY <2>1 DEF Type, Put
  <2>3. key_buf_idx' \in 0 .. KEY_BUF_MAX
    BY <2>1 DEF Type, HasRoom, Put
  <2>4. QED
    BY <2>1, <2>2, <2>3 DEF Type
<1>4. CASE Enter
  <2>1. term' \in [Terms -> SavedLine]
    BY <1>4, EnterFields DEF Enter, WithEnter
  <2>2. key_buf' \in [Places -> Chars]
    BY <1>4 DEF Enter, Put
  <2>3. QED
    BY <1>4, <2>1, <2>2 DEF Enter, Put
<1>5. CASE Backspace
  BY <1>5 DEF Backspace, Erased
<1>6. CASE \E n \in Terms : AltF(n)
  <2>1. PICK n \in Terms : AltF(n)
    BY <1>6
  <2>2. Saved(cur_term_id) \in [Terms -> SavedLine]
    BY LineFields DEF Saved, WithLine
  <2>3. Empty \in [Places -> Chars] /\ 0 \in 0 .. KEY_BUF_MAX
    OBVIOUS
  <2>4. term' \in [Terms -> SavedLine]
    BY <2>1, <2>2, <2>3, LineFields DEF AltF, WithLine
  <2>5. key_buf' \in [Places -> Chars] /\ key_buf_idx' \in 0 .. KEY_BUF_MAX
    BY <2>1, <2>2 DEF AltF, SavedLine
  <2>6. QED
    BY <2>1, <2>4, <2>5 DEF AltF
<1>7. QED
  BY <1>3, <1>4, <1>5, <1>6

\* So do the loops of term_read and of its buf_clear.
LEMMA ReaderKeepsTypes ==
  ASSUME TInv, NEW t \in Terms, ReaderStep(t)
  PROVE  TInv'
<1> USE Buffers
<1>1. UNCHANGED <<cur_term_id, now_term_id>>
  BY DEF ReaderStep
<1>2. at \in [Terms -> {"user", "wait", "reset", "copy", "clear"}]
  BY DEF TInv, TypeOK
<1>3. CASE Wait(t)
  BY <1>1, <1>2, <1>3 DEF TInv, TypeOK, Loops, Wait, keyVars
<1>4. CASE Reset(t)
  <2>1. term' \in [Terms -> SavedLine]
    BY <1>4, TermType, EnterFields DEF Reset, WithEnter
  <2>2. QED
    BY <1>1, <1>2, <1>4, <2>1 DEF TInv, TypeOK, Loops, Reset, keyVars, SavedLine
<1>5. CASE Copy(t)
  <2>1. idx[t] \in Places /\ key_buf[idx[t]] \in Chars
    BY <1>5 DEF TInv, TypeOK, Copy, More, Places
  <2>2. got[t] \in Seq(Chars) /\ Len(got[t]) = idx[t]
    BY <1>5 DEF TInv, TypeOK, Copy
  <2>3. DEFINE more == Append(got[t], key_buf[idx[t]])
  <2>4. more \in Seq(Chars) /\ Len(more) = idx[t] + 1
    BY <2>1, <2>2
  <2>5. got' = [got EXCEPT ![t] = more] /\ idx' = [idx EXCEPT ![t] = idx[t] + 1]
        /\ UNCHANGED <<keyVars, term, at, length>>
    BY <1>5 DEF Copy
  <2>6. got' \in [Terms -> Seq(Chars)]
    BY <2>4, <2>5 DEF TInv
  <2>7. idx' \in [Terms -> 0 .. KEY_BUF_MAX]
    BY <2>1, <2>5 DEF TInv, TypeOK, Places
  <2>8. \A u \in Terms : Len(got'[u]) = IF at'[u] = "copy" THEN idx'[u] ELSE 0
    <3>1. TAKE u \in Terms
    <3>2. CASE u = t
      <4>1. got'[u] = more /\ idx'[u] = idx[t] + 1 /\ at'[u] = "copy"
        BY <1>5, <2>5, <3>2 DEF TInv, TypeOK, Copy
      <4>2. QED
        BY <2>4, <4>1
    <3>3. CASE u # t
      <4>1. got'[u] = got[u] /\ idx'[u] = idx[u] /\ at'[u] = at[u]
        BY <2>5, <3>3 DEF TInv, TypeOK
      <4>2. QED
        BY <4>1 DEF TInv, TypeOK
    <3>4. QED
      BY <3>2, <3>3
  <2>9. Loops'
    BY <1>5, <2>5 DEF TInv, TypeOK, Loops, Copy
  <2>10. QED
    BY <1>1, <2>5, <2>6, <2>7, <2>8, <2>9 DEF TInv, TypeOK, keyVars
<1>6. CASE Copied(t)
  <2>1. <<>> \in Seq(Chars) /\ Len(<<>>) = 0
    OBVIOUS
  <2>2. got' \in [Terms -> Seq(Chars)]
    BY <1>6, <2>1 DEF TInv, Copied
  <2>3. \A u \in Terms : Len(got'[u]) = IF at'[u] = "copy" THEN idx'[u] ELSE 0
    BY <1>6, <2>1 DEF TInv, TypeOK, Copied
  <2>4. QED
    BY <1>1, <1>2, <1>6, <2>2, <2>3 DEF TInv, TypeOK, Loops, Copied, keyVars
<1>7. CASE Clear(t)
  BY <1>1, <1>2, <1>7 DEF TInv, TypeOK, Loops, Clear
<1>8. CASE Return(t)
  BY <1>1, <1>2, <1>8 DEF TInv, TypeOK, Loops, Return
<1>9. QED
  BY <1>3, <1>4, <1>5, <1>6, <1>7, <1>8 DEF ReaderStep

LEMMA TypesKept == TInv /\ [Next]_vars => TInv'
<1> SUFFICES ASSUME TInv, [Next]_vars PROVE TInv'
  OBVIOUS
<1>1. now_term_id \in Terms
  BY DEF TInv, TypeOK
<1>2. CASE UNCHANGED vars
  BY <1>2 DEF vars, keyVars, readerVars, TInv, TypeOK, Loops
<1>3. CASE Tick
  <2>1. now_term_id' \in Terms
    BY <1>1, <1>3, Buffers DEF Tick, Terms
  <2>2. QED
    BY <1>3, <2>1 DEF Tick, keyVars, readerVars, TInv, TypeOK, Loops
<1>4. CASE Halt
  BY <1>1, <1>4, EndsKeeps DEF Halt
<1>5. CASE CtrlC
  BY <1>1, <1>5, EndsKeeps DEF CtrlC
<1>6. CASE Read
  <2>1. PICK n \in Lengths : length' = [length EXCEPT ![now_term_id] = n]
    BY <1>6 DEF Read
  <2>2. QED
    BY <1>1, <1>6, <2>1 DEF Read, keyVars, TInv, TypeOK, Loops
<1>7. QED
  BY <1>2, <1>3, <1>4, <1>5, <1>6, KeysKeepTypes, ReaderKeepsTypes DEF Next

LEMMA TypesAtFirst == Init => TInv
<1>1. <<>> \in Seq(Chars) /\ Len(<<>>) = 0
  OBVIOUS
<1>2. QED
  BY <1>1, Buffers DEF Init, TInv, TypeOK, Loops, Terms

\* No index of the key buffer or of a saved line leaves its buffer, whatever
\* keys, switches and ends come between two steps of term_read.
THEOREM TypeCorrect == Spec => []TypeOK
<1>1. Spec => []TInv
  BY TypesAtFirst, TypesKept, PTL DEF Spec
<1>2. TInv => TypeOK
  BY DEF TInv
<1>3. QED
  BY <1>1, <1>2, PTL

-----------------------------------------------------------------------------
(* The attended keyboard *)

\* The text of a buffer's first n characters.
LEMMA PrefixType ==
  ASSUME NEW buf \in [Places -> Chars], NEW n \in 0 .. KEY_BUF_MAX
  PROVE  /\ Prefix(buf, n) \in Seq(Chars)
         /\ Len(Prefix(buf, n)) = n
         /\ \A i \in 1 .. n : Prefix(buf, n)[i] = buf[i - 1]
<1>1. \A i \in 1 .. n : buf[i - 1] \in Chars
  BY Buffers DEF Places
<1>2. n \in Nat
  BY Buffers
<1>3. Prefix(buf, n) \in [1 .. n -> Chars]
  BY <1>1 DEF Prefix
<1>4. Prefix(buf, n) \in Seq(Chars)
  BY <1>2, <1>3, SeqDef
<1>5. QED
  BY <1>2, <1>3, <1>4 DEF Prefix

LEMMA PrefixesEqual ==
  ASSUME NEW buf \in [Places -> Chars], NEW n \in 0 .. KEY_BUF_MAX,
         NEW other \in [Places -> Chars],
         \A i \in Places : i < n => buf[i] = other[i]
  PROVE  Prefix(buf, n) = Prefix(other, n)
BY Buffers DEF Prefix, Places

LEMMA NoPrefix ==
  ASSUME NEW buf \in [Places -> Chars]
  PROVE  Prefix(buf, 0) = <<>>
<1>1. 0 \in 0 .. KEY_BUF_MAX
  BY Buffers
<1>2. Prefix(buf, 0) \in Seq(Chars) /\ Len(Prefix(buf, 0)) = 0
  BY <1>1, PrefixType
<1>3. QED
  BY <1>2, EmptySeq

LEMMA LongerPrefix ==
  ASSUME NEW buf \in [Places -> Chars], NEW n \in Places
  PROVE  Append(Prefix(buf, n), buf[n]) = Prefix(buf, n + 1)
<1>1. n \in 0 .. KEY_BUF_MAX /\ n + 1 \in 0 .. KEY_BUF_MAX /\ buf[n] \in Chars
  BY Buffers DEF Places
<1>2. DEFINE s == Prefix(buf, n)
             r == Prefix(buf, n + 1)
<1>3. /\ s \in Seq(Chars) /\ Len(s) = n
      /\ \A i \in 1 .. n : s[i] = buf[i - 1]
      /\ r \in Seq(Chars) /\ Len(r) = n + 1
      /\ \A i \in 1 .. n + 1 : r[i] = buf[i - 1]
  BY <1>1, PrefixType
<1> HIDE DEF s, r
<1>4. /\ Append(s, buf[n]) \in Seq(Chars)
      /\ Len(Append(s, buf[n])) = n + 1
      /\ \A i \in 1 .. n + 1 : Append(s, buf[n])[i] = r[i]
  BY <1>1, <1>3
<1>5. Append(s, buf[n]) = r
  BY <1>3, <1>4, SeqEqual
<1>6. QED
  BY <1>5 DEF s, r

LEMMA ShorterPrefix ==
  ASSUME NEW buf \in [Places -> Chars], NEW n \in 0 .. KEY_BUF_MAX, NEW m \in 0 .. n
  PROVE  SubSeq(Prefix(buf, n), 1, m) = Prefix(buf, m)
<1>1. m \in 0 .. KEY_BUF_MAX
  BY Buffers
<1>2. DEFINE s == Prefix(buf, n)
             r == Prefix(buf, m)
<1>3. /\ s \in Seq(Chars) /\ Len(s) = n
      /\ \A i \in 1 .. n : s[i] = buf[i - 1]
      /\ r \in Seq(Chars) /\ Len(r) = m
      /\ \A i \in 1 .. m : r[i] = buf[i - 1]
  BY <1>1, PrefixType
<1> HIDE DEF s, r
<1>4. /\ SubSeq(s, 1, m) \in Seq(Chars)
      /\ Len(SubSeq(s, 1, m)) = m
      /\ \A i \in 1 .. m : SubSeq(s, 1, m)[i] = r[i]
  BY <1>3
<1>5. SubSeq(s, 1, m) = r
  BY <1>3, <1>4, SeqEqual
<1>6. QED
  BY <1>5 DEF s, r

-----------------------------------------------------------------------------

LEMMA AttendedIsNext == AttendedNext => Next
BY DEF AttendedNext, Next

\* While no line is being read, the key buffer has half a line.
LEMMA SettledHalfLine ==
  ASSUME LInv, Settled
  PROVE  /\ ~Entered
         /\ HalfLine(key_buf, key_buf_idx)
         /\ at[cur_term_id] \in {"user", "wait"}
BY TermType DEF LInv, Settled, Entered, Busy, KeyBufHolds

\* While a line is being read, and only then, the readers are past their wait.
LEMMA EnteredNotEmpty ==
  ASSUME LInv, Entered
  PROVE  key_buf_idx > 0
BY DEF LInv, KeyBufHolds

\* The keys of a quiet moment keep half a line, or complete it.
LEMMA TypingKeeps ==
  ASSUME LInv, TInv', Quiet,
         \/ \E k \in Keys : Type(k)
         \/ Enter
         \/ Backspace
  PROVE  LInv'
<1> TInv
  BY DEF LInv
<1> USE TermType, Buffers
<1>1. LInv /\ Settled /\ at[cur_term_id] = "wait" /\ HalfLine(key_buf, key_buf_idx) /\ ~Entered
  BY SettledHalfLine DEF Quiet
<1>2. UNCHANGED <<cur_term_id, at, idx, length, got>>
  BY DEF Type, Enter, Backspace, readerVars
<1>3. CopiedSoFar'
  BY <1>1, <1>2 DEF CopiedSoFar
<1>4. CASE \E k \in Keys : Type(k)
  <2>1. PICK k \in Keys : Type(k)
    BY <1>4
  <2>2. k # NUL /\ k # NL
    BY KeysAssumption
  <2>3. /\ key_buf_idx \in Places
        /\ key_buf' = [key_buf EXCEPT ![key_buf_idx] = k]
        /\ key_buf_idx' = key_buf_idx + 1
        /\ term' = term
    BY <2>1 DEF Type, Put, HasRoom, Places
  <2>4. HalfLine(key_buf', key_buf_idx')
    BY <1>1, <2>2, <2>3 DEF HalfLine, IsText, Places
  <2>5. OnlyOnScreen' /\ KeyBufHolds' /\ SavedHold'
    BY <1>1, <1>2, <2>3, <2>4 DEF LInv, OnlyOnScreen, Busy, KeyBufHolds, Entered, SavedHold
  <2>6. QED
    BY <1>3, <2>5 DEF LInv
<1>5. CASE Enter
  <2>1. /\ key_buf_idx \in Places
        /\ key_buf' = [key_buf EXCEPT ![key_buf_idx] = NL]
        /\ key_buf_idx' = key_buf_idx + 1
    BY <1>5 DEF Enter, Put, Places
  <2>2. \A t \in Terms : /\ term'[t].key_buf = term[t].key_buf
                         /\ term'[t].key_buf_idx = term[t].key_buf_idx
                         /\ t # cur_term_id => term'[t] = term[t]
                         /\ t = cur_term_id => term'[t].enter_state = 1
    <3> DEFINE entered == WithEnter(term, cur_term_id, 1)
    <3>1. term \in [Terms -> SavedLine] /\ cur_term_id \in Terms /\ 1 \in {0, 1}
      OBVIOUS
    <3>2. /\ entered[cur_term_id] =
               [key_buf |-> term[cur_term_id].key_buf,
                key_buf_idx |-> term[cur_term_id].key_buf_idx, enter_state |-> 1]
          /\ \A t \in Terms \ {cur_term_id} : entered[t] = term[t]
      BY <3>1, EnterFields
    <3>3. term' = entered
      BY <1>5 DEF Enter, WithEnter
    <3> HIDE DEF entered
    <3>4. QED
      BY <3>1, <3>2, <3>3
  <2>3. IsText(key_buf', key_buf_idx') /\ key_buf'[key_buf_idx' - 1] = NL /\ key_buf_idx' > 0
    BY <1>1, <2>1, KeysAssumption DEF HalfLine, IsText, Places
  <2>4. OnlyOnScreen' /\ SavedHold'
    BY <1>1, <1>2, <2>2 DEF LInv, OnlyOnScreen, Busy, SavedHold
  <2>5. KeyBufHolds'
    BY <1>1, <1>2, <2>2, <2>3 DEF KeyBufHolds, Entered
  <2>6. QED
    BY <1>3, <2>4, <2>5 DEF LInv
<1>6. CASE Backspace
  <2>1. /\ key_buf_idx - 1 \in Places
        /\ key_buf' = [key_buf EXCEPT ![key_buf_idx - 1] = NUL]
        /\ key_buf_idx' = key_buf_idx - 1
        /\ term' = term
    BY <1>6 DEF Backspace, Erased, Places
  <2>2. HalfLine(key_buf', key_buf_idx')
    BY <1>1, <2>1 DEF HalfLine, IsText, Places
  <2>3. OnlyOnScreen' /\ KeyBufHolds' /\ SavedHold'
    BY <1>1, <1>2, <2>1, <2>2 DEF LInv, OnlyOnScreen, Busy, KeyBufHolds, Entered, SavedHold
  <2>4. QED
    BY <1>3, <2>3 DEF LInv
<1>7. QED
  BY <1>4, <1>5, <1>6

\* A switch takes the half line to the terminal's record and brings another.
LEMMA SwitchFields ==
  ASSUME TInv, NEW n \in Terms, AltF(n)
  PROVE  /\ cur_term_id' = n
         /\ UNCHANGED <<now_term_id, at, idx, length, got>>
         /\ \A t \in Terms : term'[t].enter_state = term[t].enter_state
         /\ n = cur_term_id => key_buf' = key_buf /\ key_buf_idx' = key_buf_idx
         /\ n # cur_term_id => /\ key_buf' = term[n].key_buf
                               /\ key_buf_idx' = term[n].key_buf_idx
                               /\ term'[cur_term_id].key_buf = key_buf
                               /\ term'[cur_term_id].key_buf_idx = key_buf_idx
         /\ \A t \in Terms \ {n, cur_term_id} : term'[t] = term[t]
<1> USE TermType, Buffers
<1> DEFINE saved == WithLine(term, cur_term_id, key_buf, key_buf_idx)
<1>1. /\ saved \in [Terms -> SavedLine]
      /\ saved[cur_term_id] = [key_buf |-> key_buf, key_buf_idx |-> key_buf_idx,
                               enter_state |-> term[cur_term_id].enter_state]
      /\ \A u \in Terms \ {cur_term_id} : saved[u] = term[u]
  BY LineFields
<1>2. saved = Saved(cur_term_id)
  BY DEF Saved, WithLine
<1> HIDE DEF saved
<1>3. /\ key_buf' = saved[n].key_buf
      /\ key_buf_idx' = saved[n].key_buf_idx
      /\ term' = WithLine(saved, n, Empty, 0)
      /\ cur_term_id' = n
      /\ UNCHANGED <<now_term_id, at, idx, length, got>>
  BY <1>2 DEF AltF, readerVars, WithLine
<1>4. Empty \in [Places -> Chars] /\ 0 \in 0 .. KEY_BUF_MAX
  OBVIOUS
<1>5. /\ WithLine(saved, n, Empty, 0)[n] =
           [key_buf |-> Empty, key_buf_idx |-> 0, enter_state |-> saved[n].enter_state]
      /\ \A u \in Terms \ {n} : WithLine(saved, n, Empty, 0)[u] = saved[u]
  BY <1>1, <1>4, LineFields
<1>6. QED
  BY <1>1, <1>3, <1>5

LEMMA SwitchKeeps ==
  ASSUME LInv, TInv', Settled, NEW n \in Terms, AltF(n)
  PROVE  LInv'
<1> TInv
  BY DEF LInv
<1> USE TermType, Buffers
<1>1. TInv /\ HalfLine(key_buf, key_buf_idx)
  BY SettledHalfLine DEF LInv
<1>2. \A t \in Terms : /\ at'[t] = at[t] /\ at[t] \in {"user", "wait"}
                       /\ term'[t].enter_state = 0
  BY <1>1, SwitchFields DEF Settled
<1>3. OnlyOnScreen' /\ ~Entered' /\ CopiedSoFar' /\ at'[cur_term_id'] # "clear"
  BY <1>1, <1>2, SwitchFields DEF OnlyOnScreen, Busy, Entered, CopiedSoFar
<1>4. HalfLine(key_buf', key_buf_idx')
  BY <1>1, SwitchFields DEF LInv, SavedHold
<1>5. SavedHold'
  <2>1. SUFFICES ASSUME NEW t \in Terms, t # n
                 PROVE  HalfLine(term'[t].key_buf, term'[t].key_buf_idx)
    BY <1>1, SwitchFields DEF SavedHold
  <2>2. CASE t = cur_term_id
    BY <1>1, <2>1, <2>2, SwitchFields
  <2>3. CASE t # cur_term_id
    <3>1. term'[t] = term[t]
      BY <1>1, <2>1, <2>3, SwitchFields
    <3>2. QED
      BY <2>3, <3>1 DEF LInv, SavedHold
  <2>4. QED
    BY <2>2, <2>3
<1>6. QED
  BY <1>3, <1>4, <1>5 DEF LInv, KeyBufHolds

\* Programs end while nothing is typed, or while nothing is being read.
LEMMA EndKeeps ==
  ASSUME LInv, TInv',
         \/ key_buf_idx = 0 /\ Halt
         \/ Settled /\ CtrlC
  PROVE  LInv'
<1> TInv
  BY DEF LInv
<1> USE TermType, Buffers
<1>1. ~Entered
  BY SettledHalfLine, EnteredNotEmpty
<1>2. /\ UNCHANGED <<cur_term_id, now_term_id, term>>
      /\ key_buf' = Empty /\ key_buf_idx' = 0
      /\ Ends(now_term_id)
  BY DEF Halt, CtrlC, buf_clear
<1>3. at[now_term_id] \in {"user", "wait"}
  BY DEF Halt, Settled
<1>4. \A t \in Terms :
        /\ t # now_term_id => at'[t] = at[t]
        /\ at'[now_term_id] = "user"
        /\ term[t].enter_state # 0 => t # now_term_id
  <2>1. at' = [at EXCEPT ![now_term_id] = "user"] /\ at \in [Terms -> {"user", "wait", "reset", "copy", "clear"}]
    BY <1>2 DEF Ends, TInv, TypeOK
  <2>2. term[now_term_id].enter_state = 0
    BY DEF LInv, OnlyOnScreen, Halt, Settled
  <2>3. QED
    BY <2>1, <2>2
<1>5. HalfLine(Empty, 0)
  BY KeysAssumption DEF HalfLine, IsText, Empty, Places
<1>6. OnlyOnScreen' /\ ~Entered'
  BY <1>1, <1>2, <1>4 DEF LInv, OnlyOnScreen, Busy, Entered
<1>7. at'[cur_term_id] \in {"user", "wait"}
  BY <1>1, <1>3, <1>4 DEF Entered, Busy, TInv, TypeOK
<1>8. KeyBufHolds' /\ CopiedSoFar' /\ SavedHold'
  BY <1>2, <1>5, <1>6, <1>7 DEF LInv, KeyBufHolds, CopiedSoFar, SavedHold
<1>9. QED
  BY <1>6, <1>8 DEF LInv

\* The call of read, and the timer, change no line.
LEMMA CallKeeps ==
  ASSUME LInv, TInv', Read \/ Tick
  PROVE  LInv'
<1> TInv
  BY DEF LInv
<1> USE TermType
<1>1. CASE Read
  <2>1. UNCHANGED <<cur_term_id, now_term_id, key_buf, key_buf_idx, term, idx, got>>
    BY <1>1 DEF Read, keyVars
  <2>2. /\ at[now_term_id] = "user" /\ at'[now_term_id] = "wait"
        /\ \A t \in Terms : t # now_term_id => at'[t] = at[t] /\ length'[t] = length[t]
    <3>1. PICK n \in Lengths : length' = [length EXCEPT ![now_term_id] = n]
      BY <1>1 DEF Read
    <3>2. QED
      BY <1>1, <3>1 DEF Read, TInv, TypeOK
  <2>3. term[now_term_id].enter_state = 0
    BY <2>2 DEF LInv, OnlyOnScreen
  <2>4. OnlyOnScreen' /\ (Entered' <=> Entered)
    BY <2>1, <2>2, <2>3 DEF LInv, OnlyOnScreen, Busy, Entered
  <2>5. KeyBufHolds' /\ CopiedSoFar' /\ SavedHold'
    BY <2>1, <2>2, <2>4 DEF LInv, KeyBufHolds, CopiedSoFar, SavedHold
  <2>6. QED
    BY <2>4, <2>5 DEF LInv
<1>2. CASE Tick
  BY <1>2 DEF Tick, keyVars, readerVars, LInv, OnlyOnScreen, Busy, Entered,
              KeyBufHolds, CopiedSoFar, SavedHold
<1>3. QED
  BY <1>1, <1>2

\* The steps of a reader, which is the one of the terminal on the screen as soon
\* as it has seen its Enter.
LEMMA ReadingKeeps ==
  ASSUME LInv, TInv', NEW t \in Terms, ReaderStep(t)
  PROVE  LInv'
<1> TInv
  BY DEF LInv
<1> USE TermType
<1>1. UNCHANGED <<cur_term_id, now_term_id>>
  BY DEF ReaderStep
<1>2. t = cur_term_id
  BY DEF ReaderStep, Wait, Reset, Copy, Copied, Clear, Return, LInv, OnlyOnScreen, Busy
<1>3. /\ at \in [Terms -> {"user", "wait", "reset", "copy", "clear"}]
      /\ idx \in [Terms -> 0 .. KEY_BUF_MAX]
      /\ got \in [Terms -> Seq(Chars)]
  BY DEF TInv, TypeOK
<1>4. CASE Wait(t)
  <2>1. /\ UNCHANGED <<key_buf, key_buf_idx, term, idx, length, got>>
        /\ at'[t] = "reset" /\ \A u \in Terms \ {t} : at'[u] = at[u]
        /\ Entered /\ at[t] = "wait"
    BY <1>2, <1>3, <1>4 DEF Wait, keyVars, Entered
  <2>2. QED
    BY <1>1, <1>2, <2>1 DEF LInv, OnlyOnScreen, Busy, Entered, KeyBufHolds,
                            CopiedSoFar, SavedHold
<1>5. CASE Reset(t)
  <2>1. /\ UNCHANGED <<key_buf, key_buf_idx, idx, length, got>>
        /\ at'[t] = "copy" /\ \A u \in Terms \ {t} : at'[u] = at[u]
        /\ Entered /\ at[t] = "reset"
    BY <1>2, <1>3, <1>5 DEF Reset, keyVars, Entered, Busy
  <2>2. term'[t].enter_state = 0 /\ \A u \in Terms \ {t} : term'[u] = term[u]
    <3> DEFINE reset == WithEnter(term, t, 0)
    <3>1. term \in [Terms -> SavedLine] /\ 0 \in {0, 1}
      OBVIOUS
    <3>2. /\ reset[t] = [key_buf |-> term[t].key_buf,
                          key_buf_idx |-> term[t].key_buf_idx, enter_state |-> 0]
          /\ \A u \in Terms \ {t} : reset[u] = term[u]
      BY <3>1, EnterFields
    <3>3. term' = reset
      BY <1>5 DEF Reset, WithEnter
    <3> HIDE DEF reset
    <3>4. QED
      BY <3>2, <3>3
  <2>3. idx[t] = 0 /\ length[t] \in Nat /\ Len(got[t]) = 0
    BY <2>1, KeysAssumption DEF TInv, TypeOK, Loops
  <2>4. got[t] = <<>>
    BY <1>3, <2>3, EmptySeq
  <2>5. CopiedSoFar'
    BY <1>1, <1>2, <2>1, <2>3, <2>4, NoPrefix DEF CopiedSoFar
  <2>6. OnlyOnScreen' /\ KeyBufHolds' /\ SavedHold'
    BY <1>1, <1>2, <2>1, <2>2 DEF LInv, OnlyOnScreen, Busy, Entered, KeyBufHolds, SavedHold
  <2>7. QED
    BY <2>5, <2>6 DEF LInv
<1>6. CASE Copy(t)
  <2>1. /\ UNCHANGED <<key_buf, key_buf_idx, term, length, at>>
        /\ at[t] = "copy" /\ More(t)
        /\ idx'[t] = idx[t] + 1
        /\ got'[t] = Append(got[t], key_buf[idx[t]])
    BY <1>3, <1>6 DEF Copy, keyVars
  <2>2. idx[t] \in Places /\ key_buf[idx[t]] # NUL /\ idx[t] < length[t]
    BY <1>3, <2>1, KeysAssumption DEF More, Places
  <2>3. IsText(key_buf, key_buf_idx) /\ length[t] \in Nat
    BY <1>2, <2>1, KeysAssumption DEF LInv, KeyBufHolds, Entered, Busy, TInv, Loops
  <2>4. idx[t] < key_buf_idx
    BY <2>2, <2>3 DEF IsText, Places
  <2>5. got[t] = Prefix(key_buf, idx[t])
    BY <1>2, <2>1 DEF LInv, CopiedSoFar
  <2>6. got'[t] = Prefix(key_buf, idx[t] + 1)
    BY <2>1, <2>2, <2>5, LongerPrefix
  <2>7. CopiedSoFar'
    BY <1>1, <1>2, <2>1, <2>2, <2>3, <2>4, <2>6 DEF CopiedSoFar, Places
  <2>8. OnlyOnScreen' /\ KeyBufHolds' /\ SavedHold'
    BY <1>1, <1>2, <2>1 DEF LInv, OnlyOnScreen, Busy, Entered, KeyBufHolds, SavedHold
  <2>9. QED
    BY <2>7, <2>8 DEF LInv
<1>7. CASE Copied(t)
  <2>1. /\ UNCHANGED <<key_buf, key_buf_idx, term>>
        /\ at[t] = "copy" /\ at'[t] = "clear" /\ idx'[t] = 0
        /\ \A u \in Terms \ {t} : at'[u] = at[u]
    BY <1>3, <1>7 DEF Copied, keyVars
  <2>2. key_buf_idx > 0
    BY <1>2, <2>1, EnteredNotEmpty DEF Entered, Busy
  <2>3. KeyBufHolds' /\ CopiedSoFar'
    BY <1>1, <1>2, <2>1, <2>2 DEF KeyBufHolds, CopiedSoFar, Places
  <2>4. OnlyOnScreen' /\ SavedHold'
    BY <1>1, <1>2, <2>1 DEF LInv, OnlyOnScreen, Busy, SavedHold
  <2>5. QED
    BY <2>3, <2>4 DEF LInv
<1>8. CASE Clear(t)
  <2>1. /\ UNCHANGED <<key_buf_idx, term, at>>
        /\ at[t] = "clear" /\ idx'[t] = idx[t] + 1
        /\ idx[t] \in Places /\ key_buf' = [key_buf EXCEPT ![idx[t]] = NUL]
    BY <1>3, <1>8, KeysAssumption DEF Clear, Places
  <2>2. key_buf_idx > 0 /\ \A i \in Places : i < idx[t] => key_buf[i] = NUL
    BY <1>2, <2>1 DEF LInv, KeyBufHolds
  <2>3. \A i \in Places : i < idx'[t] => key_buf'[i] = NUL
    BY <2>1, <2>2 DEF Places
  <2>4. KeyBufHolds' /\ CopiedSoFar'
    BY <1>1, <1>2, <2>1, <2>2, <2>3 DEF KeyBufHolds, CopiedSoFar
  <2>5. OnlyOnScreen' /\ SavedHold'
    BY <1>1, <1>2, <2>1 DEF LInv, OnlyOnScreen, Busy, SavedHold
  <2>6. QED
    BY <2>4, <2>5 DEF LInv
<1>9. CASE Return(t)
  <2>1. /\ UNCHANGED <<key_buf, term>>
        /\ at[t] = "clear" /\ idx[t] = KEY_BUF_MAX /\ key_buf_idx' = 0
        /\ at'[t] = "user" /\ \A u \in Terms \ {t} : at'[u] = at[u]
    BY <1>3, <1>9 DEF Return
  <2>2. \A i \in Places : key_buf[i] = NUL
    BY <1>2, <2>1, Buffers DEF LInv, KeyBufHolds, Places
  <2>3. HalfLine(key_buf', key_buf_idx')
    BY <2>1, <2>2, KeysAssumption DEF HalfLine, IsText, Places
  <2>4. OnlyOnScreen' /\ SavedHold'
    BY <1>1, <1>2, <2>1 DEF LInv, OnlyOnScreen, Busy, SavedHold
  <2>5. term[t].enter_state = 0
    BY <2>1 DEF LInv, OnlyOnScreen
  <2>6. KeyBufHolds' /\ CopiedSoFar'
    BY <1>1, <1>2, <2>1, <2>3, <2>5 DEF KeyBufHolds, CopiedSoFar, Entered, Busy
  <2>7. QED
    BY <2>4, <2>6 DEF LInv
<1>10. QED
  BY <1>4, <1>5, <1>6, <1>7, <1>8, <1>9 DEF ReaderStep

LEMMA LinesKept == LInv /\ [AttendedNext]_vars => LInv'
<1> SUFFICES ASSUME LInv, [AttendedNext]_vars PROVE LInv'
  OBVIOUS
<1>1. TInv'
  BY AttendedIsNext, TypesKept DEF LInv
<1>2. CASE UNCHANGED vars
  BY <1>1, <1>2 DEF vars, keyVars, readerVars, LInv, OnlyOnScreen, Busy, Entered,
                    KeyBufHolds, CopiedSoFar, SavedHold
<1>3. CASE AttendedNext
  BY <1>1, <1>3, TypingKeeps, SwitchKeeps, EndKeeps, CallKeeps, ReadingKeeps
     DEF AttendedNext, Quiet
<1>4. QED
  BY <1>2, <1>3

LEMMA LinesAtFirst == Init => LInv
<1> SUFFICES ASSUME Init PROVE LInv
  OBVIOUS
<1>1. TInv
  BY TypesAtFirst
<1>2. /\ cur_term_id = 0 /\ 0 \in Terms
      /\ key_buf = Empty /\ key_buf_idx = 0
      /\ \A t \in Terms : /\ at[t] = "user"
                           /\ term[t].key_buf = Empty
                           /\ term[t].key_buf_idx = 0
                           /\ term[t].enter_state = 0
  BY Buffers DEF Init, Terms
<1>3. HalfLine(Empty, 0)
  BY KeysAssumption DEF HalfLine, IsText, Empty, Places
<1>4. QED
  BY <1>1, <1>2, <1>3 DEF LInv, OnlyOnScreen, Busy, Entered, KeyBufHolds, CopiedSoFar,
                          SavedHold

THEOREM AttendedInvariance == AttendedSpec => []LInv
BY LinesAtFirst, LinesKept, PTL DEF AttendedSpec

\* The reader stops at a NUL and the keyboard counts: in the buffer on the screen
\* and in every saved one the text is what lies below the index.
THEOREM TextsKept == AttendedSpec => []BuffersAreText
<1>1. LInv => BuffersAreText
  BY TermType DEF LInv, KeyBufHolds, SavedHold, HalfLine, BuffersAreText
<1>2. QED
  BY <1>1, AttendedInvariance, PTL

-----------------------------------------------------------------------------
(* The attended keyboard implements LineDiscipline *)

\* Half a line is not complete: a newline ends it at Enter only.
LEMMA HalfNotComplete ==
  ASSUME NEW buf \in [Places -> Chars], NEW n \in 0 .. KEY_BUF_MAX, HalfLine(buf, n)
  PROVE  ~Promise!Complete(Prefix(buf, n))
<1> DEFINE s == Prefix(buf, n)
<1>1. s \in Seq(Chars) /\ Len(s) = n /\ \A i \in 1 .. n : s[i] = buf[i - 1]
  BY PrefixType
<1> HIDE DEF s
<1>2. SUFFICES ASSUME s # <<>> PROVE s[Len(s)] # NL
  BY DEF Promise!Complete, s
<1>3. n > 0
  BY <1>1, <1>2, EmptySeq, Buffers
<1>4. n - 1 \in Places /\ n - 1 < n /\ n \in 1 .. n
  BY <1>3, Buffers DEF Places
<1>5. QED
  BY <1>1, <1>4 DEF HalfLine

\* Lines and the last result stay.
LEMMA SameLines ==
  ASSUME \A t \in Terms : Text(t)' = Text(t), taken' = taken
  PROVE  UNCHANGED Promise!vars
BY DEF Promise!vars

LEMMA SameTexts ==
  ASSUME cur_term_id' = cur_term_id,
         \A t \in Terms \ {cur_term_id} : term'[t] = term[t],
         UNCHANGED <<key_buf, key_buf_idx>>,
         at'[cur_term_id] = "clear" <=> at[cur_term_id] = "clear"
  PROVE  \A t \in Terms : Text(t)' = Text(t)
BY DEF Text

\* Only the line on the screen changes.
LEMMA LineOnScreen ==
  ASSUME cur_term_id' = cur_term_id, cur_term_id \in Terms,
         \A t \in Terms \ {cur_term_id} : term'[t] = term[t],
         NEW s, Text(cur_term_id)' = s
  PROVE  [t \in Terms |-> Text(t)]' = [[t \in Terms |-> Text(t)] EXCEPT ![cur_term_id] = s]
<1>1. \A t \in Terms \ {cur_term_id} : Text(t)' = Text(t)
  BY DEF Text
<1>2. \A t \in Terms : t = cur_term_id => Text(t)' = s
  OBVIOUS
<1>3. QED
  BY <1>1, <1>2

\* A read ends with the copy, and nowhere else.
LEMMA TakenAtCopied ==
  ASSUME TInv, HistoryNext, \A t \in Terms : ReaderStep(t) => ~Copied(t)
  PROVE  taken' = taken
<1> USE TermType
<1>1. SUFFICES ASSUME NEW t \in Terms, at[t] = "copy", at'[t] = "clear" PROVE FALSE
  BY DEF HistoryNext
<1>2. at \in [Terms -> {"user", "wait", "reset", "copy", "clear"}]
  BY DEF TInv, TypeOK
<1>3. PICK u \in Terms : ReaderStep(u)
  BY <1>1, <1>2 DEF HistoryNext, AttendedNext, Tick, Halt, Read, Type, Enter, Backspace, CtrlC,
                    AltF, Ends, readerVars
<1>4. QED
  BY <1>1, <1>2, <1>3 DEF ReaderStep, Wait, Reset, Copy, Clear, Return

LEMMA TypingRefines ==
  ASSUME LInv, LInv', taken' = taken, Quiet,
         \/ \E k \in Keys : Type(k)
         \/ Enter
         \/ Backspace
  PROVE  Promise!Next
<1> TInv /\ TInv'
  BY DEF LInv
<1> USE TermType, Buffers
<1> DEFINE c == cur_term_id
           s == Prefix(key_buf, key_buf_idx)
           line == [t \in Terms |-> Text(t)]
<1>1. HalfLine(key_buf, key_buf_idx) /\ at[c] = "wait"
  BY SettledHalfLine DEF Quiet
<1>2. cur_term_id' = c /\ at' = at /\ \A t \in Terms \ {c} : term'[t] = term[t]
  <2>1. CASE Enter
    <3> DEFINE entered == WithEnter(term, c, 1)
    <3>1. term \in [Terms -> SavedLine] /\ c \in Terms /\ 1 \in {0, 1}
      OBVIOUS
    <3>2. \A t \in Terms \ {c} : entered[t] = term[t]
      BY <3>1, EnterFields
    <3>3. term' = entered
      BY <2>1 DEF Enter, WithEnter
    <3> HIDE DEF entered
    <3>4. QED
      BY <2>1, <3>2, <3>3 DEF Enter, readerVars
  <2>2. QED
    BY <2>1 DEF Type, Backspace, readerVars
<1>3. /\ line[c] = s
      /\ Text(c)' = Prefix(key_buf', key_buf_idx')
      /\ key_buf' \in [Places -> Chars] /\ key_buf_idx' \in 0 .. KEY_BUF_MAX
  <2>1. Text(c)' = Prefix(key_buf', key_buf_idx')
    BY <1>1, <1>2 DEF Text, Prefix
  <2>2. key_buf' \in [Places -> Chars] /\ key_buf_idx' \in 0 .. KEY_BUF_MAX
    BY DEF TInv, TypeOK
  <2>3. QED
    BY <1>1, <2>1, <2>2 DEF Text
<1>4. ~Promise!Complete(line[c])
  BY <1>1, <1>3, HalfNotComplete
<1>5. s \in Seq(Chars) /\ Len(s) = key_buf_idx
  BY PrefixType
<1>6. line' = [line EXCEPT ![c] = Prefix(key_buf', key_buf_idx')]
  BY <1>2, <1>3, LineOnScreen
<1>7. ASSUME NEW k \in Chars, Put(k), key_buf_idx \in Places
      PROVE  Prefix(key_buf', key_buf_idx') = Append(s, k)
  <2>1. key_buf' = [key_buf EXCEPT ![key_buf_idx] = k] /\ key_buf_idx' = key_buf_idx + 1
    BY <1>7 DEF Put
  <2>2. key_buf'[key_buf_idx] = k /\ \A i \in Places : i < key_buf_idx => key_buf[i] = key_buf'[i]
    BY <1>7, <2>1 DEF Places
  <2>3. Prefix(key_buf', key_buf_idx) = s
    BY <1>3, <2>2, PrefixesEqual
  <2>4. QED
    BY <1>3, <1>7, <2>1, <2>2, <2>3, LongerPrefix
<1>8. c \in Promise!Terms
  BY DEF Promise!Terms, Terms
<1> HIDE DEF c, s, line
<1>9. CASE \E k \in Keys : Type(k)
  <2>1. PICK k \in Keys : Type(k)
    BY <1>9
  <2>2. key_buf_idx \in Places /\ key_buf_idx < KEY_BUF_MAX - 1 /\ Put(k) /\ k \in Chars
    BY <2>1 DEF Type, HasRoom, Places
  <2>3. line' = [line EXCEPT ![c] = Append(line[c], k)]
    BY <1>3, <1>6, <1>7, <2>2
  <2>4. Promise!Type(c, k)
    BY <1>3, <1>4, <1>5, <2>2, <2>3 DEF Promise!Type, line
  <2>5. QED
    BY <1>8, <2>4 DEF Promise!Next
<1>10. CASE Enter
  <2>1. key_buf_idx \in Places /\ Put(NL)
    BY <1>10 DEF Enter, Places
  <2>2. line' = [line EXCEPT ![c] = Append(line[c], NL)]
    BY <1>3, <1>6, <1>7, <2>1
  <2>3. Promise!Submit(c)
    BY <1>4, <2>2 DEF Promise!Submit, line
  <2>4. QED
    BY <1>8, <2>3 DEF Promise!Next
<1>11. CASE Backspace
  <2>1. /\ key_buf_idx > 0 /\ key_buf_idx' = key_buf_idx - 1
        /\ key_buf' = [key_buf EXCEPT ![key_buf_idx - 1] = NUL]
    BY <1>11 DEF Backspace, Erased
  <2>2. key_buf_idx - 1 \in 0 .. key_buf_idx /\ key_buf_idx - 1 \in 0 .. KEY_BUF_MAX
    BY <2>1
  <2>3. \A i \in Places : i < key_buf_idx - 1 => key_buf[i] = key_buf'[i]
    BY <2>1 DEF Places
  <2>4. Prefix(key_buf', key_buf_idx') = Prefix(key_buf, key_buf_idx - 1)
    BY <1>3, <2>1, <2>2, <2>3, PrefixesEqual
  <2>5. Prefix(key_buf, key_buf_idx - 1) = SubSeq(s, 1, Len(s) - 1)
    BY <1>5, <2>2, ShorterPrefix DEF s
  <2>6. line' = [line EXCEPT ![c] = SubSeq(line[c], 1, Len(line[c]) - 1)]
    BY <1>3, <1>6, <2>4, <2>5
  <2>7. line[c] # <<>>
    BY <1>3, <1>5, <2>1, EmptySeq
  <2>8. Promise!Erase(c)
    BY <1>4, <2>6, <2>7 DEF Promise!Erase, line
  <2>9. QED
    BY <1>8, <2>8 DEF Promise!Next
<1>12. QED
  BY <1>9, <1>10, <1>11

\* Ctrl+C discards the line on the screen.
LEMMA InterruptRefines ==
  ASSUME LInv, taken' = taken, Settled, CtrlC
  PROVE  Promise!Next
<1> TInv
  BY DEF LInv
<1> USE TermType, Buffers
<1> DEFINE c == cur_term_id
           line == [t \in Terms |-> Text(t)]
<1>1. HalfLine(key_buf, key_buf_idx) /\ at[c] \in {"user", "wait"}
  BY SettledHalfLine
<1>2. cur_term_id' = c /\ term' = term /\ key_buf' = Empty /\ key_buf_idx' = 0
  BY DEF CtrlC, buf_clear
<1>3. at'[c] # "clear"
  BY <1>1 DEF CtrlC, Ends, TInv, TypeOK
<1>4. Text(c)' = <<>>
  BY <1>2, <1>3, NoPrefix DEF Text, Prefix
<1>5. ~Promise!Complete(line[c])
  BY <1>1, HalfNotComplete DEF Text
<1>6. line' = [line EXCEPT ![c] = <<>>]
  BY <1>2, <1>4, LineOnScreen
<1>7. c \in Promise!Terms
  BY DEF Promise!Terms, Terms
<1> HIDE DEF c, line
<1>8. Promise!Discard(c)
  BY <1>5, <1>6 DEF Promise!Discard, line
<1>9. QED
  BY <1>7, <1>8 DEF Promise!Next

\* A program that ends while nothing is typed takes no line with it.
LEMMA HaltRefines ==
  ASSUME LInv, taken' = taken, key_buf_idx = 0, Halt
  PROVE  UNCHANGED Promise!vars
<1> TInv
  BY DEF LInv
<1> USE TermType, Buffers
<1>1. at[cur_term_id] # "clear"
  BY EnteredNotEmpty DEF Entered, Busy
<1>2. cur_term_id' = cur_term_id /\ term' = term /\ key_buf' = Empty /\ key_buf_idx' = 0
  BY DEF Halt, buf_clear
<1>3. at'[cur_term_id] # "clear"
  BY <1>1 DEF Halt, Ends, TInv, TypeOK
<1>4. \A t \in Terms : Text(t)' = Text(t)
  <2>1. Text(cur_term_id)' = <<>> /\ Text(cur_term_id) = <<>>
    BY <1>1, <1>2, <1>3, NoPrefix DEF Text, Prefix
  <2>2. \A t \in Terms \ {cur_term_id} : Text(t)' = Text(t)
    BY <1>2 DEF Text
  <2>3. QED
    BY <1>2, <2>1, <2>2
<1>5. QED
  BY <1>4, SameLines

\* A switch moves lines and changes none.
LEMMA SwitchRefines ==
  ASSUME LInv, taken' = taken, Settled, NEW n \in Terms, AltF(n)
  PROVE  UNCHANGED Promise!vars
<1> TInv
  BY DEF LInv
<1> USE TermType
<1>1. \A t \in Terms : at[t] # "clear" /\ at'[t] # "clear"
  BY SwitchFields DEF Settled
<1>2. \A t \in Terms : Text(t)' = Text(t)
  <2>1. TAKE t \in Terms
  <2>2. CASE t = n
    <3>1. Text(t)' = Prefix(key_buf', key_buf_idx')
      BY <1>1, <2>2, SwitchFields DEF Text, Prefix
    <3>2. Text(t) = Prefix(key_buf', key_buf_idx')
      BY <1>1, <2>2, SwitchFields DEF Text
    <3>3. QED
      BY <3>1, <3>2
  <2>3. CASE t # n
    <3>1. Text(t)' = Prefix(term'[t].key_buf, term'[t].key_buf_idx)
      BY <1>1, <2>3, SwitchFields DEF Text, Prefix
    <3>2. CASE t = cur_term_id
      BY <1>1, <2>3, <3>1, <3>2, SwitchFields DEF Text
    <3>3. CASE t # cur_term_id
      <4>1. term'[t] = term[t]
        BY <2>3, <3>3, SwitchFields
      <4>2. QED
        BY <3>1, <3>3, <4>1 DEF Text
    <3>4. QED
      BY <3>2, <3>3
  <2>4. QED
    BY <2>2, <2>3
<1>3. QED
  BY <1>2, SameLines

\* The calls and the timer change no line.
LEMMA CallRefines ==
  ASSUME LInv, taken' = taken, Read \/ Tick
  PROVE  UNCHANGED Promise!vars
<1> TInv
  BY DEF LInv
<1> USE TermType
<1>1. /\ UNCHANGED <<cur_term_id, key_buf, key_buf_idx, term>>
      /\ at'[cur_term_id] = "clear" <=> at[cur_term_id] = "clear"
  BY DEF Read, Tick, keyVars, readerVars, TInv, TypeOK
<1>2. QED
  BY <1>1, SameTexts, SameLines

\* The copy of a read takes the line, and the other steps of the reader change none.
LEMMA ReadingRefines ==
  ASSUME LInv, HistoryNext, NEW t \in Terms, ReaderStep(t)
  PROVE  Promise!Next \/ UNCHANGED Promise!vars
<1> TInv
  BY DEF LInv
<1> USE TermType, Buffers
<1>1. UNCHANGED <<cur_term_id, now_term_id>> /\ now_term_id = t
  BY DEF ReaderStep
<1>2. t = cur_term_id
  BY DEF ReaderStep, Wait, Reset, Copy, Copied, Clear, Return, LInv, OnlyOnScreen, Busy
<1>3. /\ at \in [Terms -> {"user", "wait", "reset", "copy", "clear"}]
      /\ idx \in [Terms -> 0 .. KEY_BUF_MAX]
  BY DEF TInv, TypeOK
<1>4. CASE Copied(t)
  <2> DEFINE line == [u \in Terms |-> Text(u)]
             s == Prefix(key_buf, key_buf_idx)
             m == idx[t]
             n == length[t]
  <2>1. /\ UNCHANGED <<key_buf, key_buf_idx, term>>
        /\ at[t] = "copy" /\ at'[t] = "clear"
        /\ \A u \in Terms \ {t} : at'[u] = at[u]
        /\ ~More(t)
    BY <1>3, <1>4 DEF Copied, keyVars
  <2>2. /\ IsText(key_buf, key_buf_idx) /\ key_buf_idx > 0 /\ key_buf[key_buf_idx - 1] = NL
        /\ m <= key_buf_idx /\ m <= n /\ got[t] = Prefix(key_buf, m)
    BY <1>2, <2>1 DEF LInv, KeyBufHolds, Entered, Busy, CopiedSoFar
  <2>3. n \in Lengths /\ n \in Nat
    BY <2>1, KeysAssumption DEF TInv, Loops
  <2>4. m \in 0 .. key_buf_idx /\ m = IF n < key_buf_idx THEN n ELSE key_buf_idx
    BY <1>3, <2>1, <2>2, <2>3 DEF More, IsText, Places
  <2>5. s \in Seq(Chars) /\ Len(s) = key_buf_idx /\ s[key_buf_idx] = NL
    BY <2>2, PrefixType
  <2>6. line[t] = s
    BY <1>2, <2>1 DEF Text
  <2>7. Text(cur_term_id)' = <<>>
    BY <1>1, <1>2, <2>1 DEF Text
  <2>8. line' = [line EXCEPT ![t] = <<>>]
    BY <1>1, <1>2, <2>1, <2>7, LineOnScreen
  <2>9. taken' = <<t, got[t]>>
    <3>1. \A u \in Terms : at[u] = "copy" /\ at'[u] = "clear" <=> u = t
      BY <2>1
    <3>2. (CHOOSE u \in Terms : at[u] = "copy" /\ at'[u] = "clear") = t
      BY <3>1
    <3>3. QED
      BY <3>1, <3>2 DEF HistoryNext
  <2>10. got[t] = SubSeq(s, 1, m)
    BY <2>2, <2>4, ShorterPrefix
  <2>11. Promise!Complete(s)
    BY <2>2, <2>5, EmptySeq DEF Promise!Complete
  <2> HIDE DEF line, s, m, n
  <2>12. taken' = <<t, SubSeq(line[t], 1, IF n < Len(line[t]) THEN n ELSE Len(line[t]))>>
    BY <2>4, <2>5, <2>6, <2>9, <2>10
  <2>13. Promise!Take(t, n)
    BY <2>6, <2>8, <2>11, <2>12 DEF Promise!Take, line
  <2>14. t \in Promise!Terms
    BY DEF Promise!Terms, Terms
  <2>15. QED
    BY <2>3, <2>13, <2>14 DEF Promise!Next
<1>5. CASE ~Copied(t)
  <2>1. \A u \in Terms : ReaderStep(u) => u = t
    BY <1>1 DEF ReaderStep
  <2>2. taken' = taken
    BY <1>5, <2>1, TakenAtCopied
  <2>3. \A u \in Terms \ {t} : term'[u] = term[u]
    <3>1. CASE Reset(t)
      <4> DEFINE reset == WithEnter(term, t, 0)
      <4>1. term \in [Terms -> SavedLine] /\ 0 \in {0, 1}
        OBVIOUS
      <4>2. \A u \in Terms \ {t} : reset[u] = term[u]
        BY <4>1, EnterFields
      <4>3. term' = reset
        BY <3>1 DEF Reset, WithEnter
      <4> HIDE DEF reset
      <4>4. QED
        BY <4>2, <4>3
    <3>2. QED
      BY <1>5, <3>1 DEF ReaderStep, Wait, Copy, Clear, Return
  <2>4. CASE Wait(t) \/ Reset(t) \/ Copy(t)
    <3>1. UNCHANGED <<key_buf, key_buf_idx>> /\ at[t] # "clear" /\ at'[t] # "clear"
      BY <1>3, <2>4 DEF Wait, Reset, Copy, keyVars
    <3>2. QED
      BY <1>1, <1>2, <2>2, <2>3, <3>1, SameTexts, SameLines
  <2>5. CASE Clear(t) \/ Return(t)
    <3>1. Text(t) = <<>>
      BY <1>2, <2>5 DEF Text, Clear, Return
    <3>2. Text(t)' = <<>>
      <4>1. CASE Clear(t)
        BY <1>1, <1>2, <4>1 DEF Text, Clear
      <4>2. CASE Return(t)
        <5>1. key_buf_idx' = 0 /\ key_buf' = key_buf
          BY <4>2 DEF Return
        <5>2. Prefix(key_buf', 0) = <<>>
          BY <5>1, NoPrefix
        <5>3. QED
          BY <1>1, <1>2, <5>1, <5>2 DEF Text, Prefix
      <4>3. QED
        BY <2>5, <4>1, <4>2
    <3>3. \A u \in Terms \ {t} : Text(u)' = Text(u)
      BY <1>1, <1>2, <2>3 DEF Text
    <3>4. QED
      BY <2>2, <3>1, <3>2, <3>3, SameLines
  <2>6. QED
    BY <1>5, <2>4, <2>5 DEF ReaderStep
<1>6. QED
  BY <1>4, <1>5

LEMMA StepRefines ==
  ASSUME LInv, LInv', [HistoryNext]_<<vars, taken>>
  PROVE  [Promise!Next]_(Promise!vars)
<1>1. CASE UNCHANGED <<vars, taken>>
  <2>1. UNCHANGED <<cur_term_id, key_buf, key_buf_idx, term, at, taken>>
    BY <1>1 DEF vars, keyVars, readerVars
  <2>2. \A t \in Terms : Text(t)' = Text(t)
    BY <2>1, SameTexts
  <2>3. QED
    BY <2>1, <2>2, SameLines
<1>2. CASE HistoryNext /\ \E t \in Terms : ReaderStep(t)
  BY <1>2, ReadingRefines
<1>3. CASE HistoryNext /\ ~\E t \in Terms : ReaderStep(t)
  <2>1. taken' = taken
    BY <1>3, TakenAtCopied DEF LInv
  <2>2. QED
    BY <1>3, <2>1, TypingRefines, InterruptRefines, HaltRefines, SwitchRefines, CallRefines
       DEF HistoryNext, AttendedNext, Quiet
<1>4. QED
  BY <1>1, <1>2, <1>3

LEMMA FirstRefines == HistoryInit => Promise!Init
<1> SUFFICES ASSUME HistoryInit PROVE Promise!Init
  OBVIOUS
<1>1. \A t \in Terms : Text(t) = Prefix(Empty, 0)
  <2>1. /\ cur_term_id = 0 /\ key_buf = Empty /\ key_buf_idx = 0
        /\ \A t \in Terms : /\ at[t] = "user"
                             /\ term[t].key_buf = Empty
                             /\ term[t].key_buf_idx = 0
    BY DEF HistoryInit, Init
  <2>2. QED
    BY <2>1 DEF Text
<1>2. Prefix(Empty, 0) = <<>>
  BY Buffers, NoPrefix
<1>3. QED
  BY <1>1, <1>2 DEF HistoryInit, Promise!Init, Promise!Terms, Terms

\* Every read returns the line typed into its own terminal, whole or cut to its
\* length, and a half line survives switches: one buffer serves as a line per
\* terminal.
THEOREM Refinement == HistorySpec => ImplementsLineDiscipline
<1>1. HistorySpec => AttendedSpec
  <2>1. [HistoryNext]_<<vars, taken>> => [AttendedNext]_vars
    BY DEF HistoryNext
  <2>2. HistoryInit => Init
    BY DEF HistoryInit
  <2>3. QED
    BY <2>1, <2>2, PTL DEF HistorySpec, AttendedSpec
<1>2. HistorySpec => []LInv
  BY <1>1, AttendedInvariance, PTL
<1>3. HistoryInit => Promise!Init
  BY FirstRefines
<1>4. LInv /\ LInv' /\ [HistoryNext]_<<vars, taken>> => [Promise!Next]_(Promise!vars)
  BY StepRefines
<1>5. HistorySpec => Promise!Spec
  BY <1>2, <1>3, <1>4, PTL DEF HistorySpec, Promise!Spec
<1>6. QED
  BY <1>5 DEF ImplementsLineDiscipline

=============================================================================
