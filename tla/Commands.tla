------------------------------ MODULE Commands ------------------------------
(***************************************************************************)
(* From a line typed at the shell to the arguments of the program: the     *)
(* shell's loop (ece391shell.c), the parser and the checks of execute and  *)
(* getargs (system_call.c), the search by name (file_system.c). What       *)
(* execute does to the terminals and the stacks is in Multitasking.        *)
(***************************************************************************)
EXTENDS Strings, FiniteSets

CONSTANTS
  MAX_FILENAME_LENGTH, MAX_ARG_LENGTH,
  Lines,      \* what the user types before Enter
  ExitLine,   \* the line "exit"
  Directory,  \* the names in the file system
  KindOf,     \* name -> "program", "text", "short" (no whole header), "corrupt"
  Stale,      \* what the byte of the stack behind filename may hold
  Requests    \* lengths of the buffers programs give to getargs

\* Names and lines are text, and mkfs writes no empty name.
ASSUME CommandsAssumption ==
  /\ MAX_FILENAME_LENGTH \in Nat /\ MAX_ARG_LENGTH \in Nat
  /\ Lines \subseteq Seq(Characters) /\ ExitLine \in Seq(Characters \ {NUL})
  /\ \A name \in Directory : /\ name \in Seq(Characters \ {NUL})
                             /\ Len(name) \in 1 .. MAX_FILENAME_LENGTH
  /\ KindOf \in [Directory -> {"program", "text", "short", "corrupt"}]
  /\ Requests \subseteq Int

Space == " "

VARIABLES
  command,              \* the line, with its terminator
  i, offset, filename_flag, filename, fileargs,  \* variables of execute
  stage,                \* where the call is
  slot_free,            \* PCB_process_number would find a slot
  slot_taken,           \* and it was marked in PCB_mask
  argbuf,               \* of the new PCB
  rval,                 \* what execute returns to the shell
  given,                \* what getargs gave: <<nbytes, 0 or -1, text>>
  said                  \* the shell's message

commandVars == <<command, i, offset, filename_flag, filename, fileargs, stage,
                 slot_free, slot_taken, argbuf, rval, given, said>>
parserVars == <<i, offset, filename_flag, filename, fileargs>>
outcomeVars == <<slot_taken, argbuf, rval, given, said>>

CommandInit ==
  /\ \E line \in Lines : command = Buffer(line, <<>>)
  /\ i = 0 /\ offset = 0 /\ filename_flag = -1
  /\ \E s \in Stale :
       filename = [k \in 0 .. MAX_FILENAME_LENGTH + 1 |->
                     IF k = MAX_FILENAME_LENGTH THEN s ELSE NUL]
  /\ fileargs = [k \in 0 .. MAX_ARG_LENGTH |-> NUL]
  /\ stage = "typed"
  /\ slot_free \in BOOLEAN /\ slot_taken = FALSE
  /\ argbuf = [k \in 0 .. MAX_ARG_LENGTH |-> NUL]
  /\ rval = 0
  /\ given = <<0, -1, <<>>>>
  /\ said = "nothing"

\* The shell: an empty line is ignored, "exit" ends it, the rest is executed.
ShellReads ==
  /\ stage = "typed"
  /\ stage' = IF ece391_strcmp(command, Buffer(ExitLine, <<>>)) \/ command[0] = NUL
              THEN "not executed" ELSE "parsing"
  /\ UNCHANGED <<parserVars, outcomeVars>>

-----------------------------------------------------------------------------
(* The parser *)

Fail ==
  /\ stage' = "returned"
  /\ rval' = -1

LeadingSpaces ==
  /\ command[i] = Space /\ filename_flag = -1
  /\ UNCHANGED <<offset, filename_flag, filename, fileargs, stage>>

\* A name longer than its array writes behind it: what follows is not modelled.
NameCharacter ==
  /\ command[i] # Space /\ filename_flag \in {-1, 0}
  /\ filename_flag' = 0
  /\ filename' = [filename EXCEPT ![offset] = command[i]]
  /\ offset' = offset + 1
  /\ stage' = IF offset < MAX_FILENAME_LENGTH THEN stage ELSE "derailed"
  /\ UNCHANGED fileargs

SpacesBehindName ==
  /\ command[i] = Space /\ filename_flag \in {0, 1}
  /\ filename_flag' = 1
  /\ offset' = 0
  /\ UNCHANGED <<filename, fileargs, stage>>

\* The first character that is no space, and every one behind it. Like the
\* name, arguments longer than their array end the model.
ArgumentCharacter ==
  /\ filename_flag = 2 \/ (filename_flag = 1 /\ command[i] # Space)
  /\ filename_flag' = 2
  /\ fileargs' = [fileargs EXCEPT ![offset] = command[i]]
  /\ offset' = offset + 1
  /\ stage' = IF offset < MAX_ARG_LENGTH THEN stage ELSE "derailed"
  /\ UNCHANGED filename

\* "Check for long executable name" looks at the place in the command.
TooLong == i > MAX_FILENAME_LENGTH /\ filename_flag = 0

Parse ==
  /\ stage = "parsing"
  /\ \/ /\ command[i] # NUL
        /\ TooLong
        /\ Fail
        /\ UNCHANGED <<parserVars, slot_taken, argbuf, given, said>>
     \/ /\ command[i] # NUL
        /\ ~TooLong
        /\ i' = i + 1
        /\ LeadingSpaces \/ NameCharacter \/ SpacesBehindName \/ ArgumentCharacter
        /\ UNCHANGED outcomeVars
     \/ /\ command[i] = NUL
        /\ stage' = "parsed"
        /\ UNCHANGED <<parserVars, outcomeVars>>

-----------------------------------------------------------------------------
(* The checks and the start *)

\* The bytes at an entry's filename: 32 of them, then its file type.
EntryBytes(name) ==
  [k \in 0 .. MAX_FILENAME_LENGTH + 1 |->
     IF k < Len(name) THEN name[k + 1]
     ELSE IF k = MAX_FILENAME_LENGTH THEN "type" ELSE NUL]

TruncatedLength(entry) ==
  IF strlen(entry) >= MAX_FILENAME_LENGTH THEN MAX_FILENAME_LENGTH ELSE strlen(entry)

PrefixMatches(fname, entry) ==                       \* mutant
  /\ strncmp(entry, fname, strlen(fname))
  /\ fname[0] # NUL

Matches(fname, entry) ==
  /\ strncmp(entry, fname, strlen(fname))
  /\ strncmp(entry, fname, TruncatedLength(entry))
  /\ fname[0] # NUL

\* The entries read_dentry_by_name would stop at: at most one, since names
\* differ.
read_dentry_by_name(fname) == {name \in Directory : Matches(fname, EntryBytes(name))}

\* The first four bytes of the file are compared with the magic number. Of a
\* short file the rest of headerbuf is what was on the stack, for example the
\* header of the program executed before.
HeaderAccepted(name) ==
  CASE KindOf[name] \in {"program", "corrupt"} -> {TRUE}
    [] KindOf[name] = "text" -> {FALSE}
    [] KindOf[name] = "short" -> BOOLEAN

SlotFirst ==                                         \* mutant
  /\ stage = "parsed"
  /\ slot_taken' = slot_free
  /\ \/ /\ read_dentry_by_name(filename) = {}
        /\ Fail
     \/ \E name \in read_dentry_by_name(filename) :
          \/ /\ FALSE \in HeaderAccepted(name)
             /\ Fail
          \/ /\ TRUE \in HeaderAccepted(name)
             /\ stage' = "accepted"
             /\ UNCHANGED rval
  /\ UNCHANGED <<parserVars, argbuf, given, said>>

Check ==
  /\ stage = "parsed"
  /\ \/ /\ read_dentry_by_name(filename) = {}
        /\ Fail
     \/ \E name \in read_dentry_by_name(filename) :
          \/ /\ FALSE \in HeaderAccepted(name)
             /\ Fail
          \/ /\ TRUE \in HeaderAccepted(name)
             /\ stage' = "accepted"
             /\ UNCHANGED rval
  /\ UNCHANGED <<parserVars, slot_taken, argbuf, given, said>>

\* argbuf is filled and terminated one place behind its end, in a field of
\* the PCB nobody reads.
Arguments == [k \in 0 .. MAX_ARG_LENGTH |->
                IF k < MAX_ARG_LENGTH THEN fileargs[k] ELSE NUL]

\* "There are no available space in the PCB" returns 0. A file with a block
\* outside the image cannot be read, and the slot is kept.
Start ==
  /\ stage = "accepted"
  /\ \/ /\ ~slot_free
        /\ stage' = "returned"
        /\ rval' = 0
        /\ UNCHANGED <<slot_taken, argbuf>>
     \/ /\ slot_free
        /\ slot_taken' = TRUE
        /\ \E name \in read_dentry_by_name(filename) :
             \/ /\ KindOf[name] = "corrupt"
                /\ Fail
                /\ UNCHANGED argbuf
             \/ /\ KindOf[name] # "corrupt"
                /\ argbuf' = Arguments
                /\ stage' = "running"
                /\ UNCHANGED rval
  /\ UNCHANGED <<parserVars, given, said>>

\* getargs gives the text only with its terminator.
Fits(len, nbytes) == len > 0 /\ len < nbytes

\* The new program calls getargs.
getargs(nbytes) ==
  /\ stage = "running" /\ given[1] = 0
  /\ given' = IF Fits(strlen(argbuf), nbytes)
              THEN <<nbytes, 0, TextOf(argbuf) \o <<NUL>>>>
              ELSE <<nbytes, -1, <<>>>>
  /\ UNCHANGED <<parserVars, stage, slot_taken, argbuf, rval, said>>

\* The program ends with a status, or by an exception (256); halt frees the
\* slot.
Ends ==
  /\ stage = "running"
  /\ stage' = "returned"
  /\ rval' \in {0, 3, 256}
  /\ slot_taken' = FALSE
  /\ UNCHANGED <<parserVars, argbuf, given, said>>

ShellReports ==
  /\ stage = "returned"
  /\ stage' = "reported"
  /\ said' = CASE rval = -1 -> "no such command"
               [] rval = 256 -> "program terminated by exception"
               [] rval = 0 -> "nothing"
               [] OTHER -> "program terminated abnormally"
  /\ UNCHANGED <<parserVars, slot_taken, argbuf, rval, given>>

CommandNext ==
  /\ \/ ShellReads \/ Parse \/ Check \/ Start
     \/ \E nbytes \in Requests : getargs(nbytes)
     \/ Ends \/ ShellReports
  /\ UNCHANGED <<command, slot_free>>

CommandSpec == CommandInit /\ [][CommandNext]_commandVars

-----------------------------------------------------------------------------

\* The line is k spaces, the word, at least one space if anything follows,
\* and the rest, which starts with none: what a user means by it.
Means(line, word, rest) ==
  LET n == Len(line) IN
  \E k, m \in 0 .. n :
    /\ k + Len(word) + m + Len(rest) = n
    /\ rest # <<>> => m > 0 /\ rest[1] # Space
    /\ word # <<>> /\ \A j \in 1 .. Len(word) : word[j] # Space
    /\ \A j \in 1 .. n : j <= k \/ (j > k + Len(word) /\ j <= k + Len(word) + m)
                          => line[j] = Space
    /\ word = SubSeq(line, k + 1, k + Len(word))
    /\ rest = SubSeq(line, n - Len(rest) + 1, n)

Subsequences(line) ==
  {SubSeq(line, a, b) : a \in 1 .. Len(line) + 1, b \in 0 .. Len(line)}

\* The first word of the line is behind k spaces and ends at e.
FirstWord(line, k, e) ==
  /\ k < e /\ e <= Len(line)
  /\ \A j \in 1 .. e : line[j] = Space <=> j <= k
  /\ e = Len(line) \/ line[e + 1] = Space

\* The first word is a program's name, short enough for its place in the line
\* and for a terminator behind it: execute has to know it.
NamesProgram(line) ==
  \E k, e \in 0 .. Len(line) :
    /\ FirstWord(line, k, e)
    /\ e <= MAX_FILENAME_LENGTH /\ e - k < MAX_FILENAME_LENGTH
    /\ SubSeq(line, k + 1, e) \in Directory
    /\ KindOf[SubSeq(line, k + 1, e)] = "program"

\* A program runs only if the first word of the line is exactly its name, and
\* its arguments, in argbuf and through getargs, are the rest of the line whole
\* and terminated inside the program's buffer, inner and final spaces included;
\* getargs fails only if there is no rest or it does not fit. A name that fills
\* its array, and so has no terminator, is found or not, but never taken for
\* another. The arrays are left only by a longer word or rest. The other way
\* round, execute refuses no line that names a program, and the shell passes
\* by only an empty line and "exit".
CommandUnderstood ==
  LET line == TextOf(command)
      nbytes == given[1]
  IN
  /\ stage = "running" =>
       \E word, rest \in Subsequences(line) :
         /\ Means(line, word, rest)
         /\ word \in Directory /\ KindOf[word] \in {"program", "short"}
         /\ TextOf(argbuf) = rest
         /\ nbytes # 0 =>
              IF rest = <<>> \/ Len(rest) + 1 > nbytes
              THEN given[2] = -1
              ELSE given[2] = 0 /\ given[3] = rest \o <<NUL>>
  /\ stage = "derailed" =>
       \E word, rest \in Subsequences(line) :
         /\ Means(line, word, rest)
         /\ Len(word) > MAX_FILENAME_LENGTH \/ Len(rest) > MAX_ARG_LENGTH
  /\ rval = -1 => ~NamesProgram(line)
  /\ stage = "not executed" => line \in {<<>>, ExitLine}

\* When the shell says "no such command" nothing was started: no slot is left
\* taken, unless a block number of the file is outside the image.
FailureLeavesNoTrace ==
  said = "no such command" /\ slot_taken =>
    \E name \in read_dentry_by_name(filename) : KindOf[name] = "corrupt"

=============================================================================
