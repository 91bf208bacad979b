----------------------------- MODULE MCRoutines -----------------------------
(***************************************************************************)
(* The sequential parts of the system one at a time: in a behaviour one of *)
(* Memory, Printf, Commands, ReadData, Grep and SystemErrors runs, and the *)
(* variables of the others keep one idle value.                            *)
(***************************************************************************)
EXTENDS Memory, Printf, Commands, ReadData, Grep, SystemErrors, FiniteSets, TLC

VARIABLE component  \* the part that runs

MCStrings(S, max) == UNION {[1 .. k -> S] : k \in 0 .. max}

\* Memory: eleven bytes, all different, aligned and unaligned blocks of up to
\* two dwords and their ends.
MCBefore == [a \in 0 .. 10 |-> a]
MCFill == [b \in 0 .. 3 |-> 100 + b]

\* Printf: words of 8 bits, and two digits of %#x.
MCTexts == MCStrings({"%", "#", "x", "d", "s", "a"}, 3)
             \cup MCStrings({"%", "u", "c", "a", NUL}, 3)
MCBehind == {<<>>, <<"a">>}
MCStacks == {<<0, 200, 7, 128>>, <<128, 9, 255, 0>>}
MCCharOf == [w \in 0 .. 255 |-> IF w % 2 = 0 THEN "a" ELSE "b"]
MCStringAt == [w \in 0 .. 255 |-> IF w % 2 = 0 THEN <<>> ELSE <<"%", "d">>]

\* Commands: names of up to three characters and arguments of up to three.
MCLines == MCStrings({"a", " "}, 8) \cup MCStrings({"a", "b", " "}, 5)
MCExitLine == <<"b", "b">>
MCKindOf ==
  (<<"a">> :> "program") @@ (<<"a", "a">> :> "text") @@ (<<"b">> :> "short")
    @@ (<<"a", "a", "a">> :> "program") @@ (<<"b", "a">> :> "corrupt")
MCDirectory == DOMAIN MCKindOf

\* Grep: a buffer of four bytes, files of up to six.
MCFiles == MCStrings({"a", "b", "EOL"}, 6) \cup MCStrings({"a", NUL, "EOL"}, 4)
MCPatterns == {<<"a">>, <<"a", "b">>}

MCNeg == -1073741823

-----------------------------------------------------------------------------

MemIdle ==
  /\ routine = "memset" /\ dest = 0 /\ src = 0 /\ n = 0
  /\ edi = 0 /\ esi = 0 /\ ecx = 0 /\ edx = 0 /\ DF = 1 /\ mem = Before /\ at = "done"

PrintIdle ==
  /\ client = "kernel" /\ data = <<>> /\ length = 0 /\ sink = "screen" /\ stack = <<>>
  /\ format = Buffer(<<>>, <<>>) /\ buf = 0 /\ esp = 1 /\ alternate = FALSE
  /\ mode = "returned" /\ out = <<>> /\ last = NoConversion /\ result = 0

CommandIdle ==
  /\ command = Buffer(<<>>, <<>>) /\ i = 0 /\ offset = 0 /\ filename_flag = -1
  /\ filename = Buffer(<<>>, <<>>) /\ fileargs = Buffer(<<>>, <<>>)
  /\ stage = "reported" /\ slot_free = FALSE /\ slot_taken = FALSE
  /\ argbuf = Buffer(<<>>, <<>>) /\ rval = 0 /\ given = <<0, -1, <<>>>>
  /\ said = "nothing"

ReadDataIdle ==
  /\ size = 0 /\ data_blocks = <<>> /\ file_position = 0 /\ nbytes = 1
  /\ cur_datablk = 0 /\ byte_in_blk = 0 /\ cur_addr = <<0, 0>>
  /\ copied_bytes_done = 0 /\ chunk = <<>> /\ reader = "exited" /\ cnt = 0
  /\ written = <<>>

GrepIdle ==
  /\ file = <<>> /\ pattern = <<"a">> /\ garbage = NUL /\ position = 0
  /\ line = Buffer(<<>>, <<>>) /\ filled = 0 /\ line_start = 0 /\ got = 0
  /\ grepping = "closed" /\ printed = <<>>

ErrorsIdle ==
  /\ opened = [fd \in Descriptors |-> IF fd = 0 THEN "stdin" ELSE
                 IF fd = 1 THEN "stdout" ELSE "error"]
  /\ selected = 9 /\ tests = <<>> /\ calls = <<>>
  /\ refused = 0 /\ made = 0 /\ fail = 0

Init ==
  /\ component \in {"memory", "printf", "command", "read_data", "grep", "errors"}
  /\ IF component = "memory"    THEN MemInit      ELSE MemIdle
  /\ IF component = "printf"    THEN PrintInit    ELSE PrintIdle
  /\ IF component = "command"   THEN CommandInit  ELSE CommandIdle
  /\ IF component = "read_data" THEN ReadDataInit ELSE ReadDataIdle
  /\ IF component = "grep"      THEN GrepInit     ELSE GrepIdle
  /\ IF component = "errors"    THEN ErrorsInit   ELSE ErrorsIdle

MemStep      == component = "memory" /\ MemNext
PrintStep    == component = "printf" /\ PrintNext
CommandStep  == component = "command" /\ CommandNext
ReadDataStep == component = "read_data" /\ ReadDataNext
GrepStep     == component = "grep" /\ GrepNext
ErrorsStep   == component = "errors" /\ ErrorsNext

Next ==
  /\ \/ MemStep /\ UNCHANGED <<printVars, commandVars, readDataVars, grepVars, errorVars>>
     \/ PrintStep /\ UNCHANGED <<memVars, commandVars, readDataVars, grepVars, errorVars>>
     \/ CommandStep /\ UNCHANGED <<memVars, printVars, readDataVars, grepVars, errorVars>>
     \/ ReadDataStep /\ UNCHANGED <<memVars, printVars, commandVars, grepVars, errorVars>>
     \/ GrepStep /\ UNCHANGED <<memVars, printVars, commandVars, readDataVars, errorVars>>
     \/ ErrorsStep /\ UNCHANGED <<memVars, printVars, commandVars, readDataVars, grepVars>>
  /\ UNCHANGED component

=============================================================================
