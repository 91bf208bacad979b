---------------------------- MODULE SystemErrors ----------------------------
(***************************************************************************)
(* The repository's test program of the system calls' error returns        *)
(* (ece391syserr.c), call by call, against the checks of the system calls  *)
(* (system_call.c, idt_handler.S): one process, its descriptors, and the   *)
(* choice of the user at the menu.                                         *)
(***************************************************************************)
EXTENDS Integers, Sequences, FiniteSets

CONSTANTS
  DescriptorCount,  \* MAX_FILE_NUM, 8
  BIG, NEG,         \* BIG_FD, BIG_NUM and NEG_FD, NEG_NUM
  Names             \* the names in the image the tests may meet

ASSUME SystemErrorsAssumption ==
  /\ DescriptorCount \in Nat \ {0, 1}
  /\ BIG \in Int /\ BIG >= DescriptorCount /\ BIG > 10
  /\ NEG \in Int /\ NEG < 0
  /\ "." \in Names /\ {"helloo", "shel", ""} \cap Names = {}

Descriptors == 0 .. DescriptorCount - 1

VARIABLES
  opened,    \* descriptor -> "stdin", "stdout", "dir" or "error" (flags 0)
  selected,  \* what the user types at the menu
  tests,     \* the tests still to run, the one that runs first
  calls,     \* the calls it has still to make
  refused,   \* how many calls of it returned -1
  made,      \* how many calls of it there were
  fail       \* the sum of what the tests returned

errorVars == <<opened, selected, tests, calls, refused, made, fail>>

-----------------------------------------------------------------------------
(* What a call returns: TRUE for -1. The optable of an unused descriptor    *)
(* answers -1 too, but flags is looked at first.                            *)

AnyDescriptor(fd) == fd < DescriptorCount /\ fd >= 0 \* mutant
FdValid(fd) == fd >= 0 /\ fd < DescriptorCount /\ opened[fd] # "error"

ReadRefused(fd)  == ~FdValid(fd) \/ opened[fd] = "stdout"
WriteRefused(fd) == ~FdValid(fd) \/ opened[fd] \in {"stdin", "dir"}
CloseRefused(fd) == ~FdValid(fd) \/ fd < 2
OpenRefused(name) ==
  name \notin Names \/ \A fd \in Descriptors : opened[fd] # "error"

\* vidmap: a null pointer, and one outside 128MB .. 132MB.
VidmapRefused(where) == where # "user"

\* The entry of int 0x80: numbers 1 to 10 are calls. A number that is none has
\* no other effect.
NumberRefused(num) == num < 1 \/ num > 10

Refused(call) ==
  CASE call.op = "read"   -> ReadRefused(call.arg)
    [] call.op = "write"  -> WriteRefused(call.arg)
    [] call.op = "close"  -> CloseRefused(call.arg)
    [] call.op = "open"   -> OpenRefused(call.arg)
    [] call.op = "vidmap" -> VidmapRefused(call.arg)
    [] call.op = "number" -> NumberRefused(call.arg)

\* The descriptors after the call: the first unused one is opened, one is
\* closed.
After(call) ==
  IF Refused(call) THEN opened
  ELSE CASE call.op = "open" ->
              [opened EXCEPT ![CHOOSE fd \in Descriptors :
                 /\ opened[fd] = "error"
                 /\ \A k \in 0 .. fd - 1 : opened[k] # "error"] = "dir"]
         [] call.op = "close" -> [opened EXCEPT ![call.arg] = "error"]
         [] OTHER -> opened

-----------------------------------------------------------------------------
(* The tests: the calls each one makes, in order *)

Do(op, arg) == <<[op |-> op, arg |-> arg]>>
Each(op, first, last_fd) ==
  [k \in 1 .. last_fd - first + 1 |-> [op |-> op, arg |-> first + k - 1]]
Top_fd == DescriptorCount - 1

err_neg_fd == Do("read", NEG) \o Do("write", NEG) \o Do("close", NEG)
err_big_fd == Do("read", BIG) \o Do("write", BIG) \o Do("close", BIG)

\* One open more than there are free descriptors, then all are closed.
err_open_lots ==
  [k \in 1 .. DescriptorCount - 1 |-> [op |-> "open", arg |-> "."]]
    \o Each("close", 2, Top_fd)

err_open == Do("open", "helloo") \o Do("open", "shel") \o Do("open", "")
err_unopened ==
  Each("close", 0, Top_fd) \o Each("read", 2, Top_fd) \o Each("write", 2, Top_fd)
err_vidmap == Do("vidmap", "null") \o Do("vidmap", "kernel")
err_stdin_out == Do("write", 0) \o Do("read", 1)
err_syscall_num == Do("number", BIG) \o Do("number", NEG) \o Do("number", 0)

Programs == <<err_neg_fd, err_big_fd, err_open_lots, err_open, err_unopened,
              err_vidmap, err_stdin_out, err_syscall_num>>

\* What a test returns: 0, or 2 when a call was not refused; err_open_lots
\* counts the refused calls of open.
Verdict(test) ==
  IF test = 3 THEN IF refused = 1 THEN 0 ELSE 2
  ELSE IF refused = made THEN 0 ELSE 2

Counted(test, call) == IF test = 3 THEN call.op = "open" ELSE TRUE

-----------------------------------------------------------------------------

ErrorsInit ==
  /\ opened = [fd \in Descriptors |-> CASE fd = 0 -> "stdin" [] fd = 1 -> "stdout"
                                        [] OTHER -> "error"]
  /\ selected \in 0 .. 9
  /\ tests = CASE selected = 0 -> <<1, 2, 3, 4, 5, 6, 7, 8>>
               [] selected = 9 -> <<>>
               [] OTHER -> <<selected>>
  /\ calls = IF tests = <<>> THEN <<>> ELSE Programs[tests[1]]
  /\ refused = 0 /\ made = 0 /\ fail = 0

call_sys ==
  /\ calls # <<>>
  /\ LET call == Head(calls)
         count == IF Counted(Head(tests), call) /\ Refused(call) THEN 1 ELSE 0
     IN
     /\ refused' = refused + count
     /\ opened' = After(call)
  /\ made' = made + 1
  /\ calls' = Tail(calls)
  /\ UNCHANGED <<tests, fail>>

TestEnds ==
  /\ calls = <<>> /\ tests # <<>>
  /\ fail' = fail + Verdict(Head(tests))
  /\ tests' = Tail(tests)
  /\ calls' = IF Len(tests) = 1 THEN <<>> ELSE Programs[tests[2]]
  /\ refused' = 0 /\ made' = 0
  /\ UNCHANGED opened

ErrorsNext == (call_sys \/ TestEnds) /\ UNCHANGED selected

ErrorsSpec == ErrorsInit /\ [][ErrorsNext]_errorVars

-----------------------------------------------------------------------------

\* "prints PASS if behavior is EXPECTED" (ece391syserr.c): every test the user
\* can choose, and the run of all of them one behind the other, passes, and
\* leaves the descriptors as it found them.
ErrorTestsPass ==
  /\ fail = 0
  /\ calls = <<>> => \A fd \in Descriptors : opened[fd] = "error" <=> fd >= 2

=============================================================================
