--------------------------- MODULE FileDescriptors ---------------------------
(***************************************************************************)
(* The file descriptors of the processes: open, close and the dispatch of  *)
(* read (system_call.c), file_read and dir_read (file_system.c), and what  *)
(* execute and halt do to them. Each of these calls runs with interrupts   *)
(* off and is one step; the loops of term_read and rtc_read, which are     *)
(* not, leave the descriptors alone, and so does every write.              *)
(*                                                                         *)
(* The system is the attended one of Multitasking: programs start, and     *)
(* root shells end, in the terminal on the screen. execute takes the       *)
(* displayed terminal for its caller's, and from the background it would   *)
(* fill a PCB there.                                                       *)
(***************************************************************************)
EXTENDS Integers, FiniteSets

CONSTANTS
  TERM_MAX,          \* number of terminals
  MAX_PCB_MASK_LEN,  \* process slots of one terminal
  MAX_FILE_NUM,      \* descriptors of one process
  Regular,           \* names of the regular files of the image
  Size,              \* their sizes
  Lengths            \* the lengths programs pass to read

ASSUME FilesAssumption ==
  /\ TERM_MAX \in Nat \ {0}
  /\ MAX_PCB_MASK_LEN \in Nat \ {0}
  /\ MAX_FILE_NUM \in Nat \ {0, 1}
  /\ {".", "rtc", "none"} \cap Regular = {}
  /\ IsFiniteSet(Regular)
  /\ Size \in [Regular -> Nat]
  /\ Lengths \subseteq Nat

Terms == 0 .. TERM_MAX - 1
Slots == 0 .. MAX_PCB_MASK_LEN - 1
Pids  == Terms \X Slots
Fds   == 0 .. MAX_FILE_NUM - 1

\* The directory entries of the image: the directory, the clock, the files.
Dentries == Regular \cup {".", "rtc"}
num_dentries == Cardinality(Dentries)

VARIABLES
  cur_term_id,    \* the terminal on the screen
  now_term_id,    \* the terminal whose process has the CPU
  cur_pcb_id,     \* cur_pcb_id[t]: slot of t's newest process
  fds,            \* fds[p][fd]: the descriptor in p's PCB
  num_file_read,  \* the names dir_read has handed out
  returned        \* history: bytes or names read through it since it was opened

taskVars == <<cur_term_id, now_term_id, cur_pcb_id>>
vars == <<taskVars, fds, num_file_read, returned>>

\* A descriptor as execute leaves it, and those of a new process.
Unused == [flags |-> 0, optable |-> "error", inode |-> "none", file_position |-> 0]
Standard(ops) == [Unused EXCEPT !.flags = 1, !.optable = ops]
Fresh == [fd \in Fds |-> IF fd = 0 THEN Standard("stdin")
                         ELSE IF fd = 1 THEN Standard("stdout") ELSE Unused]

\* Those of no process. What halt leaves in the other fields is forgotten:
\* execute sets all of them.
NoFiles == [fd \in Fds |-> Unused]

\* A state after the shells have been started, one in each terminal; the last
\* one has put its terminal on the screen.
Init ==
  /\ cur_term_id = TERM_MAX - 1
  /\ now_term_id = 0
  /\ cur_pcb_id = [t \in Terms |-> 0]
  /\ fds = [p \in Pids |-> IF p[2] = 0 THEN Fresh ELSE NoFiles]
  /\ num_file_read = 0
  /\ returned = [p \in Pids |-> [fd \in Fds |-> 0]]

Newest(t) == <<t, cur_pcb_id[t]>>
Running == Newest(now_term_id)

Live(p) == p[2] <= cur_pcb_id[p[1]]
Open(p) == {fd \in Fds : fds[p][fd].flags = 1}

-----------------------------------------------------------------------------
(* open and close *)

OptableOf(name) == CASE name = "."   -> "dir"
                     [] name = "rtc" -> "rtc"
                     [] OTHER        -> "file"
InodeOf(name) == IF name \in Regular THEN name ELSE "none"

OpenedAgain(d, name) ==                                  \* mutant
  [d EXCEPT !.flags = 1, !.optable = OptableOf(name), !.inode = InodeOf(name)]

\* The descriptor d after open has given it to name.
Opened(d, name) ==
  [flags |-> 1, optable |-> OptableOf(name), inode |-> InodeOf(name),
   file_position |-> 0]

AnyFd == 2 .. MAX_FILE_NUM - 1                           \* mutant
FreeFds == Fds \ Open(Running)

\* open of a name in the directory, in the first free descriptor; another name
\* and a full array return -1.
OpenFile(name) ==
  /\ \E fd \in FreeFds :
     /\ \A other \in FreeFds : fd <= other
     /\ fds' = [fds EXCEPT ![Running][fd] = Opened(@, name)]
     /\ returned' = [returned EXCEPT ![Running][fd] = 0]
  /\ UNCHANGED <<taskVars, num_file_read>>

AnyClosable(fd) == fd \in Fds                            \* mutant

\* stdin and stdout cannot be closed.
Closable(fd) == fd >= 2

\* close: the flag is cleared, the other fields stay.
Closed(d) == [d EXCEPT !.flags = 0]

Close(fd) ==
  /\ Closable(fd)
  /\ fd \in Open(Running)
  /\ fds' = [fds EXCEPT ![Running][fd] = Closed(@)]
  /\ UNCHANGED <<taskVars, num_file_read, returned>>

-----------------------------------------------------------------------------
(* read *)

WholeLength(d, n) == n                                   \* mutant

\* The bytes read_data copies.
Available(d, n) ==
  LET rest == Size[d.inode] - d.file_position IN IF n < rest THEN n ELSE rest

\* file_read: the position moves by the bytes copied.
FileRead(fd, n) ==
  LET d == fds[Running][fd] IN
  /\ fd \in Open(Running)
  /\ d.optable = "file"
  /\ fds' = [fds EXCEPT ![Running][fd].file_position = @ + Available(d, n)]
  /\ returned' = [returned EXCEPT ![Running][fd] = @ + Available(d, n)]
  /\ UNCHANGED <<taskVars, num_file_read>>

\* dir_read: the next name, or 0 after the last one. There is one count of
\* the names for all descriptors, which open does not touch.
DirRead(fd) ==
  /\ fd \in Open(Running)
  /\ fds[Running][fd].optable = "dir"
  /\ IF num_file_read < num_dentries
       THEN /\ num_file_read' = num_file_read + 1
            /\ returned' = [returned EXCEPT ![Running][fd] =
                 IF @ < num_dentries THEN @ + 1 ELSE @]
       ELSE /\ num_file_read' = 0
            /\ returned' = [returned EXCEPT ![Running][fd] = 0]
  /\ UNCHANGED <<taskVars, fds>>

-----------------------------------------------------------------------------
(* Processes *)

Tick ==
  /\ now_term_id' = (now_term_id + 1) % TERM_MAX
  /\ UNCHANGED <<cur_term_id, cur_pcb_id, fds, num_file_read, returned>>

\* Alt+F1, Alt+F2, Alt+F3.
AltF(n) ==
  /\ cur_term_id' = n
  /\ UNCHANGED <<now_term_id, cur_pcb_id, fds, num_file_read, returned>>

OnScreen == cur_term_id = now_term_id

\* execute: a child in the next slot of the displayed terminal.
Execute ==
  LET child == <<now_term_id, cur_pcb_id[now_term_id] + 1>> IN
  /\ OnScreen
  /\ child \in Pids
  /\ cur_pcb_id' = [cur_pcb_id EXCEPT ![now_term_id] = @ + 1]
  /\ fds' = [fds EXCEPT ![child] = Fresh]
  /\ returned' = [returned EXCEPT ![child] = [fd \in Fds |-> 0]]
  /\ UNCHANGED <<cur_term_id, now_term_id, num_file_read>>

PcbOfNext ==                                             \* mutant
  <<(now_term_id + 1) % TERM_MAX, cur_pcb_id[now_term_id]>>

\* The PCB in which the close of halt looks: term[t].cur_pcb_id is already the
\* parent's, and below a root shell, where it is -1, that of the slot before.
\* Before slot 0 of terminal 0 there is none.
PcbOfClose ==
  IF cur_pcb_id[now_term_id] > 0 THEN <<now_term_id, cur_pcb_id[now_term_id] - 1>>
  ELSE <<now_term_id - 1, MAX_PCB_MASK_LEN - 1>>

\* The descriptors p is left with by close(i) for every open i of the process
\* that ends.
AfterClose(p) ==
  [fd \in Fds |->
     IF p = PcbOfClose /\ Closable(fd) /\ fd \in Open(Running) \cap Open(p)
       THEN Closed(fds[p][fd])
       ELSE fds[p][fd]]

\* A process with a parent ends anywhere; the shell that follows a root shell
\* starts in the displayed terminal.
CanEnd == OnScreen \/ cur_pcb_id[now_term_id] > 0

\* halt: back to the parent, or a new root shell.
Halt ==
  LET root == cur_pcb_id[now_term_id] = 0 IN
  /\ CanEnd
  /\ cur_pcb_id' = [cur_pcb_id EXCEPT ![now_term_id] = IF root THEN 0 ELSE @ - 1]
  /\ fds' = [p \in Pids |-> IF p # Running THEN AfterClose(p)
                            ELSE IF root THEN Fresh ELSE NoFiles]
  /\ returned' = [returned EXCEPT ![Running] = [fd \in Fds |-> 0]]
  /\ UNCHANGED <<cur_term_id, now_term_id, num_file_read>>

Next ==
  \/ \E name \in Dentries : OpenFile(name)
  \/ \E fd \in Fds : Close(fd)
  \/ \E fd \in Fds, n \in Lengths : FileRead(fd, n)
  \/ \E fd \in Fds : DirRead(fd)
  \/ Tick
  \/ \E n \in Terms : AltF(n)
  \/ Execute
  \/ Halt

Spec == Init /\ [][Next]_vars

-----------------------------------------------------------------------------

\* The type of the state; a position never leaves its file.
TypeOK ==
  /\ cur_term_id \in Terms
  /\ now_term_id \in Terms
  /\ cur_pcb_id \in [Terms -> Slots]
  /\ num_file_read \in 0 .. num_dentries
  /\ returned \in [Pids -> [Fds -> Nat]]
  /\ fds \in [Pids -> [Fds -> [flags : {0, 1},
                               optable : {"error", "stdin", "stdout", "rtc", "dir", "file"},
                               inode : Regular \cup {"none"},
                               file_position : Nat]]]
  /\ \A p \in Pids : \A fd \in Fds :
       LET d == fds[p][fd] IN
       d.inode \in Regular => d.file_position <= Size[d.inode]

\* Whatever its children leave open when they end, a live process keeps its
\* standard input and output; an ended one holds no file.
StandardStreams ==
  \A p \in Pids :
    IF Live(p) THEN fds[p][0] = Standard("stdin") /\ fds[p][1] = Standard("stdout")
               ELSE Open(p) = {}

\* The reads through a descriptor of a file return it from its first byte and
\* without a gap, also when the descriptor had other files before.
ReadsContiguous ==
  \A p \in Pids : \A fd \in Open(p) :
    fds[p][fd].optable = "file" =>
      /\ fds[p][fd].inode \in Regular
      /\ fds[p][fd].file_position = returned[p][fd]

\* An open descriptor stays with its file until it is closed.
OpenFilesStay ==
  [][\A p \in Pids : fds'[p] # fds[p] =>
       \A fd \in Open(p) :
         \/ fds'[p][fd].flags = 0
         \/ /\ fds'[p][fd].inode = fds[p][fd].inode
            /\ fds'[p][fd].optable = fds[p][fd].optable
            /\ fds'[p][fd].file_position >= fds[p][fd].file_position]_vars

\* Whatever a process opens, reads, closes, starts or ends, it changes no
\* descriptor in another terminal, with one exception: the end of a root shell
\* reaches the process in the last slot of the terminal before, and clears no
\* more than flags of files there.
OtherTerminalsKeep ==
  [][\A p \in Pids : p[1] # now_term_id /\ fds'[p] # fds[p] =>
       /\ Halt
       /\ cur_pcb_id[now_term_id] = 0
       /\ p = <<now_term_id - 1, MAX_PCB_MASK_LEN - 1>>
       /\ \A fd \in Fds : fds'[p][fd] # fds[p][fd] =>
            fd >= 2 /\ fds'[p][fd] = Closed(fds[p][fd])]_vars

-----------------------------------------------------------------------------
(* What the repository says, and the code does not do *)

\* system_call.c: halt sets the flags of the process that ends to 0 and closes
\* its files. Its parent's stay open.
ParentKeepsFiles ==
  [][Halt => \A p \in Pids \ {Running} : Open(p) \subseteq {fd \in Fds : fds'[p][fd].flags = 1}]_vars

\* system_call.h: each descriptor has its position in what it reads. The names
\* read through a descriptor of the directory are the first, the second, ...
DirReadInOrder ==
  [][\A p \in Pids : \A fd \in Fds :
       returned'[p][fd] > returned[p][fd] /\ fds[p][fd].optable = "dir"
         => returned[p][fd] = num_file_read]_vars

=============================================================================
