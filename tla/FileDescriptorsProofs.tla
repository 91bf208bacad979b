------------------------ MODULE FileDescriptorsProofs ------------------------
(***************************************************************************)
(* Proofs about FileDescriptors for every number of terminals, slots and   *)
(* descriptors, every image and every length of a read; and about          *)
(* SystemErrors for every number of descriptors.                           *)
(***************************************************************************)
EXTENDS FileDescriptors, SystemErrors, FiniteSetTheorems, SequenceTheorems, TLAPS

IInv == TypeOK /\ StandardStreams /\ ReadsContiguous

-----------------------------------------------------------------------------

\* The descriptors, by their type.
FileRecords == [flags : {0, 1},
                optable : {"error", "stdin", "stdout", "rtc", "dir", "file"},
                inode : Regular \cup {"none"},
                file_position : Nat]

\* The part of IInv about one descriptor: its position lies in its file, and
\* is what was read through it.
GoodDescriptor(d, count) ==
  /\ d \in FileRecords
  /\ d.inode \in Regular => d.file_position <= Size[d.inode]
  /\ d.flags = 1 /\ d.optable = "file" =>
       d.inode \in Regular /\ d.file_position = count

\* The part of IInv about one live process.
HasStreams(p) == fds[p][0] = Standard("stdin") /\ fds[p][1] = Standard("stdout")

\* IInv, descriptor by descriptor.
Parts ==
  /\ cur_term_id \in Terms
  /\ now_term_id \in Terms
  /\ cur_pcb_id \in [Terms -> Slots]
  /\ num_file_read \in 0 .. num_dentries
  /\ fds \in [Pids -> [Fds -> FileRecords]]
  /\ returned \in [Pids -> [Fds -> Nat]]
  /\ \A p \in Pids : \A fd \in Fds : GoodDescriptor(fds[p][fd], returned[p][fd])
  /\ \A p \in Pids : IF Live(p) THEN HasStreams(p) ELSE \A fd \in Fds : fds[p][fd].flags = 0

LEMMA PartsOfIInv == IInv <=> Parts
<1>1. IInv => Parts
  BY DEF IInv, Parts, TypeOK, StandardStreams, ReadsContiguous, GoodDescriptor,
         FileRecords, HasStreams, Open
<1>2. Parts => IInv
  BY DEF IInv, Parts, TypeOK, StandardStreams, ReadsContiguous, GoodDescriptor,
         FileRecords, HasStreams, Open
<1>3. QED
  BY <1>1, <1>2

-----------------------------------------------------------------------------

\* The process that has the CPU is a live one.
LEMMA RunningLive ==
  ASSUME Parts
  PROVE  Running \in Pids /\ Running = <<now_term_id, cur_pcb_id[now_term_id]>> /\ Live(Running)
<1>1. now_term_id \in Terms /\ cur_pcb_id[now_term_id] \in Slots
  BY DEF Parts
<1>2. Running = <<now_term_id, cur_pcb_id[now_term_id]>>
  BY DEF Running, Newest
<1>3. QED
  BY <1>1, <1>2 DEF Live, Pids, Slots

\* The descriptors execute gives to a process and those of no process.
LEMMA NewDescriptors ==
  /\ Unused \in FileRecords
  /\ \A fd \in Fds : /\ GoodDescriptor(Fresh[fd], 0)
                     /\ GoodDescriptor(NoFiles[fd], 0)
                     /\ NoFiles[fd].flags = 0
  /\ Fresh \in [Fds -> FileRecords]
  /\ NoFiles \in [Fds -> FileRecords]
  /\ Fresh[0] = Standard("stdin")
  /\ Fresh[1] = Standard("stdout")
<1>1. 0 \in Fds /\ 1 \in Fds
  BY FilesAssumption DEF Fds
<1>2. "none" \notin Regular
  BY FilesAssumption
<1>3. /\ Unused \in FileRecords
      /\ Standard("stdin") \in FileRecords
      /\ Standard("stdout") \in FileRecords
  BY DEF Unused, Standard, FileRecords
<1>4. /\ GoodDescriptor(Unused, 0)
      /\ GoodDescriptor(Standard("stdin"), 0)
      /\ GoodDescriptor(Standard("stdout"), 0)
      /\ Unused.flags = 0
  BY <1>2, <1>3 DEF GoodDescriptor, Unused, Standard
<1>5. QED
  BY <1>1, <1>3, <1>4 DEF Fresh, NoFiles

\* What the calls make of one descriptor.
LEMMA OpenedGood ==
  ASSUME NEW d, NEW name \in Dentries
  PROVE  GoodDescriptor(Opened(d, name), 0)
<1>1. Size \in [Regular -> Nat] /\ "none" \notin Regular
  BY FilesAssumption
<1>2. CASE name \in Regular
  <2>1. name # "." /\ name # "rtc"
    BY <1>2, FilesAssumption
  <2>2. QED
    BY <1>1, <1>2, <2>1 DEF Opened, OptableOf, InodeOf, GoodDescriptor, FileRecords
<1>3. CASE name \notin Regular
  <2>1. name = "." \/ name = "rtc"
    BY <1>3 DEF Dentries
  <2>2. QED
    BY <1>1, <1>3, <2>1 DEF Opened, OptableOf, InodeOf, GoodDescriptor, FileRecords
<1>4. QED
  BY <1>2, <1>3

LEMMA ClosedGood ==
  ASSUME NEW d, NEW count \in Nat, GoodDescriptor(d, count)
  PROVE  GoodDescriptor(Closed(d), count) /\ Closed(d).flags = 0
BY DEF GoodDescriptor, Closed, FileRecords

LEMMA ReadGood ==
  ASSUME NEW d, NEW count \in Nat, GoodDescriptor(d, count), NEW n \in Nat,
         d.flags = 1, d.optable = "file"
  PROVE  LET k == Available(d, n)
         IN  k \in Nat /\ GoodDescriptor([d EXCEPT !.file_position = @ + k], count + k)
<1>1. d \in FileRecords /\ d.inode \in Regular /\ Size[d.inode] \in Nat
  BY FilesAssumption DEF GoodDescriptor
<1>2. d.file_position \in Nat /\ d.file_position <= Size[d.inode]
      /\ d.file_position = count
  BY <1>1 DEF GoodDescriptor, FileRecords
<1>3. Available(d, n) \in Nat /\ d.file_position + Available(d, n) <= Size[d.inode]
  BY <1>1, <1>2 DEF Available
<1>4. QED
  BY <1>1, <1>2, <1>3 DEF GoodDescriptor, FileRecords

-----------------------------------------------------------------------------

\* A call that replaces one descriptor of its process, not a standard one, by
\* a good one.
LEMMA OneDescriptorKeeps ==
  ASSUME Parts,
         NEW fd \in Fds, NEW d, NEW count \in Nat,
         fd \notin {0, 1}, GoodDescriptor(d, count),
         UNCHANGED taskVars,
         num_file_read' \in 0 .. num_dentries,
         fds' = [fds EXCEPT ![Running][fd] = d],
         returned' = [returned EXCEPT ![Running][fd] = count]
  PROVE  Parts'
<1>1. Running \in Pids /\ Live(Running)
  BY RunningLive
<1>2. d \in FileRecords
  BY DEF GoodDescriptor
<1>3. /\ fds' \in [Pids -> [Fds -> FileRecords]]
      /\ returned' \in [Pids -> [Fds -> Nat]]
  BY <1>1, <1>2 DEF Parts
<1> USE DEF taskVars
<1>4. ASSUME NEW p \in Pids, NEW e \in Fds
      PROVE  GoodDescriptor(fds'[p][e], returned'[p][e])
  <2>1. CASE p = Running /\ e = fd
    BY <1>1, <2>1 DEF Parts
  <2>2. CASE ~(p = Running /\ e = fd)
    <3>1. fds'[p][e] = fds[p][e] /\ returned'[p][e] = returned[p][e]
      BY <1>1, <2>2 DEF Parts
    <3>2. QED
      BY <3>1 DEF Parts
  <2>3. QED
    BY <2>1, <2>2
<1>5. ASSUME NEW p \in Pids
      PROVE  IF Live(p)' THEN HasStreams(p)' ELSE \A e \in Fds : fds'[p][e].flags = 0
  <2>1. Live(p)' <=> Live(p)
    BY DEF Live
  <2>2. CASE p = Running
    <3>1. HasStreams(Running)
      BY <1>1 DEF Parts
    <3>2. 0 \in Fds /\ 1 \in Fds
      BY FilesAssumption DEF Fds
    <3>3. fds'[p][0] = fds[p][0] /\ fds'[p][1] = fds[p][1]
      BY <1>1, <2>2, <3>2 DEF Parts
    <3>4. QED
      BY <1>1, <2>1, <2>2, <3>1, <3>3 DEF HasStreams
  <2>3. CASE p # Running
    <3>1. fds'[p] = fds[p]
      BY <1>1, <2>3 DEF Parts
    <3>2. QED
      BY <2>1, <3>1 DEF Parts, HasStreams
  <2>4. QED
    BY <2>2, <2>3
<1>6. QED
  BY <1>3, <1>4, <1>5 DEF Parts

\* The standard descriptors are open, and no file is read through them.
LEMMA NotStandard ==
  ASSUME Parts, NEW fd \in Fds,
         fd \in FreeFds \/ Closable(fd) \/ fds[Running][fd].optable = "file"
  PROVE  fd \notin {0, 1}
<1>1. Running \in Pids /\ HasStreams(Running)
  BY RunningLive DEF Parts
<1>2. 0 \in Fds /\ 1 \in Fds
  BY FilesAssumption DEF Fds
<1>3. /\ fds[Running][0].flags = 1 /\ fds[Running][0].optable = "stdin"
      /\ fds[Running][1].flags = 1 /\ fds[Running][1].optable = "stdout"
  BY <1>1 DEF HasStreams, Standard, Unused
<1>4. QED
  BY <1>2, <1>3 DEF FreeFds, Open, Closable

LEMMA OpenKeeps ==
  ASSUME Parts, NEW name \in Dentries, OpenFile(name)
  PROVE  Parts'
<1>1. PICK fd \in FreeFds :
        /\ fds' = [fds EXCEPT ![Running][fd] = Opened(fds[Running][fd], name)]
        /\ returned' = [returned EXCEPT ![Running][fd] = 0]
  BY RunningLive DEF OpenFile, Parts, taskVars
<1>2. fd \in Fds /\ fd \notin {0, 1}
  BY NotStandard DEF FreeFds
<1>3. GoodDescriptor(Opened(fds[Running][fd], name), 0)
  BY OpenedGood
<1>4. UNCHANGED taskVars /\ num_file_read' \in 0 .. num_dentries
  BY DEF OpenFile, Parts, taskVars
<1>5. QED
  BY <1>1, <1>2, <1>3, <1>4, OneDescriptorKeeps

LEMMA CloseKeeps ==
  ASSUME Parts, NEW fd \in Fds, Close(fd)
  PROVE  Parts'
<1>1. fd \notin {0, 1}
  BY NotStandard DEF Close
<1>2. Running \in Pids
  BY RunningLive
<1>3. returned[Running][fd] \in Nat /\ returned \in [Pids -> [Fds -> Nat]]
  BY <1>2 DEF Parts
<1>4. GoodDescriptor(Closed(fds[Running][fd]), returned[Running][fd])
  BY <1>2, <1>3, ClosedGood DEF Parts
<1>5. fds' = [fds EXCEPT ![Running][fd] = Closed(fds[Running][fd])]
  BY <1>2 DEF Close, Parts, taskVars
<1>6. returned' = [returned EXCEPT ![Running][fd] = returned[Running][fd]]
  BY <1>2, <1>3 DEF Close
<1>7. UNCHANGED taskVars /\ num_file_read' \in 0 .. num_dentries
  BY DEF Close, Parts, taskVars
<1>8. QED
  BY <1>1, <1>3, <1>4, <1>5, <1>6, <1>7, OneDescriptorKeeps

LEMMA FileReadKeeps ==
  ASSUME Parts, NEW fd \in Fds, NEW n \in Lengths, FileRead(fd, n)
  PROVE  Parts'
<1> DEFINE d == fds[Running][fd]
           k == Available(d, n)
<1>1. Running \in Pids
  BY RunningLive
<1>2. d.flags = 1 /\ d.optable = "file" /\ fd \notin {0, 1}
  BY NotStandard DEF FileRead, Open
<1>3. n \in Nat /\ returned[Running][fd] \in Nat /\ returned \in [Pids -> [Fds -> Nat]]
  BY <1>1, FilesAssumption DEF Parts
<1>4. GoodDescriptor(d, returned[Running][fd])
  BY <1>1 DEF Parts
<1>5. /\ k \in Nat
      /\ GoodDescriptor([d EXCEPT !.file_position = @ + k], returned[Running][fd] + k)
  BY <1>2, <1>3, <1>4, ReadGood
<1>6. /\ fds' = [fds EXCEPT ![Running][fd] = [d EXCEPT !.file_position = @ + k]]
      /\ returned' = [returned EXCEPT ![Running][fd] = returned[Running][fd] + k]
      /\ UNCHANGED taskVars
      /\ num_file_read' \in 0 .. num_dentries
  BY <1>1, <1>3 DEF FileRead, Parts, taskVars
<1>7. returned[Running][fd] + k \in Nat
  BY <1>3, <1>5
<1>8. QED
  BY <1>2, <1>5, <1>6, <1>7, OneDescriptorKeeps

\* The image has as many names as dir_read counts.
LEMMA CountOfNames == num_dentries \in Nat
<1>1. IsFiniteSet({".", "rtc"})
  <2>1. IsFiniteSet({} \cup {"."})
    BY FS_EmptySet, FS_AddElement
  <2>2. IsFiniteSet(({} \cup {"."}) \cup {"rtc"})
    BY <2>1, FS_AddElement
  <2>3. QED
    BY <2>2
<1>2. QED
  BY <1>1, FilesAssumption, FS_Union, FS_CardinalityType DEF num_dentries, Dentries

LEMMA DirReadKeeps ==
  ASSUME Parts, NEW fd \in Fds, DirRead(fd)
  PROVE  Parts'
<1> DEFINE d == fds[Running][fd]
<1>1. Running \in Pids /\ HasStreams(Running)
  BY RunningLive DEF Parts
<1>2. d.optable = "dir" /\ fd \notin {0, 1}
  BY <1>1 DEF DirRead, HasStreams, Standard, Unused
<1>3. num_file_read' \in 0 .. num_dentries
  BY CountOfNames DEF DirRead, Parts, taskVars
<1>4. PICK count \in Nat : returned' = [returned EXCEPT ![Running][fd] = count]
  BY <1>1, CountOfNames DEF DirRead, Parts, taskVars
<1>5. GoodDescriptor(d, count)
  BY <1>1, <1>2 DEF Parts, GoodDescriptor
<1>6. fds' = [fds EXCEPT ![Running][fd] = d] /\ UNCHANGED taskVars
  BY <1>1 DEF DirRead, Parts, taskVars
<1>7. QED
  BY <1>2, <1>3, <1>4, <1>5, <1>6, OneDescriptorKeeps

-----------------------------------------------------------------------------

LEMMA TickKeeps ==
  ASSUME Parts, Tick
  PROVE  Parts'
<1>1. now_term_id' \in Terms
  BY FilesAssumption DEF Tick, Parts, Terms
<1>2. QED
  BY <1>1 DEF Tick, Parts, Live, HasStreams

LEMMA SwitchKeeps ==
  ASSUME Parts, NEW n \in Terms, AltF(n)
  PROVE  Parts'
BY DEF AltF, Parts, Live, HasStreams

\* A child starts with the standard descriptors in a slot above the live ones.
LEMMA ExecuteKeeps ==
  ASSUME Parts, Execute
  PROVE  Parts'
<1> DEFINE t == now_term_id
           child == <<t, cur_pcb_id[t] + 1>>
<1>1. t \in Terms /\ cur_pcb_id[t] \in Slots /\ child \in Pids /\ cur_pcb_id[t] + 1 \in Slots
  BY DEF Parts, Execute, Pids
<1>2. /\ cur_pcb_id' \in [Terms -> Slots]
      /\ fds' \in [Pids -> [Fds -> FileRecords]]
      /\ returned' \in [Pids -> [Fds -> Nat]]
      /\ cur_term_id' \in Terms /\ now_term_id' \in Terms
      /\ num_file_read' \in 0 .. num_dentries
  BY <1>1, NewDescriptors DEF Execute, Parts
<1>3. ASSUME NEW p \in Pids, NEW fd \in Fds
      PROVE  GoodDescriptor(fds'[p][fd], returned'[p][fd])
  BY <1>1, NewDescriptors DEF Execute, Parts
<1>4. ASSUME NEW p \in Pids
      PROVE  IF Live(p)' THEN HasStreams(p)' ELSE \A fd \in Fds : fds'[p][fd].flags = 0
  <2>1. CASE p = child
    <3>1. fds'[child] = Fresh /\ cur_pcb_id'[t] = cur_pcb_id[t] + 1
      BY <1>1 DEF Execute, Parts
    <3>2. Live(p)'
      BY <1>1, <2>1, <3>1 DEF Live, Slots
    <3>3. QED
      BY <2>1, <3>1, <3>2, NewDescriptors DEF HasStreams
  <2>2. CASE p # child
    <3>1. fds'[p] = fds[p]
      BY <1>1, <2>2 DEF Execute, Parts
    <3>2. p[1] \in Terms /\ p[2] \in Slots /\ p = <<p[1], p[2]>>
      BY DEF Pids
    <3>3. Live(p)' <=> Live(p)
      <4>1. CASE p[1] = t
        <5>1. cur_pcb_id'[p[1]] = cur_pcb_id[t] + 1 /\ p[2] # cur_pcb_id[t] + 1
          BY <1>1, <2>2, <3>2, <4>1 DEF Execute, Parts
        <5>2. QED
          BY <1>1, <3>2, <4>1, <5>1 DEF Live, Slots
      <4>2. CASE p[1] # t
        BY <1>1, <3>2, <4>2 DEF Execute, Parts, Live
      <4>3. QED
        BY <4>1, <4>2
    <3>4. QED
      BY <3>1, <3>3 DEF Parts, HasStreams
  <2>3. QED
    BY <2>1, <2>2
<1>5. QED
  BY <1>2, <1>3, <1>4 DEF Parts

\* By close, halt touches no standard descriptor, and makes no other one bad.
LEMMA AfterCloseGood ==
  ASSUME Parts, NEW p \in Pids
  PROVE  /\ AfterClose(p) \in [Fds -> FileRecords]
         /\ \A fd \in Fds : GoodDescriptor(AfterClose(p)[fd], returned[p][fd])
         /\ AfterClose(p)[0] = fds[p][0] /\ AfterClose(p)[1] = fds[p][1]
         /\ \A fd \in Fds : fds[p][fd].flags = 0 => AfterClose(p)[fd].flags = 0
<1>1. 0 \in Fds /\ 1 \in Fds /\ ~Closable(0) /\ ~Closable(1)
  BY FilesAssumption DEF Fds, Closable
<1>2. \A fd \in Fds : /\ returned[p][fd] \in Nat
                       /\ GoodDescriptor(fds[p][fd], returned[p][fd])
  BY DEF Parts
<1>3. \A fd \in Fds : /\ GoodDescriptor(Closed(fds[p][fd]), returned[p][fd])
                       /\ Closed(fds[p][fd]).flags = 0
  BY <1>2, ClosedGood
<1>4. \A fd \in Fds : AfterClose(p)[fd] \in {fds[p][fd], Closed(fds[p][fd])}
  BY DEF AfterClose
<1>5. \A fd \in Fds : GoodDescriptor(AfterClose(p)[fd], returned[p][fd])
  BY <1>2, <1>3, <1>4
<1>6. AfterClose(p) \in [Fds -> FileRecords]
  BY <1>5 DEF AfterClose, GoodDescriptor
<1>7. QED
  BY <1>1, <1>3, <1>4, <1>5, <1>6 DEF AfterClose

\* The process that ends leaves no descriptor, a new root shell has the
\* standard ones, and the others keep theirs.
LEMMA HaltKeeps ==
  ASSUME Parts, Halt
  PROVE  Parts'
<1> DEFINE t == now_term_id
           root == cur_pcb_id[t] = 0
<1>1. t \in Terms /\ cur_pcb_id[t] \in Slots /\ Running \in Pids
      /\ Running = <<t, cur_pcb_id[t]>>
  BY RunningLive DEF Parts
<1>2. cur_pcb_id' = [cur_pcb_id EXCEPT ![t] = IF root THEN 0 ELSE cur_pcb_id[t] - 1]
  BY <1>1 DEF Halt, Parts
<1>3. (IF root THEN 0 ELSE cur_pcb_id[t] - 1) \in Slots
  BY <1>1, FilesAssumption DEF Slots
<1>4. \A p \in Pids : fds'[p] = IF p # Running THEN AfterClose(p)
                                ELSE IF root THEN Fresh ELSE NoFiles
  BY DEF Halt
<1>5. fds' \in [Pids -> [Fds -> FileRecords]]
  BY <1>4, AfterCloseGood, NewDescriptors DEF Halt
<1>6. returned' = [returned EXCEPT ![Running] = [fd \in Fds |-> 0]]
  BY DEF Halt
<1>7. ASSUME NEW p \in Pids, NEW fd \in Fds
      PROVE  GoodDescriptor(fds'[p][fd], returned'[p][fd])
  <2>1. CASE p = Running
    <3>1. returned'[p][fd] = 0
      BY <1>6, <2>1 DEF Parts
    <3>2. QED
      BY <1>4, <2>1, <3>1, NewDescriptors
  <2>2. CASE p # Running
    <3>1. returned'[p][fd] = returned[p][fd]
      BY <1>6, <2>2 DEF Parts
    <3>2. QED
      BY <1>4, <2>2, <3>1, AfterCloseGood
  <2>3. QED
    BY <2>1, <2>2
<1>8. ASSUME NEW p \in Pids
      PROVE  IF Live(p)' THEN HasStreams(p)' ELSE \A fd \in Fds : fds'[p][fd].flags = 0
  <2>0. p[1] \in Terms /\ p[2] \in Slots /\ p = <<p[1], p[2]>>
    BY DEF Pids
  <2>1. CASE p = Running
    <3>1. p[1] = t /\ p[2] = cur_pcb_id[t]
      BY <1>1, <2>1
    <3>2. cur_pcb_id'[t] = IF root THEN 0 ELSE cur_pcb_id[t] - 1
      BY <1>1, <1>2 DEF Parts
    <3>3. Live(p)' <=> root
      BY <1>1, <3>1, <3>2 DEF Live, Slots
    <3>4. QED
      BY <1>4, <2>1, <3>3, NewDescriptors DEF HasStreams
  <2>2. CASE p # Running
    <3>1. Live(p)' <=> Live(p)
      <4>1. CASE p[1] = t
        <5>1. p[2] # cur_pcb_id[t]
          BY <1>1, <2>0, <2>2, <4>1
        <5>2. cur_pcb_id'[t] = IF root THEN 0 ELSE cur_pcb_id[t] - 1
          BY <1>1, <1>2 DEF Parts
        <5>3. QED
          BY <1>1, <2>0, <4>1, <5>1, <5>2 DEF Live, Slots
      <4>2. CASE p[1] # t
        BY <1>1, <1>2, <2>0, <4>2 DEF Parts, Live
      <4>3. QED
        BY <4>1, <4>2
    <3>2. fds'[p] = AfterClose(p)
      BY <1>4, <2>2
    <3>3. QED
      BY <3>1, <3>2, AfterCloseGood DEF Parts, HasStreams
  <2>3. QED
    BY <2>1, <2>2
<1>9. QED
  BY <1>1, <1>2, <1>3, <1>5, <1>6, <1>7, <1>8 DEF Halt, Parts

-----------------------------------------------------------------------------

LEMMA InitHolds ==
  ASSUME Init
  PROVE  Parts
<1>1. 0 \in Terms /\ TERM_MAX - 1 \in Terms /\ 0 \in Slots /\ 0 \in 0 .. num_dentries
  BY FilesAssumption, CountOfNames DEF Terms, Slots
<1>2. \A p \in Pids : Live(p) <=> p[2] = 0
  BY DEF Init, Live, Pids, Slots
<1>3. QED
  BY <1>1, <1>2, NewDescriptors DEF Init, Parts, HasStreams

\* The invariant of the descriptors.
THEOREM Invariance == Spec => []IInv
<1>1. Init => Parts
  BY InitHolds
<1>2. ASSUME Parts, [Next]_vars PROVE Parts'
  <2>1. CASE UNCHANGED vars
    BY <1>2, <2>1 DEF vars, taskVars, Parts, Live, HasStreams
  <2>2. QED
    BY <1>2, <2>1, OpenKeeps, CloseKeeps, FileReadKeeps, DirReadKeeps,
       TickKeeps, SwitchKeeps, ExecuteKeeps, HaltKeeps DEF Next
<1>3. Spec => []Parts
  BY <1>1, <1>2, PTL DEF Spec
<1>4. QED
  BY <1>3, PartsOfIInv, PTL

\* A live process always has its standard input and output, although halt
\* closes descriptors of the parent.
THEOREM StreamsOpen == Spec => []StandardStreams
<1>1. IInv => StandardStreams
  BY DEF IInv
<1>2. QED
  BY <1>1, Invariance, PTL

\* What is read through a descriptor of a file is the file from its start,
\* without a gap.
THEOREM PositionsRight == Spec => []ReadsContiguous
<1>1. IInv => ReadsContiguous
  BY DEF IInv
<1>2. QED
  BY <1>1, Invariance, PTL

\* Type correctness, for every image.
THEOREM TypeCorrect == Spec => []TypeOK
<1>1. IInv => TypeOK
  BY DEF IInv
<1>2. QED
  BY <1>1, Invariance, PTL

-----------------------------------------------------------------------------
(* What a step may do to the descriptors *)

\* The descriptor d may become e: closed, or the same file further on.
Stays(d, e) ==
  \/ e.flags = 0
  \/ /\ e.inode = d.inode
     /\ e.optable = d.optable
     /\ e.file_position >= d.file_position

\* A call of the running process leaves every open descriptor closed or with
\* its file.
LEMMA CallStays ==
  ASSUME Parts, NEW p \in Pids, NEW fd \in Open(p),
         \/ \E name \in Dentries : OpenFile(name)
         \/ \E f \in Fds : Close(f)
         \/ \E f \in Fds, n \in Lengths : FileRead(f, n)
         \/ \E f \in Fds : DirRead(f)
  PROVE  Stays(fds[p][fd], fds'[p][fd])
<1>1. /\ fd \in Fds
      /\ fds[p][fd].flags = 1
      /\ fds[p][fd] \in FileRecords
      /\ GoodDescriptor(fds[p][fd], returned[p][fd])
      /\ returned[p][fd] \in Nat
      /\ fds \in [Pids -> [Fds -> FileRecords]]
      /\ Running \in Pids
  BY RunningLive DEF Open, Parts
<1>2. Stays(fds[p][fd], fds[p][fd])
  BY <1>1 DEF Stays, FileRecords
<1>3. ASSUME NEW f \in Fds, NEW e, fds' = [fds EXCEPT ![Running][f] = e],
             p = Running /\ f = fd => Stays(fds[p][fd], e)
      PROVE  Stays(fds[p][fd], fds'[p][fd])
  BY <1>1, <1>2, <1>3
<1>4. ASSUME NEW name \in Dentries, OpenFile(name)
      PROVE  Stays(fds[p][fd], fds'[p][fd])
  <2>1. PICK f \in FreeFds : fds' = [fds EXCEPT ![Running][f] = Opened(fds[Running][f], name)]
    BY <1>4 DEF OpenFile
  <2>2. f \in Fds /\ ~(p = Running /\ f = fd)
    BY <2>1 DEF FreeFds
  <2>3. QED
    BY <1>3, <2>1, <2>2
<1>5. ASSUME NEW f \in Fds, Close(f)
      PROVE  Stays(fds[p][fd], fds'[p][fd])
  <2>1. fds' = [fds EXCEPT ![Running][f] = Closed(fds[Running][f])]
    BY <1>1, <1>5 DEF Close
  <2>2. Stays(fds[p][fd], Closed(fds[p][fd]))
    BY <1>1, ClosedGood DEF Stays
  <2>3. QED
    BY <1>3, <2>1, <2>2
<1>6. ASSUME NEW f \in Fds, NEW n \in Lengths, FileRead(f, n)
      PROVE  Stays(fds[p][fd], fds'[p][fd])
  <2> DEFINE d == fds[Running][f]
             e == [d EXCEPT !.file_position = @ + Available(d, n)]
  <2>1. fds' = [fds EXCEPT ![Running][f] = e]
    BY <1>1, <1>6 DEF FileRead
  <2>2. d.flags = 1 /\ d.optable = "file" /\ n \in Nat
    BY <1>6, FilesAssumption DEF FileRead, Open
  <2>3. d \in FileRecords /\ GoodDescriptor(d, returned[Running][f])
        /\ returned[Running][f] \in Nat
    BY <1>1 DEF Parts
  <2>4. Available(d, n) \in Nat
    BY <2>2, <2>3, ReadGood
  <2>5. Stays(d, e)
    BY <2>3, <2>4 DEF Stays, FileRecords
  <2>6. QED
    BY <1>3, <2>1, <2>5
<1>7. ASSUME NEW f \in Fds, DirRead(f)
      PROVE  Stays(fds[p][fd], fds'[p][fd])
  BY <1>2, <1>7 DEF DirRead
<1>8. QED
  BY <1>4, <1>5, <1>6, <1>7

\* execute fills a slot without open descriptors; halt closes, and gives the
\* standard descriptors to a new root shell, which had them before.
LEMMA ProcessStays ==
  ASSUME Parts, NEW p \in Pids, NEW fd \in Open(p), Execute \/ Halt
  PROVE  Stays(fds[p][fd], fds'[p][fd])
<1>1. /\ fd \in Fds
      /\ fds[p][fd].flags = 1
      /\ fds[p][fd] \in FileRecords
      /\ GoodDescriptor(fds[p][fd], returned[p][fd])
      /\ returned[p][fd] \in Nat
  BY DEF Open, Parts
<1>2. Stays(fds[p][fd], fds[p][fd])
  BY <1>1 DEF Stays, FileRecords
<1>3. CASE Execute
  <2> DEFINE child == <<now_term_id, cur_pcb_id[now_term_id] + 1>>
  <2>1. child \in Pids /\ fds' = [fds EXCEPT ![child] = Fresh]
    BY <1>3 DEF Execute
  <2>2. ~Live(child)
    BY <2>1 DEF Live, Parts, Slots
  <2>3. p # child
    <3>1. Live(p)
      BY <1>1 DEF Parts
    <3>2. QED
      BY <2>2, <3>1 DEF Live
  <2>4. QED
    BY <1>2, <2>1, <2>3
<1>4. CASE Halt
  <2>1. CASE p # Running
    <3>1. fds'[p][fd] \in {fds[p][fd], Closed(fds[p][fd])}
      BY <1>1, <1>4, <2>1 DEF Halt, AfterClose
    <3>2. Stays(fds[p][fd], Closed(fds[p][fd]))
      BY <1>1, ClosedGood DEF Stays
    <3>3. QED
      BY <1>2, <3>1, <3>2
  <2>2. CASE p = Running
    <3>1. fds'[p] = Fresh \/ fds'[p] = NoFiles
      BY <1>4, <2>2 DEF Halt
    <3>2. HasStreams(p)
      BY <2>2, RunningLive DEF Parts
    <3>3. CASE fd \in {0, 1}
      <4>1. Fresh[fd] = fds[p][fd]
        BY <3>2, <3>3, NewDescriptors DEF HasStreams
      <4>2. QED
        BY <1>1, <1>2, <3>1, <4>1, NewDescriptors DEF Stays
    <3>4. CASE fd \notin {0, 1}
      <4>1. Fresh[fd].flags = 0 /\ NoFiles[fd].flags = 0
        BY <1>1, <3>4 DEF Fresh, NoFiles, Unused
      <4>2. QED
        BY <3>1, <4>1 DEF Stays
    <3>5. QED
      BY <3>3, <3>4
  <2>3. QED
    BY <2>1, <2>2
<1>5. QED
  BY <1>3, <1>4

\* No call of any process gives an open descriptor another file or moves it
\* back.
THEOREM FilesStay == Spec => OpenFilesStay
<1>1. ASSUME Parts, [Next]_vars
      PROVE  \A p \in Pids : \A fd \in Open(p) : Stays(fds[p][fd], fds'[p][fd])
  <2> SUFFICES ASSUME NEW p \in Pids, NEW fd \in Open(p)
               PROVE  Stays(fds[p][fd], fds'[p][fd])
    OBVIOUS
  <2>1. CASE Execute \/ Halt
    BY <1>1, <2>1, ProcessStays
  <2>2. CASE Tick \/ (\E n \in Terms : AltF(n)) \/ UNCHANGED vars
    <3>1. fds' = fds /\ fds[p][fd] \in FileRecords
      BY <1>1, <2>2 DEF Tick, AltF, vars, Parts, Open
    <3>2. QED
      BY <3>1 DEF Stays, FileRecords
  <2>3. QED
    BY <1>1, <2>1, <2>2, CallStays DEF Next
<1>2. ASSUME IInv, [Next]_vars
      PROVE  [\A p \in Pids : fds'[p] # fds[p] =>
                \A fd \in Open(p) : Stays(fds[p][fd], fds'[p][fd])]_vars
  BY <1>1, <1>2, PartsOfIInv
<1>3. Spec => [][\A p \in Pids : fds'[p] # fds[p] =>
                   \A fd \in Open(p) : Stays(fds[p][fd], fds'[p][fd])]_vars
  BY <1>2, Invariance, PTL DEF Spec
<1>4. QED
  BY <1>3 DEF OpenFilesStay, Stays

\* Only the end of a root shell reaches a descriptor in another terminal: it
\* clears flags of the process in the last slot of the terminal before.
Reached(p) ==
  /\ Halt
  /\ cur_pcb_id[now_term_id] = 0
  /\ p = <<now_term_id - 1, MAX_PCB_MASK_LEN - 1>>
  /\ \A fd \in Fds : fds'[p][fd] # fds[p][fd] =>
       fd >= 2 /\ fds'[p][fd] = Closed(fds[p][fd])

\* No call but halt writes to a descriptor of another terminal: its process is
\* the running one, and a child starts in the same terminal.
LEMMA CallsStayInTerminal ==
  ASSUME Parts, [Next]_vars, ~Halt, NEW p \in Pids, p[1] # now_term_id
  PROVE  fds'[p] = fds[p]
<1>1. Running = <<now_term_id, cur_pcb_id[now_term_id]>> /\ p # Running
  BY RunningLive
<1>2. fds \in [Pids -> [Fds -> FileRecords]]
  BY DEF Parts
<1>3. CASE Execute
  BY <1>2, <1>3 DEF Execute
<1>4. CASE \E name \in Dentries : OpenFile(name)
  BY <1>1, <1>2, <1>4 DEF OpenFile
<1>5. CASE \E fd \in Fds : Close(fd)
  BY <1>1, <1>2, <1>5 DEF Close
<1>6. CASE \E fd \in Fds, n \in Lengths : FileRead(fd, n)
  BY <1>1, <1>2, <1>6 DEF FileRead
<1>7. CASE (\E fd \in Fds : DirRead(fd)) \/ Tick \/ (\E n \in Terms : AltF(n)) \/ UNCHANGED vars
  BY <1>7 DEF DirRead, Tick, AltF, vars
<1>8. QED
  BY <1>3, <1>4, <1>5, <1>6, <1>7 DEF Next

\* halt writes to the running process and, through close, to one more.
LEMMA HaltReaches ==
  ASSUME Parts, Halt, NEW p \in Pids, p[1] # now_term_id, fds'[p] # fds[p]
  PROVE  Reached(p)
<1>1. /\ Running = <<now_term_id, cur_pcb_id[now_term_id]>> /\ p # Running
      /\ cur_pcb_id[now_term_id] \in Slots
      /\ fds \in [Pids -> [Fds -> FileRecords]]
  BY RunningLive DEF Parts
<1>2. fds'[p] = AfterClose(p)
  BY <1>1 DEF Halt
<1>3. p = PcbOfClose
  BY <1>1, <1>2 DEF AfterClose
<1>4. cur_pcb_id[now_term_id] = 0
  BY <1>1, <1>3 DEF PcbOfClose, Slots
<1>5. p = <<now_term_id - 1, MAX_PCB_MASK_LEN - 1>>
  BY <1>3, <1>4 DEF PcbOfClose
<1>6. ASSUME NEW fd \in Fds, fds'[p][fd] # fds[p][fd]
      PROVE  fd >= 2 /\ fds'[p][fd] = Closed(fds[p][fd])
  BY <1>2, <1>6 DEF AfterClose, Closable
<1>7. QED
  BY <1>4, <1>5, <1>6 DEF Reached

\* Terminals are apart: a step changes descriptors of another terminal only
\* when a root shell ends, and then only flags of files.
THEOREM TerminalsApart == Spec => OtherTerminalsKeep
<1>1. ASSUME IInv, [Next]_vars
      PROVE  [\A p \in Pids : p[1] # now_term_id /\ fds'[p] # fds[p] => Reached(p)]_vars
  BY <1>1, PartsOfIInv, CallsStayInTerminal, HaltReaches
<1>2. Spec => [][\A p \in Pids : p[1] # now_term_id /\ fds'[p] # fds[p] => Reached(p)]_vars
  BY <1>1, Invariance, PTL DEF Spec
<1>3. QED
  BY <1>2 DEF OtherTerminalsKeep, Reached

-----------------------------------------------------------------------------
(* The test program of the error returns *)

\* The calls of the tests but err_open_lots.
WrongCalls ==
         {[op |-> "read", arg |-> fd] : fd \in {NEG, BIG} \cup 1 .. Top_fd}
    \cup {[op |-> "write", arg |-> fd] : fd \in {NEG, BIG, 0} \cup 2 .. Top_fd}
    \cup {[op |-> "close", arg |-> fd] : fd \in {NEG, BIG} \cup Descriptors}
    \cup {[op |-> "open", arg |-> name] : name \in {"helloo", "shel", ""}}
    \cup {[op |-> "vidmap", arg |-> where] : where \in {"null", "kernel"}}
    \cup {[op |-> "number", arg |-> num] : num \in {BIG, NEG, 0}}

Opening(k) == [op |-> "open", arg |-> "."]
Closing(k) == [op |-> "close", arg |-> 2 + (k - DescriptorCount)]
Calls == WrongCalls \cup {Opening(0)} \cup {[op |-> "close", arg |-> fd] : fd \in Descriptors}

\* The descriptors after so many calls of err_open_lots; before the first and
\* behind the last call they are as every other test finds and leaves them.
After_lots(count) ==
  [fd \in Descriptors |->
     IF fd = 0 THEN "stdin" ELSE IF fd = 1 THEN "stdout"
     ELSE IF count <= DescriptorCount - 1
          THEN IF fd < 2 + count THEN "dir" ELSE "error"
          ELSE IF fd < 2 + (count - (DescriptorCount - 1)) THEN "error" ELSE "dir"]

ErrInv ==
  /\ fail = 0
  /\ tests \in Seq(1 .. 8)
  /\ tests = <<>> => calls = <<>> /\ opened = After_lots(0)
  /\ tests # <<>> =>
       LET all == Programs[tests[1]] IN
       /\ calls \in Seq(Calls) /\ made \in Nat /\ Len(calls) + made = Len(all)
       /\ \A k \in 1 .. Len(calls) : calls[k] = all[made + k]
       /\ opened = IF tests[1] = 3 THEN After_lots(made) ELSE After_lots(0)
       /\ refused = IF tests[1] # 3 THEN made
                    ELSE IF made < DescriptorCount - 1 THEN 0 ELSE 1

LEMMA EachIs ==
  ASSUME NEW op, NEW S, NEW first \in Nat, NEW last_fd \in Int, first <= last_fd + 1,
         \A fd \in first .. last_fd : [op |-> op, arg |-> fd] \in S
  PROVE  Each(op, first, last_fd) \in Seq(S)
  <1> DEFINE count == last_fd - first + 1
             seq == [k \in 1 .. count |-> [op |-> op, arg |-> first + k - 1]]
  <1>1. count \in Nat
    OBVIOUS
  <1>2. \A k \in 1 .. count : first + k - 1 \in first .. last_fd
    OBVIOUS
  <1>3. \A k \in 1 .. count : [op |-> op, arg |-> first + k - 1] \in S
    BY <1>2
  <1>4. Each(op, first, last_fd) = seq
    BY DEF Each
  <1> HIDE DEF count
  <1>5. seq \in [1 .. count -> S]
    BY <1>3
  <1> HIDE DEF seq
  <1>6. QED
    BY <1>1, <1>4, <1>5

LEMMA DoIs ==
  ASSUME NEW op, NEW arg, NEW S, [op |-> op, arg |-> arg] \in S
  PROVE  Do(op, arg) \in Seq(S)
  BY DEF Do

\* The tests but the third only make calls that must be refused.
LEMMA ProgramsAre ==
  \A t \in 1 .. 8 : t # 3 => Programs[t] \in Seq(WrongCalls)
  <1>0. DescriptorCount \in Nat \ {0, 1} /\ Top_fd = DescriptorCount - 1
    BY SystemErrorsAssumption DEF Top_fd
  <1>1. \A fd \in {NEG, BIG} : /\ Do("read", fd) \in Seq(WrongCalls)
                               /\ Do("write", fd) \in Seq(WrongCalls)
                               /\ Do("close", fd) \in Seq(WrongCalls)
    BY DoIs DEF WrongCalls
  <1>2. Do("read", 1) \in Seq(WrongCalls) /\ Do("write", 0) \in Seq(WrongCalls)
    <2>1. 1 \in {NEG, BIG} \cup 1 .. Top_fd /\ 0 \in {NEG, BIG, 0} \cup 2 .. Top_fd
      BY <1>0
    <2>2. QED
      BY <2>1, DoIs DEF WrongCalls
  <1>3. \A name \in {"helloo", "shel", ""} : Do("open", name) \in Seq(WrongCalls)
    BY DoIs DEF WrongCalls
  <1>4. \A where \in {"null", "kernel"} : Do("vidmap", where) \in Seq(WrongCalls)
    BY DoIs DEF WrongCalls
  <1>5. \A num \in {BIG, NEG, 0} : Do("number", num) \in Seq(WrongCalls)
    BY DoIs DEF WrongCalls
  <1>6. /\ Each("close", 0, Top_fd) \in Seq(WrongCalls)
        /\ Each("read", 2, Top_fd) \in Seq(WrongCalls)
        /\ Each("write", 2, Top_fd) \in Seq(WrongCalls)
    <2>1. \A fd \in 0 .. Top_fd : [op |-> "close", arg |-> fd] \in WrongCalls
      BY <1>0 DEF WrongCalls, Descriptors
    <2>2. \A fd \in 2 .. Top_fd : [op |-> "read", arg |-> fd] \in WrongCalls
      <3>1. \A fd \in 2 .. Top_fd : fd \in {NEG, BIG} \cup 1 .. Top_fd
        BY <1>0
      <3>2. QED
        BY <3>1 DEF WrongCalls
    <2>3. \A fd \in 2 .. Top_fd : [op |-> "write", arg |-> fd] \in WrongCalls
      BY <1>0 DEF WrongCalls
    <2>4. 0 \in Nat /\ 2 \in Nat /\ Top_fd \in Int /\ 0 <= Top_fd + 1 /\ 2 <= Top_fd + 1
      BY <1>0
    <2>5. QED
      BY <2>1, <2>2, <2>3, <2>4, EachIs
  <1>7. \A s1, s2 \in Seq(WrongCalls) : s1 \o s2 \in Seq(WrongCalls)
    BY ConcatProperties
  <1>8. err_neg_fd \in Seq(WrongCalls) /\ err_big_fd \in Seq(WrongCalls)
    BY <1>1, <1>7 DEF err_neg_fd, err_big_fd
  <1>9. err_open \in Seq(WrongCalls) /\ err_unopened \in Seq(WrongCalls)
    BY <1>3, <1>6, <1>7 DEF err_open, err_unopened
  <1>10. /\ err_vidmap \in Seq(WrongCalls) /\ err_stdin_out \in Seq(WrongCalls)
         /\ err_syscall_num \in Seq(WrongCalls)
    BY <1>2, <1>4, <1>5, <1>7 DEF err_vidmap, err_stdin_out, err_syscall_num
  <1>11. QED
    BY <1>8, <1>9, <1>10 DEF Programs

\* The third opens one directory too often and then closes all.
LEMMA LotsIs ==
  /\ Programs[3] \in Seq(Calls) /\ Len(Programs[3]) = 2 * DescriptorCount - 3
  /\ \A k \in 1 .. 2 * DescriptorCount - 3 :
       Programs[3][k] = IF k <= DescriptorCount - 1 THEN Opening(k) ELSE Closing(k)
  <1> DEFINE opens == [k \in 1 .. DescriptorCount - 1 |-> [op |-> "open", arg |-> "."]]
             closes == Each("close", 2, Top_fd)
             top == DescriptorCount - 2
  <1>0. DescriptorCount \in Nat \ {0, 1} /\ Top_fd = DescriptorCount - 1
    BY SystemErrorsAssumption DEF Top_fd
  <1>1. /\ opens \in Seq(Calls) /\ Len(opens) = DescriptorCount - 1
        /\ \A k \in 1 .. DescriptorCount - 1 : opens[k] = Opening(0)
    BY <1>0 DEF Calls, Opening
  <1>2. closes \in Seq(Calls)
    <2>1. \A fd \in 2 .. Top_fd : [op |-> "close", arg |-> fd] \in Calls
      <3>1. \A fd \in 2 .. Top_fd : fd \in Descriptors
        BY <1>0 DEF Descriptors
      <3>2. QED
        BY <3>1 DEF Calls
    <2>2. 2 \in Nat /\ Top_fd \in Int /\ 2 <= Top_fd + 1
      BY <1>0
    <2>3. QED
      BY <2>1, <2>2, EachIs
  <1>3. closes = [k \in 1 .. top |-> [op |-> "close", arg |-> 2 + k - 1]]
    <2>1. Top_fd - 2 + 1 = top
      BY <1>0
    <2>2. QED
      BY <2>1 DEF Each
  <1>4. Len(closes) = top
    BY <1>0, <1>3
  <1>5. Programs[3] = opens \o closes
    BY DEF Programs, err_open_lots
  <1> HIDE DEF opens, closes
  <1>6. /\ opens \o closes \in Seq(Calls)
        /\ Len(opens \o closes) = Len(opens) + Len(closes)
        /\ \A k \in 1 .. Len(opens) + Len(closes) :
             (opens \o closes)[k] = IF k <= Len(opens) THEN opens[k] ELSE closes[k - Len(opens)]
    BY <1>1, <1>2, ConcatProperties
  <1>7. Len(Programs[3]) = 2 * DescriptorCount - 3
    BY <1>0, <1>1, <1>4, <1>5, <1>6
  <1>8. ASSUME NEW k \in 1 .. 2 * DescriptorCount - 3
        PROVE  Programs[3][k] = IF k <= DescriptorCount - 1 THEN Opening(k) ELSE Closing(k)
    <2>1. k \in 1 .. Len(opens) + Len(closes)
      BY <1>0, <1>1, <1>4
    <2>2. CASE k <= DescriptorCount - 1
      BY <1>0, <1>1, <1>5, <1>6, <2>1, <2>2 DEF Opening
    <2>3. CASE ~(k <= DescriptorCount - 1)
      <3>1. Programs[3][k] = closes[k - (DescriptorCount - 1)]
        BY <1>0, <1>1, <1>5, <1>6, <2>1, <2>3
      <3>2. /\ k - (DescriptorCount - 1) \in 1 .. top
            /\ 2 + (k - (DescriptorCount - 1)) - 1 = 2 + (k - DescriptorCount)
        BY <1>0, <2>3
      <3>3. QED
        BY <1>3, <2>3, <3>1, <3>2 DEF Closing
    <2>4. QED
      BY <2>2, <2>3
  <1>9. QED
    BY <1>5, <1>6, <1>7, <1>8


\* Calls that must be refused are, when only the standard descriptors are open.
LEMMA WrongIsRefused ==
  ASSUME opened = After_lots(0), NEW call \in WrongCalls
  PROVE  Refused(call)
  <1>1. DescriptorCount \in Nat \ {0, 1} /\ Top_fd = DescriptorCount - 1
        /\ BIG \in Int /\ BIG >= DescriptorCount /\ BIG > 10 /\ NEG \in Int /\ NEG < 0
    BY SystemErrorsAssumption DEF Top_fd
  <1>2. \A fd \in Descriptors : opened[fd] = IF fd = 0 THEN "stdin"
                                             ELSE IF fd = 1 THEN "stdout" ELSE "error"
    BY <1>1 DEF After_lots, Descriptors
  <1>3. ~FdValid(NEG) /\ ~FdValid(BIG) /\ \A fd \in 2 .. Top_fd : ~FdValid(fd)
    BY <1>1, <1>2 DEF FdValid, Descriptors
  <1>4. opened[0] = "stdin" /\ opened[1] = "stdout"
    BY <1>1, <1>2 DEF Descriptors
  <1>5. ASSUME NEW fd \in {NEG, BIG} \cup 1 .. Top_fd, call = [op |-> "read", arg |-> fd]
        PROVE  Refused(call)
    <2>1. ReadRefused(fd)
      BY <1>1, <1>3, <1>4, <1>5 DEF ReadRefused
    <2>2. QED
      BY <1>5, <2>1 DEF Refused
  <1>6. ASSUME NEW fd \in {NEG, BIG, 0} \cup 2 .. Top_fd, call = [op |-> "write", arg |-> fd]
        PROVE  Refused(call)
    <2>1. WriteRefused(fd)
      BY <1>3, <1>4, <1>6 DEF WriteRefused
    <2>2. QED
      BY <1>6, <2>1 DEF Refused
  <1>7. ASSUME NEW fd \in {NEG, BIG} \cup Descriptors, call = [op |-> "close", arg |-> fd]
        PROVE  Refused(call)
    <2>1. CloseRefused(fd)
      BY <1>1, <1>3, <1>7 DEF CloseRefused, Descriptors
    <2>2. QED
      BY <1>7, <2>1 DEF Refused
  <1>8. ASSUME NEW name \in {"helloo", "shel", ""}, call = [op |-> "open", arg |-> name]
        PROVE  Refused(call)
    <2>1. OpenRefused(name)
      BY <1>8, SystemErrorsAssumption DEF OpenRefused
    <2>2. QED
      BY <1>8, <2>1 DEF Refused
  <1>9. ASSUME NEW where \in {"null", "kernel"}, call = [op |-> "vidmap", arg |-> where]
        PROVE  Refused(call)
    <2>1. VidmapRefused(where)
      BY <1>9 DEF VidmapRefused
    <2>2. QED
      BY <1>9, <2>1 DEF Refused
  <1>10. ASSUME NEW num \in {BIG, NEG, 0}, call = [op |-> "number", arg |-> num]
         PROVE  Refused(call)
    <2>1. NumberRefused(num)
      BY <1>1, <1>10 DEF NumberRefused
    <2>2. QED
      BY <1>10, <2>1 DEF Refused
  <1>11. QED
    BY <1>5, <1>6, <1>7, <1>8, <1>9, <1>10 DEF WrongCalls

LEMMA ErrorsInitHolds == ErrorsInit => ErrInv
  <1> SUFFICES ASSUME ErrorsInit PROVE ErrInv
    OBVIOUS
  <1>1. DescriptorCount \in Nat \ {0, 1}
    BY SystemErrorsAssumption
  <1>2. opened = After_lots(0)
    BY <1>1 DEF ErrorsInit, After_lots, Descriptors
  <1>3. tests \in Seq(1 .. 8)
    <2>1. \/ tests = <<1, 2, 3, 4, 5, 6, 7, 8>> \/ tests = <<>>
          \/ selected \in 1 .. 8 /\ tests = <<selected>>
      BY DEF ErrorsInit
    <2>2. <<1, 2, 3, 4, 5, 6, 7, 8>> \in Seq(1 .. 8)
      OBVIOUS
    <2>3. <<>> \in Seq(1 .. 8) /\ \A one \in 1 .. 8 : <<one>> \in Seq(1 .. 8)
      OBVIOUS
    <2>4. QED
      BY <2>1, <2>2, <2>3
  <1>4. tests = <<>> => calls = <<>>
    BY DEF ErrorsInit
  <1>5. tests # <<>> =>
          LET all == Programs[tests[1]] IN
          /\ calls = all /\ calls \in Seq(Calls) /\ made = 0
    <2>1. tests # <<>> => tests[1] \in 1 .. 8
      BY <1>3
    <2>2. \A t \in 1 .. 8 : Programs[t] \in Seq(Calls)
      BY ProgramsAre, LotsIs, SeqMonotonic DEF Calls
    <2>3. QED
      BY <2>1, <2>2 DEF ErrorsInit
  <1>6. tests # <<>> =>
          LET all == Programs[tests[1]] IN
          /\ calls \in Seq(Calls) /\ made \in Nat /\ Len(calls) + made = Len(all)
          /\ \A k \in 1 .. Len(calls) : calls[k] = all[made + k]
          /\ opened = IF tests[1] = 3 THEN After_lots(made) ELSE After_lots(0)
          /\ refused = IF tests[1] # 3 THEN made
                       ELSE IF made < DescriptorCount - 1 THEN 0 ELSE 1
    BY <1>1, <1>2, <1>5, LenProperties DEF ErrorsInit
  <1>7. QED
    BY <1>2, <1>3, <1>4, <1>6 DEF ErrInv, ErrorsInit


\* The first unused descriptor is taken.
LEMMA LotsOpens ==
  ASSUME NEW count \in 0 .. DescriptorCount - 3, opened = After_lots(count)
  PROVE  ~Refused(Opening(0)) /\ After(Opening(0)) = After_lots(count + 1)
  <1> DEFINE next == 2 + count
  <1>0. DescriptorCount \in Nat \ {0, 1} /\ "." \in Names
    BY SystemErrorsAssumption
  <1>1. /\ DescriptorCount \in Nat \ {0, 1} /\ "." \in Names
        /\ next \in 0 .. DescriptorCount - 1 /\ next \in Descriptors
    BY <1>0 DEF Descriptors
  <1>2. \A fd \in Descriptors :
          opened[fd] = IF fd = 0 THEN "stdin" ELSE IF fd = 1 THEN "stdout"
                       ELSE IF fd < next THEN "dir" ELSE "error"
    BY <1>1 DEF After_lots, Descriptors
  <1>3. opened[next] = "error" /\ \A k \in 0 .. next - 1 : opened[k] # "error"
    BY <1>1, <1>2 DEF Descriptors
  <1>4. ~Refused(Opening(0))
    <2>1. ~OpenRefused(".")
      BY <1>1, <1>3 DEF OpenRefused
    <2>2. QED
      BY <2>1 DEF Refused, Opening
  <1>5. next = CHOOSE fd \in Descriptors :
                 opened[fd] = "error" /\ \A k \in 0 .. fd - 1 : opened[k] # "error"
    <2>1. \A fd \in Descriptors :
            opened[fd] = "error" /\ (\A k \in 0 .. fd - 1 : opened[k] # "error") => fd = next
      BY <1>1, <1>3 DEF Descriptors
    <2>2. QED
      BY <1>1, <1>3, <2>1
  <1> HIDE DEF next
  <1>6. After(Opening(0)) = [opened EXCEPT ![next] = "dir"]
    BY <1>4, <1>5 DEF After, Opening
  <1>7. [opened EXCEPT ![next] = "dir"] = After_lots(count + 1)
    <2>1. opened = [fd \in Descriptors |->
                      IF fd = 0 THEN "stdin" ELSE IF fd = 1 THEN "stdout"
                      ELSE IF fd < next THEN "dir" ELSE "error"]
      BY <1>1 DEF After_lots, next
    <2>2. After_lots(count + 1) = [fd \in Descriptors |->
                      IF fd = 0 THEN "stdin" ELSE IF fd = 1 THEN "stdout"
                      ELSE IF fd < next + 1 THEN "dir" ELSE "error"]
      BY <1>1 DEF After_lots, next
    <2>3. QED
      BY <1>1, <2>1, <2>2 DEF Descriptors, next
  <1>8. QED
    BY <1>4, <1>6, <1>7

\* Without an unused descriptor open is refused.
LEMMA LotsIsFull ==
  ASSUME opened = After_lots(DescriptorCount - 2)
  PROVE  /\ Refused(Opening(0))
         /\ After(Opening(0)) = After_lots(DescriptorCount - 1)
  <1>1. DescriptorCount \in Nat \ {0, 1}
    BY SystemErrorsAssumption
  <1>2. \A fd \in Descriptors : opened[fd] # "error"
    BY <1>1 DEF After_lots, Descriptors
  <1>3. Refused(Opening(0))
    BY <1>2 DEF Refused, Opening, OpenRefused
  <1>4. After_lots(DescriptorCount - 1) = After_lots(DescriptorCount - 2)
    BY <1>1 DEF After_lots, Descriptors
  <1>5. QED
    BY <1>3, <1>4 DEF After

\* The directories are closed one by one.
LEMMA LotsCloses ==
  ASSUME NEW count \in DescriptorCount - 1 .. 2 * DescriptorCount - 4,
         opened = After_lots(count)
  PROVE  /\ ~Refused(Closing(count + 1))
         /\ After(Closing(count + 1)) = After_lots(count + 1)
  <1> DEFINE next == 2 + (count - (DescriptorCount - 1))
  <1>0. DescriptorCount \in Nat \ {0, 1}
    BY SystemErrorsAssumption
  <1>1. /\ DescriptorCount \in Nat \ {0, 1}
        /\ next \in 2 .. DescriptorCount - 1 /\ next \in Descriptors /\ next >= 2
    BY <1>0 DEF Descriptors
  <1>2. opened = [fd \in Descriptors |->
                    IF fd = 0 THEN "stdin" ELSE IF fd = 1 THEN "stdout"
                    ELSE IF fd < next THEN "error" ELSE "dir"]
    <2>1. CASE count = DescriptorCount - 1
      BY <1>1, <2>1 DEF After_lots, Descriptors
    <2>2. CASE count > DescriptorCount - 1
      BY <1>1, <2>2 DEF After_lots
    <2>3. QED
      BY <1>1, <2>1, <2>2
  <1>3. After_lots(count + 1) = [fd \in Descriptors |->
                    IF fd = 0 THEN "stdin" ELSE IF fd = 1 THEN "stdout"
                    ELSE IF fd < next + 1 THEN "error" ELSE "dir"]
    <2>1. 2 + ((count + 1) - (DescriptorCount - 1)) = next + 1
          /\ ~(count + 1 <= DescriptorCount - 1)
      BY <1>1
    <2>2. QED
      BY <2>1 DEF After_lots
  <1>4. Closing(count + 1) = [op |-> "close", arg |-> next]
    <2>1. 2 + ((count + 1) - DescriptorCount) = next
      BY <1>1
    <2>2. QED
      BY <2>1 DEF Closing
  <1> HIDE DEF next
  <1>5. ~CloseRefused(next)
    BY <1>1, <1>2 DEF CloseRefused, FdValid, Descriptors
  <1>6. ~Refused(Closing(count + 1))
    <2>1. ~Refused([op |-> "close", arg |-> next])
      BY <1>5 DEF Refused
    <2>2. QED
      BY <1>4, <2>1
  <1>7. After(Closing(count + 1)) = [opened EXCEPT ![next] = "error"]
    <2> DEFINE call == [op |-> "close", arg |-> next]
    <2>1. call.op = "close" /\ call.arg = next /\ call = Closing(count + 1)
      BY <1>4
    <2> HIDE DEF call
    <2>2. After(call) = [opened EXCEPT ![next] = "error"]
      BY <1>6, <2>1 DEF After
    <2>3. QED
      BY <2>1, <2>2
  <1>8. [opened EXCEPT ![next] = "error"] = After_lots(count + 1)
    BY <1>1, <1>2, <1>3 DEF Descriptors
  <1>9. QED
    BY <1>6, <1>7, <1>8

LEMMA ErrorsCallKeeps ==
  ASSUME ErrInv, call_sys
  PROVE  ErrInv'
  <1> DEFINE t == tests[1]
             all == Programs[t]
             call == calls[1]
  <1>1. /\ fail = 0 /\ tests \in Seq(1 .. 8) /\ tests # <<>> /\ calls # <<>>
        /\ calls \in Seq(Calls) /\ made \in Nat /\ Len(calls) + made = Len(all)
        /\ \A k \in 1 .. Len(calls) : calls[k] = all[made + k]
        /\ opened = IF t = 3 THEN After_lots(made) ELSE After_lots(0)
        /\ refused = IF t # 3 THEN made ELSE IF made < DescriptorCount - 1 THEN 0 ELSE 1
        /\ DescriptorCount \in Nat \ {0, 1}
    BY SystemErrorsAssumption DEF ErrInv, call_sys
  <1>2. /\ Head(calls) = call /\ Head(tests) = t /\ t \in 1 .. 8
        /\ Len(calls) \in Nat \ {0} /\ Tail(calls) \in Seq(Calls)
        /\ Len(Tail(calls)) = Len(calls) - 1
        /\ \A k \in 1 .. Len(calls) - 1 : Tail(calls)[k] = calls[k + 1]
    BY <1>1
  <1>3. call = all[made + 1]
    BY <1>1, <1>2
  <1>4. /\ calls' = Tail(calls) /\ made' = made + 1 /\ tests' = tests /\ fail' = 0
        /\ refused' = refused + (IF Counted(t, call) /\ Refused(call) THEN 1 ELSE 0)
        /\ opened' = After(call)
    BY <1>1, <1>2 DEF call_sys
  <1> HIDE DEF call
  <1>5. /\ calls' \in Seq(Calls) /\ Len(calls') + (made + 1) = Len(all)
        /\ \A k \in 1 .. Len(calls') : calls'[k] = all[(made + 1) + k]
    <2>1. calls' \in Seq(Calls) /\ Len(calls') = Len(calls) - 1
      BY <1>2, <1>4
    <2>2. ASSUME NEW k \in 1 .. Len(calls')
          PROVE  calls'[k] = all[(made + 1) + k]
      <3>1. k \in 1 .. Len(calls) - 1 /\ k + 1 \in 1 .. Len(calls)
        BY <1>2, <2>1
      <3>2. calls'[k] = calls[k + 1] /\ calls[k + 1] = all[made + (k + 1)]
        BY <1>1, <1>2, <1>4, <3>1
      <3>3. made + (k + 1) = (made + 1) + k
        BY <1>1
      <3>4. QED
        BY <3>2, <3>3
    <2>3. QED
      BY <1>1, <1>2, <2>1, <2>2
  <1>6. /\ opened' = IF t = 3 THEN After_lots(made + 1) ELSE After_lots(0)
        /\ refused' = IF t # 3 THEN made + 1
                      ELSE IF made + 1 < DescriptorCount - 1 THEN 0 ELSE 1
    <2>1. CASE t # 3
      <3>1. all \in Seq(WrongCalls)
        BY <1>2, <2>1, ProgramsAre
      <3>2. made + 1 \in 1 .. Len(all)
        BY <1>1, <1>2
      <3>3. call \in WrongCalls
        BY <1>3, <3>1, <3>2, ElementOfSeq
      <3>4. Refused(call)
        BY <1>1, <2>1, <3>3, WrongIsRefused
      <3>5. QED
        BY <1>1, <1>4, <2>1, <3>4 DEF Counted, After
    <2>2. CASE t = 3
      <3>1. made + 1 \in 1 .. 2 * DescriptorCount - 3
        BY <1>1, <1>2, <2>2, LotsIs
      <3>2. call = IF made + 1 <= DescriptorCount - 1 THEN Opening(0) ELSE Closing(made + 1)
        BY <1>3, <2>2, <3>1, LotsIs DEF Opening
      <3>3. CASE made + 1 < DescriptorCount - 1
        <4>1. made \in 0 .. DescriptorCount - 3 /\ call = Opening(0)
          BY <1>1, <3>2, <3>3
        <4>2. QED
          BY <1>1, <1>4, <2>2, <3>3, <4>1, LotsOpens
      <3>4. CASE made + 1 = DescriptorCount - 1
        <4>1. made = DescriptorCount - 2 /\ call = Opening(0)
          BY <1>1, <3>2, <3>4
        <4>2. Counted(t, call)
          BY <4>1 DEF Counted, Opening
        <4>3. QED
          BY <1>1, <1>4, <2>2, <3>4, <4>1, <4>2, LotsIsFull
      <3>5. CASE made + 1 > DescriptorCount - 1
        <4>1. /\ made \in DescriptorCount - 1 .. 2 * DescriptorCount - 4
              /\ call = Closing(made + 1)
          BY <1>1, <3>1, <3>2, <3>5
        <4>2. QED
          BY <1>1, <1>4, <2>2, <3>5, <4>1, LotsCloses
      <3>6. QED
        BY <1>1, <3>3, <3>4, <3>5
    <2>3. QED
      BY <2>1, <2>2
  <1>7. QED
    BY <1>1, <1>4, <1>5, <1>6 DEF ErrInv


\* When the last call of a test was made, the descriptors are as before the
\* first, and the test is passed.
LEMMA LotsClosed ==
  ASSUME ErrInv, calls = <<>>, tests # <<>>
  PROVE  opened = After_lots(0) /\ Verdict(Head(tests)) = 0
  <1> DEFINE t == tests[1]
             all == Programs[t]
  <1>0. /\ fail = 0 /\ tests \in Seq(1 .. 8) /\ tests # <<>> /\ calls = <<>>
        /\ made \in Nat /\ Len(calls) + made = Len(all)
        /\ opened = IF t = 3 THEN After_lots(made) ELSE After_lots(0)
        /\ refused = IF t # 3 THEN made ELSE IF made < DescriptorCount - 1 THEN 0 ELSE 1
    BY DEF ErrInv
  <1> HIDE DEF all
  <1>1. /\ fail = 0 /\ tests \in Seq(1 .. 8) /\ tests # <<>>
        /\ made \in Nat /\ made = Len(all)
        /\ opened = IF t = 3 THEN After_lots(made) ELSE After_lots(0)
        /\ refused = IF t # 3 THEN made ELSE IF made < DescriptorCount - 1 THEN 0 ELSE 1
        /\ DescriptorCount \in Nat \ {0, 1}
    <2>1. Len(calls) = 0
      BY <1>0
    <2>2. 0 + made = Len(all)
      BY <1>0, <2>1
    <2>3. made = Len(all)
      BY <1>0, <2>2
    <2>4. QED
      BY <1>0, <2>3, SystemErrorsAssumption
  <1> USE DEF all
  <1>2. Head(tests) = t /\ t \in 1 .. 8 /\ Len(tests) \in Nat \ {0}
    BY <1>1
  <1>3. QED
    <2>1. CASE t # 3
      BY <1>1, <1>2, <2>1 DEF Verdict
    <2>2. CASE t = 3
      <3>1. made = 2 * DescriptorCount - 3
        BY <1>1, <2>2, LotsIs
      <3>2. After_lots(made) = After_lots(0)
        <4>1. CASE DescriptorCount = 2
          BY <3>1, <4>1 DEF After_lots, Descriptors
        <4>2. CASE DescriptorCount > 2
          <5>1. ~(made <= DescriptorCount - 1)
                /\ 2 + (made - (DescriptorCount - 1)) = DescriptorCount
            BY <1>1, <3>1, <4>2
          <5>2. \A fd \in Descriptors : fd < DescriptorCount
            BY <1>1 DEF Descriptors
          <5>3. QED
            BY <1>1, <5>1, <5>2 DEF After_lots, Descriptors
        <4>3. QED
          BY <1>1, <4>1, <4>2
      <3>3. ~(made < DescriptorCount - 1)
        BY <1>1, <3>1
      <3>4. QED
        BY <1>1, <1>2, <2>2, <3>2, <3>3 DEF Verdict
    <2>3. QED
      BY <2>1, <2>2

LEMMA ErrorsEndKeeps ==
  ASSUME ErrInv, TestEnds
  PROVE  ErrInv'
  <1>1. /\ fail = 0 /\ tests \in Seq(1 .. 8) /\ tests # <<>> /\ calls = <<>>
        /\ DescriptorCount \in Nat \ {0, 1}
    BY SystemErrorsAssumption DEF ErrInv, TestEnds
  <1>2. Len(tests) \in Nat \ {0}
    BY <1>1
  <1>3. opened = After_lots(0) /\ Verdict(Head(tests)) = 0
    BY <1>1, LotsClosed
  <1>4. /\ fail' = 0 /\ tests' = Tail(tests) /\ refused' = 0 /\ made' = 0
        /\ calls' = IF Len(tests) = 1 THEN <<>> ELSE Programs[tests[2]]
        /\ opened' = After_lots(0)
    BY <1>1, <1>3 DEF TestEnds
  <1>5. tests' \in Seq(1 .. 8)
    BY <1>1, <1>4
  <1>6. CASE Len(tests) = 1
    <2>1. tests' = <<>> /\ calls' = <<>>
      BY <1>1, <1>4, <1>6
    <2>2. QED
      BY <1>4, <1>5, <2>1 DEF ErrInv
  <1>7. CASE Len(tests) # 1
    <2>0. /\ Len(tests) >= 2 /\ tests[2] \in 1 .. 8 /\ Tail(tests) # <<>>
          /\ Tail(tests)[1] = tests[2]
      <3>0. Len(tests) >= 2
        <4>1. \A n \in Nat \ {0} : n # 1 => n >= 2
          OBVIOUS
        <4>2. QED
          BY <1>2, <1>7, <4>1, Zenon
      <3>1. Len(tests) >= 2 /\ tests[2] \in 1 .. 8
        BY <1>1, <3>0, ElementOfSeq
      <3>2. Len(Tail(tests)) = Len(tests) - 1 /\ Tail(tests)[1] = tests[2]
        BY <1>1, <3>1
      <3>3. Tail(tests) # <<>>
        BY <3>1, <3>2
      <3>4. QED
        BY <3>1, <3>2, <3>3
    <2>1. tests'[1] = tests[2] /\ tests[2] \in 1 .. 8 /\ tests' # <<>>
      BY <1>4, <2>0
    <2>2. Programs[tests[2]] \in Seq(Calls)
      BY <2>1, ProgramsAre, LotsIs, SeqMonotonic DEF Calls
    <2>3. /\ calls' = Programs[tests'[1]] /\ calls' \in Seq(Calls) /\ Len(calls') \in Nat
      BY <1>4, <1>7, <2>1, <2>2
    <2>4. /\ Len(calls') + made' = Len(Programs[tests'[1]])
          /\ \A k \in 1 .. Len(calls') : calls'[k] = Programs[tests'[1]][made' + k]
      <3>1. made' = 0
        BY <1>4
      <3>2. Len(calls') + 0 = Len(calls') /\ \A k \in 1 .. Len(calls') : 0 + k = k
        BY <2>3
      <3>3. QED
        BY <2>3, <3>1, <3>2
    <2>5. refused' = IF tests'[1] # 3 THEN made'
                     ELSE IF made' < DescriptorCount - 1 THEN 0 ELSE 1
      BY <1>1, <1>4
    <2>6. QED
      BY <1>4, <1>5, <2>1, <2>3, <2>4, <2>5 DEF ErrInv
  <1>8. QED
    BY <1>4, <1>6, <1>7

LEMMA ErrorsStepKeeps == ErrInv /\ [ErrorsNext]_errorVars => ErrInv'
  <1> SUFFICES ASSUME ErrInv, [ErrorsNext]_errorVars PROVE ErrInv'
    OBVIOUS
  <1>1. CASE UNCHANGED errorVars
    BY <1>1 DEF errorVars, ErrInv, After_lots
  <1>2. QED
    BY <1>1, ErrorsCallKeeps, ErrorsEndKeeps DEF ErrorsNext

\* Between two tests, and before and behind all, only the standard descriptors
\* are open.
LEMMA ErrorsLeaveNone == ErrInv => ErrorTestsPass
  <1> SUFFICES ASSUME ErrInv PROVE ErrorTestsPass
    OBVIOUS
  <1>0. DescriptorCount \in Nat \ {0, 1}
    BY SystemErrorsAssumption
  <1>1. ASSUME calls = <<>> PROVE opened = After_lots(0)
    <2>1. CASE tests = <<>>
      BY <2>1 DEF ErrInv
    <2>2. CASE tests # <<>>
      BY <1>1, <2>2, LotsClosed DEF ErrInv
    <2>3. QED
      BY <2>1, <2>2
  <1>2. \A fd \in Descriptors : After_lots(0)[fd] = "error" <=> fd >= 2
    BY <1>0 DEF After_lots, Descriptors
  <1>3. QED
    BY <1>1, <1>2 DEF ErrInv, ErrorTestsPass

\* Whatever is chosen at the menu, every test of the error returns passes and
\* leaves no descriptor behind.
THEOREM ErrorTestsAlwaysPass == ErrorsSpec => []ErrorTestsPass
  <1>1. QED
    BY ErrorsInitHolds, ErrorsStepKeeps, ErrorsLeaveNone, PTL DEF ErrorsSpec

=============================================================================
