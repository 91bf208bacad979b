---------------------------- MODULE PagingProofs ----------------------------
(***************************************************************************)
(* Proofs about Paging for every number of terminals and slots, every task *)
(* limit and every size of the tables: programs keep to their memory, and  *)
(* the tables hold what Multitasking says is mapped.                       *)
(***************************************************************************)
EXTENDS Paging, MultitaskingProofs

\* The directory and the user's video table with program p mapped at 128MB and
\* v at 132MB.
DirectoryOf(p, v) ==
  [d \in Directory |->
     CASE d = 0           -> Table("page_tab", FALSE)
       [] d = KERNEL      -> Big(KERNEL, FALSE)
       [] d = PROGRAM_DIR -> IF p = None THEN Absent ELSE Big(2 + Number(p), TRUE)
       [] d = VIDMAP_DIR  -> IF v = NoVideo THEN Absent
                             ELSE Table("page_video_tab", TRUE)
       [] OTHER           -> Absent]

VideoTableOf(v) ==
  [i \in Entries |-> IF i = 0 /\ v # NoVideo THEN Small(ScreenPage(v), TRUE)
                     ELSE Absent]

\* The tables are what Multitasking's page and video say.
TablesFollow ==
  /\ page_dir = DirectoryOf(page, video)
  /\ page_video_tab = VideoTableOf(video)

\* The inductive invariant of the paged system.
PInv ==
  /\ AInv
  /\ TablesFollow
  /\ loaded = [r \in Regions |-> loaded[r]]
  /\ ProgramsIntact

-----------------------------------------------------------------------------
(* The numbers of processes *)

\* The processes of a terminal have numbers below those of the next ones'.
LEMMA TerminalsApartBy ==
  ASSUME NEW M \in Nat \ {0}, NEW a \in Nat, NEW b \in Nat, a < b
  PROVE  a * M + M <= b * M
<1> DEFINE k == b - a - 1
<1>1. k \in Nat /\ b = a + 1 + k
  OBVIOUS
<1>2. k * M >= 0
  BY <1>1
<1>3. b * M = a * M + M + k * M
  BY <1>1
<1>4. a * M \in Nat /\ k * M \in Nat
  BY <1>1
<1> HIDE DEF k
<1>5. QED
  BY <1>2, <1>3, <1>4

\* A process has a number of its own, and its memory is no other's and not the
\* kernel's.
LEMMA NumberOfItsOwn ==
  ASSUME NEW p \in Pids
  PROVE  /\ Number(p) \in Nat
         /\ 2 + Number(p) \in Regions \ {KERNEL}
         /\ \A q \in Pids : 2 + Number(q) = 2 + Number(p) => q = p
<1>1. ASSUME NEW q \in Pids
      PROVE  /\ q = <<q[1], q[2]>> /\ q[1] \in Nat /\ q[2] \in Nat
             /\ q[2] < MAX_PCB_MASK_LEN
             /\ q[1] * MAX_PCB_MASK_LEN \in Nat
             /\ Number(q) = q[1] * MAX_PCB_MASK_LEN + q[2]
             /\ Number(q) \in Nat
  BY SizesAssumption DEF Pids, Terms, Slots, Number
<1>2. ASSUME NEW q \in Pids, Number(q) = Number(p)
      PROVE  q = p
  <2>1. MAX_PCB_MASK_LEN \in Nat \ {0}
    BY SizesAssumption
  <2>2. ~(q[1] < p[1])
    <3>1. SUFFICES ASSUME q[1] < p[1] PROVE FALSE
      OBVIOUS
    <3>2. q[1] * MAX_PCB_MASK_LEN + MAX_PCB_MASK_LEN <= p[1] * MAX_PCB_MASK_LEN
      BY <1>1, <2>1, <3>1, TerminalsApartBy
    <3>3. QED
      BY <1>1, <1>2, <2>1, <3>2
  <2>3. ~(p[1] < q[1])
    <3>1. SUFFICES ASSUME p[1] < q[1] PROVE FALSE
      OBVIOUS
    <3>2. p[1] * MAX_PCB_MASK_LEN + MAX_PCB_MASK_LEN <= q[1] * MAX_PCB_MASK_LEN
      BY <1>1, <2>1, <3>1, TerminalsApartBy
    <3>3. QED
      BY <1>1, <1>2, <2>1, <3>2
  <2>4. q[1] = p[1]
    BY <1>1, <2>2, <2>3
  <2>5. q[2] = p[2]
    BY <1>1, <1>2, <2>4
  <2>6. QED
    BY <1>1, <2>4, <2>5
<1>3. 2 + Number(p) \in Regions /\ 2 + Number(p) # KERNEL
  BY <1>1 DEF Regions, KERNEL
<1>4. QED
  BY <1>1, <1>2, <1>3

-----------------------------------------------------------------------------
(* What the mappings do *)

\* The entries one by one.
LEMMA DirectoryEntries ==
  ASSUME NEW p, NEW v
  PROVE  /\ DirectoryOf(p, v)[0] = Table("page_tab", FALSE)
         /\ DirectoryOf(p, v)[KERNEL] = Big(KERNEL, FALSE)
         /\ DirectoryOf(p, v)[PROGRAM_DIR] =
              IF p = None THEN Absent ELSE Big(2 + Number(p), TRUE)
         /\ DirectoryOf(p, v)[VIDMAP_DIR] =
              IF v = NoVideo THEN Absent ELSE Table("page_video_tab", TRUE)
         /\ \A d \in Directory \ {0, KERNEL, PROGRAM_DIR, VIDMAP_DIR} :
              DirectoryOf(p, v)[d] = Absent
<1> DEFINE P == IF p = None THEN Absent ELSE Big(2 + Number(p), TRUE)
           V == IF v = NoVideo THEN Absent ELSE Table("page_video_tab", TRUE)
           T == Table("page_tab", FALSE)
           K == Big(KERNEL, FALSE)
           D == [d \in Directory |-> CASE d = 0           -> T
                                      [] d = KERNEL      -> K
                                      [] d = PROGRAM_DIR -> P
                                      [] d = VIDMAP_DIR  -> V
                                      [] OTHER           -> Absent]
<1>1. DirectoryOf(p, v) = D
  BY DEF DirectoryOf
<1> HIDE DEF P, V, T, K
<1>2. /\ D[0] = T /\ D[KERNEL] = K /\ D[PROGRAM_DIR] = P /\ D[VIDMAP_DIR] = V
      /\ \A d \in Directory \ {0, KERNEL, PROGRAM_DIR, VIDMAP_DIR} : D[d] = Absent
  BY DEF Directory, KERNEL, PROGRAM_DIR, VIDMAP_DIR
<1> HIDE DEF D
<1>3. QED
  BY <1>1, <1>2 DEF P, V, T, K

\* A directory after pcb_mapping for process p.
Mapped(dir, p) == [dir EXCEPT ![PROGRAM_DIR] = Big(2 + Number(p), TRUE)]

\* Writing the program's entry changes the program that is mapped.
LEMMA MapsOne ==
  ASSUME NEW dir, NEW p, NEW q \in Pids, NEW v, dir = DirectoryOf(p, v)
  PROVE  Mapped(dir, q) = DirectoryOf(q, v)
<1> DEFINE e == Big(2 + Number(q), TRUE)
           new == DirectoryOf(q, v)
<1>1. ASSUME NEW d \in Directory \ {PROGRAM_DIR}
      PROVE  new[d] = dir[d]
  <2>1. CASE d \in {0, KERNEL, VIDMAP_DIR}
    <3>1. CASE d = 0
      BY <3>1, DirectoryEntries
    <3>2. CASE d = KERNEL
      BY <3>2, DirectoryEntries
    <3>3. CASE d = VIDMAP_DIR
      <4>1. /\ DirectoryOf(p, v)[VIDMAP_DIR] =
                 IF v = NoVideo THEN Absent ELSE Table("page_video_tab", TRUE)
            /\ DirectoryOf(q, v)[VIDMAP_DIR] =
                 IF v = NoVideo THEN Absent ELSE Table("page_video_tab", TRUE)
        BY DirectoryEntries
      <4>2. QED
        BY <3>3, <4>1
    <3>4. QED
      BY <2>1, <3>1, <3>2, <3>3
  <2>2. CASE d \notin {0, KERNEL, VIDMAP_DIR}
    <3>1. d \in Directory \ {0, KERNEL, PROGRAM_DIR, VIDMAP_DIR}
      BY <1>1, <2>2
    <3>2. DirectoryOf(q, v)[d] = Absent /\ DirectoryOf(p, v)[d] = Absent
      BY <3>1, DirectoryEntries
    <3>3. QED
      BY <3>2
  <2>3. QED
    BY <2>1, <2>2
<1>2. new[PROGRAM_DIR] = e
  BY NoneIsNobody, DirectoryEntries
<1>3. new = [d \in Directory |-> new[d]] /\ dir = [d \in Directory |-> dir[d]]
  BY DEF DirectoryOf
<1> HIDE DEF e, new
<1>4. [dir EXCEPT ![PROGRAM_DIR] = e] = new
  BY <1>1, <1>2, <1>3
<1>5. QED
  BY <1>4 DEF e, new, Mapped

\* pcb_mapping maps the program of process p.
LEMMA MapsProgram ==
  ASSUME TablesFollow, NEW p \in Pids, page' = p, video' = video,
         pcb_mapping(Number(p)), page_video_tab' = page_video_tab
  PROVE  TablesFollow' /\ page_dir'[PROGRAM_DIR].to[1] = 2 + Number(p)
<1>1. p # None /\ PROGRAM_DIR \in Directory
  BY NoneIsNobody DEF PROGRAM_DIR, Directory, VIDMAP_DIR
<1>2. page_dir' = [page_dir EXCEPT ![PROGRAM_DIR] = Big(2 + Number(p), TRUE)]
  BY DEF pcb_mapping
<1>3. page_dir = DirectoryOf(page, video)
  BY DEF TablesFollow
<1>4. page_dir' = DirectoryOf(p, video)
  <2>1. Mapped(page_dir, p) = DirectoryOf(p, video)
    BY <1>3, MapsOne
  <2>2. QED
    BY <1>2, <2>1 DEF Mapped
<1>5. page_dir'[PROGRAM_DIR] = Big(2 + Number(p), TRUE)
  BY <1>1, <1>2, <1>3 DEF DirectoryOf
<1>6. page_dir'[PROGRAM_DIR].to[1] = 2 + Number(p)
  BY <1>5 DEF Big
<1>7. QED
  BY <1>4, <1>6 DEF TablesFollow

\* So does mapping it and 132MB together.
LEMMA MapsVideo ==
  ASSUME TablesFollow, NEW dir, NEW p, page' = p,
         dir = DirectoryOf(p, video),
         video' # NoVideo,
         video_mapping(dir, ScreenPage(video'))
  PROVE  TablesFollow'
<1>1. page_dir' = [dir EXCEPT ![VIDMAP_DIR] = Table("page_video_tab", TRUE)]
  BY DEF video_mapping
<1>2. page_dir' = DirectoryOf(p, video')
  <2>1. \A d \in Directory \ {VIDMAP_DIR} :
          DirectoryOf(p, video')[d] = DirectoryOf(p, video)[d]
    BY DEF DirectoryOf, PROGRAM_DIR, KERNEL, VIDMAP_DIR
  <2>2. DirectoryOf(p, video')[VIDMAP_DIR] = Table("page_video_tab", TRUE)
    BY DEF DirectoryOf, PROGRAM_DIR, KERNEL, VIDMAP_DIR, Directory
  <2>3. /\ DirectoryOf(p, video) = [d \in Directory |-> DirectoryOf(p, video)[d]]
        /\ DirectoryOf(p, video') = [d \in Directory |-> DirectoryOf(p, video')[d]]
    BY DEF DirectoryOf
  <2>4. QED
    BY <1>1, <2>1, <2>2, <2>3
<1>3. page_video_tab' = [page_video_tab EXCEPT ![0] = Small(ScreenPage(video'), TRUE)]
  BY DEF video_mapping
<1>4. page_video_tab = VideoTableOf(video)
  BY DEF TablesFollow
<1>5. page_video_tab' = VideoTableOf(video')
  BY <1>3, <1>4 DEF VideoTableOf, Entries
<1>6. QED
  BY <1>2, <1>5 DEF TablesFollow

\* The terminals and the screen are something to see.
LEMMA SomethingToSee ==
  /\ Screen # NoVideo
  /\ \A t \in Terms : t # NoVideo
BY SizesAssumption DEF Screen, NoVideo, Terms

-----------------------------------------------------------------------------
(* The steps *)

\* A program that starts is loaded where it is mapped, over no other.
LEMMA StartKeeps ==
  ASSUME PInv, AInv', NEW p \in Pids, page' = p, video' = video,
         PCB_mask \subseteq Pids, PCB_mask' \subseteq PCB_mask \cup {p},
         MapAndLoad(p)
  PROVE  PInv'
<1>1. TablesFollow' /\ page_dir'[PROGRAM_DIR].to[1] = 2 + Number(p)
  BY MapsProgram DEF PInv, MapAndLoad
<1>2. loaded' = [loaded EXCEPT ![2 + Number(p)] = p]
  BY <1>1 DEF MapAndLoad, Load
<1>3. loaded = [r \in Regions |-> loaded[r]] /\ ProgramsIntact
  BY DEF PInv
<1>4. 2 + Number(p) \in Regions \ {KERNEL} /\ KERNEL \in Regions
  BY NumberOfItsOwn DEF Regions
<1>5. loaded' = [r \in Regions |-> loaded'[r]]
  BY <1>2, <1>3
<1>6. loaded'[KERNEL] = Boot
  BY <1>2, <1>3, <1>4 DEF ProgramsIntact
<1>7. ASSUME NEW q \in PCB_mask'
      PROVE  loaded'[2 + Number(q)] = q
  <2>1. CASE q = p
    BY <1>2, <1>3, <1>4, <2>1
  <2>2. CASE q # p
    <3>1. q \in PCB_mask /\ q \in Pids
      BY <1>7, <2>2
    <3>2. 2 + Number(q) # 2 + Number(p) /\ 2 + Number(q) \in Regions
      BY <2>2, <3>1, NumberOfItsOwn
    <3>3. loaded[2 + Number(q)] = q
      BY <1>3, <3>1 DEF ProgramsIntact
    <3>4. QED
      BY <1>2, <1>3, <3>2, <3>3
  <2>3. QED
    BY <2>1, <2>2
<1>8. QED
  BY <1>1, <1>5, <1>6, <1>7 DEF PInv, ProgramsIntact

\* A step that loads nothing and starts nothing.
LEMMA NothingLoaded ==
  ASSUME PInv, AInv', TablesFollow', loaded' = loaded, PCB_mask' = PCB_mask
  PROVE  PInv'
BY DEF PInv, ProgramsIntact

\* A tick maps what it goes on with.
LEMMA TickMapsKeeps ==
  ASSUME PInv, AInv', Tick, TickMaps
  PROVE  PInv'
<1>1. PICK n \in Terms : Launches(n) \/ Resumes(n)
  BY TickDoes DEF PInv
<1>2. PCB_mask \subseteq Pids /\ StackDiscipline /\ cur_pcb_id \in [Terms -> Slots \cup {-1}]
  BY DEF PInv, AInv, IInv, TypeOK
<1>3. CASE Launches(n)
  <2>1. <<n, 0>> \in Pids /\ <<n, 0>> \notin PCB_mask
    BY <1>2, <1>3, SizesAssumption DEF Launches, StackDiscipline, Pids, Slots
  <2>2. PCB_mask' # PCB_mask /\ cur_pcb_id'[n] = 0
    BY <1>2, <1>3, <2>1 DEF Launches
  <2>3. MapAndLoad(<<n, 0>>)
    BY <1>3, <2>2 DEF Launches, TickMaps, StartMaps
  <2>4. QED
    BY <1>2, <1>3, <2>1, <2>3, StartKeeps DEF Launches
<1>4. CASE Resumes(n)
  <2> DEFINE p == <<n, cur_pcb_id[n]>>
             v == IF cur_term_id # n THEN n ELSE Screen
             dir == [page_dir EXCEPT ![PROGRAM_DIR] =
                       Big(2 + cur_pcb_id[n] + n * MAX_PCB_MASK_LEN, TRUE)]
  <2>1. page' = p /\ video' = v /\ PCB_mask' = PCB_mask
    BY <1>4 DEF Resumes, VideoFor
  <2>2. video_mapping(dir, ScreenPage(v)) /\ loaded' = loaded
    BY <1>4 DEF Resumes, TickMaps
  <2>3. p \in Pids /\ p # None
    BY <1>2, <1>4, NoneIsNobody DEF Resumes, Pids
  <2>4. 2 + cur_pcb_id[n] + n * MAX_PCB_MASK_LEN = 2 + Number(p)
    BY <2>3, SizesAssumption DEF Number, Pids, Terms, Slots
  <2>5. dir = DirectoryOf(p, video)
    <3>1. page_dir = DirectoryOf(page, video)
      BY DEF PInv, TablesFollow
    <3>2. dir = [page_dir EXCEPT ![PROGRAM_DIR] = Big(2 + Number(p), TRUE)]
      BY <2>4
    <3> HIDE DEF dir
    <3>3. Mapped(page_dir, p) = DirectoryOf(p, video)
      BY <2>3, <3>1, MapsOne
    <3>4. QED
      BY <3>2, <3>3 DEF Mapped
  <2>6. video' # NoVideo
    BY <2>1, SomethingToSee
  <2> HIDE DEF dir
  <2>7. TablesFollow'
    BY <2>1, <2>2, <2>5, <2>6, MapsVideo DEF PInv
  <2>8. QED
    BY <2>1, <2>2, <2>7, NothingLoaded
<1>5. QED
  BY <1>1, <1>3, <1>4

\* execute loads the program it starts, or finds no slot.
LEMMA ExecuteMapsKeeps ==
  ASSUME PInv, AInv', Booted, OnScreen, Execute, StartMaps(cur_term_id)
  PROVE  PInv'
<1>1. PCB_mask \subseteq Pids /\ StackDiscipline /\ cur_pcb_id \in [Terms -> Slots \cup {-1}]
  BY DEF PInv, AInv, IInv, TypeOK
<1>2. Pushes \/ Idles
  BY ExecuteDoes DEF PInv
<1>3. video' = video /\ cpu # Boot
  BY DEF Execute
<1> DEFINE t == now_term_id
           p == <<t, cur_pcb_id[t] + 1>>
<1>4. t \in Terms /\ cur_term_id = t /\ cur_pcb_id[t] \in Slots
  BY <1>3, RunningProcess DEF PInv, OnScreen
<1>5. CASE Pushes
  <2>1. p \in Pids /\ p \notin PCB_mask
    BY <1>1, <1>4, <1>5 DEF Pushes, StackDiscipline, Pids, Slots
  <2>2. PCB_mask' = PCB_mask \cup {p} /\ page' = p /\ cur_pcb_id'[t] = cur_pcb_id[t] + 1
    BY <1>1, <1>4, <1>5 DEF Pushes
  <2>3. MapAndLoad(p)
    BY <1>4, <2>1, <2>2 DEF StartMaps
  <2>4. QED
    BY <1>1, <1>3, <2>1, <2>2, <2>3, StartKeeps
<1>6. CASE Idles
  <2>1. PCB_mask' = PCB_mask /\ page' = page
    BY <1>6 DEF Idles, cpuVars
  <2>2. UNCHANGED <<page_dir, page_video_tab, loaded>>
    <3>1. CASE PCB_mask' # PCB_mask
      BY <2>1, <3>1
    <3>2. CASE UNCHANGED <<tables, loaded>>
      BY <3>2 DEF tables
    <3>3. QED
      BY <3>1, <3>2 DEF StartMaps
  <2>3. TablesFollow'
    BY <1>3, <2>1, <2>2 DEF PInv, TablesFollow
  <2>4. QED
    BY <2>1, <2>2, <2>3, NothingLoaded
<1>7. QED
  BY <1>2, <1>5, <1>6

\* halt maps the parent, whose program is where it was, or loads the shell anew.
LEMMA HaltMapsKeeps ==
  ASSUME PInv, AInv', Booted, CanEnd, halt, HaltMaps
  PROVE  PInv'
<1> DEFINE t == now_term_id
           s == cur_pcb_id[t]
           p == <<t, s>>
<1>1. PCB_mask \subseteq Pids /\ StackDiscipline
  BY DEF PInv, AInv, IInv, TypeOK
<1>2. Pops \/ Restarts
  BY HaltDoes DEF PInv
<1>3. t \in Terms /\ s \in Slots /\ Current(t) = p /\ p \in Pids
  BY <1>2, RunningProcess DEF PInv, Pops, Restarts
<1>4. CASE Pops
  <2> DEFINE q == <<t, s - 1>>
  <2>1. ParentOf(p) = q /\ q # None /\ q \in Pids
    <3>1. s - 1 \in Slots /\ s # 0
      <4>1. s > 0
        BY <1>4 DEF Pops
      <4>2. s \in 0 .. MAX_PCB_MASK_LEN - 1 /\ MAX_PCB_MASK_LEN \in Nat
        BY <1>3, SizesAssumption DEF Slots
      <4> HIDE DEF s
      <4>3. QED
        BY <4>1, <4>2 DEF Slots
    <3>2. q # None /\ q \in Pids
      BY <1>3, <3>1, NoneIsNobody DEF Pids
    <3>3. QED
      BY <3>1, <3>2 DEF ParentOf
  <2>2. page' = q /\ video' = video /\ PCB_mask' = PCB_mask \ {p}
    BY <1>4 DEF Pops
  <2>3. /\ pcb_mapping(Number(q))
        /\ loaded' = [loaded EXCEPT ![2 + Number(p)] = None]
        /\ page_video_tab' = page_video_tab
    BY <1>3, <2>1 DEF HaltMaps
  <2>4. TablesFollow'
    BY <2>1, <2>2, <2>3, MapsProgram DEF PInv
  <2>5. loaded = [r \in Regions |-> loaded[r]] /\ ProgramsIntact
    BY DEF PInv
  <2>6. loaded' = [r \in Regions |-> loaded'[r]]
    BY <2>3, <2>5
  <2>7. loaded'[KERNEL] = Boot
    <3>1. 2 + Number(p) # KERNEL /\ KERNEL \in Regions
      BY <1>3, NumberOfItsOwn DEF Regions
    <3>2. QED
      BY <2>3, <2>5, <3>1 DEF ProgramsIntact
  <2>8. ASSUME NEW x \in PCB_mask'
        PROVE  loaded'[2 + Number(x)] = x
    <3>1. x \in PCB_mask /\ x # p /\ x \in Pids
      BY <1>1, <2>2, <2>8
    <3>2. 2 + Number(x) # 2 + Number(p) /\ 2 + Number(x) \in Regions
      BY <1>3, <3>1, NumberOfItsOwn
    <3>3. loaded[2 + Number(x)] = x
      BY <2>5, <3>1 DEF ProgramsIntact
    <3>4. QED
      BY <2>3, <2>5, <3>2, <3>3
  <2>9. QED
    BY <2>4, <2>6, <2>7, <2>8 DEF PInv, ProgramsIntact
<1>5. CASE Restarts
  <2>1. s = 0 /\ PCB_mask' = PCB_mask /\ page' = p /\ video' = video /\ cur_pcb_id' = cur_pcb_id
    BY <1>5 DEF Restarts
  <2>2. ParentOf(p) = None
    BY <2>1 DEF ParentOf
  <2>3. cur_term_id = t
    BY <1>3, <2>2 DEF CanEnd, OnScreen
  <2>4. MapAndLoad(p)
    BY <1>3, <2>1, <2>2, <2>3 DEF HaltMaps
  <2>5. QED
    BY <1>1, <1>3, <2>1, <2>4, StartKeeps
<1>6. QED
  BY <1>2, <1>4, <1>5

\* vidmap shows the screen.
LEMMA VidmapKeeps ==
  ASSUME PInv, AInv', Vidmap, syscall_video_mapping(VIDEO_PAGE), loaded' = loaded
  PROVE  PInv'
<1>1. video' = Screen /\ page' = page /\ PCB_mask' = PCB_mask
  BY DEF Vidmap, cpuVars
<1>2. ScreenPage(Screen) = VIDEO_PAGE
  BY SizesAssumption DEF ScreenPage, Screen, Terms
<1>3. page_dir = DirectoryOf(page, video)
  BY DEF PInv, TablesFollow
<1>4. TablesFollow'
  BY <1>1, <1>2, <1>3, SomethingToSee, MapsVideo DEF PInv, syscall_video_mapping
<1>5. QED
  BY <1>1, <1>4, NothingLoaded

\* A step of the paged system is one of the attended system.
LEMMA PagedIsAttended == [PagedNext]_pagingVars => [AttendedNext]_vars
BY DEF PagedNext, AttendedNext, pagingVars

\* No step breaks the invariant.
LEMMA PagedKeeps ==
  ASSUME PInv, [PagedNext]_pagingVars
  PROVE  PInv'
<1>1. AInv'
  BY PagedIsAttended, AttendedKeeps DEF PInv
<1>2. CASE Tick /\ TickMaps
  BY <1>1, <1>2, TickMapsKeeps
<1>3. CASE Booted /\ OnScreen /\ Execute /\ StartMaps(cur_term_id)
  BY <1>1, <1>3, ExecuteMapsKeeps
<1>4. CASE Booted /\ CanEnd /\ Halt /\ HaltMaps
  BY <1>1, <1>4, HaltMapsKeeps DEF Halt
<1>5. CASE Booted /\ CanEnd /\ CtrlC /\ HaltMaps
  BY <1>1, <1>5, HaltMapsKeeps DEF CtrlC
<1>6. CASE Booted /\ Vidmap /\ syscall_video_mapping(VIDEO_PAGE) /\ UNCHANGED loaded
  BY <1>1, <1>6, VidmapKeeps
<1>7. ASSUME NEW n \in Terms, Booted, AltF(n), UNCHANGED <<tables, loaded>>
      PROVE  PInv'
  BY <1>1, <1>7 DEF AltF, cpuVars, tables, PInv, TablesFollow, ProgramsIntact
<1>8. CASE UNCHANGED pagingVars
  BY <1>1, <1>8 DEF pagingVars, vars, tables, PInv, TablesFollow, ProgramsIntact
<1>9. QED
  BY <1>2, <1>3, <1>4, <1>5, <1>6, <1>7, <1>8 DEF PagedNext

\* The state paging_init and term_init leave.
LEMMA PagedInitHolds == PagedInit => PInv
<1> SUFFICES ASSUME PagedInit PROVE PInv
  OBVIOUS
<1>1. AInv /\ page = None /\ video = NoVideo /\ PCB_mask = {}
  BY AttendedInit DEF PagedInit, Init
<1>2. page_dir = DirectoryOf(None, NoVideo) /\ page_video_tab = VideoTableOf(NoVideo)
  BY DEF PagedInit, paging_init, DirectoryOf, VideoTableOf, KERNEL, PROGRAM_DIR, VIDMAP_DIR
<1>3. loaded = [r \in Regions |-> IF r = KERNEL THEN Boot ELSE None]
  BY DEF PagedInit
<1>4. loaded = [r \in Regions |-> loaded[r]] /\ loaded[KERNEL] = Boot
  BY <1>3 DEF Regions
<1>5. QED
  BY <1>1, <1>2, <1>4 DEF PInv, TablesFollow, ProgramsIntact

-----------------------------------------------------------------------------
(* The theorems *)

\* The invariant holds of every behaviour.
THEOREM PagedInvariance == PagedSpec => []PInv
<1>1. PInv /\ [PagedNext]_pagingVars => PInv'
  BY PagedKeeps
<1>2. QED
  BY <1>1, PagedInitHolds, PTL DEF PagedSpec

\* With its tables the system is the attended one: what is proved of that holds.
THEOREM TablesHidden == PagedSpec => AttendedSpec
<1>1. PagedInit => Init
  BY DEF PagedInit
<1>2. QED
  BY <1>1, PagedIsAttended, PTL DEF PagedSpec, AttendedSpec

\* What the processor finds behind each entry of the directory.
LEMMA WalkFinds ==
  ASSUME TablesFollow, NEW i \in Entries
  PROVE  /\ Walk(0, i) = [page_tab[i] EXCEPT !.user = @ /\ FALSE]
         /\ Walk(KERNEL, i) = [Big(KERNEL, FALSE) EXCEPT !.to = <<KERNEL, i>>]
         /\ Walk(PROGRAM_DIR, i) =
              IF page = None THEN Absent
              ELSE [Big(2 + Number(page), TRUE) EXCEPT !.to = <<2 + Number(page), i>>]
         /\ Walk(VIDMAP_DIR, i) =
              IF video = NoVideo THEN Absent
              ELSE [VideoTableOf(video)[i] EXCEPT !.user = @ /\ TRUE]
         /\ \A d \in Directory \ {0, KERNEL, PROGRAM_DIR, VIDMAP_DIR} :
              Walk(d, i) = Absent
<1>1. page_dir = DirectoryOf(page, video) /\ page_video_tab = VideoTableOf(video)
  BY DEF TablesFollow
<1>2. /\ page_dir[0] = Table("page_tab", FALSE)
      /\ page_dir[KERNEL] = Big(KERNEL, FALSE)
      /\ page_dir[PROGRAM_DIR] =
           IF page = None THEN Absent ELSE Big(2 + Number(page), TRUE)
      /\ page_dir[VIDMAP_DIR] =
           IF video = NoVideo THEN Absent ELSE Table("page_video_tab", TRUE)
      /\ \A d \in Directory \ {0, KERNEL, PROGRAM_DIR, VIDMAP_DIR} :
           page_dir[d] = Absent
  BY <1>1, DirectoryEntries
<1>3. Walk(0, i) = [page_tab[i] EXCEPT !.user = @ /\ FALSE]
  BY <1>2 DEF Walk, Table
<1>4. Walk(KERNEL, i) = [Big(KERNEL, FALSE) EXCEPT !.to = <<KERNEL, i>>]
  BY <1>2 DEF Walk, Big
<1>5. Walk(PROGRAM_DIR, i) =
        IF page = None THEN Absent
        ELSE [Big(2 + Number(page), TRUE) EXCEPT !.to = <<2 + Number(page), i>>]
  <2>1. CASE page = None
    BY <1>2, <2>1 DEF Walk, Absent
  <2>2. CASE page # None
    <3>1. page_dir[PROGRAM_DIR] = Big(2 + Number(page), TRUE)
      BY <1>2, <2>2
    <3>2. /\ page_dir[PROGRAM_DIR].present /\ page_dir[PROGRAM_DIR].big
          /\ page_dir[PROGRAM_DIR].to[1] = 2 + Number(page)
      BY <3>1 DEF Big
    <3>3. Walk(PROGRAM_DIR, i) =
            [page_dir[PROGRAM_DIR] EXCEPT !.to = <<2 + Number(page), i>>]
      BY <3>2 DEF Walk
    <3>4. QED
      BY <2>2, <3>1, <3>3
  <2>3. QED
    BY <2>1, <2>2
<1>6. Walk(VIDMAP_DIR, i) =
        IF video = NoVideo THEN Absent
        ELSE [VideoTableOf(video)[i] EXCEPT !.user = @ /\ TRUE]
  BY <1>1, <1>2 DEF Walk, Table, Absent
<1>7. \A d \in Directory \ {0, KERNEL, PROGRAM_DIR, VIDMAP_DIR} : Walk(d, i) = Absent
  BY <1>2 DEF Walk, Absent
<1>8. QED
  BY <1>3, <1>4, <1>5, <1>6, <1>7

\* The pages of video memory are entries of their table.
LEMMA ScreenPages ==
  ASSUME NEW t \in Terms \cup {Screen}
  PROVE  /\ ScreenPage(t) \in Entries
         /\ page_tab[ScreenPage(t)] = Small(ScreenPage(t), FALSE)
         /\ 0 \in Entries
<1>1. ScreenPage(t) \in Entries /\ 0 \in Entries
  BY SizesAssumption, PagingAssumption DEF ScreenPage, Entries, Terms, Screen
<1>2. QED
  BY <1>1 DEF page_tab

\* A user's entry leads to the program's memory or to its video page.
LEMMA UserPages ==
  ASSUME PInv, cpu # Boot, NEW d \in Directory, NEW i \in Entries,
         Walk(d, i).present, Walk(d, i).user
  PROVE  \/ d = PROGRAM_DIR /\ Walk(d, i).to = <<2 + Number(cpu), i>>
         \/ /\ <<d, i>> = <<VIDMAP_DIR, 0>>
            /\ Walk(d, i).to \in {<<0, VIDEO_PAGE>>, <<0, ScreenPage(now_term_id)>>}
<1>1. TablesFollow /\ OwnPage /\ video \in Terms \cup {Screen, NoVideo}
  BY DEF PInv, AInv, IInv, TypeOK
<1>2. page = cpu /\ page # None
  BY RunningProcess, NoneIsNobody DEF PInv
<1>3. d # 0
  <2>1. SUFFICES ASSUME d = 0 PROVE FALSE
    OBVIOUS
  <2>2. Walk(0, i) = [page_tab[i] EXCEPT !.user = @ /\ FALSE]
    BY <1>1, WalkFinds
  <2>3. page_tab[i] \in {Small(i, FALSE), Absent}
    BY DEF page_tab
  <2>4. ~Walk(0, i).user
    BY <2>2, <2>3 DEF Small, Absent
  <2>5. QED
    BY <2>1, <2>4
<1>4. d # KERNEL
  BY <1>1, WalkFinds DEF Big
<1>5. CASE d = PROGRAM_DIR
  BY <1>1, <1>2, <1>5, WalkFinds DEF Big
<1>6. CASE d = VIDMAP_DIR
  <2>1. Walk(d, i) = IF video = NoVideo THEN Absent
                     ELSE [VideoTableOf(video)[i] EXCEPT !.user = @ /\ TRUE]
    BY <1>1, <1>6, WalkFinds
  <2>2. video # NoVideo
    BY <2>1 DEF Absent
  <2>3. i = 0
    BY <2>1, <2>2 DEF VideoTableOf, Absent
  <2>4. Walk(d, i).to = <<0, ScreenPage(video)>>
    BY <2>1, <2>2, <2>3 DEF VideoTableOf, Small
  <2>5. ScreenPage(video) \in {VIDEO_PAGE, ScreenPage(now_term_id)}
    BY <1>1, <2>2 DEF OwnPage, ScreenPage
  <2>6. QED
    BY <1>6, <2>3, <2>4, <2>5
<1>7. CASE d \notin {PROGRAM_DIR, VIDMAP_DIR}
  <2>1. Walk(d, i) = Absent
    BY <1>1, <1>3, <1>4, <1>7, WalkFinds
  <2>2. ~Absent.present
    BY DEF Absent
  <2>3. QED
    BY <2>1, <2>2
<1>8. QED
  BY <1>5, <1>6, <1>7

\* Whatever is started, ended and switched, a program reaches its own memory and
\* one page of video memory only, the kernel stays mapped, and no program is
\* loaded over another one that has not ended.
THEOREM ProgramsIsolated == PagedSpec => []MemoryIsolated
<1>1. PInv => MemoryIsolated
  <2> SUFFICES ASSUME PInv PROVE MemoryIsolated
    OBVIOUS
  <2>1. TablesFollow /\ ProgramsIntact /\ video \in Terms \cup {Screen, NoVideo}
    BY DEF PInv, AInv, IInv, TypeOK
  <2>2. 0 \in Entries
    BY ScreenPages
  <2>3. ASSUME cpu # Boot
        PROVE  OwnMemoryOnly /\ Walk(PROGRAM_DIR, 0).present
    <3>1. OwnMemoryOnly
      BY <2>3, UserPages DEF OwnMemoryOnly
    <3>2. page # None
      BY <2>3, RunningProcess, NoneIsNobody DEF PInv
    <3>3. Walk(PROGRAM_DIR, 0).present
      BY <2>1, <2>2, <3>2, WalkFinds DEF Big
    <3>4. QED
      BY <3>1, <3>3
  <2>4. KernelStays
    <3>1. \A i \in Entries : Walk(KERNEL, i).to = <<KERNEL, i>>
      BY <2>1, WalkFinds DEF Big
    <3>2. ASSUME NEW t \in Terms \cup {Screen}
          PROVE  Walk(0, ScreenPage(t)) = Small(ScreenPage(t), FALSE)
      <4> DEFINE i == ScreenPage(t)
      <4>1. i \in Entries /\ page_tab[i] = Small(i, FALSE)
        BY ScreenPages
      <4> HIDE DEF i
      <4>2. Walk(0, i) = [Small(i, FALSE) EXCEPT !.user = @ /\ FALSE]
        BY <2>1, <4>1, WalkFinds
      <4>3. Walk(0, i) = Small(i, FALSE)
        BY <4>2 DEF Small
      <4>4. QED
        BY <4>3 DEF i
    <3>3. QED
      BY <3>1, <3>2 DEF KernelStays
  <2>5. ASSUME video # NoVideo
        PROVE  Walk(VIDMAP_DIR, 0).to = <<0, ScreenPage(video)>>
    <3>1. Walk(VIDMAP_DIR, 0) = [VideoTableOf(video)[0] EXCEPT !.user = @ /\ TRUE]
      BY <2>1, <2>2, <2>5, WalkFinds
    <3>2. VideoTableOf(video)[0] = Small(ScreenPage(video), TRUE)
      BY <2>2, <2>5 DEF VideoTableOf
    <3>3. QED
      BY <3>1, <3>2 DEF Small
  <2>6. QED
    BY <2>1, <2>3, <2>4, <2>5 DEF MemoryIsolated
<1>2. QED
  BY <1>1, PagedInvariance, PTL

=============================================================================
