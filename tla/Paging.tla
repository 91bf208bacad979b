------------------------------- MODULE Paging -------------------------------
(***************************************************************************)
(* The page directory and tables (paging.c) under the attended kernel of   *)
(* Multitasking: what the processor makes of an address, and which program *)
(* lies in which 4MB of memory. Multitasking's page and video say what     *)
(* shall be mapped at 128MB and 132MB; here the tables say what is.        *)
(*                                                                         *)
(* A page is <<d, i>>: entry i of 4MB of memory, TAB_SIZE pages. Of the    *)
(* virtual pages, d is the entry of the directory; of the physical ones, a *)
(* region: 0 has the screen at VIDEO_PAGE, 1 is the kernel with all PCBs   *)
(* and kernel stacks, 2 + n is the memory of process number n.             *)
(***************************************************************************)
EXTENDS Multitasking

CONSTANTS
  TAB_SIZE,   \* entries of a page table
  VIDEO_PAGE  \* 0xB8

ASSUME PagingAssumption ==
  /\ TAB_SIZE \in Nat /\ VIDEO_PAGE \in Nat
  /\ VIDEO_PAGE + TERM_MAX < TAB_SIZE

Entries     == 0 .. TAB_SIZE - 1
PROGRAM_DIR == 32  \* 128MB
VIDMAP_DIR  == 33  \* 132MB; no entry above it is ever written
Directory   == 0 .. VIDMAP_DIR
KERNEL      == 1

\* An entry: the present, user and size bits, and the address in it: a table's
\* name, or a physical page (the first of a region). The read/write bit is set
\* in all.
Absent == [present |-> FALSE, user |-> FALSE, big |-> FALSE, to |-> <<0, 0>>]
Table(name, user) == [present |-> TRUE, user |-> user, big |-> FALSE, to |-> name]
Big(region, user) ==
  [present |-> TRUE, user |-> user, big |-> TRUE, to |-> <<region, 0>>]
Small(i, user) == [present |-> TRUE, user |-> user, big |-> FALSE, to |-> <<0, i>>]

VARIABLES
  page_dir,
  page_video_tab,
  loaded           \* region -> the process whose program was loaded there, Boot for
                   \* the kernel itself, or None

tables == <<page_dir, page_video_tab>>
pagingVars == <<vars, tables, loaded>>

Number(p) == p[1] * MAX_PCB_MASK_LEN + p[2]
Regions == {KERNEL} \cup {2 + Number(p) : p \in Pids}

\* The page of the screen, or of terminal t's screen in the background.
ScreenPage(t) == IF t \in Terms THEN VIDEO_PAGE + 1 + t ELSE VIDEO_PAGE

\* page_tab after paging_init and the three terminal_video_mapping of term_init;
\* it is not written again.
page_tab ==
  [i \in Entries |-> IF i \in {ScreenPage(t) : t \in Terms \cup {Screen}}
                     THEN Small(i, FALSE)
                     ELSE Absent]

\* paging_init; entry 0 once more by term_init. memset's 0x02020202 is absent.
paging_init ==
  /\ page_dir = [d \in Directory |->
                   CASE d = 0 -> Table("page_tab", FALSE)
                     [] d = 1 -> Big(KERNEL, FALSE)
                     [] OTHER -> Absent]
  /\ page_video_tab = [i \in Entries |-> Absent]

PagedInit ==
  /\ Init
  /\ paging_init
  /\ loaded = [r \in Regions |-> IF r = KERNEL THEN Boot ELSE None]

-----------------------------------------------------------------------------

\* What the processor makes of virtual page <<d, i>>.
Walk(d, i) ==
  LET e == page_dir[d]
      f == IF e.to = "page_tab" THEN page_tab[i] ELSE page_video_tab[i]
  IN
  IF ~e.present THEN Absent
  ELSE IF e.big THEN [e EXCEPT !.to = <<@[1], i>>]
  ELSE [f EXCEPT !.user = @ /\ e.user]

\* pcb_mapping(0x8000000, 0x800000 + number * 0x400000).
pcb_mapping(number) ==
  page_dir' = [page_dir EXCEPT ![PROGRAM_DIR] = Big(2 + number, TRUE)]

\* scheduling_video_mapping, in a directory dir that is otherwise up to date.
video_mapping(dir, i) ==
  /\ page_dir' = [dir EXCEPT ![VIDMAP_DIR] = Table("page_video_tab", TRUE)]
  /\ page_video_tab' = [page_video_tab EXCEPT ![0] = Small(i, TRUE)]

\* syscall_video_mapping does the same.
syscall_video_mapping(i) == video_mapping(page_dir, i)

LoadedBefore(p) ==                                   \* mutant
  LET r == IF page_dir[PROGRAM_DIR].present
           THEN page_dir[PROGRAM_DIR].to[1] ELSE KERNEL
  IN loaded' = [loaded EXCEPT ![r] = p]

\* The loader writes the program of p through 128MB, as it is mapped by then.
Load(p) ==
  loaded' = [loaded EXCEPT ![page_dir'[PROGRAM_DIR].to[1]] = p]

\* The tables in execute, which starts a process in terminal t if it finds a
\* slot: map, then load.
MapAndLoad(p) ==
  /\ pcb_mapping(Number(p))
  /\ Load(p)
  /\ UNCHANGED page_video_tab

StartMaps(t) ==
  \/ /\ PCB_mask' # PCB_mask
     /\ MapAndLoad(<<t, cur_pcb_id'[t]>>)
  \/ /\ PCB_mask' = PCB_mask
     /\ UNCHANGED <<tables, loaded>>

\* The tables in the timer's handler.
TickMaps ==
  LET t == NextTerm(now_term_id) IN
  \/ /\ cur_pcb_id[t] = -1
     /\ StartMaps(t)
  \/ /\ cur_pcb_id[t] # -1
     /\ video_mapping([page_dir EXCEPT ![PROGRAM_DIR] =
                         Big(2 + cur_pcb_id[t] + t * MAX_PCB_MASK_LEN, TRUE)],
                      ScreenPage(IF cur_term_id # t THEN t ELSE Screen))
     /\ UNCHANGED loaded

\* The tables in halt. The memory of a process that has ended is forgotten.
HaltMaps ==
  LET p == Current(now_term_id) IN
  \/ /\ ParentOf(p) # None
     /\ pcb_mapping(Number(ParentOf(p)))
     /\ loaded' = [loaded EXCEPT ![2 + Number(p)] = None]
     /\ UNCHANGED page_video_tab
  \/ /\ ParentOf(p) = None
     /\ MapAndLoad(<<cur_term_id, cur_pcb_id'[cur_term_id]>>)

PagedNext ==
  \/ Tick /\ TickMaps
  \/ Booted /\ OnScreen /\ Execute /\ StartMaps(cur_term_id)
  \/ Booted /\ CanEnd /\ Halt /\ HaltMaps
  \/ Booted /\ CanEnd /\ CtrlC /\ HaltMaps
  \/ Booted /\ Vidmap /\ syscall_video_mapping(VIDEO_PAGE) /\ UNCHANGED loaded
  \/ \E n \in Terms : Booted /\ AltF(n) /\ UNCHANGED <<tables, loaded>>

PagedSpec == PagedInit /\ [][PagedNext]_pagingVars

\* The PIT interrupts 100 times a second whatever the processes do.
FairPagedSpec == PagedSpec /\ WF_pagingVars(Tick /\ TickMaps)

-----------------------------------------------------------------------------

\* In user mode the running process reaches its own 4MB at 128MB and one page of
\* video memory at 132MB: the screen's, or that of its own terminal.
OwnMemoryOnly ==
  \A d \in Directory, i \in Entries :
    LET e == Walk(d, i) IN
    e.present /\ e.user =>
      \/ d = PROGRAM_DIR /\ e.to = <<2 + Number(cpu), i>>
      \/ /\ <<d, i>> = <<VIDMAP_DIR, 0>>
         /\ e.to \in {<<0, VIDEO_PAGE>>, <<0, ScreenPage(now_term_id)>>}

\* The kernel finds itself, its stacks and the four pages of video memory at
\* their physical addresses, whichever process runs.
KernelStays ==
  /\ \A i \in Entries : Walk(KERNEL, i).to = <<KERNEL, i>>
  /\ \A t \in Terms \cup {Screen} :
       Walk(0, ScreenPage(t)) = Small(ScreenPage(t), FALSE)

\* Programs are loaded over no other program that has not ended, and not over
\* the kernel: the parents' programs are in place when their children end.
ProgramsIntact ==
  /\ loaded[KERNEL] = Boot
  /\ \A p \in PCB_mask : loaded[2 + Number(p)] = p

\* The tables keep every program in memory of its own, over all starts, ends and
\* switches, and what Multitasking says is mapped is.
MemoryIsolated ==
  /\ cpu # Boot => OwnMemoryOnly /\ Walk(PROGRAM_DIR, 0).present
  /\ KernelStays
  /\ ProgramsIntact
  /\ video # NoVideo => Walk(VIDMAP_DIR, 0).to = <<0, ScreenPage(video)>>

=============================================================================
