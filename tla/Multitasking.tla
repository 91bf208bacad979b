---------------------------- MODULE Multitasking ----------------------------
(***************************************************************************)
(* Processes, terminals and the round robin of the kernel: execute and     *)
(* halt (system_call.c), pit_interrupt_handler (scheduling.c), term_launch *)
(* and term_switch (terminal.c), and the Alt+Fn and Ctrl+C keys            *)
(* (keyboard.c) as far as they move a process or a terminal.               *)
(*                                                                         *)
(* Interrupt gates clear IF, so a system call or a handler is one step; a  *)
(* tick or a key comes between two of them, also while a process spins     *)
(* with interrupts on inside term_read or rtc_read.                        *)
(*                                                                         *)
(* The process numbered t * MAX_PCB_MASK_LEN + s is the pair <<t, s>>. The *)
(* same pair names its PCB, its 8KB kernel stack (the PCB lies at the      *)
(* bottom of it) and the 4MB page its program is loaded in.                *)
(***************************************************************************)
EXTENDS Integers, FiniteSets

CONSTANTS
  TERM_MAX,          \* number of terminals
  MAX_PCB_MASK_LEN,  \* process slots of one terminal
  MAX_TASKS          \* the limit of 6 in PCB_process_number

ASSUME SizesAssumption ==
  /\ TERM_MAX \in Nat \ {0}
  /\ MAX_PCB_MASK_LEN \in Nat \ {0}
  /\ MAX_TASKS \in Nat
  /\ TERM_MAX <= MAX_TASKS

Terms == 0 .. TERM_MAX - 1
Slots == 0 .. MAX_PCB_MASK_LEN - 1
Pids  == Terms \X Slots

NoTerm  == TERM_MAX   \* cur_term_id before the first tick
Screen  == TERM_MAX   \* video = Screen: the page at 132MB shows 0xB8000
NoVideo == -1         \* video = NoVideo: nothing is mapped at 132MB

Boot == <<-2, 0>>     \* the stack entry() runs on
None == <<-3, 0>>     \* no parent; a PCB field nobody has written yet

(***************************************************************************)
(* get_pcb_from_id(s + t * MAX_PCB_MASK_LEN). For a terminal without a     *)
(* process s is -1 and the number is that of the last slot of the terminal *)
(* before; for terminal 0 it is 255, an address no process owns.           *)
(***************************************************************************)
PcbAt(t, s) == IF s = -1 THEN <<t - 1, MAX_PCB_MASK_LEN - 1>> ELSE <<t, s>>
Pcbs == Pids \cup {PcbAt(0, -1)}

ParentAlwaysBelow(p) == <<p[1], p[2] - 1>>           \* mutant
ParentIsShell(p) == IF p[2] = 0 THEN None ELSE <<p[1], 0>> \* mutant

\* pcb.parent_process_number, which only execute writes: the process one slot
\* below; the first process of a terminal has no parent.
ParentOf(p) == IF p[2] = 0 THEN None ELSE <<p[1], p[2] - 1>>

VARIABLES
  cur_term_id,   \* the terminal on the screen
  now_term_id,   \* the terminal whose process has the CPU
  cur_pcb_id,    \* term[t].cur_pcb_id: slot of t's newest process, or -1
  running,       \* term[t].running
  PCB_mask,      \* the process numbers whose PCB_mask entry is 1
  ctx,           \* pcb.ksp, pcb.kbp: the stack the saved frame lies on
  caller,        \* pcb.parent_ksp, pcb.parent_kbp: likewise, for halt
  page,          \* the program page mapped at 128MB
  esp0,          \* the kernel stack of the next trap (tss.esp0)
  video,         \* what the page at 132MB shows
  cpu,           \* whose stack and registers the CPU is really using
  derailed       \* the kernel has taken memory for a process's state that is not;
                 \* what follows is not modelled

vars == <<cur_term_id, now_term_id, cur_pcb_id, running, PCB_mask, ctx,
          caller, page, esp0, video, cpu, derailed>>

cpuVars == <<page, esp0, cpu>>

Init ==
  /\ cur_term_id = NoTerm
  /\ now_term_id = 0
  /\ cur_pcb_id = [t \in Terms |-> -1]
  /\ running = [t \in Terms |-> FALSE]
  /\ PCB_mask = {}
  /\ ctx = [p \in Pcbs |-> None]
  /\ caller = [p \in Pids |-> None]
  /\ page = None
  /\ esp0 = Boot
  /\ video = NoVideo
  /\ cpu = Boot
  /\ derailed = FALSE

\* The PCB the kernel takes for that of terminal t's process.
Current(t) == PcbAt(t, cur_pcb_id[t])

-----------------------------------------------------------------------------
(* execute *)

AnyFree(mask, c, i) == <<c, i>> \notin mask          \* mutant

\* The loop of PCB_process_number stops at slot i of terminal c.
FirstFree(mask, c, i) ==
  /\ <<c, i>> \notin mask
  /\ \A j \in 0 .. i - 1 : <<c, j>> \in mask

HasSlotCountedBefore(mask, c) ==                     \* mutant
  /\ \E i \in Slots : FirstFree(mask, c, i)
  /\ Cardinality(mask) <= MAX_TASKS

\* PCB_process_number finds a slot: the first free one of terminal c, unless
\* the new process would exceed the limit.
HasSlot(mask, c) ==
  /\ \E i \in Slots : FirstFree(mask, c, i)
  /\ Cardinality(mask) + 1 <= MAX_TASKS

(***************************************************************************)
(* The part of execute after a slot was found: map and load the program,   *)
(* fill the PCB, jump to user mode. The terminal is always the displayed   *)
(* one, c, whoever calls. mask and ids are PCB_mask and cur_pcb_id at the  *)
(* time of the call. What the PCBs of ended processes still hold is        *)
(* forgotten: execute writes them before anything reads them.              *)
(***************************************************************************)
StartProgram(mask, ids, c) ==
  \E i \in Slots :
    LET p == <<c, i>> IN
    /\ FirstFree(mask, c, i)
    /\ PCB_mask' = mask \cup {p}
    /\ cur_pcb_id' = [ids EXCEPT ![c] = i]
    /\ caller' = [q \in Pids |-> IF q = p THEN cpu
                                ELSE IF q \in mask THEN caller[q] ELSE None]
    /\ page' = p
    /\ esp0' = p
    /\ cpu' = p

\* execute of a program that exists: it starts, or "There are no available
\* space in the PCB" is printed and the caller goes on.
execute(c) ==
  \/ /\ HasSlot(PCB_mask, c)
     /\ StartProgram(PCB_mask, cur_pcb_id, c)
  \/ /\ ~HasSlot(PCB_mask, c)
     /\ UNCHANGED <<PCB_mask, cur_pcb_id, caller, cpuVars>>

-----------------------------------------------------------------------------
(* The timer *)

\* term_launch(id), for a terminal without a process.
term_launch(id) ==
  /\ \/ /\ id = cur_term_id
        /\ UNCHANGED <<cur_term_id, running, PCB_mask, cur_pcb_id, caller, cpuVars>>
     \/ /\ id # cur_term_id
        /\ running[id]
        /\ cur_term_id' = id
        /\ UNCHANGED <<running, PCB_mask, cur_pcb_id, caller, cpuVars>>
     \/ /\ id # cur_term_id
        /\ ~running[id]
        /\ cur_term_id' = id
        /\ running' = [running EXCEPT ![id] = TRUE]
        /\ execute(id)
  /\ UNCHANGED <<video, derailed>>

VideoOfScreen(t, p) == IF cur_term_id # t THEN cur_term_id ELSE Screen \* mutant

\* What the timer maps at 132MB for process p of terminal t.
VideoFor(t, p) == IF cur_term_id # t THEN p[1] ELSE Screen

\* The process switch: p's frame was saved in saved[p] when it was preempted.
SwitchTo(t, saved) ==
  LET p == Current(t) IN
  /\ page' = p
  /\ esp0' = p
  /\ video' = VideoFor(t, p)
  /\ cpu' = saved[p]
  /\ derailed' = (saved[p] = None)
  /\ UNCHANGED <<cur_term_id, running, PCB_mask, cur_pcb_id, caller>>

NextTermOfTwo(t) == (t + 1) % (TERM_MAX - 1)         \* mutant
NextTerm(t) == (t + 1) % TERM_MAX

SaveLate(t) == [ctx EXCEPT ![Current(NextTerm(t))] = cpu] \* mutant

\* The interrupted frame is saved in the PCB taken for terminal t's process.
Save(t) == [ctx EXCEPT ![Current(t)] = cpu]

\* pit_interrupt_handler: save, and give the CPU to the next terminal.
Tick ==
  LET next  == NextTerm(now_term_id)
      saved == Save(now_term_id)
  IN
  /\ ~derailed
  /\ now_term_id' = next
  /\ ctx' = saved
  /\ \/ /\ cur_pcb_id[next] = -1
        /\ term_launch(next)
     \/ /\ cur_pcb_id[next] # -1
        /\ SwitchTo(next, saved)

-----------------------------------------------------------------------------
(* System calls and keys *)

Execute ==
  /\ ~derailed
  /\ cpu # Boot
  /\ execute(cur_term_id)
  /\ UNCHANGED <<cur_term_id, now_term_id, running, ctx, video, derailed>>

SlotEmptied(p) == -1                                 \* mutant

\* cur_pcb_id after p: parent_process_number % MAX_PCB_MASK_LEN.
ParentSlot(p) == IF ParentOf(p) = None THEN -1 ELSE p[2] - 1

\* p has a parent: it goes on behind its call of execute.
ReturnToParent(p) ==
  /\ cur_pcb_id[now_term_id] # -1
  /\ ParentOf(p) # None
  /\ PCB_mask' = PCB_mask \ {p}
  /\ cur_pcb_id' = [cur_pcb_id EXCEPT ![now_term_id] = ParentSlot(p)]
  /\ page' = ParentOf(p)
  /\ esp0' = ParentOf(p)
  /\ cpu' = caller[p]
  /\ caller' = [caller EXCEPT ![p] = None]
  /\ UNCHANGED derailed

\* p is a root shell: execute("shell") instead of an end.
RestartShell(p) ==
  /\ cur_pcb_id[now_term_id] # -1
  /\ ParentOf(p) = None
  /\ HasSlot(PCB_mask \ {p}, cur_term_id)
  /\ StartProgram(PCB_mask \ {p},
                  [cur_pcb_id EXCEPT ![now_term_id] = ParentSlot(p)], cur_term_id)
  /\ UNCHANGED derailed

\* p was a root shell, and the displayed terminal has no slot for the new one:
\* halt goes on as if the process numbered -1 were the parent.
ShellNotRestarted(p) ==
  /\ cur_pcb_id[now_term_id] # -1
  /\ ParentOf(p) = None
  /\ ~HasSlot(PCB_mask \ {p}, cur_term_id)
  /\ PCB_mask' = PCB_mask \ {p}
  /\ cur_pcb_id' = [cur_pcb_id EXCEPT ![now_term_id] = ParentSlot(p)]
  /\ derailed' = TRUE
  /\ UNCHANGED <<caller, cpuVars>>

\* The terminal has no process: p is a PCB of the terminal before, or none,
\* and halt ends what it takes for a process there. The model ends here.
HaltNobody(p) ==
  /\ cur_pcb_id[now_term_id] = -1
  /\ derailed' = TRUE
  /\ UNCHANGED <<PCB_mask, cur_pcb_id, caller, cpuVars>>

\* halt ends the process of the terminal that has the CPU. The frame in its
\* PCB is nobody's from then on.
halt ==
  LET p == Current(now_term_id) IN
  /\ ~derailed
  /\ \/ ReturnToParent(p)
     \/ RestartShell(p)
     \/ ShellNotRestarted(p)
     \/ HaltNobody(p)
  /\ ctx' = [ctx EXCEPT ![p] = None]
  /\ UNCHANGED <<cur_term_id, now_term_id, running, video>>

\* The process exits, or an exception handler calls halt(0) for it.
Halt ==
  /\ cpu # Boot
  /\ halt

\* Ctrl+C: the keyboard handler calls halt(1) on behalf of whatever runs.
CtrlC == halt

\* vidmap with a valid pointer.
Vidmap ==
  /\ ~derailed
  /\ cpu # Boot
  /\ video' = Screen
  /\ UNCHANGED <<cur_term_id, now_term_id, cur_pcb_id, running, PCB_mask,
                 caller, ctx, cpuVars, derailed>>

\* Alt+F1, Alt+F2, Alt+F3: term_switch(cur_term_id, n). Before the first tick
\* cur_term_id is 3 and term_save runs past the end of term.
AltF(n) ==
  /\ ~derailed
  /\ cur_term_id' = n
  /\ derailed' = (cur_term_id = NoTerm)
  /\ UNCHANGED <<now_term_id, cur_pcb_id, running, PCB_mask, caller, ctx,
                 cpuVars, video>>

Next ==
  \/ Tick
  \/ Execute
  \/ Halt
  \/ Vidmap
  \/ CtrlC
  \/ \E n \in Terms : AltF(n)

Spec == Init /\ [][Next]_vars

(***************************************************************************)
(* An operator who leaves a terminal on the screen while programs start in *)
(* it, and touches no key before the three shells run. A program with a    *)
(* parent may end in the background; a root shell only on the screen.      *)
(***************************************************************************)
Booted == \A t \in Terms : cur_pcb_id[t] # -1
OnScreen == cur_term_id = now_term_id
CanEnd == OnScreen \/ ParentOf(Current(now_term_id)) # None

AttendedNext ==
  \/ Tick
  \/ Booted /\ OnScreen /\ Execute
  \/ Booted /\ CanEnd /\ Halt
  \/ Booted /\ CanEnd /\ CtrlC
  \/ Booted /\ Vidmap
  \/ \E n \in Terms : Booted /\ AltF(n)

AttendedSpec == Init /\ [][AttendedNext]_vars

-----------------------------------------------------------------------------
(* Properties of every behaviour *)

\* The type of the state.
TypeOK ==
  /\ cur_term_id \in Terms \cup {NoTerm}
  /\ now_term_id \in Terms
  /\ cur_pcb_id \in [Terms -> Slots \cup {-1}]
  /\ running \in [Terms -> BOOLEAN]
  /\ PCB_mask \subseteq Pids
  /\ ctx \in [Pcbs -> Pids \cup {Boot, None}]
  /\ caller \in [Pids -> Pids \cup {Boot, None}]
  /\ page \in Pids \cup {None}
  /\ esp0 \in Pids \cup {Boot}
  /\ video \in Terms \cup {Screen, NoVideo}
  /\ cpu \in Pids \cup {Boot, None}
  /\ derailed \in BOOLEAN

\* PCB_mask and cur_pcb_id are two records of one fact: a terminal's processes
\* are the slots up to cur_pcb_id, with no hole and none above it, whatever
\* the order of execute, halt, keys and ticks, as long as the kernel is not
\* derailed.
StackDiscipline ==
  PCB_mask = {q \in Pids : q[2] <= cur_pcb_id[q[1]]}

\* PCB_process_number sets the mask, counts and takes it back: never more
\* tasks than the limit, also over the restart of a root shell.
TaskLimit == Cardinality(PCB_mask) <= MAX_TASKS

\* halt does not let the last shell of a terminal go: a terminal loses its last
\* process only if its shell ends while another terminal is on the screen, where
\* the new shell starts then. On the screen there is always room for it.
RootShells ==
  [][\A t \in Terms :
       cur_pcb_id[t] # -1 /\ cur_pcb_id'[t] = -1 =>
         t = now_term_id /\ t # cur_term_id]_vars

-----------------------------------------------------------------------------
(* Properties of the attended system *)

\* The CPU, the program page and tss.esp0 belong to one process, the newest
\* of the terminal that has its turn.
Coherent ==
  /\ ~derailed
  /\ cpu # Boot =>
       /\ cur_pcb_id[now_term_id] # -1
       /\ cpu = Current(now_term_id)
       /\ page = cpu
       /\ esp0 = cpu

\* Every other terminal's newest process can be switched to: the frame in its
\* PCB lies on its own stack.
SavedContexts ==
  \A t \in Terms \ {now_term_id} :
    cur_pcb_id[t] # -1 => ctx[Current(t)] = Current(t)

\* A process halt would end has its parent below it in the same terminal, and
\* the frame halt returns to lies on that parent's stack.
ParentsWait ==
  \A p \in PCB_mask :
    p[2] > 0 =>
      /\ <<p[1], p[2] - 1>> \in PCB_mask
      /\ caller[p] = <<p[1], p[2] - 1>>

\* A turn begins with the page of its own terminal at 132MB: the screen's if it
\* is displayed, the saved one's if not. Until the turn ends, calls and keys put
\* nothing but the screen's in its place, so what a process in the background
\* draws over the screen after vidmap or a switch ends with its turn; and the
\* saved page of another terminal is never there.
VideoIsolation ==
  [][/\ now_term_id' # now_term_id /\ Booted =>
          video' = IF cur_term_id' = now_term_id' THEN Screen ELSE now_term_id'
     /\ now_term_id' = now_term_id => video' \in {video, Screen}
     /\ video' \in Terms => video' = now_term_id']_vars

\* The timer starts the three shells, and the round robin starves no
\* terminal: its newest process runs again and again on its own stack.
EveryTerminalRuns ==
  \A t \in Terms :
    []<>(now_term_id = t /\ cur_pcb_id[t] # -1 /\ cpu = Current(t))

\* With the registers, pages and PCBs hidden, the attended system is the stack
\* of programs per terminal and the round robin of TerminalTasks.
Promise == INSTANCE TerminalTasks WITH
  depth <- [t \in Terms |-> cur_pcb_id[t] + 1],
  turn  <- now_term_id,
  shown <- cur_term_id,
  task  <- cpu

ImplementsTerminalTasks == Promise!Spec

-----------------------------------------------------------------------------
(* What the repository says of every behaviour, and the code does not do *)

\* buglog.txt: changes are made to the terminal that runs and not to the one
\* that is displayed. execute and halt change cur_pcb_id of no other terminal.
RunningTerminalChanges ==
  [][\A t \in Terms : cur_pcb_id'[t] # cur_pcb_id[t] => t = now_term_id']_vars

=============================================================================
