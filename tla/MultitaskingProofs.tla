------------------------- MODULE MultitaskingProofs -------------------------
(***************************************************************************)
(* Proofs about Multitasking for every number of terminals and slots and   *)
(* every task limit that SizesAssumption allows.                           *)
(***************************************************************************)
EXTENDS Multitasking, FiniteSetTheorems, TLAPS

\* Nothing runs before the first tick has put a terminal on the screen.
ShownOnceUsed ==
  cur_term_id = NoTerm => cpu = Boot /\ \A t \in Terms : cur_pcb_id[t] = -1

\* The inductive invariant of the two records of the processes.
IInv == TypeOK /\ StackDiscipline /\ TaskLimit /\ ShownOnceUsed

-----------------------------------------------------------------------------
(* The operators *)

\* The PCB the kernel takes for a terminal's process exists; it is a slot of
\* that terminal when the terminal has a process.
LEMMA CurrentType ==
  ASSUME TypeOK, NEW t \in Terms
  PROVE  /\ Current(t) \in Pcbs
         /\ cur_pcb_id[t] # -1 => /\ cur_pcb_id[t] \in Slots
                                  /\ Current(t) = <<t, cur_pcb_id[t]>>
                                  /\ Current(t) \in Pids
<1>1. cur_pcb_id[t] \in Slots \cup {-1}
  BY DEF TypeOK
<1>2. CASE cur_pcb_id[t] = -1
  <2>1. Current(t) = <<t - 1, MAX_PCB_MASK_LEN - 1>>
    BY <1>2 DEF Current, PcbAt
  <2>2. CASE t = 0
    BY <2>1, <2>2, <1>2 DEF Pcbs, PcbAt
  <2>3. CASE t # 0
    <3>1. t - 1 \in Terms /\ MAX_PCB_MASK_LEN - 1 \in Slots
      BY <2>3, SizesAssumption DEF Terms, Slots
    <3>2. QED
      BY <2>1, <3>1, <1>2 DEF Pcbs, Pids
  <2>4. QED
    BY <2>2, <2>3
<1>3. CASE cur_pcb_id[t] # -1
  BY <1>1, <1>3 DEF Current, PcbAt, Pcbs, Pids
<1>4. QED
  BY <1>2, <1>3

\* The next terminal is a terminal.
LEMMA NextTermType ==
  ASSUME NEW t \in Terms
  PROVE  NextTerm(t) \in Terms
BY SizesAssumption DEF NextTerm, Terms

\* Saving a frame keeps the type of the saved frames.
LEMMA SaveType ==
  ASSUME TypeOK, NEW t \in Terms
  PROVE  Save(t) \in [Pcbs -> Pids \cup {Boot, None}]
BY CurrentType DEF Save, TypeOK

\* The mask and the newest slots describe the same processes.
Agree(mask, ids) == mask = {q \in Pids : q[2] <= ids[q[1]]}

\* The first free slot of a terminal is the one above its newest process.
LEMMA FreeSlotAbove ==
  ASSUME NEW c \in Terms,
         NEW mask,
         NEW ids \in [Terms -> Slots \cup {-1}],
         NEW i \in Slots,
         Agree(mask, ids),
         FirstFree(mask, c, i)
  PROVE  ids[c] = i - 1
<1>1. ids[c] \in Slots \cup {-1} /\ i \in Int /\ 0 <= i
  BY DEF Slots
<1>2. ~(i <= ids[c])
  BY DEF FirstFree, Agree, Pids
<1>3. i = 0 \/ i - 1 <= ids[c]
  <2>1. SUFFICES ASSUME i # 0 PROVE i - 1 <= ids[c]
    OBVIOUS
  <2>2. i - 1 \in 0 .. i - 1
    BY <1>1, <2>1
  <2>3. <<c, i - 1>> \in mask
    BY <2>2 DEF FirstFree
  <2>4. QED
    BY <2>3 DEF Agree
<1>4. QED
  BY <1>1, <1>2, <1>3 DEF Slots

\* execute takes the slot above the newest one, so both records still agree.
LEMMA StartProgramKeeps ==
  ASSUME TypeOK,
         NEW c \in Terms,
         NEW mask \in SUBSET Pids,
         NEW ids \in [Terms -> Slots \cup {-1}],
         Agree(mask, ids),
         StartProgram(mask, ids, c)
  PROVE  /\ PCB_mask' \in SUBSET Pids
         /\ cur_pcb_id' \in [Terms -> Slots \cup {-1}]
         /\ caller' \in [Pids -> Pids \cup {Boot, None}]
         /\ page' \in Pids
         /\ esp0' \in Pids
         /\ cpu' \in Pids
         /\ Agree(PCB_mask', cur_pcb_id')
<1>1. PICK i \in Slots : /\ FirstFree(mask, c, i)
                        /\ PCB_mask' = mask \cup {<<c, i>>}
                        /\ cur_pcb_id' = [ids EXCEPT ![c] = i]
                        /\ caller' = [q \in Pids |->
                             IF q = <<c, i>> THEN cpu
                             ELSE IF q \in mask THEN caller[q] ELSE None]
                        /\ page' = <<c, i>>
                        /\ esp0' = <<c, i>>
                        /\ cpu' = <<c, i>>
  BY DEF StartProgram
<1>2. <<c, i>> \in Pids
  BY DEF Pids
<1>3. caller' \in [Pids -> Pids \cup {Boot, None}]
  <2>1. caller \in [Pids -> Pids \cup {Boot, None}] /\ cpu \in Pids \cup {Boot, None}
    BY DEF TypeOK
  <2>2. QED
    BY <1>1, <2>1
<1>4. ids[c] = i - 1
  BY <1>1, FreeSlotAbove
<1>5. Agree(PCB_mask', cur_pcb_id')
  <2>1. ASSUME NEW q \in Pids
        PROVE  q \in PCB_mask' <=> q[2] <= cur_pcb_id'[q[1]]
    <3>1. q[1] \in Terms /\ q[2] \in Int /\ q = <<q[1], q[2]>>
      BY DEF Pids, Slots
    <3>2. CASE q[1] = c
      <4>1. cur_pcb_id'[q[1]] = i
        BY <1>1, <3>2
      <4>2. q \in mask <=> q[2] <= i - 1
        BY <1>4, <3>2 DEF Agree
      <4>3. q = <<c, i>> <=> q[2] = i
        BY <3>1, <3>2
      <4>4. i \in Int
        BY DEF Slots
      <4>5. QED
        BY <1>1, <3>1, <4>1, <4>2, <4>3, <4>4
    <3>3. CASE q[1] # c
      <4>1. q # <<c, i>> /\ cur_pcb_id'[q[1]] = ids[q[1]]
        BY <1>1, <3>1, <3>3
      <4>2. QED
        BY <1>1, <4>1 DEF Agree
    <3>4. QED
      BY <3>2, <3>3
  <2>2. PCB_mask' \subseteq Pids
    BY <1>1, <1>2
  <2>3. QED
    BY <2>1, <2>2 DEF Agree
<1>6. QED
  BY <1>1, <1>2, <1>3, <1>5

\* There are finitely many process numbers.
LEMMA PidsFinite ==
  ASSUME NEW S \in SUBSET Pids
  PROVE  IsFiniteSet(S) /\ Cardinality(S) \in Nat
<1>1. IsFiniteSet(Terms) /\ IsFiniteSet(Slots)
  BY SizesAssumption, FS_Interval DEF Terms, Slots
<1>2. IsFiniteSet(Pids)
  BY <1>1, FS_Product DEF Pids
<1>3. QED
  BY <1>2, FS_Subset, FS_CardinalityType

\* A process started in a slot that was found exceeds no limit.
LEMMA StartProgramLimit ==
  ASSUME NEW c \in Terms,
         NEW mask \in SUBSET Pids,
         NEW ids,
         HasSlot(mask, c),
         StartProgram(mask, ids, c)
  PROVE  Cardinality(PCB_mask') <= MAX_TASKS
<1>1. PICK i \in Slots : /\ <<c, i>> \notin mask
                        /\ PCB_mask' = mask \cup {<<c, i>>}
  BY DEF StartProgram, FirstFree
<1>2. IsFiniteSet(mask)
  BY PidsFinite
<1>3. Cardinality(PCB_mask') = Cardinality(mask) + 1
  BY <1>1, <1>2, FS_AddElement
<1>4. QED
  BY <1>3 DEF HasSlot

-----------------------------------------------------------------------------
(* The actions *)

\* A tick switches to a live process, starts a first shell, or finds nothing
\* to do.
LEMMA TickKeeps ==
  ASSUME IInv, Tick
  PROVE  IInv'
<1> DEFINE next == NextTerm(now_term_id)
<1> USE DEF IInv
<1>1. /\ next \in Terms
      /\ now_term_id' = next
      /\ ctx' = Save(now_term_id)
      /\ ctx' \in [Pcbs -> Pids \cup {Boot, None}]
  BY NextTermType, SaveType DEF Tick, TypeOK
<1>2. CASE cur_pcb_id[next] = -1 /\ term_launch(next)
  <2>1. UNCHANGED <<video, derailed>>
    BY <1>2 DEF term_launch
  <2>2. CASE UNCHANGED <<running, PCB_mask, cur_pcb_id, caller, page, esp0, cpu>>
    <3>1. cur_term_id' \in Terms \/ cur_term_id' = cur_term_id
      BY <1>1, <1>2 DEF term_launch
    <3>2. TypeOK'
      BY <1>1, <2>1, <2>2, <3>1 DEF TypeOK
    <3>3. ShownOnceUsed'
      BY <2>2, <3>1, SizesAssumption DEF ShownOnceUsed, Terms, NoTerm
    <3>4. QED
      BY <2>2, <3>2, <3>3 DEF StackDiscipline, TaskLimit
  <2>3. CASE /\ cur_term_id' = next
             /\ running' = [running EXCEPT ![next] = TRUE]
             /\ execute(next)
    <3>1. running' \in [Terms -> BOOLEAN]
      BY <2>3 DEF TypeOK
    <3>2. ShownOnceUsed'
      BY <1>1, <2>3, SizesAssumption DEF ShownOnceUsed, Terms, NoTerm
    <3>3. CASE HasSlot(PCB_mask, next) /\ StartProgram(PCB_mask, cur_pcb_id, next)
      <4>1. Agree(PCB_mask, cur_pcb_id)
        BY DEF StackDiscipline, Agree
      <4>2. /\ PCB_mask' \in SUBSET Pids
            /\ cur_pcb_id' \in [Terms -> Slots \cup {-1}]
            /\ caller' \in [Pids -> Pids \cup {Boot, None}]
            /\ page' \in Pids
            /\ esp0' \in Pids
            /\ cpu' \in Pids
            /\ Agree(PCB_mask', cur_pcb_id')
        BY <1>1, <3>3, <4>1, StartProgramKeeps DEF TypeOK
      <4>3. TypeOK'
        BY <1>1, <2>1, <2>3, <3>1, <4>2 DEF TypeOK
      <4>4. TaskLimit'
        BY <1>1, <3>3, StartProgramLimit DEF TypeOK, TaskLimit
      <4>5. QED
        BY <3>2, <4>2, <4>3, <4>4 DEF StackDiscipline, Agree
    <3>4. CASE UNCHANGED <<PCB_mask, cur_pcb_id, caller, page, esp0, cpu>>
      BY <1>1, <2>1, <2>3, <3>1, <3>2, <3>4 DEF TypeOK, StackDiscipline, TaskLimit
    <3>5. QED
      BY <2>3, <3>3, <3>4 DEF execute, cpuVars
  <2>4. QED
    BY <1>2, <2>2, <2>3 DEF term_launch, cpuVars
<1>3. CASE cur_pcb_id[next] # -1 /\ SwitchTo(next, Save(now_term_id))
  <2>1. Current(next) \in Pids /\ Current(next) \in Pcbs /\ Current(next)[1] \in Terms
    BY <1>1, <1>3, CurrentType DEF Pids
  <2>2. cpu' \in Pids \cup {Boot, None}
    BY <1>1, <1>3, <2>1 DEF SwitchTo
  <2>3. /\ page' \in Pids
        /\ esp0' \in Pids
        /\ video' \in Terms \cup {Screen}
        /\ derailed' \in BOOLEAN
        /\ UNCHANGED <<cur_term_id, running, PCB_mask, cur_pcb_id, caller>>
    BY <1>3, <2>1 DEF SwitchTo, VideoFor
  <2>4. TypeOK'
    BY <1>1, <2>2, <2>3 DEF TypeOK
  <2>5. ShownOnceUsed'
    BY <1>1, <1>3, <2>3 DEF ShownOnceUsed
  <2>6. QED
    BY <2>3, <2>4, <2>5 DEF StackDiscipline, TaskLimit
<1>4. QED
  BY <1>2, <1>3 DEF Tick

\* execute, called by a running process, keeps both records in step.
LEMMA ExecuteKeeps ==
  ASSUME IInv, Execute
  PROVE  IInv'
<1> USE DEF IInv
<1>1. /\ cpu # Boot
      /\ execute(cur_term_id)
      /\ UNCHANGED <<cur_term_id, now_term_id, running, ctx, video, derailed>>
  BY DEF Execute
<1>2. cur_term_id \in Terms
  BY <1>1 DEF TypeOK, ShownOnceUsed
<1>3. CASE /\ HasSlot(PCB_mask, cur_term_id)
           /\ StartProgram(PCB_mask, cur_pcb_id, cur_term_id)
  <2>1. Agree(PCB_mask, cur_pcb_id)
    BY DEF StackDiscipline, Agree
  <2>2. /\ PCB_mask' \in SUBSET Pids
        /\ cur_pcb_id' \in [Terms -> Slots \cup {-1}]
        /\ caller' \in [Pids -> Pids \cup {Boot, None}]
        /\ page' \in Pids
        /\ esp0' \in Pids
        /\ cpu' \in Pids
        /\ Agree(PCB_mask', cur_pcb_id')
    BY <1>2, <1>3, <2>1, StartProgramKeeps DEF TypeOK
  <2>3. TypeOK'
    BY <1>1, <2>2 DEF TypeOK
  <2>4. TaskLimit'
    BY <1>2, <1>3, StartProgramLimit DEF TypeOK, TaskLimit
  <2>5. ShownOnceUsed'
    BY <1>1, <1>2, SizesAssumption DEF ShownOnceUsed, Terms, NoTerm
  <2>6. QED
    BY <2>2, <2>3, <2>4, <2>5 DEF StackDiscipline, Agree
<1>4. CASE UNCHANGED <<PCB_mask, cur_pcb_id, caller, cpuVars>>
  BY <1>1, <1>4 DEF TypeOK, StackDiscipline, TaskLimit, ShownOnceUsed, cpuVars
<1>5. QED
  BY <1>1, <1>3, <1>4 DEF execute

\* halt takes the newest process away, and puts a new shell in the displayed
\* terminal if it was the last one.
LEMMA HaltKeeps ==
  ASSUME IInv, halt
  PROVE  IInv'
<1> DEFINE t == now_term_id
           p == Current(t)
           ids == [cur_pcb_id EXCEPT ![t] = ParentSlot(p)]
<1> USE DEF IInv
<1>1. /\ UNCHANGED <<cur_term_id, now_term_id, running, video>>
      /\ ctx' = [ctx EXCEPT ![p] = None]
      /\ t \in Terms
  BY DEF halt, TypeOK
<1>2. ctx' \in [Pcbs -> Pids \cup {Boot, None}]
  BY <1>1 DEF TypeOK
<1>3. ASSUME cur_pcb_id[t] # -1
      PROVE  /\ p \in Pids
             /\ p[1] = t
             /\ p[2] = cur_pcb_id[t]
             /\ ids \in [Terms -> Slots \cup {-1}]
             /\ Agree(PCB_mask \ {p}, ids)
             /\ ParentOf(p) # None => ParentOf(p) \in Pids
             /\ cur_term_id \in Terms
  <2>1. p = <<t, cur_pcb_id[t]>> /\ p \in Pids /\ cur_pcb_id[t] \in Slots
    BY <1>1, <1>3, CurrentType
  <2>2. ParentSlot(p) = cur_pcb_id[t] - 1
    <3>1. CASE cur_pcb_id[t] = 0
      BY <2>1, <3>1 DEF ParentSlot, ParentOf
    <3>2. CASE cur_pcb_id[t] # 0
      <4>1. ParentOf(p) = <<t, cur_pcb_id[t] - 1>>
        BY <2>1, <3>2 DEF ParentOf
      <4>2. t # -3
        BY <1>1 DEF Terms
      <4>3. ParentOf(p) # None
        BY <4>1, <4>2 DEF None
      <4>4. QED
        BY <2>1, <4>3 DEF ParentSlot
    <3>3. QED
      BY <3>1, <3>2
  <2>3. ParentSlot(p) \in Slots \cup {-1}
    BY <2>1, <2>2, SizesAssumption DEF Slots
  <2>4. ids \in [Terms -> Slots \cup {-1}]
    BY <2>3 DEF TypeOK
  <2>5. ASSUME NEW q \in Pids
        PROVE  q \in PCB_mask \ {p} <=> q[2] <= ids[q[1]]
    <3>1. q[1] \in Terms /\ q[2] \in Int /\ q = <<q[1], q[2]>>
      BY DEF Pids, Slots
    <3>2. q \in PCB_mask <=> q[2] <= cur_pcb_id[q[1]]
      BY DEF StackDiscipline
    <3>3. CASE q[1] = t
      <4>1. ids[q[1]] = cur_pcb_id[t] - 1
        BY <1>1, <2>2, <3>3 DEF TypeOK
      <4>2. q = p <=> q[2] = cur_pcb_id[t]
        BY <2>1, <3>1, <3>3
      <4>3. cur_pcb_id[t] \in Int
        BY <2>1 DEF Slots
      <4>4. QED
        BY <3>1, <3>2, <3>3, <4>1, <4>2, <4>3
    <3>4. CASE q[1] # t
      <4>1. q # p /\ ids[q[1]] = cur_pcb_id[q[1]]
        BY <2>1, <3>1, <3>4 DEF TypeOK
      <4>2. QED
        BY <3>2, <4>1
    <3>5. QED
      BY <3>3, <3>4
  <2>6. Agree(PCB_mask \ {p}, ids)
    BY <2>5 DEF Agree, TypeOK
  <2>7. ParentOf(p) # None => ParentOf(p) \in Pids
    <3>1. SUFFICES ASSUME cur_pcb_id[t] # 0 PROVE ParentOf(p) \in Pids
      BY <2>1 DEF ParentOf
    <3>2. ParentOf(p) = <<t, cur_pcb_id[t] - 1>>
      BY <2>1, <3>1 DEF ParentOf
    <3>3. cur_pcb_id[t] - 1 \in Slots
      BY <2>1, <3>1, SizesAssumption DEF Slots
    <3>4. QED
      BY <1>1, <3>2, <3>3 DEF Pids
  <2>8. cur_term_id \in Terms
    BY <1>1, <1>3 DEF TypeOK, ShownOnceUsed
  <2>9. QED
    BY <2>1, <2>4, <2>6, <2>7, <2>8
<1>4. CASE ReturnToParent(p)
  <2>1. cur_pcb_id[t] # -1 /\ ParentOf(p) # None
    BY <1>4 DEF ReturnToParent
  <2>2. caller[p] \in Pids \cup {Boot, None}
    BY <1>3, <2>1 DEF TypeOK
  <2>3. TypeOK'
    BY <1>1, <1>2, <1>3, <1>4, <2>1, <2>2 DEF ReturnToParent, TypeOK
  <2>4. StackDiscipline'
    BY <1>3, <1>4, <2>1 DEF ReturnToParent, StackDiscipline, Agree
  <2>5. TaskLimit'
    <3>1. IsFiniteSet(PCB_mask) /\ Cardinality(PCB_mask) \in Nat
      BY PidsFinite DEF TypeOK
    <3>2. Cardinality(PCB_mask \ {p}) <= Cardinality(PCB_mask)
      BY <3>1, FS_RemoveElement
    <3>3. IsFiniteSet(PCB_mask \ {p}) /\ Cardinality(PCB_mask \ {p}) \in Nat
      BY PidsFinite DEF TypeOK
    <3>4. QED
      BY <1>4, <3>1, <3>2, <3>3, SizesAssumption DEF ReturnToParent, TaskLimit
  <2>6. ShownOnceUsed'
    BY <1>1, <1>3, <2>1, SizesAssumption DEF ShownOnceUsed, Terms, NoTerm
  <2>7. QED
    BY <2>3, <2>4, <2>5, <2>6
<1>5. CASE RestartShell(p)
  <2>1. cur_pcb_id[t] # -1
    BY <1>5 DEF RestartShell
  <2>2. /\ PCB_mask \ {p} \in SUBSET Pids
        /\ StartProgram(PCB_mask \ {p}, ids, cur_term_id)
        /\ HasSlot(PCB_mask \ {p}, cur_term_id)
        /\ derailed' = derailed
    BY <1>5 DEF RestartShell, TypeOK
  <2>3. /\ PCB_mask' \in SUBSET Pids
        /\ cur_pcb_id' \in [Terms -> Slots \cup {-1}]
        /\ caller' \in [Pids -> Pids \cup {Boot, None}]
        /\ page' \in Pids
        /\ esp0' \in Pids
        /\ cpu' \in Pids
        /\ Agree(PCB_mask', cur_pcb_id')
    BY <1>3, <2>1, <2>2, StartProgramKeeps
  <2>4. TypeOK'
    BY <1>1, <1>2, <2>2, <2>3 DEF TypeOK
  <2>5. TaskLimit'
    BY <1>3, <2>1, <2>2, StartProgramLimit DEF TaskLimit
  <2>6. ShownOnceUsed'
    BY <1>1, <1>3, <2>1, SizesAssumption DEF ShownOnceUsed, Terms, NoTerm
  <2>7. QED
    BY <2>3, <2>4, <2>5, <2>6 DEF StackDiscipline, Agree
<1>6. CASE HaltNobody(p)
  BY <1>1, <1>2, <1>6
     DEF HaltNobody, TypeOK, StackDiscipline, TaskLimit, ShownOnceUsed, cpuVars
<1>7. CASE ShellNotRestarted(p)
  <2>1. /\ cur_pcb_id[t] # -1
        /\ PCB_mask' = PCB_mask \ {p}
        /\ cur_pcb_id' = ids
        /\ derailed' \in BOOLEAN
        /\ UNCHANGED <<caller, page, esp0, cpu>>
    BY <1>7 DEF ShellNotRestarted, cpuVars
  <2>2. TypeOK'
    BY <1>1, <1>2, <1>3, <2>1 DEF TypeOK
  <2>3. StackDiscipline'
    BY <1>3, <2>1 DEF StackDiscipline, Agree
  <2>4. TaskLimit'
    <3>1. IsFiniteSet(PCB_mask) /\ Cardinality(PCB_mask) \in Nat
      BY PidsFinite DEF TypeOK
    <3>2. Cardinality(PCB_mask \ {p}) <= Cardinality(PCB_mask)
      BY <3>1, FS_RemoveElement
    <3>3. IsFiniteSet(PCB_mask \ {p}) /\ Cardinality(PCB_mask \ {p}) \in Nat
      BY PidsFinite DEF TypeOK
    <3>4. QED
      BY <2>1, <3>1, <3>2, <3>3, SizesAssumption DEF TaskLimit
  <2>5. ShownOnceUsed'
    BY <1>1, <1>3, <2>1, SizesAssumption DEF ShownOnceUsed, Terms, NoTerm
  <2>6. QED
    BY <2>2, <2>3, <2>4, <2>5
<1>8. QED
  BY <1>4, <1>5, <1>6, <1>7 DEF halt

-----------------------------------------------------------------------------
(* The theorems *)

\* No step of the kernel, in any order of ticks, keys and system calls, breaks
\* the invariant.
LEMMA StepKeeps ==
  ASSUME IInv, [Next]_vars
  PROVE  IInv'
<1>1. CASE Tick
  BY <1>1, TickKeeps
<1>2. CASE Execute
  BY <1>2, ExecuteKeeps
<1>3. CASE Halt
  BY <1>3, HaltKeeps DEF Halt
<1>4. CASE CtrlC
  BY <1>4, HaltKeeps DEF CtrlC
<1>5. CASE Vidmap
  BY <1>5 DEF Vidmap, IInv, TypeOK, StackDiscipline, TaskLimit, ShownOnceUsed, cpuVars
<1>6. ASSUME NEW n \in Terms, AltF(n) PROVE IInv'
  <2>1. ShownOnceUsed'
    BY <1>6, SizesAssumption DEF AltF, ShownOnceUsed, Terms, NoTerm
  <2>2. QED
    BY <1>6, <2>1 DEF AltF, IInv, TypeOK, StackDiscipline, TaskLimit, cpuVars
<1>7. CASE UNCHANGED vars
  BY <1>7 DEF vars, IInv, TypeOK, StackDiscipline, TaskLimit, ShownOnceUsed
<1>8. QED
  BY <1>1, <1>2, <1>3, <1>4, <1>5, <1>6, <1>7 DEF Next

\* The state term_init leaves.
LEMMA InitHolds == Init => IInv
<1> SUFFICES ASSUME Init PROVE IInv
  OBVIOUS
<1>1. TypeOK
  <2>1. 0 \in Terms
    BY SizesAssumption DEF Terms
  <2>2. QED
    BY <2>1 DEF Init, TypeOK
<1>2. StackDiscipline
  BY DEF Init, StackDiscipline, Pids, Slots
<1>3. TaskLimit
  BY FS_EmptySet, SizesAssumption DEF Init, TaskLimit
<1>4. ShownOnceUsed
  BY DEF Init, ShownOnceUsed
<1>5. QED
  BY <1>1, <1>2, <1>3, <1>4 DEF IInv

\* The invariant holds of every behaviour.
THEOREM Invariance == Spec => []IInv
<1>1. IInv /\ [Next]_vars => IInv'
  BY StepKeeps
<1>2. QED
  BY <1>1, InitHolds, PTL DEF Spec

\* Type correctness.
THEOREM TypeCorrect == Spec => []TypeOK
<1>1. IInv => TypeOK
  BY DEF IInv
<1>2. QED
  BY <1>1, Invariance, PTL

\* PCB_mask and cur_pcb_id describe the same stacks of processes, whatever the
\* order in which execute, halt, the timer and the keyboard come.
THEOREM StacksAgree == Spec => []StackDiscipline
<1>1. IInv => StackDiscipline
  BY DEF IInv
<1>2. QED
  BY <1>1, Invariance, PTL

\* PCB_process_number never lets the tasks exceed the limit.
THEOREM TasksLimited == Spec => []TaskLimit
<1>1. IInv => TaskLimit
  BY DEF IInv
<1>2. QED
  BY <1>1, Invariance, PTL

-----------------------------------------------------------------------------
(* The last process of a terminal *)

\* A root shell that ends leaves room for its successor in its own terminal.
LEMMA RoomForSuccessor ==
  ASSUME IInv, NEW t \in Terms, cur_pcb_id[t] = 0
  PROVE  HasSlot(PCB_mask \ {<<t, 0>>}, t)
<1> DEFINE p == <<t, 0>>
<1>1. TypeOK /\ StackDiscipline /\ TaskLimit
  BY DEF IInv
<1>2. p \in PCB_mask
  BY <1>1, SizesAssumption DEF StackDiscipline, Pids, Slots
<1>3. FirstFree(PCB_mask \ {p}, t, 0) /\ 0 \in Slots
  BY SizesAssumption DEF FirstFree, Slots
<1>4. IsFiniteSet(PCB_mask) /\ IsFiniteSet(PCB_mask \ {p})
      /\ Cardinality(PCB_mask \ {p}) \in Nat
  BY <1>1, PidsFinite DEF TypeOK
<1>5. Cardinality(PCB_mask \ {p}) + 1 = Cardinality(PCB_mask)
  <2>1. (PCB_mask \ {p}) \cup {p} = PCB_mask
    BY <1>2
  <2>2. QED
    BY <1>4, <2>1, FS_AddElement
<1>6. QED
  BY <1>1, <1>3, <1>5 DEF HasSlot, TaskLimit

\* A started program is the newest of its terminal.
LEMMA StartedIsNewest ==
  ASSUME NEW c, NEW mask, NEW ids \in [Terms -> Slots \cup {-1}], NEW t \in Terms,
         StartProgram(mask, ids, c), cur_pcb_id'[t] = -1
  PROVE  t # c /\ ids[t] = -1
<1>1. PICK i \in Slots : cur_pcb_id' = [ids EXCEPT ![c] = i]
  BY DEF StartProgram
<1>2. i # -1
  BY <1>1 DEF Slots
<1>3. QED
  BY <1>1, <1>2

\* A terminal that halt leaves without a process is the one that had its turn,
\* and another one is on the screen.
LEMMA HaltLeaves ==
  ASSUME IInv, halt, NEW t \in Terms, cur_pcb_id[t] # -1, cur_pcb_id'[t] = -1
  PROVE  t = now_term_id /\ t # cur_term_id
<1> DEFINE n == now_term_id
           p == Current(n)
           ids == [cur_pcb_id EXCEPT ![n] = ParentSlot(p)]
<1>1. n \in Terms /\ cur_pcb_id \in [Terms -> Slots \cup {-1}]
  BY DEF IInv, TypeOK
<1>2. CASE cur_pcb_id[n] = -1
  <2>1. cur_pcb_id' = cur_pcb_id
    BY <1>2 DEF halt, ReturnToParent, RestartShell, ShellNotRestarted, HaltNobody
  <2>2. QED
    BY <2>1
<1>3. CASE cur_pcb_id[n] # -1
  <2>1. /\ p = <<n, cur_pcb_id[n]>> /\ cur_pcb_id[n] \in Slots
        /\ cur_pcb_id[n] \in Nat
    BY <1>1, <1>3 DEF Current, PcbAt, Slots
  <2>2. ids \in [Terms -> Slots \cup {-1}]
    <3>1. cur_pcb_id[n] = 0 => ParentSlot(p) = -1
      BY <2>1 DEF ParentSlot, ParentOf
    <3>2. ParentSlot(p) \in {-1, cur_pcb_id[n] - 1}
      BY <2>1 DEF ParentSlot
    <3>3. cur_pcb_id[n] # 0 => cur_pcb_id[n] - 1 \in Slots
      BY <2>1, SizesAssumption DEF Slots
    <3>4. ParentSlot(p) \in Slots \cup {-1}
      BY <3>1, <3>2, <3>3
    <3>5. QED
      BY <1>1, <3>4
  <2>3. CASE ReturnToParent(p)
    <3>1. cur_pcb_id[n] # 0
      BY <2>1, <2>3 DEF ReturnToParent, ParentOf
    <3>2. ParentSlot(p) # -1
      BY <2>1, <3>1, <2>3 DEF ReturnToParent, ParentSlot
    <3>3. cur_pcb_id' = [cur_pcb_id EXCEPT ![n] = ParentSlot(p)]
      BY <2>3 DEF ReturnToParent
    <3>4. QED
      BY <1>1, <3>2, <3>3
  <2>4. CASE RestartShell(p)
    <3>1. StartProgram(PCB_mask \ {p}, ids, cur_term_id)
      BY <2>4 DEF RestartShell
    <3>2. t # cur_term_id /\ ids[t] = -1
      BY <2>2, <3>1, StartedIsNewest
    <3>3. QED
      BY <1>1, <3>2
  <2>5. CASE ShellNotRestarted(p)
    <3>1. /\ cur_pcb_id' = ids
          /\ ~HasSlot(PCB_mask \ {p}, cur_term_id)
          /\ ParentOf(p) = None
      BY <2>5 DEF ShellNotRestarted
    <3>2. t = n
      BY <1>1, <3>1
    <3>3. cur_pcb_id[n] = 0
      BY <1>1, <2>1, <3>1 DEF ParentOf, None, Terms
    <3>4. HasSlot(PCB_mask \ {p}, n)
      BY <1>1, <2>1, <3>3, RoomForSuccessor
    <3>5. QED
      BY <3>1, <3>2, <3>4
  <2>6. QED
    BY <1>3, <2>3, <2>4, <2>5 DEF halt, HaltNobody
<1>4. QED
  BY <1>2, <1>3

\* In every order of calls, ticks and keys a terminal on the screen keeps a
\* process, and no terminal loses its last one in another's turn.
THEOREM ShellsStay == Spec => RootShells
<1>1. ASSUME IInv, [Next]_vars
      PROVE  [\A t \in Terms : cur_pcb_id[t] # -1 /\ cur_pcb_id'[t] = -1 =>
                t = now_term_id /\ t # cur_term_id]_vars
  <2> SUFFICES ASSUME NEW t \in Terms, cur_pcb_id[t] # -1, cur_pcb_id'[t] = -1
               PROVE  t = now_term_id /\ t # cur_term_id
    OBVIOUS
  <2>1. cur_pcb_id \in [Terms -> Slots \cup {-1}]
    BY <1>1 DEF IInv, TypeOK
  <2>2. ASSUME NEW c, execute(c) PROVE FALSE
    BY <2>1, <2>2, StartedIsNewest DEF execute
  <2>3. CASE Tick
    BY <2>2, <2>3 DEF Tick, term_launch, SwitchTo
  <2>4. CASE Execute
    BY <2>2, <2>4 DEF Execute
  <2>5. CASE Halt \/ CtrlC
    BY <1>1, <2>5, HaltLeaves DEF Halt, CtrlC
  <2>6. CASE Vidmap \/ (\E n \in Terms : AltF(n)) \/ UNCHANGED vars
    BY <2>6 DEF Vidmap, AltF, vars
  <2>7. QED
    BY <1>1, <2>3, <2>4, <2>5, <2>6 DEF Next
<1>2. QED
  BY <1>1, Invariance, PTL DEF Spec, RootShells

-----------------------------------------------------------------------------
(* The attended system: the right process runs on the right stack, and the  *)
(* system implements the stacks of programs of TerminalTasks.               *)

\* The terminals that have a shell while the kernel boots.
Launched == 1 .. now_term_id

\* The timer starts the shells of 1, 2, ... and of 0 last, and nothing else
\* happens until then: each has one process, and the newest is on the screen.
BootOrder ==
  \/ /\ now_term_id = 0 /\ cur_term_id = NoTerm
     /\ cpu = Boot /\ video = NoVideo
     /\ \A t \in Terms : cur_pcb_id[t] = -1 /\ ~running[t]
  \/ /\ now_term_id # 0 /\ cur_term_id = now_term_id
     /\ cpu # Boot /\ video = NoVideo
     /\ \A t \in Terms : /\ cur_pcb_id[t] = IF t \in Launched THEN 0 ELSE -1
                         /\ running[t] <=> t \in Launched
  \/ Booted /\ cur_term_id \in Terms /\ cpu # Boot

\* The page at 132MB is the screen's or that of the terminal that has its turn.
OwnPage == video \in Terms => video = now_term_id

\* The inductive invariant of the attended system.
AInv ==
  /\ IInv
  /\ Coherent
  /\ SavedContexts
  /\ ParentsWait
  /\ OwnPage
  /\ BootOrder

-----------------------------------------------------------------------------
(* The processes *)

\* The next terminal is the one above, or the first.
LEMMA NextTermIs ==
  ASSUME NEW t \in Terms
  PROVE  NextTerm(t) = IF t + 1 < TERM_MAX THEN t + 1 ELSE 0
BY SizesAssumption DEF NextTerm, Terms

\* None is no process and not the boot.
LEMMA NoneIsNobody ==
  /\ None \notin Pids /\ Boot \notin Pids /\ None # Boot
  /\ \A t, s : t \in Terms => <<t, s>> # None
BY DEF None, Boot, Pids, Terms

\* A running process is the newest of the terminal that has its turn.
LEMMA RunningProcess ==
  ASSUME AInv, cpu # Boot
  PROVE  /\ now_term_id \in Terms
         /\ cur_pcb_id[now_term_id] \in Slots
         /\ Current(now_term_id) = <<now_term_id, cur_pcb_id[now_term_id]>>
         /\ cpu = <<now_term_id, cur_pcb_id[now_term_id]>>
         /\ cpu \in Pids
         /\ ~derailed
         /\ page = cpu /\ esp0 = cpu
<1>1. TypeOK /\ Coherent
  BY DEF AInv, IInv
<1>2. now_term_id \in Terms
  BY <1>1 DEF TypeOK
<1>3. QED
  BY <1>1, <1>2, CurrentType DEF Coherent

\* Saving the running process's frame leaves every terminal's newest process
\* with a frame on its own stack.
LEMMA SavedFrames ==
  ASSUME AInv, cpu # Boot, NEW t \in Terms, cur_pcb_id[t] # -1
  PROVE  /\ Save(now_term_id)[Current(t)] = Current(t)
         /\ Current(t) = <<t, cur_pcb_id[t]>>
         /\ Current(t) \in Pids /\ Current(t) \in Pcbs
<1>1. TypeOK /\ SavedContexts
  BY DEF AInv, IInv
<1>2. /\ Current(t) = <<t, cur_pcb_id[t]>>
      /\ Current(t) \in Pids /\ Current(t) \in Pcbs
  BY <1>1, CurrentType
<1>3. ctx \in [Pcbs -> Pids \cup {Boot, None}]
  BY <1>1 DEF TypeOK
<1>4. CASE t = now_term_id
  BY <1>2, <1>3, <1>4, RunningProcess DEF Save
<1>5. CASE t # now_term_id
  <2>1. ctx[Current(t)] = Current(t)
    BY <1>1, <1>5 DEF SavedContexts
  <2>2. Current(t) # Current(now_term_id)
    BY <1>2, <1>5, RunningProcess
  <2>3. QED
    BY <1>2, <1>3, <2>1, <2>2 DEF Save
<1>6. QED
  BY <1>2, <1>4, <1>5

\* The part of execute that starts a program, with the slot it takes.
LEMMA ProgramStarts ==
  ASSUME NEW c \in Terms,
         NEW mask,
         NEW ids \in [Terms -> Slots \cup {-1}],
         Agree(mask, ids),
         StartProgram(mask, ids, c)
  PROVE  LET p == <<c, ids[c] + 1>> IN
         /\ ids[c] + 1 \in Slots
         /\ PCB_mask' = mask \cup {p}
         /\ cur_pcb_id' = [ids EXCEPT ![c] = ids[c] + 1]
         /\ caller' = [q \in Pids |-> IF q = p THEN cpu
                                     ELSE IF q \in mask THEN caller[q] ELSE None]
         /\ page' = p /\ esp0' = p /\ cpu' = p
<1>1. PICK i \in Slots : /\ FirstFree(mask, c, i)
                        /\ PCB_mask' = mask \cup {<<c, i>>}
                        /\ cur_pcb_id' = [ids EXCEPT ![c] = i]
                        /\ caller' = [q \in Pids |->
                             IF q = <<c, i>> THEN cpu
                             ELSE IF q \in mask THEN caller[q] ELSE None]
                        /\ page' = <<c, i>>
                        /\ esp0' = <<c, i>>
                        /\ cpu' = <<c, i>>
  BY DEF StartProgram
<1>2. ids[c] = i - 1
  BY <1>1, FreeSlotAbove
<1>3. i = ids[c] + 1
  BY <1>2 DEF Slots
<1>4. QED
  BY <1>1, <1>3

-----------------------------------------------------------------------------
(* What the actions do in the attended system *)

\* The timer starts the shell of terminal n.
Launches(n) ==
  /\ cur_pcb_id[n] = -1 /\ ~Booted
  /\ n = NextTerm(now_term_id) /\ n \notin Launched
  /\ now_term_id' = n /\ cur_term_id' = n
  /\ ctx' = Save(now_term_id)
  /\ cur_pcb_id' = [cur_pcb_id EXCEPT ![n] = 0]
  /\ running' = [running EXCEPT ![n] = TRUE]
  /\ PCB_mask' = PCB_mask \cup {<<n, 0>>}
  /\ page' = <<n, 0>> /\ esp0' = <<n, 0>> /\ cpu' = <<n, 0>>
  /\ UNCHANGED <<video, derailed>>

\* The timer goes on with the newest process of terminal n.
Resumes(n) ==
  LET p == <<n, cur_pcb_id[n]>> IN
  /\ Booted /\ cur_pcb_id[n] # -1
  /\ n = NextTerm(now_term_id)
  /\ now_term_id' = n
  /\ ctx' = Save(now_term_id)
  /\ page' = p /\ esp0' = p /\ cpu' = p
  /\ video' = VideoFor(n, p) /\ ~derailed'
  /\ UNCHANGED <<cur_term_id, running, PCB_mask, cur_pcb_id, caller>>

\* The running process starts a program above it.
Pushes ==
  LET s == cur_pcb_id[now_term_id] + 1
      p == <<now_term_id, s>>
  IN
  /\ Booted /\ cpu # Boot /\ OnScreen
  /\ s \in Slots /\ Cardinality(PCB_mask) + 1 <= MAX_TASKS
  /\ PCB_mask' = PCB_mask \cup {p}
  /\ cur_pcb_id' = [cur_pcb_id EXCEPT ![now_term_id] = s]
  /\ caller' = [q \in Pids |-> IF q = p THEN cpu
                              ELSE IF q \in PCB_mask THEN caller[q] ELSE None]
  /\ page' = p /\ esp0' = p /\ cpu' = p
  /\ UNCHANGED <<cur_term_id, now_term_id, running, ctx, video, derailed>>

\* The running process ends and the one below goes on.
Pops ==
  LET s == cur_pcb_id[now_term_id]
      p == <<now_term_id, s - 1>>
  IN
  /\ Booted /\ cpu # Boot /\ s > 0
  /\ PCB_mask' = PCB_mask \ {<<now_term_id, s>>}
  /\ cur_pcb_id' = [cur_pcb_id EXCEPT ![now_term_id] = s - 1]
  /\ caller' = [caller EXCEPT ![<<now_term_id, s>>] = None]
  /\ page' = p /\ esp0' = p /\ cpu' = p
  /\ ctx' = [ctx EXCEPT ![<<now_term_id, s>>] = None]
  /\ UNCHANGED <<cur_term_id, now_term_id, running, video, derailed>>

\* The last shell ends and starts anew in its slot.
Restarts ==
  LET p == <<now_term_id, 0>> IN
  /\ Booted /\ cpu # Boot /\ cur_pcb_id[now_term_id] = 0
  /\ PCB_mask' = PCB_mask
  /\ cur_pcb_id' = cur_pcb_id
  /\ \A q \in PCB_mask \ {p} : caller'[q] = caller[q]
  /\ page' = p /\ esp0' = p /\ cpu' = p
  /\ ctx' = [ctx EXCEPT ![p] = None]
  /\ UNCHANGED <<cur_term_id, now_term_id, running, video, derailed>>

\* What the user sees is not touched.
Idles ==
  /\ Booted \/ UNCHANGED vars
  /\ cur_term_id' \in Terms \/ UNCHANGED vars
  /\ video' \in {video, Screen}
  /\ UNCHANGED <<now_term_id, cur_pcb_id, running, PCB_mask, caller, ctx,
                 cpuVars, derailed>>

-----------------------------------------------------------------------------
(* Each action does one of these *)

\* While the kernel boots the shells are few enough for one more.
LEMMA RoomForShell ==
  ASSUME AInv, NEW n \in Terms, cur_pcb_id[n] = -1,
         \A t \in Terms : cur_pcb_id[t] \in {0, -1}
  PROVE  HasSlot(PCB_mask, n)
<1>1. PCB_mask \in SUBSET Pids /\ StackDiscipline
  BY DEF AInv, IInv, TypeOK
<1>2. <<n, 0>> \notin PCB_mask
  BY <1>1 DEF StackDiscipline
<1>3. FirstFree(PCB_mask, n, 0) /\ 0 \in Slots
  BY <1>2, SizesAssumption DEF FirstFree, Slots
<1>4. PCB_mask \cup {<<n, 0>>} \in SUBSET (Terms \X {0})
  BY <1>1 DEF StackDiscipline, Pids, Slots
<1>5. /\ IsFiniteSet(Terms \X {0})
      /\ Cardinality(Terms \X {0}) = TERM_MAX
  <2>1. IsFiniteSet(Terms) /\ Cardinality(Terms) = TERM_MAX
    <3>1. 0 \in Int /\ TERM_MAX - 1 \in Int
      BY SizesAssumption
    <3>2. /\ IsFiniteSet(Terms)
          /\ Cardinality(Terms) = IF 0 > TERM_MAX - 1 THEN 0 ELSE TERM_MAX - 1 - 0 + 1
      BY <3>1, FS_Interval DEF Terms
    <3>3. QED
      BY <3>2, SizesAssumption
  <2>2. IsFiniteSet({0}) /\ Cardinality({0}) = 1
    BY FS_Singleton
  <2>3. Cardinality(Terms \X {0}) = TERM_MAX * 1
    BY <2>1, <2>2, FS_Product
  <2>4. QED
    BY <2>1, <2>2, <2>3, FS_Product, SizesAssumption
<1>6. Cardinality(PCB_mask \cup {<<n, 0>>}) <= TERM_MAX
  BY <1>4, <1>5, FS_Subset
<1>7. IsFiniteSet(PCB_mask) /\ Cardinality(PCB_mask) \in Nat
  BY <1>1, PidsFinite
<1>8. Cardinality(PCB_mask \cup {<<n, 0>>}) = Cardinality(PCB_mask) + 1
  BY <1>2, <1>7, FS_AddElement
<1>9. QED
  BY <1>3, <1>6, <1>7, <1>8, SizesAssumption DEF HasSlot

\* A tick launches a shell until all run, and switches from then on.
LEMMA TickDoes ==
  ASSUME AInv, Tick
  PROVE  \E n \in Terms : Launches(n) \/ Resumes(n)
<1> DEFINE n == NextTerm(now_term_id)
<1>1. TypeOK /\ StackDiscipline /\ BootOrder /\ Coherent
  BY DEF AInv, IInv
<1>2. now_term_id \in Terms /\ n \in Terms
  BY <1>1, NextTermType DEF TypeOK
<1>3. now_term_id' = n /\ ctx' = Save(now_term_id) /\ ~derailed
  BY DEF Tick
<1>4. n = IF now_term_id + 1 < TERM_MAX THEN now_term_id + 1 ELSE 0
  BY <1>2, NextTermIs
<1>5. n \notin Launched
  BY <1>2, <1>4 DEF Launched, Terms
<1>6. CASE Booted
  <2>1. cur_pcb_id[n] # -1 /\ SwitchTo(n, Save(now_term_id))
    BY <1>2, <1>6 DEF Tick, Booted
  <2>2. cpu # Boot
    <3>1. 0 \in Terms
      BY SizesAssumption DEF Terms
    <3>2. ~(\A t \in Terms : cur_pcb_id[t] = -1)
      BY <1>6, <3>1 DEF Booted
    <3>3. QED
      BY <1>1, <3>2 DEF BootOrder
  <2>3. /\ Save(now_term_id)[Current(n)] = Current(n)
        /\ Current(n) = <<n, cur_pcb_id[n]>>
    BY <1>2, <2>1, <2>2, SavedFrames
  <2>4. Current(n) # None
    BY <1>2, <2>3, NoneIsNobody
  <2>5. Resumes(n)
    BY <1>3, <1>6, <2>1, <2>3, <2>4 DEF SwitchTo, Resumes
  <2>6. QED
    BY <1>2, <2>5
<1>7. CASE ~Booted
  <2>1. /\ cur_pcb_id[n] = -1 /\ ~running[n] /\ n # cur_term_id
        /\ \A t \in Terms : cur_pcb_id[t] \in {0, -1}
    <3>1. CASE /\ now_term_id = 0 /\ cur_term_id = NoTerm
               /\ \A t \in Terms : cur_pcb_id[t] = -1 /\ ~running[t]
      BY <1>2, <3>1, SizesAssumption DEF Terms, NoTerm
    <3>2. CASE /\ now_term_id # 0 /\ cur_term_id = now_term_id
               /\ \A t \in Terms :
                    /\ cur_pcb_id[t] = IF t \in Launched THEN 0 ELSE -1
                    /\ running[t] <=> t \in Launched
      <4>1. now_term_id \in Launched
        BY <1>2, <3>2 DEF Launched, Terms
      <4>2. QED
        BY <1>2, <1>5, <3>2, <4>1
    <3>3. QED
      BY <1>1, <1>7, <3>1, <3>2 DEF BootOrder
  <2>2. /\ cur_term_id' = n
        /\ running' = [running EXCEPT ![n] = TRUE]
        /\ execute(n)
        /\ UNCHANGED <<video, derailed>>
    BY <2>1 DEF Tick, term_launch
  <2>3. HasSlot(PCB_mask, n)
    BY <1>2, <2>1, RoomForShell
  <2>4. StartProgram(PCB_mask, cur_pcb_id, n)
    BY <2>2, <2>3 DEF execute
  <2>5. Agree(PCB_mask, cur_pcb_id) /\ cur_pcb_id \in [Terms -> Slots \cup {-1}]
    BY <1>1 DEF StackDiscipline, Agree, TypeOK
  <2>6. cur_pcb_id[n] + 1 = 0
    BY <2>1
  <2>7. /\ PCB_mask' = PCB_mask \cup {<<n, 0>>}
        /\ cur_pcb_id' = [cur_pcb_id EXCEPT ![n] = 0]
        /\ page' = <<n, 0>> /\ esp0' = <<n, 0>> /\ cpu' = <<n, 0>>
    BY <1>2, <2>4, <2>5, <2>6, ProgramStarts
  <2>8. Launches(n)
    BY <1>3, <1>5, <1>7, <2>1, <2>2, <2>7 DEF Launches
  <2>9. QED
    BY <1>2, <2>8
<1>8. QED
  BY <1>6, <1>7

\* execute in the terminal that runs and is displayed starts a program above
\* the running one, or finds no room.
LEMMA ExecuteDoes ==
  ASSUME AInv, Booted, OnScreen, Execute
  PROVE  Pushes \/ Idles
<1>1. TypeOK /\ StackDiscipline
  BY DEF AInv, IInv
<1>2. /\ cpu # Boot
      /\ execute(cur_term_id)
      /\ UNCHANGED <<cur_term_id, now_term_id, running, ctx, video, derailed>>
  BY DEF Execute
<1>3. cur_term_id = now_term_id /\ now_term_id \in Terms
  BY <1>1 DEF OnScreen, TypeOK
<1>4. Agree(PCB_mask, cur_pcb_id) /\ cur_pcb_id \in [Terms -> Slots \cup {-1}]
  BY <1>1 DEF StackDiscipline, Agree, TypeOK
<1>5. CASE /\ HasSlot(PCB_mask, now_term_id)
           /\ StartProgram(PCB_mask, cur_pcb_id, now_term_id)
  BY <1>2, <1>3, <1>4, <1>5, ProgramStarts DEF Pushes, HasSlot
<1>6. CASE UNCHANGED <<PCB_mask, cur_pcb_id, caller, cpuVars>>
  BY <1>2, <1>3, <1>6 DEF Idles
<1>7. QED
  BY <1>2, <1>3, <1>5, <1>6 DEF execute

\* halt of the running process goes back to the process below it, whose frame
\* it finds on that process's stack, or restarts the last shell.
LEMMA HaltDoes ==
  ASSUME AInv, Booted, CanEnd, halt
  PROVE  Pops \/ Restarts
<1> DEFINE t == now_term_id
           s == cur_pcb_id[t]
           p == <<t, s>>
           ids == [cur_pcb_id EXCEPT ![t] = s - 1]
<1>1. TypeOK /\ StackDiscipline /\ BootOrder /\ ParentsWait /\ TaskLimit
  BY DEF AInv, IInv
<1>2. cpu # Boot
  <2>1. 0 \in Terms
    BY SizesAssumption DEF Terms
  <2>2. ~(\A u \in Terms : cur_pcb_id[u] = -1)
    BY <2>1 DEF Booted
  <2>3. QED
    BY <1>1, <2>2 DEF BootOrder
<1>3. t \in Terms /\ s \in Slots /\ Current(t) = p /\ p \in Pids
  BY <1>2, RunningProcess
<1>4. /\ ctx' = [ctx EXCEPT ![p] = None]
      /\ UNCHANGED <<cur_term_id, now_term_id, running, video>>
      /\ ~derailed
  BY <1>3 DEF halt
<1>5. s # -1 /\ s \in Nat /\ p \in PCB_mask
  BY <1>1, <1>3 DEF Slots, StackDiscipline
<1>6. CASE s > 0
  <2>1. ParentOf(p) = <<t, s - 1>> /\ ParentOf(p) # None
    BY <1>3, <1>6, NoneIsNobody DEF ParentOf
  <2>2. ParentSlot(p) = s - 1
    BY <2>1 DEF ParentSlot
  <2>3. ReturnToParent(p)
    BY <1>3, <1>5, <2>1 DEF halt, RestartShell, ShellNotRestarted, HaltNobody
  <2>4. caller[p] = <<t, s - 1>>
    BY <1>1, <1>5, <1>6 DEF ParentsWait
  <2>5. Pops
    BY <1>2, <1>4, <1>6, <2>1, <2>2, <2>3, <2>4 DEF Pops, ReturnToParent
  <2>6. QED
    BY <2>5
<1>7. CASE s = 0
  <2>1. ParentOf(p) = None
    BY <1>7 DEF ParentOf
  <2>2. ParentSlot(p) = s - 1
    BY <1>7, <2>1 DEF ParentSlot
  <2>3. cur_term_id = t
    BY <1>3, <2>1 DEF CanEnd, OnScreen
  <2>4. /\ ids \in [Terms -> Slots \cup {-1}]
        /\ ids[t] = -1
        /\ \A u \in Terms \ {t} : ids[u] = cur_pcb_id[u]
    BY <1>1, <1>3, <1>7 DEF TypeOK
  <2>5. Agree(PCB_mask \ {p}, ids)
    <3>1. ASSUME NEW q \in Pids
          PROVE  q \in PCB_mask \ {p} <=> q[2] <= ids[q[1]]
      <4>1. q[1] \in Terms /\ q[2] \in Nat /\ q = <<q[1], q[2]>>
        BY DEF Pids, Slots
      <4>2. q \in PCB_mask <=> q[2] <= cur_pcb_id[q[1]]
        BY <1>1 DEF StackDiscipline
      <4>3. CASE q[1] = t
        BY <1>7, <2>4, <4>1, <4>2, <4>3
      <4>4. CASE q[1] # t
        BY <2>4, <4>1, <4>2, <4>4
      <4>5. QED
        BY <4>3, <4>4
    <3>2. QED
      BY <1>1, <3>1 DEF Agree, TypeOK
  <2>6. HasSlot(PCB_mask \ {p}, t)
    <3>1. FirstFree(PCB_mask \ {p}, t, 0) /\ 0 \in Slots
      BY <1>7, SizesAssumption DEF FirstFree, Slots
    <3>2. IsFiniteSet(PCB_mask) /\ IsFiniteSet(PCB_mask \ {p})
      BY <1>1, PidsFinite DEF TypeOK
    <3>3. Cardinality(PCB_mask \ {p}) + 1 = Cardinality(PCB_mask)
      <4>1. (PCB_mask \ {p}) \cup {p} = PCB_mask
        BY <1>5
      <4>2. QED
        BY <3>2, <4>1, FS_AddElement
    <3>4. QED
      BY <1>1, <3>1, <3>3 DEF HasSlot, TaskLimit
  <2>7. RestartShell(p)
    BY <1>3, <1>5, <2>1, <2>3, <2>6
       DEF halt, ReturnToParent, ShellNotRestarted, HaltNobody
  <2>8. StartProgram(PCB_mask \ {p}, ids, t) /\ derailed' = derailed
    BY <2>2, <2>3, <2>7 DEF RestartShell
  <2>9. /\ PCB_mask' = (PCB_mask \ {p}) \cup {<<t, 0>>}
        /\ cur_pcb_id' = [ids EXCEPT ![t] = 0]
        /\ caller' = [q \in Pids |-> IF q = <<t, 0>> THEN cpu
                        ELSE IF q \in PCB_mask \ {p} THEN caller[q] ELSE None]
        /\ page' = <<t, 0>> /\ esp0' = <<t, 0>> /\ cpu' = <<t, 0>>
    <3>1. ids[t] + 1 = 0
      BY <2>4
    <3> HIDE DEF ids, p
    <3>2. /\ PCB_mask' = (PCB_mask \ {p}) \cup {<<t, ids[t] + 1>>}
          /\ cur_pcb_id' = [ids EXCEPT ![t] = ids[t] + 1]
          /\ caller' = [q \in Pids |-> IF q = <<t, ids[t] + 1>> THEN cpu
                          ELSE IF q \in PCB_mask \ {p} THEN caller[q] ELSE None]
          /\ page' = <<t, ids[t] + 1>> /\ esp0' = <<t, ids[t] + 1>>
          /\ cpu' = <<t, ids[t] + 1>>
      BY <1>3, <2>4, <2>5, <2>8, ProgramStarts
    <3>3. QED
      BY <3>1, <3>2
  <2>10. PCB_mask' = PCB_mask /\ cur_pcb_id' = cur_pcb_id
    BY <1>1, <1>3, <1>5, <1>7, <2>9 DEF TypeOK
  <2>11. \A q \in PCB_mask \ {<<t, 0>>} : caller'[q] = caller[q]
    BY <1>1, <1>7, <2>9 DEF TypeOK
  <2>12. Restarts
    BY <1>2, <1>4, <1>7, <2>8, <2>9, <2>10, <2>11 DEF Restarts
  <2>13. QED
    BY <2>12
<1>8. QED
  BY <1>5, <1>6, <1>7

\* What a step of the attended system does.
LEMMA StepDoes ==
  ASSUME AInv, [AttendedNext]_vars
  PROVE  \/ \E n \in Terms : Launches(n) \/ Resumes(n)
         \/ Pushes \/ Pops \/ Restarts \/ Idles
<1>1. CASE Tick
  BY <1>1, TickDoes
<1>2. CASE Booted /\ OnScreen /\ Execute
  BY <1>2, ExecuteDoes
<1>3. CASE Booted /\ CanEnd /\ (Halt \/ CtrlC)
  BY <1>3, HaltDoes DEF Halt, CtrlC
<1>4. CASE Booted /\ (Vidmap \/ \E n \in Terms : AltF(n))
  <2>1. cur_term_id \in Terms
    <3>1. 0 \in Terms
      BY SizesAssumption DEF Terms
    <3>2. ~(\A u \in Terms : cur_pcb_id[u] = -1)
      BY <1>4, <3>1 DEF Booted
    <3>3. QED
      BY <3>2 DEF AInv, IInv, TypeOK, ShownOnceUsed
  <2>2. cur_term_id # NoTerm
    BY <2>1, SizesAssumption DEF Terms, NoTerm
  <2>3. CASE Vidmap
    BY <1>4, <2>1, <2>3 DEF Vidmap, Idles
  <2>4. ASSUME NEW n \in Terms, AltF(n) PROVE Idles
    <3>1. derailed = FALSE
      BY DEF AInv, IInv, TypeOK, Coherent
    <3>2. derailed' = FALSE
      BY <2>2, <2>4 DEF AltF
    <3>3. QED
      BY <1>4, <2>4, <3>1, <3>2 DEF AltF, Idles
  <2>5. QED
    BY <1>4, <2>3, <2>4
<1>5. CASE UNCHANGED vars
  BY <1>5 DEF vars, Idles, cpuVars
<1>6. QED
  BY <1>1, <1>2, <1>3, <1>4, <1>5 DEF AttendedNext

-----------------------------------------------------------------------------
(* The invariant *)

\* When every terminal has a process, every number in cur_pcb_id is a slot.
LEMMA BootedSlots ==
  ASSUME AInv, Booted, NEW t \in Terms
  PROVE  cur_pcb_id[t] \in Slots /\ cur_pcb_id[t] \in Nat /\ cur_pcb_id[t] # -1
BY DEF AInv, IInv, TypeOK, Booted, Slots

\* The first tick of every terminal: its shell is the process that runs.
LEMMA LaunchesKeeps ==
  ASSUME AInv, NEW n \in Terms, Launches(n), IInv'
  PROVE  AInv'
<1>1. TypeOK /\ Coherent /\ SavedContexts /\ ParentsWait /\ BootOrder /\ StackDiscipline
  BY DEF AInv, IInv
<1>2. /\ cur_pcb_id \in [Terms -> Slots \cup {-1}]
      /\ running \in [Terms -> BOOLEAN]
      /\ now_term_id \in Terms
  BY <1>1 DEF TypeOK
<1>3. n # -1 /\ n # 0 - 2
  BY DEF Terms
<1>4. cur_pcb_id'[n] = 0 /\ \A t \in Terms \ {n} : cur_pcb_id'[t] = cur_pcb_id[t]
  BY <1>2 DEF Launches
<1>5. Current(n)' = <<n, 0>>
  BY <1>4 DEF Launches, Current, PcbAt
<1>6. Coherent'
  BY <1>1, <1>4, <1>5 DEF Launches, Coherent
<1>7. SavedContexts'
  <2>1. SUFFICES ASSUME NEW t \in Terms \ {n}, cur_pcb_id'[t] # -1
                 PROVE  ctx'[Current(t)'] = Current(t)'
    BY DEF SavedContexts, Launches
  <2>2. cur_pcb_id[t] # -1 /\ Current(t)' = Current(t)
    BY <1>4, <2>1 DEF Current
  <2>3. cpu # Boot
    BY <1>1, <2>2, <1>2 DEF BootOrder
  <2>4. QED
    BY <2>2, <2>3, SavedFrames DEF Launches
<1>8. \A q \in PCB_mask' : q[2] = 0
  <2>1. \A t \in Terms : cur_pcb_id[t] \in {0, -1}
    BY <1>1 DEF BootOrder, Launches
  <2>2. \A q \in PCB_mask : q[2] = 0
    BY <1>1, <2>1 DEF StackDiscipline, Pids, Slots
  <2>3. QED
    BY <2>2 DEF Launches
<1>9. ParentsWait'
  BY <1>8 DEF ParentsWait
<1>10. video' = NoVideo
  BY <1>1 DEF BootOrder, Launches
<1>11. OwnPage'
  BY <1>10 DEF OwnPage, NoVideo, Terms
<1>12. BootOrder'
  <2>1. cpu' # Boot /\ cur_term_id' = n /\ now_term_id' = n
    BY <1>3 DEF Launches, Boot
  <2>2. n = IF now_term_id + 1 < TERM_MAX THEN now_term_id + 1 ELSE 0
    BY <1>2, NextTermIs DEF Launches
  <2>3. \A t \in Terms : /\ cur_pcb_id[t] = IF t \in Launched THEN 0 ELSE -1
                         /\ running[t] <=> t \in Launched
    BY <1>1 DEF BootOrder, Launches, Launched, Terms
  <2>4. CASE n = 0
    <3>1. Launched = Terms \ {0}
      BY <1>2, <2>2, <2>4, SizesAssumption DEF Launched, Terms
    <3>2. Booted'
      BY <1>4, <2>3, <2>4, <3>1 DEF Booted
    <3>3. QED
      BY <2>1, <3>2 DEF BootOrder
  <2>5. CASE n # 0
    <3>1. n = now_term_id + 1
      BY <2>2, <2>5
    <3>2. Launched' = Launched \cup {n}
      BY <1>2, <2>1, <3>1 DEF Launched, Terms
    <3>3. ASSUME NEW t \in Terms
          PROVE  /\ cur_pcb_id'[t] = IF t \in Launched' THEN 0 ELSE -1
                 /\ running'[t] <=> t \in Launched'
      <4>1. CASE t = n
        BY <1>2, <1>4, <3>2, <4>1 DEF Launches
      <4>2. CASE t # n
        BY <1>2, <1>4, <2>3, <3>2, <4>2 DEF Launches
      <4>3. QED
        BY <4>1, <4>2
    <3>4. QED
      BY <1>10, <2>1, <2>5, <3>3 DEF BootOrder
  <2>6. QED
    BY <2>4, <2>5
<1>13. QED
  BY <1>6, <1>7, <1>9, <1>11, <1>12 DEF AInv

\* A switch: the frame the next process goes on with is its own.
LEMMA ResumesKeeps ==
  ASSUME AInv, NEW n \in Terms, Resumes(n), IInv'
  PROVE  AInv'
<1>1. TypeOK /\ ParentsWait /\ BootOrder
  BY DEF AInv, IInv
<1>2. /\ Booted' /\ cur_term_id' \in Terms
      /\ now_term_id' = n /\ cur_pcb_id' = cur_pcb_id
  <2>1. cur_term_id \in Terms
    BY <1>1, BootedSlots, SizesAssumption DEF AInv, IInv, ShownOnceUsed, TypeOK, Resumes, Terms
  <2>2. QED
    BY <2>1 DEF Resumes, Booted
<1>3. cpu # Boot
  <2>1. 0 \in Terms
    BY SizesAssumption DEF Terms
  <2>2. cur_pcb_id[0] # -1
    BY <2>1 DEF Resumes, Booted
  <2>3. QED
    BY <1>1, <2>1, <2>2 DEF BootOrder
<1>4. \A t \in Terms : Current(t)' = Current(t) /\ Current(t) = <<t, cur_pcb_id[t]>>
  BY <1>2, BootedSlots DEF Current, PcbAt, Resumes
<1>5. Coherent'
  BY <1>2, <1>4 DEF Coherent, Resumes
<1>6. SavedContexts'
  BY <1>2, <1>3, <1>4, SavedFrames DEF SavedContexts, Resumes
<1>7. ParentsWait'
  BY <1>1 DEF ParentsWait, Resumes
<1>8. OwnPage'
  BY <1>2, SizesAssumption DEF OwnPage, VideoFor, Resumes, Screen, Terms
<1>9. BootOrder'
  <2>1. cpu' # Boot
    BY DEF Resumes, Boot, Terms
  <2>2. QED
    BY <1>2, <2>1 DEF BootOrder
<1>10. QED
  BY <1>5, <1>6, <1>7, <1>8, <1>9 DEF AInv

\* The other terminals and what they will go on with stay as they are while
\* terminal now_term_id's processes change.
LEMMA OthersKept ==
  ASSUME AInv, Booted, now_term_id' = now_term_id,
         \A t \in Terms \ {now_term_id} :
           /\ cur_pcb_id'[t] = cur_pcb_id[t]
           /\ ctx'[<<t, cur_pcb_id[t]>>] = ctx[<<t, cur_pcb_id[t]>>]
  PROVE  SavedContexts'
<1>1. SUFFICES ASSUME NEW t \in Terms \ {now_term_id}
               PROVE  ctx'[Current(t)'] = Current(t)'
  BY DEF SavedContexts
<1>2. Current(t) = <<t, cur_pcb_id[t]>> /\ Current(t)' = Current(t)
  BY BootedSlots DEF Current, PcbAt
<1>3. ctx[Current(t)] = Current(t)
  BY BootedSlots DEF AInv, SavedContexts
<1>4. QED
  BY <1>2, <1>3

\* A started program: its parent is the process that ran.
LEMMA PushesKeeps ==
  ASSUME AInv, Pushes, IInv'
  PROVE  AInv'
<1> DEFINE t == now_term_id
           s == cur_pcb_id[t] + 1
           p == <<t, s>>
<1>1. /\ TypeOK /\ Coherent /\ ParentsWait /\ StackDiscipline /\ OwnPage
      /\ Booted
  BY DEF AInv, IInv, Pushes
<1>2. /\ t \in Terms /\ cur_pcb_id[t] \in Slots /\ cpu = <<t, cur_pcb_id[t]>>
      /\ cpu \in Pids /\ ~derailed
  BY RunningProcess DEF Pushes
<1>3. s \in Slots /\ s \in Nat /\ p \in Pids
  BY <1>2 DEF Pushes, Slots, Pids
<1>4. cur_pcb_id'[t] = s /\ \A u \in Terms \ {t} : cur_pcb_id'[u] = cur_pcb_id[u]
  BY <1>1, <1>2 DEF Pushes, TypeOK
<1>5. Booted'
  BY <1>1, <1>3, <1>4 DEF Booted
<1>6. Current(t)' = p
  BY <1>3, <1>4 DEF Current, PcbAt, Pushes
<1>7. Coherent'
  BY <1>2, <1>3, <1>4, <1>6 DEF Coherent, Pushes
<1>8. SavedContexts'
  BY <1>1, <1>4, OthersKept DEF Pushes
<1>9. ParentsWait'
  <2>1. SUFFICES ASSUME NEW q \in PCB_mask', q[2] > 0
                 PROVE  /\ <<q[1], q[2] - 1>> \in PCB_mask'
                        /\ caller'[q] = <<q[1], q[2] - 1>>
    BY DEF ParentsWait
  <2>2. CASE q = p
    <3>1. <<t, cur_pcb_id[t]>> \in PCB_mask
      BY <1>1, <1>2 DEF StackDiscipline, Slots
    <3>2. q[2] - 1 = cur_pcb_id[t] /\ q[1] = t
      BY <1>2, <2>2 DEF Slots
    <3>3. caller'[q] = cpu
      BY <1>3, <2>2 DEF Pushes
    <3>4. QED
      BY <1>2, <3>1, <3>2, <3>3 DEF Pushes
  <2>3. CASE q # p
    <3>1. q \in PCB_mask /\ q \in Pids
      BY <1>1, <2>1, <2>3 DEF Pushes, TypeOK
    <3>2. caller'[q] = caller[q]
      BY <2>3, <3>1 DEF Pushes
    <3>3. QED
      BY <1>1, <2>1, <3>1, <3>2 DEF ParentsWait, Pushes
  <2>4. QED
    BY <2>2, <2>3
<1>10. OwnPage'
  BY <1>1 DEF OwnPage, Pushes
<1>11. BootOrder'
  <2>1. cpu' # Boot
    BY <1>2 DEF Pushes, Boot, Terms
  <2>2. cur_term_id' \in Terms
    BY <1>2 DEF Pushes, OnScreen
  <2>3. QED
    BY <1>5, <2>1, <2>2 DEF BootOrder
<1>12. QED
  BY <1>7, <1>8, <1>9, <1>10, <1>11 DEF AInv

\* A program's end: the one below it runs, on its own stack.
LEMMA PopsKeeps ==
  ASSUME AInv, Pops, IInv'
  PROVE  AInv'
<1> DEFINE t == now_term_id
           s == cur_pcb_id[t]
<1>1. /\ TypeOK /\ Coherent /\ ParentsWait /\ StackDiscipline /\ OwnPage
      /\ Booted
  BY DEF AInv, IInv, Pops
<1>2. t \in Terms /\ s \in Slots /\ ~derailed /\ s \in Nat /\ s > 0
  BY RunningProcess DEF Pops, Slots
<1>3. s - 1 \in Slots /\ s - 1 # -1
  BY <1>2, SizesAssumption DEF Slots
<1>4. cur_pcb_id'[t] = s - 1 /\ \A u \in Terms \ {t} : cur_pcb_id'[u] = cur_pcb_id[u]
  BY <1>1, <1>2 DEF Pops, TypeOK
<1>5. Booted'
  BY <1>1, <1>3, <1>4 DEF Booted
<1>6. Current(t)' = <<t, s - 1>>
  BY <1>3, <1>4 DEF Current, PcbAt, Pops
<1>7. Coherent'
  BY <1>2, <1>3, <1>4, <1>6 DEF Coherent, Pops
<1>8. SavedContexts'
  <2>1. \A u \in Terms \ {t} : ctx'[<<u, cur_pcb_id[u]>>] = ctx[<<u, cur_pcb_id[u]>>]
    <3>1. SUFFICES ASSUME NEW u \in Terms \ {t}
                   PROVE  ctx'[<<u, cur_pcb_id[u]>>] = ctx[<<u, cur_pcb_id[u]>>]
      OBVIOUS
    <3>2. <<u, cur_pcb_id[u]>> # <<t, s>> /\ <<u, cur_pcb_id[u]>> \in Pcbs
      BY <1>1, <3>1, BootedSlots DEF Pcbs, Pids
    <3>3. QED
      BY <1>1, <3>2 DEF Pops, TypeOK
  <2>2. QED
    BY <1>1, <1>4, <2>1, OthersKept DEF Pops
<1>9. ParentsWait'
  <2>1. SUFFICES ASSUME NEW q \in PCB_mask', q[2] > 0
                 PROVE  /\ <<q[1], q[2] - 1>> \in PCB_mask'
                        /\ caller'[q] = <<q[1], q[2] - 1>>
    BY DEF ParentsWait
  <2>2. q \in PCB_mask /\ q # <<t, s>> /\ q \in Pids
    BY <1>1, <2>1 DEF Pops, TypeOK
  <2>3. /\ <<q[1], q[2] - 1>> \in PCB_mask
        /\ caller[q] = <<q[1], q[2] - 1>>
    BY <1>1, <2>1, <2>2 DEF ParentsWait
  <2>4. <<q[1], q[2] - 1>> # <<t, s>>
    <3>1. q[2] <= cur_pcb_id[q[1]] /\ q[2] \in Int
      BY <1>1, <2>2 DEF StackDiscipline, Pids, Slots
    <3>2. SUFFICES ASSUME q[1] = t, q[2] - 1 = s PROVE FALSE
      OBVIOUS
    <3>3. QED
      BY <1>2, <3>1, <3>2
  <2>5. caller'[q] = caller[q]
    BY <1>1, <2>2 DEF Pops, TypeOK
  <2>6. QED
    BY <2>3, <2>4, <2>5 DEF Pops
<1>10. OwnPage'
  BY <1>1 DEF OwnPage, Pops
<1>11. BootOrder'
  <2>1. cpu' # Boot
    BY <1>2 DEF Pops, Boot, Terms
  <2>2. cur_term_id' \in Terms
    BY <1>1, BootedSlots, SizesAssumption DEF AInv, IInv, ShownOnceUsed, TypeOK, Pops, Terms
  <2>3. QED
    BY <1>5, <2>1, <2>2 DEF BootOrder
<1>12. QED
  BY <1>7, <1>8, <1>9, <1>10, <1>11 DEF AInv

\* A restarted shell takes the place of the one that ended.
LEMMA RestartsKeeps ==
  ASSUME AInv, Restarts, IInv'
  PROVE  AInv'
<1> DEFINE t == now_term_id
           p == <<t, 0>>
<1>1. /\ TypeOK /\ Coherent /\ ParentsWait /\ OwnPage /\ BootOrder
      /\ Booted
  BY DEF AInv, IInv, Restarts
<1>2. t \in Terms /\ ~derailed
  BY RunningProcess DEF Restarts
<1>3. Current(t)' = p
  BY DEF Current, PcbAt, Restarts
<1>4. Coherent'
  BY <1>2, <1>3 DEF Coherent, Restarts
<1>5. SavedContexts'
  <2>1. ASSUME NEW u \in Terms \ {t}
        PROVE  /\ cur_pcb_id'[u] = cur_pcb_id[u]
               /\ ctx'[<<u, cur_pcb_id[u]>>] = ctx[<<u, cur_pcb_id[u]>>]
    <3>1. <<u, cur_pcb_id[u]>> # p /\ <<u, cur_pcb_id[u]>> \in Pcbs
      BY <1>1, <2>1, BootedSlots DEF Pcbs, Pids
    <3>2. QED
      BY <1>1, <3>1 DEF Restarts, TypeOK
  <2>2. now_term_id' = now_term_id
    BY DEF Restarts
  <2>3. QED
    BY <1>1, <2>1, <2>2, OthersKept
<1>6. ParentsWait'
  <2>1. SUFFICES ASSUME NEW q \in PCB_mask, q[2] > 0
                 PROVE  /\ <<q[1], q[2] - 1>> \in PCB_mask
                        /\ caller'[q] = <<q[1], q[2] - 1>>
    BY DEF ParentsWait, Restarts
  <2>2. caller'[q] = caller[q]
    BY <2>1 DEF Restarts
  <2>3. QED
    BY <1>1, <2>1, <2>2 DEF ParentsWait
<1>7. OwnPage'
  BY <1>1 DEF OwnPage, Restarts
<1>8. BootOrder'
  <2>1. cpu' # Boot
    BY <1>2 DEF Restarts, Boot, Terms
  <2>2. cur_term_id' \in Terms
    BY <1>1, BootedSlots, SizesAssumption DEF AInv, IInv, ShownOnceUsed, TypeOK, Restarts, Terms
  <2>3. QED
    BY <1>1, <2>1, <2>2 DEF BootOrder, Booted, Restarts
<1>9. QED
  BY <1>4, <1>5, <1>6, <1>7, <1>8 DEF AInv

\* Nothing the invariant speaks of changes but what is on the screen.
LEMMA IdlesKeeps ==
  ASSUME AInv, Idles, IInv'
  PROVE  AInv'
<1>1. CASE UNCHANGED vars
  BY <1>1 DEF vars, AInv, Coherent, SavedContexts, ParentsWait, OwnPage,
              BootOrder, Booted, Launched, Current
<1>2. CASE Booted /\ cur_term_id' \in Terms
  <2>1. UNCHANGED <<now_term_id, cur_pcb_id, running, PCB_mask, caller, ctx,
                    page, esp0, cpu, derailed>>
    BY DEF Idles, cpuVars
  <2>2. Coherent' /\ SavedContexts' /\ ParentsWait'
    BY <2>1 DEF AInv, Coherent, SavedContexts, ParentsWait, Current
  <2>3. OwnPage'
    BY <2>1, SizesAssumption DEF AInv, OwnPage, Idles, Screen, Terms
  <2>4. cpu # Boot
    <3>1. 0 \in Terms
      BY SizesAssumption DEF Terms
    <3>2. cur_pcb_id[0] # -1
      BY <1>2, <3>1 DEF Booted
    <3>3. QED
      BY <3>1, <3>2 DEF AInv, BootOrder
  <2>5. BootOrder'
    BY <1>2, <2>1, <2>4 DEF BootOrder, Booted
  <2>6. QED
    BY <2>2, <2>3, <2>5 DEF AInv
<1>3. QED
  BY <1>1, <1>2 DEF Idles

\* An attended step is one of the unrestricted kernel.
LEMMA AttendedIsNext == [AttendedNext]_vars => [Next]_vars
BY DEF AttendedNext, Next

\* No attended step breaks the invariant.
LEMMA AttendedKeeps ==
  ASSUME AInv, [AttendedNext]_vars
  PROVE  AInv'
<1>1. IInv'
  BY AttendedIsNext, StepKeeps DEF AInv
<1>2. QED
  BY <1>1, StepDoes, LaunchesKeeps, ResumesKeeps, PushesKeeps, PopsKeeps,
     RestartsKeeps, IdlesKeeps

\* The state term_init leaves.
LEMMA AttendedInit == Init => AInv
<1> SUFFICES ASSUME Init PROVE AInv
  OBVIOUS
<1>1. IInv
  BY InitHolds
<1>2. Coherent /\ SavedContexts /\ ParentsWait /\ OwnPage /\ BootOrder
  BY DEF Init, Coherent, SavedContexts, ParentsWait, OwnPage, BootOrder,
         NoVideo, Terms
<1>3. QED
  BY <1>1, <1>2 DEF AInv

-----------------------------------------------------------------------------
(* The theorems *)

\* The invariant holds of every attended behaviour.
THEOREM AttendedInvariance == AttendedSpec => []AInv
<1>1. AInv /\ [AttendedNext]_vars => AInv'
  BY AttendedKeeps
<1>2. QED
  BY <1>1, AttendedInit, PTL DEF AttendedSpec

\* The CPU, the program page and tss.esp0 always belong to the newest process
\* of the terminal that has its turn, and the kernel never takes foreign memory
\* for a process's state.
THEOREM RightProcessRuns == AttendedSpec => []Coherent
<1>1. AInv => Coherent
  BY DEF AInv
<1>2. QED
  BY <1>1, AttendedInvariance, PTL

\* Every other terminal's newest process can be switched to.
THEOREM FramesSaved == AttendedSpec => []SavedContexts
<1>1. AInv => SavedContexts
  BY DEF AInv
<1>2. QED
  BY <1>1, AttendedInvariance, PTL

\* Every process halt would end has its parent waiting below it.
THEOREM ParentsBelow == AttendedSpec => []ParentsWait
<1>1. AInv => ParentsWait
  BY DEF AInv
<1>2. QED
  BY <1>1, AttendedInvariance, PTL

\* The timer maps at 132MB what the terminal it turns to is to draw on, and no
\* call or key changes that but to the screen's page.
LEMMA StepMapsVideo ==
  ASSUME AInv, [AttendedNext]_vars
  PROVE  /\ now_term_id' # now_term_id /\ Booted =>
               video' = IF cur_term_id' = now_term_id' THEN Screen ELSE now_term_id'
         /\ now_term_id' = now_term_id => video' \in {video, Screen}
<1>1. ASSUME NEW n \in Terms, Launches(n)
      PROVE  ~Booted /\ video' = video
  BY <1>1 DEF Launches
<1>2. ASSUME NEW n \in Terms, Resumes(n)
      PROVE  /\ video' = IF cur_term_id' = now_term_id' THEN Screen ELSE now_term_id'
             /\ now_term_id' = now_term_id => video' \in {video, Screen}
  <2>1. video' = IF cur_term_id # n THEN n ELSE Screen
    BY <1>2 DEF Resumes, VideoFor
  <2>2. now_term_id' = n /\ cur_term_id' = cur_term_id
    BY <1>2 DEF Resumes
  <2>3. ASSUME now_term_id' = now_term_id PROVE cur_term_id = n
    <3>1. TERM_MAX = 1 /\ Terms = {0}
      <4>1. now_term_id = NextTerm(now_term_id) /\ now_term_id \in Terms
        BY <1>2, <2>2, <2>3 DEF Resumes
      <4>2. TERM_MAX = 1
        BY <4>1, NextTermIs, SizesAssumption DEF Terms
      <4>3. QED
        BY <4>2 DEF Terms
    <3>2. cur_term_id \in Terms
      BY <1>2, BootedSlots, SizesAssumption DEF AInv, IInv, ShownOnceUsed, TypeOK, Resumes, Terms
    <3>3. QED
      BY <3>1, <3>2
  <2>4. QED
    BY <2>1, <2>2, <2>3
<1>3. CASE Pushes \/ Pops \/ Restarts \/ Idles
  BY <1>3 DEF Pushes, Pops, Restarts, Idles
<1>4. QED
  BY <1>1, <1>2, <1>3, StepDoes

\* Every turn begins with its own terminal's page, or the screen's if that is
\* displayed, and only the screen's takes its place before the turn ends.
THEOREM VideoIsolated == AttendedSpec => VideoIsolation
<1>1. ASSUME AInv, [AttendedNext]_vars
      PROVE  [/\ now_term_id' # now_term_id /\ Booted =>
                   video' = IF cur_term_id' = now_term_id' THEN Screen ELSE now_term_id'
              /\ now_term_id' = now_term_id => video' \in {video, Screen}
              /\ video' \in Terms => video' = now_term_id']_vars
  <2>1. OwnPage'
    BY <1>1, AttendedKeeps DEF AInv
  <2>2. QED
    BY <1>1, <2>1, StepMapsVideo DEF OwnPage
<1>2. QED
  BY <1>1, AttendedInvariance, PTL DEF AttendedSpec, VideoIsolation

-----------------------------------------------------------------------------
(* The refinement *)

\* The stacks of TerminalTasks as Multitasking maps them.
depth == [t \in Terms |-> cur_pcb_id[t] + 1]

\* Both modules count alike.
LEMMA SameCardinality ==
  ASSUME NEW S
  PROVE  Promise!Cardinality(S) = Cardinality(S)
BY DEF Promise!Cardinality, Cardinality

\* The tasks of the stacks are the processes of the mask.
LEMMA TasksAreProcesses ==
  ASSUME IInv
  PROVE  Promise!Tasks = PCB_mask
<1>1. StackDiscipline /\ cur_pcb_id \in [Terms -> Slots \cup {-1}]
  BY DEF IInv, TypeOK
<1>2. ASSUME NEW p \in Pids
      PROVE  p[2] < cur_pcb_id[p[1]] + 1 <=> p[2] <= cur_pcb_id[p[1]]
  <2>1. p[1] \in Terms /\ p[2] \in Int
    BY DEF Pids, Slots
  <2>2. cur_pcb_id[p[1]] \in Int
    BY <1>1, <2>1 DEF Slots
  <2>3. QED
    BY <2>1, <2>2
<1>3. Promise!Tasks = {p \in Pids : p[2] < cur_pcb_id[p[1]] + 1}
  BY DEF Promise!Tasks, Promise!Terms, Promise!Slots, Pids, Terms, Slots
<1>4. QED
  BY <1>1, <1>2, <1>3 DEF StackDiscipline

\* All shells run exactly when every stack has a program.
LEMMA StartedIsBooted ==
  ASSUME IInv
  PROVE  Promise!Started <=> Booted
<1>1. \A t \in Terms : cur_pcb_id[t] + 1 > 0 <=> cur_pcb_id[t] # -1
  BY DEF IInv, TypeOK, Slots
<1>2. QED
  BY <1>1 DEF Promise!Started, Promise!Terms, Terms, Booted

\* A tick that starts a shell rotates.
LEMMA LaunchRotates ==
  ASSUME AInv, NEW n \in Terms, Launches(n)
  PROVE  Promise!Rotate
<1>1. cur_pcb_id \in [Terms -> Slots \cup {-1}]
  BY DEF AInv, IInv, TypeOK
<1>2. now_term_id' = (now_term_id + 1) % TERM_MAX /\ now_term_id' = n
  BY DEF Launches, NextTerm
<1>3. depth[n] = 0 /\ depth'[n] = 1
  BY <1>1 DEF depth, Launches
<1>4. depth' = [depth EXCEPT ![n] = 1]
  <2>1. \A u \in Terms : cur_pcb_id'[u] + 1 = IF u = n THEN 1 ELSE cur_pcb_id[u] + 1
    BY <1>1 DEF Launches
  <2>2. QED
    BY <2>1 DEF depth
<1>5. cur_term_id' = n /\ cpu' = <<n, depth'[n] - 1>>
  BY <1>3 DEF Launches
<1>6. QED
  BY <1>2, <1>3, <1>4, <1>5 DEF Promise!Rotate, depth

\* A tick that goes on with a process rotates.
LEMMA ResumeRotates ==
  ASSUME AInv, NEW n \in Terms, Resumes(n)
  PROVE  Promise!Rotate
<1>1. now_term_id' = (now_term_id + 1) % TERM_MAX /\ now_term_id' = n
  BY DEF Resumes, NextTerm
<1>2. cur_pcb_id[n] \in Nat
  BY BootedSlots DEF Resumes
<1>3. depth[n] # 0 /\ depth[n] - 1 = cur_pcb_id[n]
  BY <1>2 DEF depth
<1>4. depth' = depth /\ depth' = [depth EXCEPT ![n] = depth[n]]
  BY DEF depth, Resumes
<1>5. cur_term_id' = cur_term_id /\ cpu' = <<n, depth'[n] - 1>>
  BY <1>3, <1>4 DEF Resumes
<1>6. QED
  BY <1>1, <1>3, <1>4, <1>5 DEF Promise!Rotate, depth

\* A program that starts is put on its terminal's stack.
LEMMA PushPushes ==
  ASSUME AInv, Pushes
  PROVE  Promise!Push
<1> DEFINE t == now_term_id
<1>1. IInv /\ cur_pcb_id \in [Terms -> Slots \cup {-1}] /\ t \in Terms
  BY DEF AInv, IInv, TypeOK
<1>2. Promise!Started
  BY <1>1, StartedIsBooted DEF Pushes
<1>3. depth[t] = cur_pcb_id[t] + 1 /\ depth[t] \in Slots
  BY <1>1 DEF depth, Pushes
<1>4. depth[t] < MAX_PCB_MASK_LEN
  BY <1>3, SizesAssumption DEF Slots
<1>5. Promise!Cardinality(Promise!Tasks) < MAX_TASKS
  <2>1. Cardinality(PCB_mask) \in Nat
    BY <1>1, PidsFinite DEF IInv, TypeOK
  <2>2. QED
    BY <1>1, <2>1, TasksAreProcesses, SameCardinality, SizesAssumption DEF Pushes
<1>6. depth' = [depth EXCEPT ![t] = depth[t] + 1]
  BY <1>1, <1>3 DEF depth, Pushes
<1>7. cpu' = <<t, depth[t]>>
  BY <1>3 DEF Pushes
<1>8. QED
  BY <1>2, <1>3, <1>4, <1>5, <1>6, <1>7 DEF Promise!Push, depth, Pushes, OnScreen

\* A program that ends is taken off its terminal's stack.
LEMMA PopPops ==
  ASSUME AInv, Pops
  PROVE  Promise!Pop
<1> DEFINE t == now_term_id
<1>1. cur_pcb_id \in [Terms -> Slots \cup {-1}] /\ t \in Terms /\ cur_pcb_id[t] \in Nat
  BY BootedSlots DEF AInv, IInv, TypeOK, Pops
<1>2. depth[t] = cur_pcb_id[t] + 1 /\ depth[t] > 1
  BY <1>1 DEF depth, Pops
<1>3. depth' = [depth EXCEPT ![t] = depth[t] - 1]
  <2>1. \A u \in Terms : cur_pcb_id'[u] + 1 =
                        IF u = t THEN depth[t] - 1 ELSE cur_pcb_id[u] + 1
    BY <1>1, <1>2 DEF Pops
  <2>2. QED
    BY <2>1 DEF depth
<1>4. cpu' = <<t, depth[t] - 2>>
  BY <1>1, <1>2 DEF Pops
<1>5. QED
  BY <1>2, <1>3, <1>4 DEF Promise!Pop, depth, Pops

\* Every attended step is a step of TerminalTasks, or none.
LEMMA StepRefines ==
  ASSUME AInv, [AttendedNext]_vars
  PROVE  [Promise!Next]_(Promise!vars)
<1>1. ASSUME NEW n \in Terms, Launches(n) \/ Resumes(n) PROVE Promise!Next
  BY <1>1, LaunchRotates, ResumeRotates DEF Promise!Next
<1>2. CASE Pushes \/ Pops
  BY <1>2, PushPushes, PopPops DEF Promise!Next
<1>3. CASE Restarts
  <2>1. cpu = <<now_term_id, 0>>
    BY <1>3, RunningProcess DEF Restarts
  <2>2. UNCHANGED <<cur_pcb_id, now_term_id, cur_term_id, cpu>>
    BY <1>3, <2>1 DEF Restarts
  <2>3. QED
    BY <2>2 DEF Promise!vars
<1>4. CASE Idles
  <2>1. CASE UNCHANGED vars
    BY <2>1 DEF vars, Promise!vars
  <2>2. CASE Booted /\ cur_term_id' \in Terms
    <3>1. Promise!Started
      BY <2>2, StartedIsBooted DEF AInv
    <3>2. UNCHANGED <<cur_pcb_id, now_term_id, cpu>>
      BY <1>4 DEF Idles, cpuVars
    <3>3. Promise!Show
      BY <2>2, <3>1, <3>2 DEF Promise!Show, Promise!Terms, Terms
    <3>4. QED
      BY <3>3 DEF Promise!Next
  <2>3. QED
    BY <1>4, <2>1, <2>2 DEF Idles
<1>5. QED
  BY <1>1, <1>2, <1>3, <1>4, StepDoes

\* With the registers, pages and PCBs hidden, every attended behaviour is one
\* of the stacks of programs and the round robin of TerminalTasks: its safety
\* part, for every number of terminals and slots and every task limit.
THEOREM Refinement == AttendedSpec => Promise!Init /\ [][Promise!Next]_(Promise!vars)
<1>1. Init => Promise!Init
  <2>1. SUFFICES ASSUME Init PROVE Promise!Init
    OBVIOUS
  <2>2. \A t \in Terms : cur_pcb_id[t] + 1 = 0
    BY <2>1 DEF Init
  <2>3. QED
    BY <2>1, <2>2
       DEF Init, Promise!Init, Promise!Terms, Promise!Boot, Terms, Boot, NoTerm
<1>2. AInv /\ [AttendedNext]_vars => [Promise!Next]_(Promise!vars)
  BY StepRefines
<1>3. QED
  BY <1>1, <1>2, AttendedInvariance, PTL DEF AttendedSpec

=============================================================================
