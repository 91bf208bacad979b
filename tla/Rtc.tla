--------------------------------- MODULE Rtc ---------------------------------
(***************************************************************************)
(* The virtual clocks of rtc.c: the device always interrupts RTC_MAX times *)
(* a second; each process has a frequency and a counter in its PCB; a read *)
(* sets the counter and spins, with interrupts on, until the handler has   *)
(* counted it down. The handler serves the newest process of each terminal *)
(* only; execute does not touch the two fields, so a new process finds     *)
(* what the last one in its slot left there.                               *)
(*                                                                         *)
(* The system is the attended one of Multitasking: programs start, and     *)
(* root shells end, in the terminal on the screen. execute takes the       *)
(* displayed terminal for its caller's, and a process it put into another  *)
(* terminal would stop the clock of the reader below it there.             *)
(***************************************************************************)
EXTENDS Integers

CONSTANTS
  TERM_MAX,          \* number of terminals
  MAX_PCB_MASK_LEN,  \* process slots of one terminal
  RTC_MAX,           \* frequency of the device (1024 in the kernel)
  Requests           \* the numbers programs pass to rtc_write

ASSUME RtcAssumption ==
  /\ TERM_MAX \in Nat \ {0}
  /\ MAX_PCB_MASK_LEN \in Nat \ {0}
  /\ RTC_MAX \in Nat \ {0, 1}
  /\ Requests \subseteq Int

Terms == 0 .. TERM_MAX - 1
Slots == 0 .. MAX_PCB_MASK_LEN - 1
Pids  == Terms \X Slots

VARIABLES
  cur_term_id,  \* the terminal on the screen
  now_term_id,  \* the terminal whose process has the CPU
  cur_pcb_id,   \* cur_pcb_id[t]: slot of t's newest process
  rtc_freq,     \* pcb.rtc_freq, 0 before the first rtc_open in the slot
  rtc_counter,  \* pcb.rtc_counter
  opened,       \* the process has a file descriptor of the device
  reading,      \* it is inside rtc_read
  elapsed       \* history: interrupts since its read began, up to its period

pcbVars == <<rtc_freq, rtc_counter>>
taskVars == <<cur_term_id, now_term_id, cur_pcb_id>>
rtcVars == <<taskVars, pcbVars, opened, reading, elapsed>>

\* A state after the three shells have been started; the last one has put its
\* terminal on the screen.
RtcInit ==
  /\ cur_term_id = TERM_MAX - 1
  /\ now_term_id = 0
  /\ cur_pcb_id = [t \in Terms |-> 0]
  /\ rtc_freq = [p \in Pids |-> 0]
  /\ rtc_counter = [p \in Pids |-> 0]
  /\ opened = [p \in Pids |-> FALSE]
  /\ reading = [p \in Pids |-> FALSE]
  /\ elapsed = [p \in Pids |-> 0]

\* get_pcb_from_id(term[t].cur_pcb_id + t * MAX_PCB_MASK_LEN).
Newest(t) == <<t, cur_pcb_id[t]>>
Running == Newest(now_term_id)

ValidWithZero(freq) ==                                   \* mutant
  freq \in 0 .. RTC_MAX /\ freq # 1

\* The test of rtc_write: a power of two, more than 1, at most RTC_MAX.
Valid(freq) ==
  /\ freq \in 2 .. RTC_MAX
  /\ \E k \in 1 .. freq : freq = 2 ^ k

Period(p) == RTC_MAX \div rtc_freq[p]

-----------------------------------------------------------------------------
(* Interrupts *)

OnlyRunning(p) == p = Running                            \* mutant

\* The handler counts for the newest process of every terminal.
Served(p) == p = Newest(p[1])

CountDown(p) ==
  IF Served(p) /\ rtc_counter[p] > 0 THEN rtc_counter[p] - 1 ELSE rtc_counter[p]

\* rtc_interrupt_handler.
Irq ==
  /\ rtc_counter' = [p \in Pids |-> CountDown(p)]
  /\ elapsed' = [p \in Pids |->
       IF reading[p] /\ elapsed[p] < Period(p) THEN elapsed[p] + 1 ELSE elapsed[p]]
  /\ UNCHANGED <<taskVars, rtc_freq, opened, reading>>

\* pit_interrupt_handler.
Tick ==
  /\ now_term_id' = (now_term_id + 1) % TERM_MAX
  /\ UNCHANGED <<cur_term_id, cur_pcb_id, pcbVars, opened, reading, elapsed>>

\* Alt+F1, Alt+F2, Alt+F3.
AltF(n) ==
  /\ cur_term_id' = n
  /\ UNCHANGED <<now_term_id, cur_pcb_id, pcbVars, opened, reading, elapsed>>

-----------------------------------------------------------------------------
(* The process that has the CPU *)

Open ==
  /\ ~reading[Running]
  /\ opened' = [opened EXCEPT ![Running] = TRUE]
  /\ rtc_freq' = [rtc_freq EXCEPT ![Running] = 2]
  /\ rtc_counter' = [rtc_counter EXCEPT ![Running] = RTC_MAX \div 2]
  /\ UNCHANGED <<taskVars, reading, elapsed>>

\* The last descriptor of the device is closed; rtc_close leaves the clock as
\* it is.
Close ==
  /\ ~reading[Running]
  /\ opened[Running]
  /\ opened' = [opened EXCEPT ![Running] = FALSE]
  /\ UNCHANGED <<taskVars, pcbVars, reading, elapsed>>

\* rtc_write of four bytes; any other number of them or an invalid frequency
\* returns -1 and changes nothing.
Write(freq) ==
  /\ ~reading[Running]
  /\ opened[Running]
  /\ Valid(freq)
  /\ rtc_freq' = [rtc_freq EXCEPT ![Running] = freq]
  /\ UNCHANGED <<taskVars, rtc_counter, opened, reading, elapsed>>

\* rtc_read up to its loop.
Read ==
  /\ ~reading[Running]
  /\ opened[Running]
  /\ rtc_counter' = [rtc_counter EXCEPT ![Running] = Period(Running)]
  /\ reading' = [reading EXCEPT ![Running] = TRUE]
  /\ elapsed' = [elapsed EXCEPT ![Running] = 0]
  /\ UNCHANGED <<taskVars, rtc_freq, opened>>

\* The loop ends.
Return(t) ==
  LET p == Newest(t) IN
  /\ now_term_id = t
  /\ reading[p]
  /\ rtc_counter[p] = 0
  /\ reading' = [reading EXCEPT ![p] = FALSE]
  /\ elapsed' = [elapsed EXCEPT ![p] = 0]
  /\ UNCHANGED <<taskVars, pcbVars, opened>>

OnScreen == cur_term_id = now_term_id

\* execute: a child in the next slot of the displayed terminal, with no file
\* open but the standard ones.
Execute ==
  /\ OnScreen
  /\ ~reading[Running]
  /\ cur_pcb_id[now_term_id] + 1 \in Slots
  /\ cur_pcb_id' = [cur_pcb_id EXCEPT ![now_term_id] = @ + 1]
  /\ opened' = [opened EXCEPT ![<<now_term_id, cur_pcb_id[now_term_id] + 1>>] = FALSE]
  /\ UNCHANGED <<cur_term_id, now_term_id, pcbVars, reading, elapsed>>

\* The processes whose files halt closes with those of the newest of t: close
\* takes the PCB from term[t].cur_pcb_id, which is the parent's already, and
\* below a root shell, of number -1, that of the last slot before t's.
ClosedWith(t) ==
  {Newest(t)} \cup
    (IF cur_pcb_id[t] > 0 THEN {<<t, cur_pcb_id[t] - 1>>}
     ELSE IF t > 0 THEN {<<t - 1, MAX_PCB_MASK_LEN - 1>>} ELSE {})

\* A process with a parent ends anywhere; the shell that follows a root shell
\* starts in the displayed terminal.
CanEnd == OnScreen \/ cur_pcb_id[now_term_id] > 0

\* halt, by the process or, also inside rtc_read, by Ctrl+C: back to the
\* parent, or a new shell in slot 0. Which files besides its own it closes
\* depends on their numbers.
Halt ==
  /\ CanEnd
  /\ cur_pcb_id' = [cur_pcb_id EXCEPT ![now_term_id] = IF @ = 0 THEN 0 ELSE @ - 1]
  /\ \E closed \in SUBSET ClosedWith(now_term_id) :
       /\ Running \in closed
       /\ opened' = [p \in Pids |-> opened[p] /\ p \notin closed]
  /\ reading' = [reading EXCEPT ![Running] = FALSE]
  /\ elapsed' = [elapsed EXCEPT ![Running] = 0]
  /\ UNCHANGED <<cur_term_id, now_term_id, pcbVars>>

RtcNext ==
  \/ Irq
  \/ Tick
  \/ \E n \in Terms : AltF(n)
  \/ Open
  \/ Close
  \/ \E freq \in Requests : Write(freq)
  \/ Read
  \/ \E t \in Terms : Return(t)
  \/ Execute
  \/ Halt

RtcSpec == RtcInit /\ [][RtcNext]_rtcVars

(***************************************************************************)
(* Both devices keep interrupting, and a slice is longer than a turn of    *)
(* the loop of rtc_read.                                                   *)
(***************************************************************************)
FairSpec ==
  RtcSpec /\ WF_rtcVars(Irq) /\ WF_rtcVars(Tick) /\ \A t \in Terms : SF_rtcVars(Return(t))

-----------------------------------------------------------------------------

\* The type of the state.
TypeOK ==
  /\ cur_term_id \in Terms
  /\ now_term_id \in Terms
  /\ cur_pcb_id \in [Terms -> Slots]
  /\ rtc_freq \in [Pids -> {0} \cup 2 .. RTC_MAX]
  /\ rtc_counter \in [Pids -> 0 .. RTC_MAX]
  /\ opened \in [Pids -> BOOLEAN]
  /\ reading \in [Pids -> BOOLEAN]
  /\ elapsed \in [Pids -> 0 .. RTC_MAX]

\* rtc_read divides by pcb.rtc_freq, which execute leaves as it was: whoever
\* holds the device has set it.
NoDivisionByZero == \A p \in Pids : opened[p] => rtc_freq[p] # 0

\* Virtualisation: whatever the others open, write and read, start on the
\* screen and end, a process inside rtc_read has waited exactly as many
\* interrupts as its counter lacks to the period of its own frequency. Started
\* from the background, a program takes the reader of the displayed terminal
\* off the clock: the attended system excludes it.
ExactWait ==
  \A p \in Pids :
    reading[p] =>
      elapsed[p] <= Period(p) /\ rtc_counter[p] = Period(p) - elapsed[p]

\* Every read of the clock returns or ends with its process, again if programs
\* start on the screen only: then only a terminal's newest process is inside one.
ReadReturns == \A t \in Terms : []<>~reading[Newest(t)]

=============================================================================
