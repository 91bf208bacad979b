--------------------------------- MODULE Pic ---------------------------------
(***************************************************************************)
(* The interrupt controllers (i8259.c), the order in which the boot opens  *)
(* their lines (kernel.c), and what the four handlers owe them: the end of *)
(* interrupt and, for the clock, a read of its register C. Handlers and    *)
(* system calls run with interrupts off. A handler need not return: the    *)
(* timer's starts a shell or goes on with another process, the keyboard's  *)
(* ends a process.                                                         *)
(*                                                                         *)
(* The controllers are in their fully nested mode: a line in service holds *)
(* back itself and every line of lower priority.                           *)
(***************************************************************************)
EXTENDS Integers, Sequences

Master  == 0 .. 7
Slave   == 8 .. 15
Lines   == Master \cup Slave
Cascade == 2           \* the master's line the slave is at
Timer    == 0
Keyboard == 1
Clock    == 8
Mouse    == 12
Devices == {Timer, Keyboard, Clock, Mouse}

\* The calls of enable_irq: i8259_init, rtc_init, pit_init, keyboard_init,
\* mouse_init.
BootCalls == <<Cascade, Clock, Timer, Keyboard, Mouse>>

VARIABLES
  boot,         \* the calls of enable_irq made so far
  EFLAGS_IF,    \* the processor accepts interrupts
  handling,     \* the device whose handler runs, as a set
  master_mask,  \* the lines masked
  slave_mask,
  requested,    \* the lines with a request
  in_service,   \* the lines accepted whose end was not sent
  register_C    \* the clock has an interrupt its register C was not read for

maskVars == <<master_mask, slave_mask>>
vars == <<boot, EFLAGS_IF, handling, maskVars, requested, in_service, register_C>>

Init ==
  /\ boot = 0
  /\ EFLAGS_IF = FALSE
  /\ handling = {}
  /\ master_mask = Master
  /\ slave_mask = Slave
  /\ requested = {}
  /\ in_service = {}
  /\ register_C = FALSE

-----------------------------------------------------------------------------
(* The services of i8259.c *)

enable_irq_as_master(irq_num) ==                         \* mutant
  /\ master_mask' = master_mask \ {irq_num % 8}
  /\ UNCHANGED slave_mask

enable_irq(irq_num) ==
  IF irq_num < 8
    THEN /\ master_mask' = master_mask \ {irq_num}
         /\ UNCHANGED slave_mask
    ELSE /\ slave_mask' = slave_mask \ {irq_num}
         /\ UNCHANGED master_mask

send_eoi_once(irq_num) == {irq_num}                      \* mutant
\* The lines send_eoi takes out of service: a line of the slave has put the
\* master's line 2 in service too.
send_eoi(irq_num) == IF irq_num < 8 THEN {irq_num} ELSE {irq_num, Cascade}

-----------------------------------------------------------------------------
(* The controllers and the devices *)

MasterLine(n) == IF n < 8 THEN n ELSE Cascade

\* The requests the controllers may pass on.
Deliverable ==
  {n \in requested :
     /\ MasterLine(n) \notin master_mask
     /\ n \notin slave_mask
     /\ \A s \in in_service \cap Master : MasterLine(n) < s
     /\ \A s \in in_service \cap Slave : n \in Slave => n < s}

\* n comes before m.
Precedes(n, m) ==
  \/ MasterLine(n) < MasterLine(m)
  \/ MasterLine(n) = MasterLine(m) /\ n <= m

\* A device asks for an interrupt; the clock only after its register C was
\* read. Bound: a handler takes less time than passes between two requests, so
\* none comes during one.
Raise(n) ==
  /\ handling = {}
  /\ n = Clock => ~register_C
  /\ requested' = requested \cup {n}
  /\ register_C' = (register_C \/ n = Clock)
  /\ UNCHANGED <<boot, EFLAGS_IF, handling, maskVars, in_service>>

\* The processor takes the first request and enters its handler.
Accept(n) ==
  /\ EFLAGS_IF
  /\ n \in Deliverable
  /\ \A m \in Deliverable : Precedes(n, m)
  /\ requested' = requested \ {n}
  /\ in_service' = in_service \cup {n, MasterLine(n)}
  /\ handling' = {n}
  /\ EFLAGS_IF' = FALSE
  /\ UNCHANGED <<boot, maskVars, register_C>>

-----------------------------------------------------------------------------
(* The kernel *)

\* One of the devices' init functions, with interrupts off.
BootStep ==
  /\ boot < Len(BootCalls)
  /\ enable_irq(BootCalls[boot + 1])
  /\ boot' = boot + 1
  /\ UNCHANGED <<EFLAGS_IF, handling, requested, in_service, register_C>>

\* The sti at the end of the boot.
BootEnd ==
  /\ boot = Len(BootCalls)
  /\ boot' = boot + 1
  /\ EFLAGS_IF' = TRUE
  /\ UNCHANGED <<handling, maskVars, requested, in_service, register_C>>

Booted == boot > Len(BootCalls)

\* The end of the handler of n, in code that runs with interrupts on: what was
\* interrupted, or what the handler goes on with.
Leave(n) ==
  /\ handling = {n}
  /\ handling' = {}
  /\ EFLAGS_IF' = TRUE
  /\ UNCHANGED <<boot, maskVars, requested>>

AtReturnOnly(launch) == IF launch THEN {} ELSE send_eoi(Timer)     \* mutant

\* pit_interrupt_handler sends the end before it switches stacks or starts a
\* shell, from where it does not return.
TimerEnds(launch) == send_eoi(Timer)

TimerHandler ==
  /\ Leave(Timer)
  /\ \E launch \in BOOLEAN : in_service' = in_service \ TimerEnds(launch)
  /\ UNCHANGED register_C

\* keyboard_interrupt_handler sends it before Ctrl+C calls halt.
KeyboardHandler ==
  /\ Leave(Keyboard)
  /\ in_service' = in_service \ send_eoi(Keyboard)
  /\ UNCHANGED register_C

StaleClock == register_C                                 \* mutant

\* register_C after rtc_interrupt_handler has read it.
ReadClock == FALSE

ClockHandler ==
  /\ Leave(Clock)
  /\ in_service' = in_service \ send_eoi(Clock)
  /\ register_C' = ReadClock

MouseHandler ==
  /\ Leave(Mouse)
  /\ in_service' = in_service \ send_eoi(Mouse)
  /\ UNCHANGED register_C

\* A system call or an exception, and its end: the return to a process, or the
\* sti of term_read and rtc_read.
EnterKernel ==
  /\ EFLAGS_IF
  /\ EFLAGS_IF' = FALSE
  /\ UNCHANGED <<boot, handling, maskVars, requested, in_service, register_C>>

LeaveKernel ==
  /\ Booted
  /\ ~EFLAGS_IF
  /\ handling = {}
  /\ EFLAGS_IF' = TRUE
  /\ UNCHANGED <<boot, handling, maskVars, requested, in_service, register_C>>

Handler == TimerHandler \/ KeyboardHandler \/ ClockHandler \/ MouseHandler

Next ==
  \/ BootStep
  \/ BootEnd
  \/ \E n \in Devices : Accept(n)
  \/ Handler
  \/ EnterKernel
  \/ LeaveKernel
  \/ \E n \in Devices : Raise(n)

(***************************************************************************)
(* The clock asks again and again, the kernel's code with interrupts off   *)
(* ends, and a request that can be accepted again and again is.            *)
(***************************************************************************)
Spec ==
  /\ Init /\ [][Next]_vars
  /\ SF_vars(Raise(Clock))
  /\ WF_vars(BootStep \/ BootEnd \/ Handler \/ LeaveKernel)
  /\ \A n \in Devices : SF_vars(Accept(n))

-----------------------------------------------------------------------------

\* Code that runs with interrupts on has no line in service, which would hold
\* interrupts back for good: every path out of a handler, also those that never
\* return, has sent all ends of interrupt it owes. Only a booted kernel runs so.
NothingHeldBack == EFLAGS_IF => Booted /\ in_service = {}

\* The open lines: i8259.c's masks leave them to be passed on.
OpenLines == Lines \ (master_mask \cup slave_mask)

\* From the first enable_irq of the boot on no line is open that has no handler,
\* apart from the slave's: such a request would run undef_interrupt, which does
\* not return as an interrupt must. After the boot no device's line is left closed.
OpenLinesHaveHandlers ==
  /\ OpenLines \subseteq Devices \cup {Cascade}
  /\ Booted => OpenLines = Devices \cup {Cascade}

\* Every request is handled.
RequestsHandled == \A n \in Devices : (n \in requested) ~> (n \in handling)

\* The clock goes on interrupting.
ClockKeepsGoing == []<>(Clock \in handling)

=============================================================================
