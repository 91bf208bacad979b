# A verification of the kernel

TLA+ models of the kernel in `src/student-distrib`, their model-checking runs
and machine-checked proofs. Line numbers are those of the repository; paths
without a directory are in `src/student-distrib`.

## 1. The system

A 32-bit x86 kernel with three text terminals. Each terminal has a stack of
programs, a shell at the bottom; the timer gives the CPU to the terminals in
turn, to the newest program of each. One terminal is on the screen and has the
keyboard. Interrupt and system-call gates clear the interrupt flag
(`idt.c:53-70`), so a handler or a system call is atomic, except where it turns
interrupts on again: `term_read` and `rtc_read` spin with interrupts on. That is
the whole of the concurrency: handlers, calls and steps of these two loops, in
any order.

| component | state | operations | properties that make it correct |
|---|---|---|---|
| processes (`system_call.c`) | `PCB_mask`, PCBs (parent number, saved ksp/kbp), page at 128MB, `tss.esp0` | `execute`, `halt`, exceptions | slots, masks and parents agree; the task limit; `halt` returns to the parent's stack; a terminal never loses its shell |
| scheduler (`scheduling.c`) | `now_term_id`, saved frames in the PCBs | the timer's handler | each process gets its own stack and page back; no terminal starves; all shells start |
| terminals (`terminal.c`) | `cur_term_id`, `term[]`: newest process, key buffer, cursor, screen page | launch, switch, save, restore, read, write | a line and a screen per terminal out of one key buffer and one screen |
| keyboard (`keyboard.c`) | `key_buf`, `key_buf_idx`, shift/ctrl/alt | the handler, `buf_clear` | indices stay in the buffer; text ends where the index says; Enter wakes the reader |
| clock (`rtc.c`) | per PCB `rtc_freq`, `rtc_counter` | open, close, read, write, the handler | virtual clocks do not disturb each other; reads return; no division by 0 |
| descriptors (`system_call.c`) | `fds[]` in each PCB | open, close, read, write, `execute`, `halt` | streams stay open; a descriptor keeps its file; reads are contiguous; processes do not touch each other's |
| file system (`file_system.c`) | image in memory, `num_file_read` | lookup, `read_data`, `file_read`, `dir_read` | reads return the file's bytes; the directory is read in order |
| interrupt controllers (`i8259.c`, inits, `mouse.c`) | masks; in hardware the requests and lines in service | `enable_irq`, `send_eoi` | no path leaves a line in service; open lines have handlers; requests are handled |
| paging (`paging.c`) | page directory and tables | mapping of the program page, of 132MB, of the screen pages | a program sees its page and the video memory it should |
| screen (`lib.c`) | cursor, `video_mem` | `putc`, `multi_putc`, scroll, backspace, clear | every terminal's text is what was written to it, on the screen or in its page |
| formatted output (`lib.c`) | | `printf`, `puts`, `itoa`, `term_write` | numbers read back; a format is read to its end and not behind it |
| memory (`lib.c`) | registers, direction flag | `memset`, `memcpy`, `memmove` and the wide fills | a call fills its block and touches no other byte |
| command line (`system_call.c`) | local arrays of `execute`, `argbuf` of the PCB | the parser, the checks of the file, `getargs` | name and arguments arrive; a failed `execute` changes nothing |
| entry (`idt.c`, `idt_handler.S`), boot (`boot.S`, `kernel.c`) | IDT, stacks | gates, register save, boot order | devices are opened before the first `sti` |
| user programs (`syscalls/`, `fish/`) | their buffers | `cat`, `grep`, `syserr`, the shell's reading of a line; elsewhere any system calls | every byte of a file once; every line matched once |

The components meet in a few shared variables: `now_term_id` (written by the
timer, read by almost every system call), `cur_term_id` (written by Alt+Fn and
`term_launch`, read by `execute`, the timer, the keyboard and the output),
`term[t].cur_pcb_id` (written by `execute` and `halt`, read by the timer, the
clock's handler and every system call) and the one key buffer. Most of what can
go wrong is a mix-up of the first two.

The hard behaviours are: ticks and keys between any two calls and inside the two
spinning reads; Alt+Fn while a process of another terminal runs; handlers that
do not return (a tick that starts a shell or goes on with another process,
Ctrl+C); long sequences of `execute` and `halt` over the slots and the limit;
state shared by all processes (`num_file_read`, key buffer). Nothing is
persistent, there is one processor, and there are no messages: crash recovery
and delivery play no part. The rest of the difficulty is sequential: loops and
parsers whose ends are a test apart from an overrun (`memset`'s dword loop,
`printf`'s format, the command line, `read_data`'s block changes, `grep`'s
buffer). `PROJECT.json` lists the hazards line by line.

## 2. The modules

| module | models | abstract specification |
|---|---|---|
| `Multitasking` | processes, scheduler, terminals as far as they move processes, the page at 132MB | `TerminalTasks` |
| `Paging` | `Multitasking` with the page directory, the tables, the processor's translation, and which program lies where | `Multitasking` (attended) |
| `LineInput` (`MCLineInput`) | keyboard, key buffer, `term_read` character by character | `LineDiscipline` |
| `Rtc` | virtual clocks, `rtc_read` as a loop | |
| `FileDescriptors` (`MCFileDescriptors`) | descriptors over open, close, read, `execute`, `halt` | |
| `Pic` | 8259 controllers, boot order, the duties of the handlers | |
| `Screen` (`MCScreen`) | screen, pages, both families of output functions, the echo, `term_switch` | `Consoles` |
| `Memory` | `memset`, `memset_word`, `memset_dword`, `memcpy`, `memmove` by instruction groups | what C says of them (`Promised`) |
| `Strings` | `strlen`, `strncmp`, `strcpy`, `ece391_strcmp`, `ece391_strcpy` as operators | |
| `Printf` | `printf`, `itoa`, `puts`, `term_write` under the shell's use of them | |
| `Commands` | the shell's line, the parser and the checks of `execute`, `getargs`, the report of the status | |
| `ReadData` | the loop of `read_data`, the position, `cat` | the bytes of the file in order |
| `Grep` | `do_one_file` of `grep` | the lines of the file |
| `SystemErrors` | the error tests of `syserr` over the six calls they make | |
| `MCRoutines` | the six before, one per behaviour | |
| `MultitaskingProofs`, `PagingProofs`, `LineInputProofs`, `ScreenProofs` | theorems about the modules of these names | |
| `FileDescriptorsProofs` | theorems about `FileDescriptors` and `SystemErrors` | |
| `KernelProofs` | theorems about `Memory`, `ReadData`, `Pic`, `Rtc` | |
| `TextProofs`, `GrepProofs` | theorems about `Strings`, `Printf`, `Commands`, and about `Grep` | |

### Multitasking

The process numbered `t*4+s` is the pair `<<t, s>>`; the pair also names its PCB,
its kernel stack and its 4MB page, since the code computes all three addresses
from the number. `cpu` is the stack the processor is really on; `ctx` and
`caller` say on whose stack the frame lies that the timer saved (`ksp`, `kbp`)
or that `halt` returns to (`parent_ksp`, `parent_kbp`). So "the right process
goes on" is a statement about these values and not assumed.

`Tick` is the whole of `pit_interrupt_handler`: the save in the PCB taken for the
old terminal's process, then either `term_launch` (which may find the terminal
on the screen and return, `terminal.c:71`, or run `execute("shell")`) or the
switch. `Execute`, `Halt` and `CtrlC` use the terminals the code uses: `execute`
the displayed one, `halt` the one that has the CPU. `PcbAt` keeps the arithmetic
of `get_pcb_from_id`: a terminal without a process (`-1`) designates the last
slot of the terminal before.

When the kernel takes memory for a process's state that is not (`term[3]` before
the first tick, a halt in a terminal without a process, a frame nobody saved) the
variable `derailed` becomes TRUE and the model stops: what follows depends on the
memory there. `Coherent` says that attended behaviours never come there; the
other properties of the run over all behaviours, and the theorems, speak of what
happens up to that step. It is also why `tasks_any` has no deadlock check.

Left out: the PCB contents of ended processes (`execute` writes a field before
anything reads it), and the failure of `execute` for a name that is not a
program (nothing changes). The name, the arguments and the status are in
`Commands`.

### Paging

`Multitasking`'s `page` and `video` say what is to be mapped at 128MB and 132MB;
`Paging` adds what `paging.c` writes for it. A page is a pair `<<d, i>>`: `d` is an
entry of the directory, or, of the memory, a region of 4MB (0 has the screen, 1 is
the kernel with all PCBs and kernel stacks, `2 + n` belongs to process number `n`);
`i` is the page in it. An entry has its present, user and size bits and its
address. `Walk` is what the processor makes of them (external). The action of a
call is `Multitasking`'s with its writes to the tables: `MapAndLoad` in `execute`,
`HaltMaps` in `halt` (with the shell it may start again), `TickMaps` in the timer,
`syscall_video_mapping` in `vidmap`. `loaded` says whose program the loader wrote
into a region: it writes through 128MB, that is wherever the directory leads at
that moment. Behaviours are the attended ones. Every mapping reloads CR3, so no
translation is older than the tables and the TLB is left out. The terminals'
entries of `page_tab` do not change after the boot.

### LineInput

One process per terminal stands for the newest. `term_read` is six steps: the
spin, the reset of `enter_state`, one turn of the copy loop, its end, one turn of
`buf_clear`, its end. Keys, Alt+Fn, Ctrl+C and the timer come between any two.
`halt` and Ctrl+C run with interrupts off, there `buf_clear` is one step. The
initial state is a booted kernel with terminal 0 on the screen and on the CPU.
`term[t].key_buf` of the displayed terminal is never read and is kept empty.

### Rtc

`rtc_read` is its start and its return; between them are interrupts, ticks and
the calls of the other processes. `elapsed` is a history variable. `rtc_freq` is
0 only in a slot that never opened the device; `execute` does not reset it, and
the model keeps what the slot's last process left. Which files of the parent
`halt` closes by mistake (below) depends on descriptor numbers, so `Halt`
chooses. The system is the attended one of section 3: `Execute` needs the terminal on
the screen to be the one that runs (`OnScreen`), and so does the end of a root
shell (`CanEnd`), since the code takes the displayed terminal for both. In any other
state the child would become the newest process of the displayed terminal, and the
handler would stop counting for a reader there: finding 1 of section 4. `AltF`
changes the screen at any time.

### FileDescriptors

A descriptor is the record of the code; `returned` is a history variable of what
was read through it. `read_data` is abstracted to the number of bytes it copies,
`min(n, size - position)`, for an image whose unused block numbers are in range;
`ReadData` has its loop, for all images, and shows that it returns these bytes.
`halt` closes the files as the code does: it clears the flags of the process that
ends and calls `close`, which looks in the PCB of `term[t].cur_pcb_id`, by then
the parent's. The system is attended as in `Rtc`, with the same guards `OnScreen` and
`CanEnd`, so `get_cur_pcb` (by the stack pointer) and `get_pcb_from_id` (by the
terminal) are the same PCB, which `Multitasking` shows of attended behaviours
(`Coherent`). `open`'s default
case does not occur: the image has the three types only. A write changes no
descriptor.

### Pic

The controllers (external: requests, priority, lines in service, nested mode) are
modelled as far as the code relies on them; masks, `enable_irq`,
`send_eoi`, the boot order and the handlers are the code. A handler is one step
that may end in any code that runs with interrupts on. Exceptions and system
calls are `EnterKernel`/`LeaveKernel`. Bound: `Raise` has no request come during
a handler.

### Screen

A frame is a function from cells to character and colour. `page[t]` is the memory
at `term[t].video_mem`; `video_mem`, lib.c's pointer, is a variable, because it
outlives the call that set it and `multi_putc` writes a colour through it.
`putc` writes to the screen and resets the pointer, `multi_putc` writes to the
page of `now_term_id`. A write of several characters is several steps, which only
adds behaviours: the calls run with interrupts off. Left out: the hardware
cursor and the choice of the colour numbers; the colour is the terminal's number.
`ImplementsConsoles` is about text; colours follow `multi_putc`'s rule and are
not promised.

### Memory

One call. A step is one iteration of a byte loop, one `rep` iteration, or the
code between two of them; `edi`, `esi`, `ecx`, `edx` and the direction flag are
variables. Every block inside the memory is an initial state, with any overlap.
`Tangled` excludes from the promise of `memcpy` the overlap that C leaves open;
no call in the kernel has one.

### Strings, Printf

A string is a buffer: the characters, and those that lie behind the terminator.
`Printf` walks the format by the index `buf` and the arguments by `esp` (cells of
the stack); `last` keeps the last conversion for the property. `itoa` is modelled
by digits and their reversal. A call is a message of the kernel, or `term_write`,
whose buffer may hold terminators; what lies in memory behind the text is a
choice (`Behind`).

### Commands

The shell's line as `ece391_read` leaves it, with a terminator for its newline, then one step per character of the
parser of `execute`, one per check (directory, header, slot), `getargs` of the
program, and the shell's report. `KindOf` says of a file whether its header is an
executable's; of a file shorter than a header it is a choice, as `headerbuf` is not
initialised, and so is the byte behind `filename` (`Stale`). Names and arguments have at most `MAX_FILENAME_LENGTH` and
`MAX_ARG_LENGTH` characters, with names one longer and arguments longer tried too.

### ReadData, Grep, SystemErrors

A byte of the image is named by its place `<<block, byte>>`, so a wrong byte shows
as a wrong place. Entries of an inode behind the file's last block are arbitrary.
`ReadData` is driven by `cat`, with chunks that do and do not divide a block;
`Grep` by files of lines, with its uninitialised byte as a choice;
`SystemErrors` runs the tests of `ece391syserr.c` one by one against the checks
at the entry of the calls.

### MCRoutines

These parts share no state, so one run has a behaviour choose its part and keeps
the variables of the others at one value. Each part returns or exits, therefore no
deadlock check.

## 3. The runs

| run | question | constants | states |
|---|---|---|---|
| `tasks_any` | do the records of the processes agree in every order of calls, keys, ticks, and when may a terminal lose its last process (`RootShells`)? | 2 terminals, 2 slots, limit 3 | 73 thousand |
| `tasks_attended` (`Paging`) | does the attended kernel keep stacks, pages, frames and the video page of a turn (`VideoIsolation`) with their processes, run every terminal, implement `TerminalTasks`, and do the page tables keep programs and kernel apart? | the kernel's: 3, 4, 6; tables of 8 entries | 21 thousand |
| `line_any` | do indices stay in range, does Enter wake the reader, in any interleaving? | 2 terminals, buffer 2, one key | 476 thousand |
| `line_attended` | is the one key buffer a line per terminal (`LineDiscipline`)? | 2 terminals, buffer 3, two keys | 140 thousand |
| `rtc` | do virtual clocks keep exact time, do reads return? | 2 terminals, 2 slots, device at 4Hz | 591 thousand |
| `files` | are streams, positions and other processes' files safe? | 2 terminals, 2 slots, 3 descriptors, a file of 2 bytes | 1.4 million |
| `pic` | are all interrupts handled from boot on? | the kernel's | 143 |
| `screen` | is every terminal's text what was written to it; does output spare a third terminal? | 3 terminals, 2 by 2 cells, 1 letter, 4 outputs | 178 thousand |
| `routines` | do the sequential parts do what they promise for all small inputs? | below | 145 thousand |
| `tasks_wrong_terminal`, `files_parent`, `files_directory` | violations, section 4 | | |

Why the bounds are enough. In `tasks_any` two terminals suffice for a process in
the wrong one, two slots for parent and child, and a limit of 3 is reached both
with and without free slots in the terminal; `tasks_attended` uses the kernel's
numbers, as its state space is small; eight entries of a page table hold the four
pages of video memory and others on both sides, and all others are alike. A buffer of 2 or 3 has all boundary cases of
128 (first, last, the place kept for Enter); reads ask for less than, and for as
much as, the buffer. RTC_MAX = 4 allows the periods 1 and 2, and the requests hold
zero, one, a number that is no power of two and one too large. Three descriptors
are the two streams and one file, which is opened again and again; a read length
of 0, 1 and 3 against a file of 2 bytes gives empty, partial, exact and short
reads.

In `screen` four outputs fill 2 by 2 cells and scroll, and three terminals are a
displayed one, a running one and a third; `MaxOutputs` bounds characters, not
ticks and switches. In `routines`: eleven bytes hold two dwords with unaligned ends
on both sides; words of 8 bits and two hex digits have the same first, last and
sign cases as 32 and eight; formats of three characters hold every conversion with
a character before or behind, and `%#x`; lines of 8 against names and arguments
of 3 have spaces everywhere, a name that is too long and arguments that are;
blocks of 4 bytes with 4 block numbers, three of which files use, and chunks of 1, 3, 4 and
20 end reads inside a block, at its end, and behind the file; a grep buffer of 4
against files of 6 has lines that fit, fill and exceed it; descriptors are the
kernel's 8.

### The attended system

Some properties hold only for an operator who does certain things; then the
module has an `AttendedNext` that says which, in guards around the same actions,
and a violation run shows what happens otherwise. In `Multitasking` programs
start, and root shells end, while their terminal is on the screen, and no key is
pressed before the shells run. `Rtc` and `FileDescriptors` are about the same attended
system after its boot, with the guards in `Execute` and `Halt`. `RootShells` needs no
such guard: it is checked and proved over all behaviours. In `LineInput` keys come while the displayed
terminal's process waits in `read`, and none between Enter and the end of the
read; programs end while nothing is typed.

### Fairness

- `WF(Tick)`, in `Paging` of the tick with its mappings: the PIT interrupts 100 times a second (`scheduling.c:14-31`) and
  every loop that waits has interrupts on.
- `WF(Irq)`: the clock interrupts at 1024Hz and the handler reads register C.
- `SF` on the steps of a reader: its terminal gets the CPU again and again, and a
  slice of 10ms is longer than a turn of its loop. Weak fairness would say
  nothing, as every tick takes the CPU away.
- `Pic`: the clock raises requests again and again, and a request that is
  deliverable again and again is accepted (the controllers' priority is in
  `Accept`); the kernel's code with interrupts off ends.
- Nothing is assumed of the operator or of programs.

## 4. Where the code does not do what the repository says

Each is a run that TLC ends with a counterexample.

1. `execute` and `PCB_process_number` work on the displayed terminal
   (`system_call.c:212`, `:471`), against `src/buglog.txt:151-152`: Alt+Fn between
   Enter and `execute` starts the program in the wrong terminal
   (`tasks_wrong_terminal`). What follows for the displayed terminal, whose newest
   process gets neither the CPU nor its clock until the child ends, is outside the
   behaviours of `Rtc` and `FileDescriptors`; the restart of a root shell
   (`system_call.c:57`) has the same fault, and `RootShells` names it as the only way
   a terminal can lose its last process.
2. `halt` closes the parent's files instead of its own (`files_parent`).
3. The position in the directory is shared by all its readers
   (`files_directory`).

The models contain these too, without a run, as no line of the repository says
otherwise or the code can be read both ways:

- `term_switch` leaves 132MB mapped as it was until the next tick
  (`terminal.c:138`), and `vidmap` maps the screen for a background process.
- A stale `enter_state` lets `term_read` return without a newline
  (`terminal.c:164`).
- `term_write` gives a program's text to `printf` as the format
  (`terminal.c:192`): `%` in a file that `cat` writes is a conversion, and a lone
  one at the end steps over the terminator. `PlainTextVerbatim` and
  `StaysInFormat` say where it is harmless.
- The parser of `execute` tests the index in the command against 32
  (`system_call.c:136`): a short name after many spaces is refused. A name of 32
  characters fills the array and leaves no terminator; one of 33 writes one
  character behind it.
- The header buffer of `execute` is uninitialised for a file shorter than a header
  (`system_call.c:169`).
- `read_data` returns -1 at the end of a block if the next block number is not one
  of the image, also when the file ends there, and `file_read` adds the -1 to the
  position.
- `multi_putc` writes its colour through the pointer of the screen, to the cell of
  the screen's cursor (`lib.c:507`).
- Messages of the kernel go to the displayed terminal.
- `grep` looks at one byte of its buffer that it never wrote.
- Ctrl+C is not disabled (`keyboard.c:155`, against `src/buglog.txt:175-176`).
- `halt` clears the key buffer of the displayed terminal, whichever terminal's
  process ends (`system_call.c:33`).
- Alt+Fn during the boot makes `term_launch` return without a launch, and a halt in
  that terminal ends a process of the terminal before.

Seen while reading only: `disable_irq` masks every other line (`i8259.c:63`,
called by nothing); `memmove` leaves the direction flag set after a copy
downwards (called by nothing); the comment of `strncpy` counts bytes.

## 5. What is proved

With TLAPS, for every value of the constants that satisfies the named
assumptions, which say that sizes are positive, that inputs have their types, and
in three places a little more:

- `PrintfAssumption`: words have an even number of values (2^32 has), a `%#x` has as
  many digits as the largest word, and a stack holds a word for every conversion its
  format may have: what `printf` reads above its arguments is then a word like any other.
- `CommandsAssumption`: the names of the directory are not empty, hold no
  terminator and fit a directory entry, and "exit" holds none; `GrepAssumption`: the patterns, which come
  through `getargs`, are not empty and hold no terminator.
- `SystemErrorsAssumption`: the descriptor numbers that `syserr` takes as too large
  and negative are, and the image has `.` and lacks the names `syserr` makes up.

The theorems and the invariants they rest on:

- `MultitaskingProofs`: `TypeCorrect`, `StacksAgree`, `TasksLimited`, `ShellsStay`
  (`RootShells`, an action property), over the unrestricted `Spec`. The inductive invariant is `TypeOK`, `StackDiscipline`,
  `TaskLimit` and `ShownOnceUsed`: a terminal is displayed as soon as a process
  runs. Without the last, `execute` could be called with `cur_term_id = 3`, the
  value before the first tick, which is no terminal. `StartProgramKeeps` is the
  core: the first free slot is the one above `cur_pcb_id`, because the mask has no hole.
- `MultitaskingProofs` again, over `AttendedSpec`: `RightProcessRuns` (`Coherent`),
  `FramesSaved`, `ParentsBelow`, `VideoIsolated` (an action property: a process begins
  its turn with its own page at 132MB, or the screen if it is displayed, and until the
  turn ends only the screen can take its place, through `vidmap` in the background).
  The invariant `AInv`
  joins them with the one above and with `BootOrder`: while the shells start, the
  newest terminal is on the screen, the later ones are empty and there is room for
  them, so that a tick neither returns early nor finds no slot. An action is the
  composition of a few of six effects (a process launched, resumed, pushed on its
  parent, popped, a shell started again, nothing), and each effect is shown to keep
  the invariant once. `Refinement`: `AttendedSpec` implements the initial states and
  steps of `TerminalTasks`; only the fairness of that is left to TLC.
- `PagingProofs`: `ProgramsIsolated`, for every number of terminals, slots and tasks
  and every size of the tables. `PInv` adds to `AInv` that the tables are a function
  of `page` and `video` (`TablesFollow`), which is what makes the walk computable
  from them, and the programs in their regions. Process numbers are injective
  (`NumberOfItsOwn`), so regions do not overlap. `TablesHidden`: `PagedSpec`
  implements `AttendedSpec`, so the theorems above hold of it.
- `LineInputProofs`: `TypeCorrect` over the unrestricted `Spec` (no index leaves its
  buffer, in any interleaving); `TextsKept` (`BuffersAreText`) over `AttendedSpec`;
  `Refinement`: `HistorySpec` implements `LineDiscipline`. The invariant `LInv` says
  what a half-finished read means: from Enter to the return its terminal is on the
  screen (`OnlyOnScreen`), the buffer ends in the newline until the copy is made, and
  the copy is the prefix below the loop variable (`CopiedSoFar`). That the index stays
  above 0 until the return is what keeps `halt`, allowed at index 0 only, away from a
  line that is being read.
- `ScreenProofs`: `CursorsStayInFrames` (`TypeOK`: every cursor inside its frame, in any
  order of output, echo, scrolling, clears and switches), `ThirdTerminalSafe` (an
  action property) and `ScreenImplementsConsoles`, for every number of terminals, rows
  and columns. `SInv` adds to the types where the boot is: while the shells start, the
  newest one's terminal is on the screen and output goes there; from then on a
  terminal with a process is displayed and `video_mem` points to the screen or to the page
  of the terminal that has the CPU. The refinement has one lemma per action:
  the frame of a terminal, which is the screen for the displayed one and its page for
  the others, changes as the console does, and for a switch the two copies change
  none.
- `FileDescriptorsProofs`: `TypeCorrect`, `StreamsOpen`, `PositionsRight`, and the
  action properties `FilesStay`, `TerminalsApart` (only the end of a root shell reaches
  another terminal's process, in the last slot of the terminal before, and clears no
  more than flags of files there). The
  invariants are inductive together; the proof splits them into a part per
  process and a part per descriptor (`PartsOfIInv`), and shows that `halt` leaves
  every descriptor of the others good although it clears flags that are not its
  own. `ErrorTestsAlwaysPass`, for every number of descriptors: the tests
  of `syserr` pass and leave the descriptors as they found them. `ErrInv` says how far
  the program in hand is, and which descriptors are open while `err_open_lots` runs.
- `KernelProofs`, memory: `MemTypeCorrect` and `BlocksFilled` (the block is what C says and
  no other byte changes), for every size of memory, content, fill, alignment, length and overlap. The inductive
  invariant relates the registers to the block: going up, `edi` is as far behind
  `dest` as bytes are written, and what `ecx` and `edx` still count reaches
  exactly to the end (`Up`); going down the same from the other end (`Down`);
  bytes already passed hold what is promised (`Written`), and the source bytes
  still to come are as they were (`Untouched`), which is where the direction of
  `memmove` matters.
- `KernelProofs`, files: `ReadsCorrect` and `CatCorrect`, for every block size, image, file
  and chunk. `RInv` ties the loop's two counters to what was copied (`Copying`:
  `cur_datablk * FS_BLOCK_SIZE + byte_in_blk` is the position plus the bytes done),
  with lemmas on division for the block changes, and says where a read that ends or
  fails leaves the position (`Between`, `WholeFile`, `Failed`).
- `KernelProofs`, interrupts: `NothingIsHeldBack` and `OpenLinesAreHandled`. The second says of every
  step, of the boot too, that no line without a handler is open, and of those after it
  that all others are. `PicInv`: a
  line in service is one that the running handler still acknowledges (its own,
  and the master's line of the slave), interrupts are off in a handler and during
  the boot (`PicOwes`), and the masks are a function of the boot's step (`PicMasks`).
- `KernelProofs`, clocks: `RtcTypeCorrect`, `DivisorSet`, `WaitsExact`, of the
  attended system. The strengthening is
  `ReadersNewest`: only a terminal's newest process is inside `rtc_read`, so the handler,
  which counts for the newest only, misses no reader.
- `TextProofs`, `printf`: `FormatIsLeftOnlyAtPercent`, `PlainTextComesOut`,
  `NumbersComeOut`, for every text, memory behind it, stack and word size. `FInv` says
  where `buf` is: past the terminator only behind an open conversion, and two
  characters have gone by for every word that `esp` has taken;
  `Verbatim` says that the output is the text below `buf` as long as no `%` was met.
  `NInv` adds the numbers. The lemmas under it are about the digits: `itoa` leaves the
  digits of the number, most significant first and at least one (`ItoaIs`), a larger
  number has no fewer (`ItoaGrows`), what it leaves reads back as the number
  (`ItoaReadsBack`), and so do the zeros before it in `%#x` (`PaddedReadsBack`).
- `TextProofs`, commands: `CommandIsUnderstood`, `FailuresLeaveNoTrace`, for every line,
  directory and limit of names and arguments: only the program that the line names
  runs, with its rest as arguments, and no line that names a program (`NamesProgram`: within
  the first `MAX_FILENAME_LENGTH` characters, with room for a terminator) is refused
  or passed by. That the parser's picture of the line has one first word only
  (`SameWord`) gives the second half. `CInv` says of the parser of `execute`
  which part of the line each character index has gone by (`Progress`), what lies in
  `filename` and `args` so far, and that a slot is taken only while the program runs, or
  afterwards because its file was damaged (`SlotHeld`).
- `GrepProofs`: `GrepPrintsMatches` (`EachMatchOnce`), for every size of the buffer,
  file and pattern. `GInv`: the buffer from `line_start` to `last` is the file just below the
  descriptor's position and begins at a line's beginning (`Holds`), what was printed
  are the matches of the lines before, and a newline in the buffer is always one
  that was read and not yet searched for (`Newlines`). The last is why the byte
  `data[last]`, read past what `read` returned, does not end a line, except for
  the uninitialised byte behind a full buffer, which the property excludes. It also
  excludes files with a terminator or with a line as long as the buffer: there
  `grep` prints pieces of lines.

Assumed besides the constants: that the model is that of section 2, with the calls
atomic.

What a recursive function computes for every input (`itoa`'s digits, the lines
before a place of a file, a number read back from its digits) is proved by induction
in the form of a set: the set of counterexamples would have a least number
(`LeastNumber`, from the well-foundedness of `<`), and there is none. That
such a function exists at all is proved in the same way.

Only model-checked: liveness, that every terminal has its turn, that Enter wakes its
reader, that every read of the clock returns, that every interrupt request is served
and the clock's goes on, and the fairness in `TerminalTasks`.
Fairness and ENABLED are out of the prover's reach.

## 6. Not modelled

- Scan code tables, shift, caps lock and control: what a key means is data.
- The control registers and the TLB: every mapping of `paging.c` reloads CR3. What
  programs do inside their page.
- Port instructions, the hardware cursor, `strncpy`, `test_interrupts`, colours as
  numbers.
- Register save and restore in `idt_handler.S`, the descriptor tables
  (`x86_desc.S`), the boot (`boot.S`, `kernel.c`) except for the order in which it
  opens devices (`Pic`).
- `tests.c`: `launch_tests` has every test commented out.
- `ls`, `counter`, `hello`, `sigtest`, `pingpong`, `fish`: they appear as any
  sequence of system calls; signals are not implemented by this kernel.
- The emulation library for Linux (`ece391emulate.c`) runs on another system.
- `createfs`, `elfconvert`: binaries.

## 7. Plan

Done: the modules above, in the order of how much of the kernel rests on them, and a
theorem for every safety invariant, action property and refinement the passing runs
check. Left:

1. `vidmap`, `getargs` and the checks of the calls over one process table instead of
   in modules of their own, once the composition stays small enough for TLC.
2. Theorems that join the parts: that the reader of `LineInput` is the newest process
   of `Multitasking`, on which both rest.
