# Linux_like_Operating_System in TLA+

Models, model-checked properties and machine-checked proofs about the kernel
under `src/student-distrib`: a single-processor x86 kernel with three virtual
terminals, six process slots, round-robin scheduling and a read-only file
system.  All paths below are relative to `src/student-distrib/` unless they
start with `src/`.

## 1. The system

| part | source | state | operations | interacts with |
|---|---|---|---|---|
| processes | `system_call.c` 30-337, 666-762 | `process[]`, one PCB per pid (parent, saved contexts, descriptors, argument), page directory entry 32, `tss.esp0` | `execute`, `halt`, `get_pid`, `get_current_pid`, `get_pcb`, `map_physical_memory` | terminals (`program_pid`, `base_pid`, `active`), scheduler (PCB contexts), file system (loader) |
| scheduler | `scheduling.c` | `curr_terminal_executing`, `next_terminal_executing` | `init_PIT`, `PIT_handler` | PCBs, terminals |
| terminals | `terminal.c` | `multi_terminal[]` (buffer, cursor, pids, screen page), `curr_terminal_visible`, `jammer`, `hotjam` | `switch_terminal`, `read_terminal`, `write_terminal`, `getChar`, `open_terminal`, `close_terminal`, `init_terminal` | keyboard (interrupt), `execute`, screen |
| keyboard | `keyboard.c` | `ctrl`, `alt`, `shift`, `cap`, `cap_ready`, `sum`, `cursor_x`, `cursor_y` | `keyboard_handler` | terminals, screen |
| descriptors | `system_call.c` 350-590 | `pcb->fd[8]`, `pcb->arg` | `open`, `close`, `read`, `write`, `getargs` | file system, RTC, terminals |
| file system | `file_system.c` | image in memory (read only), file positions in the PCBs | `read_dentry_by_name`, `read_dentry_by_index`, `read_data`, `file_*`, `directory_*` | descriptors |
| RTC | `rtc.c` | `fg`, register A's rate | `RTC_open`, `RTC_read`, `RTC_write`, `RTC_handler` | descriptors, PIC |
| screen | `lib.c` 1-500 | video memory, `screen_x`, `screen_y` per terminal | `putc`, `k_putc`, `scroll`, `clear`, `printf` | terminals, keyboard |
| paging, `vidmap` | `paging.c`, `system_call.c` 599-635 | page directory, `page_table_video` | `initial_paging`, `vidmap` | processes, terminals |
| exceptions | `idt.c`, `system_call.c` 770 | `exception_flag` | one handler per vector, `raise_exception` | `halt` |
| PIC | `i8259.c` | mask registers | `enable_irq`, `disable_irq`, `send_eoi` | all interrupt handlers |
| system call entry | `system_call_linkage.S` | - | dispatch on `eax` | every system call |
| user programs | `src/syscalls`, `src/fish` | - | the shell's read-execute loop and others | system calls |

What makes it hard: exceptions and system calls enter through trap gates, so
most of the kernel runs with interrupts enabled; the timer and the keyboard
then interleave with every step of it, and `switch_terminal` even starts a
program from inside the keyboard interrupt.  Contexts are bare stack pointers:
they mean something only while the stack still holds what it held when they
were saved.  Nearly all state is global (`jammer`, `hotjam`, `fg`,
`exception_flag`, `sum`) or chosen through one of two globals, the visible and
the executing terminal.

What makes each part correct, in the order of the table:

- processes: an allocated pid belongs to exactly one session; `halt` returns to
  the `execute` that waits for it; a process stays free for every shell that
  can still be opened; a kernel stack is not given away while a thread is on it;
- scheduler: the context that is loaded is the one last saved, in its own
  program page; every terminal in use gets the CPU again and again;
- terminals, keyboard: a line belongs to one terminal, is delivered once, as
  edited, to the program of that terminal, and fits its buffer;
- descriptors: tables are isolated, fresh in a new process, and reads sequential;
- file system: the bytes given are the file's, in order; failures are those of
  bad blocks; what the directory lists can be opened;
- RTC: a data access hits the register selected for it; the device runs at the
  frequency asked for; a read waits for an interrupt, and returns after one;
- command line: the program that runs is the executable file the first word
  names, and it is given the rest of its own line;
- screen: every terminal has a text of its own that survives switches and what
  others do; the cursor is where the next character appears; backspace stops at
  the prompt;
- `vidmap`: a program that called it, and no other, has a page, and it is the
  screen;
- exceptions: the parent of a program that faulted, and no other, is told 256;
- PIC and boot: nothing interrupts before its handler can run, no line stays in
  service, keyboard and clock never go dead;
- keyboard: every key means what the user meant when pressing it.

## 2. Modules

| module | what it is |
|---|---|
| `Processes` | `execute`, `halt` in five interruptible pieces, `PIT_handler`, `switch_terminal`, and the parts of `read_terminal` and `write_terminal` that synchronise programs |
| `Sessions` | abstract specification: one stack of programs per terminal |
| `ProcessSessions` | the refinement mapping from `Processes` to `Sessions` |
| `MCProcesses` | bounds for TLC, and claims of comments that do not hold |
| `Processes_proofs` | theorems about `Processes`, its refinement of `Sessions`, and `Exceptions` |
| `TerminalIO`, `MCTerminalIO` | the line editor in the keyboard interrupt, and `read_terminal` step by step |
| `Descriptors`, `MCDescriptors`, `Descriptors_proofs` | `open`, `close`, `read` and the tables, over the actions of `Sessions` |
| `FileData`, `MCFileData`, `FileData_proofs` | `file_read` and the loop of `read_data` |
| `Directory` | `read_dentry_by_name`, `read_dentry_by_index`, `directory_read` |
| `CommandLine`, `MCCommandLine`, `CommandLine_proofs` | the parser of `execute`, its program check and `getargs`, over `Directory` |
| `Texts` | abstract specification: one text per terminal |
| `Screen`, `MCScreen`, `Screen_proofs` | `putc`, `k_putc`, scrolling, the copies of `switch_terminal`, the cursor, `vidmap`; the refinement mapping to `Texts` |
| `Console`, `MCConsole`, `Console_proofs` | `TerminalIO` and `Screen` composed: a line and its echo; theorems about `TerminalIO` and the two together |
| `Keyboard` | the scan code decoder of `keyboard_handler` with its modifiers |
| `Interrupts`, `MCInterrupts`, `Interrupts_proofs` | boot order, the two interrupt controllers and their driver, the three handlers, `Keyboard` behind one of them |
| `Exceptions`, `MCExceptions` | exceptions, `exception_flag` and the status `execute` returns, over `Processes` |
| `Rtc`, `MCRtc`, `Rtc_proofs` | the clock driver, one action per port access |

`Descriptors` composes with the processes through their abstract
specification: its actions conjoin `Push`, `Pop`, `OpenShell` and `Schedule` of
`Sessions`, which `Processes` implements as long as no hazard strikes (checked by
the run `sessions`, proved by `Refinement` in `Processes_proofs`).  `Exceptions`
and `CommandLine` extend `Processes` and
`Directory` and put their own steps around those; `Console` extends `TerminalIO`
and instantiates `Screen` on shared variables, so that one key is one step of
both; `Interrupts` extends `Keyboard`, whose operators are the decoding part of
its keyboard handler.

### Processes

Every program has one kernel stack, so a thread is named by the pid of its
stack.  `at[p]` is where the thread on stack `p` stands and `cpu` the stack the
processor runs on.  A saved `esp`/`ebp` pair is a frame: the stack it points
into and the kind of activation that was there when it was saved.  Loading one
(`Resume`) restores a thread only if that activation is still there and, for
user code, if the program page is its own; otherwise the machine is `lost` and
not followed further.  `esp` and `parent_esp` are the two contexts of the PCB,
`mapped` is both page directory entry 32 and `tss.esp0` (the code sets them
together wherever it matters).

`execute` runs with interrupts disabled, so it is one action; `halt` of a base
shell (`HaltBase`) is one up to the new shell; any other `halt` runs with
interrupts enabled and is `HaltEnter`, `HaltFree` (`process[] = 0`),
`HaltRestore` (`program_pid`), `HaltMap` and `HaltJump`, with `PIT_handler`,
`SwitchTo` and `Open` possible between any two.  The loader and the parser of
the command line only decide whether `execute` gets as far as allocating a
process; when it does not, nothing changes.  The few instructions of `execute`
between its `sti` and its `iret`, still on the caller's stack, are taken to be
part of it.  Programs call anything at any time.

`hazards` is a history variable.  It records the four things after which the
kernel does not keep its promises, each a line of the code:

| hazard | where | what happens |
|---|---|---|
| `jam` | `terminal.c:355`, `system_call.c:121` | a terminal is opened while `jammer` is set: `execute` returns 0, and the terminal is in use with no program of its own |
| `stale` | `terminal.c:352` | a terminal is opened when the interrupted program's PCB does not hold its current context; the next tick resumes it from an old one |
| `reuse` | `system_call.c:69` | a pid is allocated while the thread that freed it still runs on its stack |
| `base` | `system_call.c:62` | a restarted base shell gets another pid than `base_pid` says |

The safety properties of the intact machine are stated under `hazards = {}`;
`NeverLost` says that these four are all there are, and `TypeOK`, `Reserve` and
`TerminalsInUse` hold whatever has struck.

### TerminalIO

`keyboard_buffer`, `key_count` and `enter` are the fields of `multi_terminal[]`;
`sum` is the keyboard handler's count of characters, one for all terminals.
`getChar` is one action inside the keyboard interrupt; `read_terminal` is one
action per step between which an interrupt can come: the look at `enter`, each
turn of the copying loop, the wait to be visible, and the three resets after a
line that was cut off.  All terminals are in use, one program each.  `typed` is
the line as the user has edited it, and `hazards` records keys that arrive
while a line waits, a backspace on an empty line, a reader in the background and
a switch in the middle of a copy.

### Descriptors

`read` takes the PCB of the visible terminal's program, `file_read` the one of
`get_current_pid`, and `open`, `close` and `halt` the executing one's; the
actions `Read`, `FindPcb`, `ReadData` and `Advance` are the places in between
where the timer can strike.  A file is its length: `got` counts what a process
has been given from a descriptor.  What `close` does when `halt` passes it an
uninitialised variable is a choice over all descriptors and none.

### FileData and Directory

One turn of `read_data`'s loop is one action: it places a byte, finds a bad
block, or ends the read.  A byte is its place in the image (block and index),
so that a property can say which bytes were given.  Block numbers equal to
`data_count` stand for all bad ones; the number after the last of an inode is
the next word in memory and may be anything.  Images are those `createfs`
writes: unused block numbers are 0.

A name in `Directory` is a sequence of letters, on disk padded to
`FILENAME_LEN`; a name of exactly that length has no terminator, and `strlen`
runs on into the file type, which `NameRead` cuts off again.

### Rtc

Each access to the index port or the data port is an action; `masked` is the
program that has interrupts disabled.  The interrupt handler selects and reads
register C.  The device (`Hertz`) is external and taken from its data sheet.

### Screen and Texts

The screen and the page of each terminal are functions from cells to
characters; colours are left out.  `putc` writes to the screen at the position
of the visible terminal, `k_putc` to the page of the executing one at its
position - except that a backspace erases on the screen - and `clear` empties
the screen but resets the executing terminal's position.  One character is one
action: `write_terminal` disables interrupts for a whole buffer, which makes
fewer behaviours than the model has.  `page_table_video` has the `P` bit and the
frame of each entry; `Draw` is a program storing into its page.  The refinement
mapping takes as a terminal's text the screen if it is visible, its page if it
is not.  `hazards` records the six things after which texts mix:

| hazard | where | what happens |
|---|---|---|
| `top` | `lib.c:257-259`, `325-327` | a backspace at the first cell: `screen_y` becomes -1 |
| `erase` | `lib.c:263` | a program's backspace in the background erases on the screen |
| `clear` | `lib.c:45` | Ctrl-L while a terminal in the background executes |
| `printf` | `system_call.c:231`, `246`, `257` | a kernel message for a program in the background |
| `vidmap` | `system_call.c:618` | `vidmap` called in the background |
| `draw` | `system_call.c:612` | a program draws in the background, on the visible screen |

`astray` is the state after a tab or Ctrl-L, which leave the cursor away from
the text.

### Console

Each action conjoins one of `TerminalIO` with one of `Screen`; both modules have
a history named `hazards`, the screen's is `screenHazards` here.  `Echoed` counts
the cells the first characters of a line take (`Width` those of all of it),
`Buffered` is what the buffer holds and the characters that did not fit.
`mixed` records what tears the two apart: program
output into a line, a tab that is erased (one blank of four), and a switch that
leaves `sum` at the length of the other terminal's line.

### Keyboard and Interrupts

`held` and `caps` are what the user does with the keys; `codes` are the scan
codes on their way, each with what the user meant (`Meant`).  The handler's
flags see the codes only when the handler runs, which may be much later.
`hazards` has `early` (a key before `i8259_init` or handled before
`init_terminal`), `repeat` (CapsLock held down), `fkey` (a function key without
Alt), `twin` (both shift keys held, one released) and `stray` (an interrupt
without a handler).  The controllers are external: `irr`, `isr`, `imr` and the
priority rules are those of the 8259A in the mode `i8259_init` programs, with
the slave's lines behind line 2.  ICW1 clears the masks, and with them what
the kernel's copies say, until the copies are written again.  Handlers run with
interrupts disabled and are one action each.  `Cli` and `Sti` stand for every
such pair in the kernel.

### Exceptions

All exception handlers do the same: a message, `raise_exception`, `halt`.  They
are trap gates, so `Raise`, `HaltTest` and `HaltReset` can be interrupted after
each.  `phase` says how far a thread has got between them; `Others` is every
other step of `Processes`.  A system call number outside 1 to 10 returns -1; 9
and 10 jump to the address read from what follows the table in memory, the
bytes of the code at `Halt`.  It is taken not to be mapped, so that the program
ends as after any page fault.  Exceptions in the kernel itself are not followed.

### CommandLine

A command is a sequence of letters and blanks, the loops of the parser are
`FirstPlace`.  Each terminal has its shell and at most one program.  A word that
does not fit in `cmd` with its NUL (`word`), a file of fewer than four bytes,
whose check looks at what is on the stack (`short`), and `getargs` called in the
background (`visible`) are the hazards.  Creating the process is in `Processes`.

## 3. What is model-checked

| run | instance | what it shows |
|---|---|---|
| `kernel` | 3 processes, 2 terminals, every interleaving, hazards included | `TypeOK`, `Reserve` (a process stays free for every shell that may still be opened), `TerminalsInUse` (`PIT_handler` never loads the PCB of pid -1), `NeverLost` |
| `sessions` | 4 processes, 2 terminals, up to the first hazard | `ImplementsSessions` (refinement), `TableExact` (no `process[]` entry leaks or is freed early), `HaltReturnsToCaller`, `ContextsSaved` (the context of a program that waits is the one it was suspended in) |
| `progress` | 3 processes, 2 terminals, fair, up to the first hazard | `RoundRobin`, `HaltCompletes` |
| `lines` | two terminals, two readers, fair, up to the first hazard | `BufferHoldsLine`, `LineIsTyped`, `LineDelivered` (no lost wake-up) |
| `rtc` | two programs, all 1028 frequencies from -1 to 1026, fair | `PortsPaired`, `NoEarlyReturn`, `RateRight`, `SomeoneReturns` |
| `files` | 4 processes, 2 terminals, up to the first hazard | `FreshTable`, `ReadsSequential`, `Isolation` |
| `data` | files of 0 to 6 bytes in 3 blocks of 2, good and bad blocks anywhere | `GivesFile`, `GivesAll`, `FailsOnBad` |
| `commands` | up to 2 entries with names of 1 to `FILENAME_LEN` = 2 letters, commands of up to 4 characters, 2 terminals, up to the first hazard | `ListedOpens`, `FoundByName`, `ProgramAsTyped`, `GivenOwnArgument` |
| `screen` | 2 terminals, a screen of 2 by 2, tabs of 2, up to the first hazard | `ImplementsTexts` (refinement), `CursorFollows`, `PageOfProgram` |
| `console` | the same screen, lines of up to 3 characters in buffers of 2, up to the first hazard | `LineShown`, `PromptKept` |
| `exceptions` | 3 processes, 2 terminals, up to the first hazard of `Processes` | `FlagInUse`, `StatusRight` |
| `interrupts` | 2 keys held, 2 codes on their way, fair, up to the first hazard | `NoneInService`, `LinesReady`, `ModifiersFollow`, `KeyAsMeant`, `KeysTaken`, `ClockGoesOn` |

`three_terminals.cfg` (with `MCProcesses`; four processes, up to the first
hazard) repeats `NeverLost` and `ContextsSaved` with the real number of
terminals, so that the round robin can pass over an unused one, and checks
`TurnKept`: a tick brings every terminal in use its turn or nearer to it, and
nothing that happens between ticks puts one back.  It takes half a minute and
holds.

Seven modules state a type invariant.  `kernel` checks that of `Processes`; it
and those of `FileData`, `Screen` and `TerminalIO` are proved, those of `Rtc`,
`Descriptors` and `Interrupts` in the form the proofs need.  All hold in the
instances above when `TypeOK` is added to the configuration.

### Bounds, and why they are enough

- *Processes and terminals.* The kernel has 6 and 3.  Three processes on two
  terminals are enough for every hazard: a shell and its child on one terminal,
  a shell on the other.  `sessions` has stacks three deep; in both, and in
  `three_terminals`, there are more processes than terminals by one or two, so
  that the process table does get full.  The theorems hold for every number of each.
- `StopAtHazard`: states after the first hazard are checked, but not continued.
  What is stated under `hazards = {}` says nothing of them; `kernel` continues.
- `OneBusy` (in `sessions` and `three_terminals`): at most one program at a time
  is in `read_terminal` or `halt`.  Two that halt at the same time, on different
  terminals, are covered by `kernel`, `progress` and `exceptions`.
- `NoReader` (in `exceptions`): no program is in `read_terminal`, where no flag
  and no status changes.
- `MaxKeys`, `MaxSum`: no key is added to a line of that length, or takes `sum`
  past that number.  Both runs go past a buffer of two, on which the branches of
  `getChar` and of `read_terminal` depend; in `console` tabs count two in `sum`,
  so it can exceed the length of the line.
- `MaxSeen` = 1: whether an interrupt has come is all the properties ask.
- `Blocks`, `BLOCK_SIZE`, `Lengths`, `Request`: reads of 0, 1, 3 and 5 bytes
  begin and end before, at and after the boundaries of two-byte blocks, and
  repeat until the end of the file or a bad block.
- `FILENAME_LEN` = 2 with two letters has names shorter than, equal to, and
  longer than the limit, that differ in the first, the last, and past it.
- `FD` = 4: two descriptors besides 0 and 1, so there is a first free one.
  `Request` and `Length` make reads that end before, at and past the end.

- `NUM_ROWS`, `NUM_COLS` and `TAB` of 2: every position is at a border, a tab
  wraps or scrolls, and a text of five characters scrolls out.  The conditions
  of `putc` and `k_putc` compare positions with the last row and column only.
  One glyph is enough: it tells a written cell from a blank one, and which text
  a character went to is told by position and page.
- `OneAtATime` (in `screen`): a program that has the screen mapped and the
  output that `jammer` swallows, which share no state, are not combined.
- `WithoutStalePage` (a `VIEW`): the page of the visible terminal is overwritten
  by `switch_terminal` before anything reads it, and no property looks at it.
- `MaxHeld` = 2 keys held, the least with which a modifier and a key, two
  modifiers, or both shifts are down; `MaxCodes` = 2 codes on their way, so that
  a modifier changes between a key and its handling.
- `MAX_CMD_LENGTH` = 2, `MAX_LINE` = 3, commands of up to 4: blanks in front,
  between and behind, words at and over the limit, lines over theirs.  The
  letters are symmetric, since the code only compares them.

Other than those letters no symmetry is used: pids are allocated lowest first,
and terminals are taken in order.  Deadlock is checked in every run.

### Fairness

`FairSpec` of `Processes`: the PIT keeps ticking (`scheduling.c:11` programs it
once and for all), and `halt` never disables it, so `PIT_handler` is weakly fair.
Ticks are 17 ms apart, far longer than a piece of `halt`: a thread that gets the
CPU again and again does get on, so the steps of `halt` on each stack are
strongly fair (a tick disables them, by taking the CPU away).  `FairSpec` of
`TerminalIO` says the same of the timer and the steps of `read_terminal`; keys
and switches have no fairness, the user may stop at any time.  `FairSpec` of
`Rtc`: the periodic interrupt is enabled at boot and stays so, and a program
inside the driver that can go on does.  In `rtc` programs are not preempted by
the timer explicitly; any interleaving of their steps is possible instead.

`FairSpec` of `Interrupts`: `entry` goes on as long as it has calls to make
(weak fairness); the kernel enables interrupts again after disabling them
(`Sti`); a handler whose line can interrupt again and again is run (strong
fairness, as every `Cli` and every line of higher priority disables it).
Nothing is fair about the devices and the user.  `ClockGoesOn` assumes in its
statement that the timer and the keyboard leave the slave's lines time: a line
of higher priority that always requests could starve them.

The liveness properties of `progress`, `lines` and `interrupts` are checked on the behaviours
in which no hazard strikes; no action that has fairness in `progress` can cause
one, and in `lines` and `interrupts` a hazard fulfils the property.

## 4. Where the code does not do what is said of it

These configurations are not among the runs, which all pass.  Each checks one
property that states what a comment or the documentation says, and ends in a
violation: `tlc -config <name>.cfg <module>`.  A configuration with several
claims about a module has one of them switched on and the others, with the
constants they need, in comments.

| configuration | module | property | what the counterexample shows |
|---|---|---|---|
| `claims_processes` | `MCProcesses` | `OpeningKeepsSessions` | `switch_terminal` makes a newly opened terminal the executing one without saving the context of the program it interrupts (`terminal.c:352`); the next tick resumes that program from an old `esp`/`ebp` (against `src/README.md:17`) |
| `claims_files` | `MCDescriptors` | `ReadsOwnFile` | `file_read` uses the PCB of `get_current_pid` (`file_system.c:197`), the pid below the lowest free one, which with two terminals in use is not the reader's (against `src/README.md:9`) |
| `claims_processes` | `MCProcesses` | `SessionsConcurrent` | a terminal opened while `jammer` is set gets no shell, and its ticks go to another terminal's program |
| `claims_processes` | `MCProcesses` | `HaltKeepsStack` | a shell is started on the kernel stack of a program that is still halting (`system_call.c:69`) |
| `claims_processes` | `MCProcesses` | `BasePidIsShell` | a base shell restarts under a lower pid, `base_pid` keeps the old one, and the restarted shell can be halted away (`system_call.c:62`) |
| `claims_lines` | `MCTerminalIO` | `BackspaceErases` | `sum` lets a backspace on an empty line into the buffer |
| `claims_lines` | `MCTerminalIO` | `ReturnsLength` | a line of 127 bytes is returned as 128 (`terminal.c:140`) |
| `claims_lines` | `MCTerminalIO` | `FitsBuffer` | the newline of a line that was cut off is stored past the caller's buffer (`terminal.c:128`) |
| `claims_lines` | `MCTerminalIO` | `OwnLine` | a program in the background takes the line typed at another terminal (`terminal.c:105-111`) |
| `claim_cycle` | `MCRtc` | `OneCycle` | a second reader sets `fg` again before the first has seen it cleared |
| `claims_files` | `MCDescriptors` | `HaltClosesOwn` | `halt` closes a descriptor of the parent (`system_call.c:88`) |
| `claim_bounds` | `MCFileData` | `FailsWithinBounds` | at the end of a file that fills its inode, `read_data` checks the word behind the block numbers |
| `claim_status` | `MCExceptions` | `ExceptionGives256` | two programs fault at about the same time: the first `halt` takes the flag of both (`system_call.c:36-42`, against the comment at 38) |
| `claim_masked` | `MCInterrupts` | `InitiallyMasked` | ICW1 clears the masks `i8259_init` has just set (`i8259.c:22-31`, against the comment at 9) |
| `claim_exe` | `MCCommandLine` | `StartsExecutables` | a file of fewer than four bytes passes the check on what an earlier `execute` has left on the stack (`system_call.c:228`, against the comment at 226) |

## 5. What is proved

`tlapm` checks the proofs for every value of the constants that satisfies the
named assumptions.  Of the invariants and action properties in section 3 all are
theorems, and so are both refinements.

**`Processes_proofs`**, from `NTAssumption` (1 <= T <= N), has three parts.

*Whatever happens.*  The inductive invariant is `IInv`, that is `TypeOK`,
`Reserve` and `TerminalsInUse`, which need one another.
The pid written into `base_pid` and `program_pid` when a terminal is opened is
`get_current_pid() + 1`, which is a pid only if the process table is not full;
that follows from `Reserve`.  `Reserve` is kept by `Execute`, `HaltBase` and
`Open` because the guard `TooMany` is exactly its negation for the state before,
and `Open` may use up one process because it also uses up one terminal.
`PIT_handler` keeps the types only if the terminal it turns to names a PCB, which
is `TerminalsInUse`, and the round robin ends at a terminal in use
(`NextActiveInUse`) since the executing one is.  Results: `TypeCorrect`,
`ReserveKept`, `InUse`, `TurnsComeNearer` (`TurnKept`: the scan stops at the first
terminal in use, `NextActiveFirst`, so it passes over none), and
`ShellAlwaysStarts` (no terminal is turned away with "too many processes").
None of them assumes that no hazard has struck.

*Until a hazard strikes.*  `NeverLost` says nothing of the programs that do not
run.  `Sound` does: there is a function `home` from programs to terminals under
which the state is `Coherent`.  Each terminal in use has one thread; where it
stands decides which program the terminal names and how deep its saved frame is
(`ThreadsStand`); each called program has a caller of its own, which waits in
`execute` at the frame the program kept (`CallersWait`); a `halt` knows its own
program and that caller (`HaltsKnow`); no base shell leaves (`ShellsStay`); the
mapped page is the running program's (`PageMapped`); `process[]` lists the
programs not yet freed (`Accounted`).  `Homes` separates the terminals: the
thread, the program, the shell and the callers of one have it as their home, so
two terminals share none of them, and what a step does at one disturbs nothing
that another relies on.  `home` is a witness, not a variable: a step that
allocates a pid gives a new `home`.  Results: `NotLost`, `ContextsKept`,
`HaltReturns`, `TableKept`, and `Refinement`: every step is one of `Sessions` or
a stutter.

*Exceptions.*  `FlagInUse` is not inductive, as
the one program that uses the flag might be a `halt` that has read it down and
so will not reset it.  `Holder` names the user that will: a program whose
exception has not been tested yet, or one whose `halt` has read the flag up.
`Standing` says that a program in between stands in user mode, so that no step
on another stack moves it on; that rests on `IInv` and on what `Resume` does to
other threads (`ResumeUser`, `OthersStay`).  For `StatusRight`, `Blame` ties the
status a `halt` has kept to the exception, while the flag has had one user at a
time.  Results: `FlagOnlyInUse`, `StatusGiven`, and `StillProcesses`: the kernel
with exceptions implements `Processes`, so all of the above holds of it too.

**`Descriptors_proofs`**, from `DescriptorsAssumption`: which table a call works
on depends on who runs, so half of the invariant is about `Sessions`: every
program has a home terminal (`AtHome`) and no two wait for the same one
(`Waiting`), hence the running program has an entry in the process table, and so
has the one a `halt` returns to, which is another one.  The other half is
`FreshTable`, `ReadsSequential`, and `OwnPcb`: a read between finding its PCB and advancing
the position has found its own program's.  `FreshTable` holds whatever has struck.
Results: `AlwaysFresh`, `AlwaysSequential`, `TablesIsolated`.

**`FileData_proofs`**, from `FileAssumption`: `GivesFile` is not inductive, as it
does not say what the running call has placed so far.  `LoopRight` adds that the
block and the index are those of the next byte - or one past the end of the
block before, the state in which the loop leaves a full block - and that the
bytes placed are the file's; `UnusedZero` says that block numbers not in use are
good.  The proof rests on two facts about division (`Division`, `PlaceUnique`).
Results: `TypeCorrect`, `FileGiven`, `FailureMeansBad`, `NeverShort`.

**`CommandLine_proofs`**, from `DirectoryAssumption` and `CommandLineAssumption`,
for names, commands and directories of any length.  `MatchesIs`: the comparison
of at most `FILENAME_LEN` characters together with the check of the length finds
an entry exactly if the whole name is the same, so that, names being distinct,
a lookup has one answer (`LookupIs`).  `NameReadIs`: the name `directory_read`
returns is the whole name, whether it is terminated or runs on into the file
type.  `Parsed`: what the loops of the parser cut out of a command are blanks, a
word, blanks if anything follows, and the rest.  The invariant then carries from
`execute` to `halt` that the program, the line and the argument of each terminal
belong together.  An argument is shorter than its line because a name has at
least one letter; that is why it fits with its NUL.  The assumption that `Letter`
does not contain the two strings the model uses for "has not asked" and for -1
keeps an argument from looking like either.  Results: `ListingOpensAlways`,
`NamesAreWhole`, `ProgramsAsTyped`, `GivenOwn`.

**`Console_proofs`**, from `IOAssumption` and, for the screen,
`ConsoleAssumption`, has two parts.

*The line.*  The invariant says of each terminal
who may touch its line until a hazard strikes (`InOrder`).  A program between
the flag and the last reset has its terminal on the screen, and `enter` is up
until it resets it, so no key gets into the line it copies; a newline is the last
character of a line and there is one just when the line is complete (`Ends`);
what has been copied is the beginning of the line (`Taken`).  `key_count` is the
one part of the line that is lost a step before the line is (`Held`).  Results:
`TypeCorrect`, `BufferIsLine`, `LineReturned`.

*Its echo.*  A step of the console is one of `TerminalIO` (`LineSteps`) and one
of `Screen` (`ScreenSteps`), so the invariants of both hold.  Neither `LineShown`
nor `PromptKept` is inductive: both speak of the buffer, which loses its line
before the line is forgotten, and `PromptKept` of the visible terminal alone.
`ConsoleInv` adds that the text of each terminal ends with the line the user has
edited (`Shows`), and that `sum` is its width, or 0 once it has been entered
(`SumRight`).  What an echo does to a text is taken from `Texts`, which `Screen`
implements (`ScreenEmits` and `PageEmits` of `Screen_proofs`): a character
is written in front of the cell that follows it, the rest has moved up by some
lines, and a line that ended the old text, with that character, ends the new one
(`Lengthened`); a backspace is the other way round (`Shortened`).  A line may be
longer than the screen: only its cells that are still there count.  A reader
takes only a line that was entered, so `sum` is 0 by then.  Results:
`LineAlwaysShown`, `PromptAlwaysKept`, `ConsoleIsTerminalIO` (what is proved of
the line holds with the screen around it) and `ConsoleImplementsTexts`.

**`Screen_proofs`**, from `ScreenAssumption`: the invariant has the types, the
visible and the executing terminal in use, `PageOfProgram`, and that positions
stay on the text until a backspace is printed at its beginning.  `Screen` moves
a row and a column, `Texts` counts cells; `Reaches` says for each character that
both reach the same cell `q` and that the text moves up by the same `Up(q)`, as
often as `q` is past the end.  A tab is a recursive function in both, so its blanks are
followed one at a time (`Blanks`, `SpreadTo`), by the least blank at which the
two would differ.  Results: `TypeCorrect`, `CursorFollowsAlways`, `PagesMatch`,
and `Refinement`: every step is one of `Texts`, a stutter, or comes with a
hazard.

**`Rtc_proofs`**, from `RtcAssumption`: `PortsPaired` is inductive together with
`Exclusive`, mutual exclusion by disabled interrupts: a program between two port
accesses is the one that runs masked.  For `RateRight`, `Asked` says what each
program inside the driver is about to write.  `Hertz` and `Halvings` are recursive
functions over an interval; that they are what their definitions say is shown
by giving the function each one is (`HertzDefined`, `HalvingsDefined`).  Results:
`PortsAlwaysPaired`, `NeverEarly`, `RateAlwaysRight`.

**`Interrupts_proofs`**, from `KeyAssumption` where it is about keys.  That a
line is masked now says nothing of the `enable_irq` of another line, which
writes the whole mask again.  `MaskInv`
relates the masks in the controllers to the kernel's copies, and the copies to
how far `entry` has come.  Results: `LinesAlwaysReady`, and `NeverInService`,
for which each handler is shown to take back exactly what its interrupt put in
service.  For the keys, the kernel's flags are behind the user's while codes are
on their way.  `KeyInv` has a history of the keys that were down, one entry per code and
one for now: the first is what the kernel believes, the last what the user
holds, and each code leads from its entry to the next (`Follows`).  A key adds an
entry at one end, the handler takes one from the other (`Decoded`).  Results:
`ModifiersRight`, `KeysAsMeant`.

## 6. What is only model-checked

- Liveness (`RoundRobin`, `HaltCompletes`, `LineDelivered`, `SomeoneReturns`,
  `KeysTaken`, `ClockGoesOn`): out of the prover's reach, as `ENABLED` is.

## 7. What is not modelled

- `initial_paging`, the descriptor tables and the multiboot parser: constant data
  written once.  `file_system_init` sets pointers into the image.
- Descriptors 0 and 1 and the dispatch of `read` and `write` through the
  operation tables; `cursor_x` and `cursor_y` of `keyboard.c` apart from the
  cursor they lead to.
- Exceptions in the kernel itself, and what happens after a word has overrun
  `cmd` or a handler is missing.
- `disable_irq`, `close_terminal` and `directory_close` and the like, which are
  never called or do nothing; the tests in `tests.c`.
- The colours of the screen; the message an exception prints.
- `printf`, `itoa`, `memcpy` and the like: sequential and without state.
- User programs: they may make any system call at any time, except that only
  the shell calls `execute` and that the shell opens no files, as in
  `src/syscalls/ece391shell.c`.
- `set_handler` and `sigreturn`, which return -1, and all functions that write
  to the file system, which do too.

## 8. Plan

The order is that of the risk in the code: first what decides which program
runs (done), then what programs see of the terminal, files and clock (done but for
writing to descriptors), then interrupts, exceptions and boot (done).

What could be modelled next:

1. `Descriptors`: `write`, descriptors 0 and 1 and the clock's, so that a
   system call reaches the right driver through the operation table.
2. `Screen` over `Processes` instead of an arbitrary scheduler, for the output
   that `jammer` swallows.
3. Larger instances: three terminals for `screen`, tabs of full width for
   `console`.

What is left to prove are the liveness properties of section 6, of which only
the safety core of `RoundRobin` is a theorem (`TurnsComeNearer`).
