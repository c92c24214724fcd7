# Verification of the ECE 391 kernel (linux-system-design)

`student-distrib/` is a teaching kernel for a one-processor x86 PC: six
processes, three text terminals, a timer that switches between the terminals, a
keyboard, a real-time clock and a read-only file system. This directory models
it in TLA+, checks the models with TLC and proves theorems about them with
TLAPS. Paths below are relative to `src/student-distrib/`, or, where they begin
with `../`, to its parent `src/`.

The text has four parts: the inventory of the system, the modules and how they
correspond to the code, what the runs and the proofs show, and the plan with
what is left.

---------------------------------------------------------------------------

## 1. Inventory

### 1.1 Components, their state and their operations

| Component | Source | State | Operations |
|---|---|---|---|
| Process management | `syscall_handler.c` | `pid_array`, one PCB per pid (parent, term_id, saved esp/ebp of execute and of the scheduler, descriptors), `cur_pid`, `tss.esp0`, the kernel stacks | `execute_func`, `halt_func`, `get_available_pid`, `init_pcb`, `get_parent_pcb` |
| Timer and scheduler | `pit.c` | `running_term`, `next_term`, per terminal `esp0`, `ss0` | `pit_interrupt_handler`, `get_next_process`, `schedule` |
| Terminals | `terminal.c` | `curr_term`, per terminal `running_pid`, cursor, screen and keyboard backups, `has_enter` | `launch_term`, `switch_terminal`, `save_term_info`, `restore_term_info`, `terminal_read`, `terminal_write` |
| Keyboard | `keyboard.c` | `keyboard_buffer`, `length_key`, key modes | `keyboard_interrupt_handler`, `process_char`, the handlers of Enter, Backspace, Tab and scrolling, `clear_keyboard_buffer`, `read_buffer` |
| Screen | `lib.c` | video memory, `current_location`, `screen_x`, `screen_y` | `putc`, `putc_term`, `scroll`, `scroll_term`, `clear`, `clear_backup` |
| Paging | `paging.c` | one directory, one table | `set_up_PD_PT`, `remap`, `remap_vid` |
| Real-time clock | `rtc_handler.c` | one flag and one rate per terminal | `rtc_interrupt_handler`, `rtc_open`, `rtc_read`, `rtc_write` |
| System calls | `interrupt_handler.S`, `syscall_handler.c` | `ret_val`, the descriptors of each PCB | `open`, `close`, `read`, `write`, `vidmap`, `getargs`; `execute` and `halt` |
| File system | `file_system.c` | the image (read only), `dir_number` | `read_dentry_by_name`, `read_dentry_by_index`, `read_data`, `file_read`, `dir_read` |
| IDT and stubs | `idt_init.c`, `interrupt_handler.S` | the table, written once | entry and return of traps and interrupts |
| Exceptions | `exception_handler.c` | none | print and loop for ever |
| Interrupt controller | `i8259.c` | the masks; in the chips, requests and lines in service | `i8259_init`, `enable_irq`, `disable_irq`, `send_eoi` |
| Boot | `boot.S`, `kernel.c`, `x86_desc.S` | descriptors, TSS | `entry` |
| Kernel library | `lib.c` | none of its own | `memset`, `memcpy`, the string functions, `printf`, `itoa` |
| User programs | `../syscalls`, `../fish` | the shell's line, the buffers of each program | the shell, `grep`, `cat`, `ls` and others |
| Tests, tools | `tests.c`, `../createfs` | | |

### 1.2 How they interact

* **One processor, one kernel.** What runs concurrently are the programs of the
  terminals, in user mode or inside their system calls, and three interrupts.
  `int 0x80` is a trap gate: a system call runs with interrupts on until it
  says otherwise. Keyboard, clock and timer come through interrupt gates.
* **Displayed and running.** `curr_term` is the terminal on the display,
  `running_term` the one whose program has the processor; `cur_pid` is that
  program. Code that means one and uses the other is the commonest hazard here.
* **The keyboard interrupt starts kernel work.** Ctrl+C calls `halt(1)`, Alt+Fn
  calls `launch_term`, both from the interrupt handler on the stack of whatever
  process was interrupted.
* **Contexts are stack places.** `execute_func` saves esp/ebp of its caller's
  frame in the child's PCB and `halt_func` jumps back through it. `schedule`,
  `launch_term` and `halt_func` save esp/ebp of a frame in `curr_esp/curr_ebp`
  and `schedule` leaves through them. A place is good only while nothing has
  been pushed over it.
* **Screens and lines are moved, not mapped.** At a switch, the display and the
  one `keyboard_buffer` are copied to the backups of the old terminal and
  refilled from those of the new one. Output of the others goes to the backup.
* **System calls made by the kernel.** `schedule` and `launch_term` call
  `vidmap`, `halt_func` calls `close`, by the same trap and the same `ret_val`.
* **Handlers leave in their middle.** A timer handler goes on in another
  terminal's frame, a keyboard handler in a new shell or in the parent of the program it
  has ended. The controllers deliver nothing of that line or of a lower one
  until they have been told of its end, so that has to come first.
* **A command crosses three programs.** The shell reads a line into a buffer it
  never clears, `execute_func` parses that buffer in place, and the program gets
  its argument from its PCB through `getargs`.

### 1.3 What is hard

* `clear_keyboard_buffer` and `clear_keyboard_backup` end in `sti`, and
  are called in the middle of `halt_func` and of `save_term_info`, which both
  begin with `cli`: the critical sections end early.
* Busy waits (`read_buffer`, `rtc_read`) test and reset a flag that interrupts
  set, and may be preempted anywhere, also by a switch of the display.
* State that belongs to a process or a terminal is kept in a global (`ret_val`,
  `dir_number`, `keyboard_buffer`, the one page table).
* `entry` turns interrupts on before the devices, the terminals and the first
  shell are set up, and opens the lines one by one.
* Modifier keys are remembered from codes that go down, repeat and come up, in
  any order.
* Limits: six pids, eight descriptors, a line of 128 characters, the last place
  of the screen, the depth of the kernel stacks.
* Nothing is persisted and nothing is sent over a network: there is no crash
  recovery and no message loss to consider.

`PROJECT.json` lists every hazard at its line with the properties that watch it.

### 1.4 What makes each component correct

* Processes: pids are given out once and returned; each terminal is a stack of
  jobs; a halt returns to the parent; the four things that say who runs agree;
  no saved context is overwritten before it is used; traps land on the stack of
  the running process.
* Scheduler: every terminal with a process runs again and again.
* Line input: a line per terminal; a read gets the line of its own terminal, and
  returns once Enter has been pressed there; the buffer is never overrun.
* Screen: a screen and a cursor per terminal; nothing is lost, doubled or drawn
  elsewhere, a program reaches only the screen of its own terminal, and
  Backspace stays on it (not over an Enter: 3.2).
* Clock: an interrupt is counted once and hidden from nobody; a read waits for
  those that come after its call (it does not: 3.2), and returns.
* System calls: a call returns what its handler returned; descriptors belong to
  who opened them; reads run through a file in order; listings are complete.
* Interrupts: every request is delivered and its end sent before its handler
  leaves; no line is silent for ever; boot prepares what a line needs before it
  opens the line; a program that faults ends (it does not: 3.2).
* Modifiers: the kernel's picture is the keys that are held.
* Library: blocks and strings are written completely and nothing else is;
  `printf` prints each directive with its own argument.
* Programs: the command and the argument are those of the line that was typed;
  `grep` prints each line with its argument once and whole.

---------------------------------------------------------------------------

## 2. Modules and the code they stand for

```
 Jobs          <== refined by ==  Processes    -- Processes_proofs
 LineInput     <== refined by ==  Keyboard     -- Keyboard_proofs
 Consoles      <== refined by ==  Screen       -- Screen_proofs
                                    EXTENDS Paging
                                  Rtc          -- Rtc_proofs
                                  SystemCalls  -- SystemCalls_proofs
                                  Interrupts   -- Interrupts_proofs
                                  KeyModes     -- Keyboard_proofs
                                  Library      -- Library_proofs
                                  UserPrograms -- UserPrograms_proofs
```

Each has a module `MC...` that extends it with the values its `.cfg` files
name; `MCDriver` puts `Keyboard` and `KeyModes` side by side for one run. `Jobs`, `LineInput` and `Consoles`
are what the components promise and have no code of their own.

`Keyboard` and `KeyModes` are two views of one driver; their proofs share a
module, and the names of `KeyModes` begin with `Modes` where they would clash.

Every module of a component has a constant `Hazards` (`ModeHazards` in
`KeyModes`; `Rtc` and `Paging` have none): situations in which the code is known to leave
its promises. They are guards the code does not have, each named and described
at its module's head. A run says which are open; with all of them open the
model is the code, up to its bounds and to what is said below to be merged or
left out. Section 3.3 says what happens with each.

### Processes

The process table, terminals and scheduler. The processor (`cpu`) is a kernel stack with
the frames still to be finished on it: a frame is a trap or interrupt with
every C function it has called, its `op` the point it has reached. `Enter` is
the entry of a trap (from user mode at `tss_esp0`, else on the current stack),
`Push` marks saved contexts that the new frame overwrites as `Dead`, `Here` is
what `movl %esp` saves and `Resume` is `leave; ret`. To go on through a dead context,
or through the PCB of pid -1, sets `wild`, after which the model stops.

| Action | Code |
|---|---|
| `Execute`, `ExecuteFails`, `StartShell` (through `StartProcess`) | `execute_func`, from its checks to its `iret` |
| `Halt`, `Halt1`, `HaltFromKeyboard`, then `HaltFree`, `HandBack`, `RestoreEsp0`, `LeaveExecute` | `halt_func`, in the steps that interrupts can separate |
| `SysCall`, `SysReturn`, `VidMap` | the other system calls |
| `CtrlC`, `AltF`, `BeginSwitch`, `ToNewTerminal`, `ToOldTerminal` | the keyboard handler and `launch_term` |
| `PIT` (`Schedule`, `next_term`) | `pit_interrupt_handler`, `schedule`, `get_next_process` |

Where it abstracts: a program image is its pid; a kernel stack is measured in
frames; ebp goes with esp; `ss0` is constant. Interrupts come in user mode, in
ordinary system calls, and in the four windows (`kbd`, `switch`, `launched`,
`halt`) as far as `Hazards` opens them. One window is in no hazard:
`execute_func` has an `sti` (`syscall_handler.c:138`) before the `cli` of its
`iret` sequence, and `StartProcess` is one step. Between the two instructions
there is the load of a register.

### Keyboard and LineInput

A buffer and its length are one sequence. Each key is one step (its handler runs under
`cli`); `terminal_read` is a step per byte, because it does not. `BeginRead`,
`Wake` (`read_buffer`), `Copy`, `Count` and `Clear` follow its lines; `AltF` is
`switch_terminal`; `HaltProgram` and `CtrlC` are what `halt_func` does to the
line. What Backspace does on the screen is in Screen, with its test of
`current_location` (Screen's `LineFits` shows that a line which does not end in
an Enter is never at location 0) and its search after an Enter. Left out: the byte
that `clear_keyboard_buffer` writes at index `length_key`, and the bytes of a
buffer beyond its length, which nothing but that search reads.

### Screen, Consoles and Paging

`Paging` has the directory and the table with the bits that decide access and
the three functions that write them, and `Translate`, the processor. `Screen`
has the display, the backups, `putc` (and `putc_term`, which does the same to a
backup), the echo of the keys, `terminal_write`, `vidmap_func` and a program
that draws with it, and `launch_term` and `schedule` as far as they move
screens and map pages. `line` is `keyboard_buffer` per terminal, with its Enters:
`KeyEnter` appends one, and `terminal_read`, which here may come at any time (when
it may is Keyboard's), empties the buffer. `KeyBackspace` has the three cases of
`handle_backspace`: a tab, an Enter (`BackOverEnter`: back a row, or the search of
the display for the character before it; hazard `enter`) and a character. A location of -1
is one below the display, where no page is present and the kernel faults; the model
stops there. The search looks at characters only: the attribute bytes between
them (2, 3, 7, 15) are no character that a key types. Each action is atomic: `write_func` holds interrupts off
for `terminal_write`, and the echo is in an interrupt handler. A switch is atomic too,
which the `sti` inside `save_term_info` does not guarantee (Processes, window
`switch`). `drawer` says in which terminals vidmap has been called. Attributes,
the hardware cursor and the width of `putc_term`'s row are left out.

### Rtc

One flag and rate per terminal. `rtc_read` is `BeginRead` (its count), `See`
(the busy wait ends), `Reset`, `EndRead`; the interrupt sets every flag; other
terminals are opened and scheduled at any point. Two history variables: `heard`,
the interrupts since the call, and a reader's `flag`, whether the call found its
terminal's flag set, as `rtc_read` does not reset it before it waits. Ctrl+C in
the middle of a read is not modelled.

### SystemCalls

A call is two steps: the handler with its store in `ret_val`, and the load of
`ret_val` when interrupts are already on. Descriptors live in every PCB, whoever
has it, as `init_pcb` does not clear them. Processes are jobs of terminals:
`execute_func`, `halt_func`, `CtrlC`, `AltF` and `Tick` change which job is
`cur_pid` and overwrite `ret_val` where the kernel's own calls do. `opened` and
`got` are history variables. A handler is one step; execute is called in the
displayed terminal only (a background execute is Processes' hazard `bgexec`: what returns
then, and where, is a matter of its stacks); PCBs are assumed zero at
boot; the image is well formed (`ImageAssumption`); names have length 1.

### Interrupts

The two 8259 controllers (`irr`, `isr`, `masked`; `Deliverable` is the line they
offer, `Above` the priorities with the slave cascaded at line 2), the three
devices, the interrupt flag, and a stack of handler frames per terminal. A
frame's `at` is where its handler is: at its beginning, at the `sti` that ends it, at the
`halt` or `launch_term` of the keyboard's, at the `popfl` and `iret` of the stub.

| Action | Code |
|---|---|
| `Accept`, `Sti`, `Iret` | the gates of `idt_init.c`, `interrupt_handler.S` |
| `Tick`, `RtcTick`, `KeyRead` | the handlers up to their `sti`: one step, as interrupts are off |
| `Plain`, `KeyHalt`, `KeySwitch`, `KeyLaunch` | the rest of the keyboard handler: nothing, `halt(1)`, `launch_term` |
| `Fault`, `PageFault`, `squash` | the exceptions, raised by a program or by `save_term_info` before `init_term` has set the backups |
| `i8259_init` to `FirstShell` | `entry`, in the steps between which interrupts can come |
| `PitRequest`, `RtcRequest`, `KeyPress` | the devices |

What a terminal's processes are is reduced to none, zero (before `prep_term`) or a
process; Processes has the rest. A device requests again only
after the interrupted code has taken a step (`due`): the code is assumed to be
faster than its interrupts. The gates of exceptions leave interrupts on and
their stub turns them off a few instructions later: `Raise` is one step. `lost` means that the kernel has gone on with the PCB of no
process; the model stops there. `halt(1)` and `launch_term` are one step here:
their windows are in Processes.

### KeyModes

`key_mode`, `cap_on`, `ctrl_pressed` and `alt_pressed`, with `process_char` and
the break codes of `keyboard_interrupt_handler`, next to the keys that the user
holds. Keys are classes: two Shift, two Ctrl and two Alt keys, a letter, a
digit, the two letters with a Ctrl command, Alt's function keys, the backslash,
keys without a character. The right Ctrl and Alt send the left one's codes after
a prefix that the handler ignores; the other keys with a prefix are left out. The line
always has room; what a character does then is Keyboard and Screen.

### Library

One call of one function, chosen in `Init`. `memset` and `memcpy` share their
shape (`Top`, `Aligned`, `Rep`, `Bottom`: the labels of their assembly); the string functions take
a step per character, `printf` one per character of its format. The kernel's
calls of `memcpy` (`terminal.c:224`, 246) are on blocks that are apart, and
`scroll` has a loop of its own; `BlockCalls` also has the blocks that move down
over themselves, which cost nothing and hold as well. Characters are compared
as `int8_t`, so bytes of 128 and more are negative. `itoa` is a
recursive function reversed by `strrev`, as in the code; `%c` and `%s` take their argument as
it is. `Width` is the number of bits of an integer, so that `-value` of the
least negative number wraps as it does in C. What should be printed
(`AllExpected`) is defined without `itoa`: digit `k` of a number is what
division by a power of the base leaves (`Numeral`), and there are as few as show
the number (`Shortest`).

### UserPrograms

The shell's `ReadLine`, then `Execute` (the parsing in `execute_func`; `Lead`,
`Stop`, `parsed_command` and `argument` are its loops), `Main` (`getargs_func`),
and `grep`: `NextEntry`, `Read`, `Carry`, `Search`. Arrays start at 0 and keep
what earlier commands and reads have left in them; `Junk` is what nothing has set. Every
executable is a `grep`; a world is a set of command lines with the
directories they may find, made of `Bytes`, and `WorldsAssumption` says what
makes it one. What should be printed (`AllFound`) is collected from the files
themselves, line by line, without buffers. Errors of `open`, `read` and `close` cannot occur on
a well-formed image.

---------------------------------------------------------------------------

## 3. What is checked

### 3.1 Runs that hold

| Run | Bounds | What it shows |
|---|---|---|
| `Processes_terminals` | 3 terminals, 3 pids, 3 terminal keys, esp0 two frames deep, hazard `noproc`, fairness | no wild jump even with the pid table full; contexts stay live; who runs is agreed (with `RunningContextInv`, the inductive invariant of the proofs); pids are accounted for; traps land on the right stack; every halt returns to the parent of what it ends; the display is mapped for no program while it shows another terminal's; refines `Jobs`; every terminal with a process runs again and again |
| `Driver_keys` | line: 2 terminals, buffer and reads of 3, 5 keys, fairness; modifiers: none, all key sequences | refines `LineInput`; `has_enter` is exactly "the line holds an Enter"; waiting reads return; the modifier state is the keys held; each key means what they say |
| `Screen_consoles` | 2 terminals, 2 rows of 3 places, lines of 3, 3 outputs | refines `Consoles`; a program reaches its own screen only; typing, with Enters not yet read, stays on the screen |
| `Rtc_reads` | 2 terminals, rates 2 to 4, fairness | no interrupt is counted twice or hidden, and one at most from before the call is counted at all; reads return |
| `SystemCalls_files` | 2 terminals, 3 pids, 3 descriptors, 5 calls, a file of two blocks | descriptors have one owner; reads run in order; listings are complete |
| `Interrupts_boot` | 2 terminals, 2 keys waiting, 2 nested frames, hazards `fault` and `early`, fairness | no handler leaves with its end unsent; requests are delivered, clock and keys read (`DevicesServed`); boot prepares PCBs in time unless a key comes too early; contexts are kept |
| `Library_calls` | 14 bytes, strings of up to 4, 8 bits, formats of 2 conversions | blocks, strings and formatted output are right when a call is done, and nothing else is written |
| `UserPrograms_grep` | lines of 4 and buffers of 8, a name of 3, files of 5 in reads of 3, 2 commands | the command and argument are those typed; `grep` prints the right lines; commands end |

Why the bounds are enough. Two terminals give every relation of displayed and
running; `Processes` takes three, because the rotation and the windows
differ with a third. Three pids let every terminal have a shell, or one or two
terminals have children, and fill the table both ways; a freed pid is reused; that
the safety properties hold for any number of pids is proved. Three terminal keys open two
terminals and hit Ctrl+C, or open, leave and return. A buffer of three reaches full,
the place kept for Enter, and reads shorter and longer than the line. A
screen of two rows has a last row that is also the second, so a text of five
characters scrolls by each of the rules; its three columns let a line of three,
with an Enter in it, lie before and behind the end of a row. Rates 2 to 4 give
counts of 0, 1 and 2: none to wait for, one, and one after another. A file of two blocks that are not adjacent has every
boundary case with reads of one and two bytes. Two waiting codes and two nested
frames have every pair of handlers on top of each other, with a request behind
them; a third frame would come from the same three handlers. KeyModes is finite
and explored completely. Fourteen bytes give every alignment of both ends with
none, one and two words between them, and every distance of an overlap; eight
bits have two hexadecimal digits, so that leading zeros, signs and the least
number occur. Files of five in a buffer of three need two or three reads, with
a line's end before, at and after each. A second command finds the first one's
rests in every buffer. `MaxLeak` bounds how deep
`tss.esp0` may be when a program calls execute; `MaxKeys`, `MaxCalls`,
`MaxOutputs`, `MaxCodes` and `MaxLines` bound the user's and the programs'
actions; `MaxNest` bounds the frames beyond which no device requests.

Fairness. The timer and the clock tick for ever. A tick that arrives while
interrupts are off is kept by the interrupt controller and taken as soon as they
are on: strong fairness of `PIT`. Kernel code that has begun goes on: weak
fairness of `KernelSteps`. In `Keyboard` and `Rtc` the scheduler comes round to
every terminal (that is `EveryTerminalRuns`, checked in `Processes_terminals`) and the
program it finds takes the next step of its read, though it may be preempted any
number of times before: strong fairness. The user and the programs owe nothing:
no property assumes that a key is pressed or a call is made. In `Interrupts`
only the processor is fair (weakly): it takes an interrupt it is offered, and handlers
and the interrupted code go on; the devices are not. `UserPrograms`
is sequential code that goes on; `Library` states safety only and assumes no fairness.

Deadlock is checked in every run that holds.

### 3.2 Where the code differs from what is said of it

Four runs show a disagreement as a violated property; the findings in
`PROJECT.json` quote the comment or document.

| Run | Property violated | In short |
|---|---|---|
| `Keyboard_full` | `LengthWithinBuffer` | `==` in the test of the letter case: once a Tab (as in TLC's trace) or an Enter has taken the last place of the buffer, letters go beyond it |
| `Rtc_early` | `WaitsForOne` | an interrupt before the call has set the flag, and the read returns without one since. (With a second terminal the property is violated a second way: at the highest rate the count divided by two is 0) |
| `SystemCalls_ret` | `ReturnsOwnValue` | one `ret_val`, loaded with interrupts on |
| `Interrupts_fault` | `FaultEndsProgram` | a program that faults is not ended, with 256 or otherwise: its handler loops with interrupts off |

`Interrupts_fault` is under the fairness of `Interrupts`; the processor stays in
`squash` although it goes on.

Others appear when a hazard is added to the run that holds (in the `.cfg`,
`Hazards = {"..."}`), which then finds the property violated. (With some of
them the model also stops, where it is `wild` or the kernel has faulted: TLC's
option `-deadlock` passes over that.)

| Hazard, run | Property | The code | What is said of it |
|---|---|---|---|
| `halt`, `Processes_terminals` | `HaltReturnsToParent` | the `sti` inside `clear_keyboard_buffer` ends the critical section of `halt_func`; the freed pid is reused before `syscall_handler.c:229` reads its PCB again | `../docs/深度解析/10-进程管理-深度解析.md:622`: halt finds the parent through the parent pointer and restores its environment |
| `stale`, `Processes_terminals` | `OwnKernelStack` | `launch_term` (`terminal.c:172`) saves esp and ebp but not `tss.esp0` | `buglog.txt:86`: "store and restore the tss.esp0 and tss.ss0 each time" |
| `switch`, `Driver_keys` | `RefinesLineInput` | `terminal_read` (`terminal.c:59`) copies and clears the displayed terminal's line after a switch | `../docs/深度解析/12-多终端-深度解析.md:357`: each terminal has a keyboard buffer backup of its own |
| `enter`, `Screen_consoles` | `TypeOK` | Backspace over an Enter not yet read looks for the character before it on the display, backwards and without a bound (`keyboard.c:368`): behind a Tab, which is never drawn, the location leaves the screen | `keyboard.c:349`: "decrement the current location and erase one char" |
| `ctrlc`, `SystemCalls_files` | `DescriptorsOwned` | `halt_func` tests one PCB, `close` (`syscall_handler.c:217`) works on `cur_pid`'s | `syscall_handler.c:213`: "unable the current pcb and close the open files" |
| `noarg`, `UserPrograms_grep` | `CommandTyped` | the argument is looked for behind the NUL of a command without one (`syscall_handler.c:60`) | `syscall_handler.c:512`: getargs "reads the program's command line arguments" |

### 3.3 The other hazards

What TLC finds when one more hazard is opened in the run that holds. These
experiments are not among the runs; they say how far the runs' guards are
needed, and that the properties do catch what the hazards do.

| Hazard | Module | Result |
|---|---|---|
| `kbd`, with `nestedkey` or without | Processes | holds with 2 terminals; with 3 `NoWildJump` is violated: the pid that was free when Alt+Fn came is taken before the launch, and a Ctrl+C in the window then comes to act on the terminal that has got no process |
| `switch`, `launched` | Processes | hold with 2 terminals; with 3 `ContextsLive` is violated (with `switch`, where there are 4 pids) |
| `halt` | Processes | `PidsAccounted` is violated |
| `stale` | Processes | `OwnKernelStack` is violated |
| `bgexec`, `bgexit` | Processes | `ContextsLive` is violated |
| `bghalt1` | Processes | `EveryTerminalRuns` is violated: background programs that call `halt(1)` hand the processor to the displayed terminal, and the round robin begins again from there. The safety properties hold: another job than the caller is ended, in good order |
| `bgvidmap` | Processes, Screen | `DisplayIsolation`, `ReachesOwnScreen` are violated |
| `nullpcb` with `noproc` | Processes | `NoWildJump` is violated; with either alone it holds |
| `reading` | Keyboard | `RefinesLineInput` is violated |
| `erase`, `discard` | Keyboard | `EnterAnnounced` is violated |
| `tab`, `tabkey` | Screen | `RefinesConsoles` is violated |
| `enter` | Screen | `TypeOK` is violated: the location leaves the screen or is odd |
| `overfull` | Screen | nothing is violated within the run's bounds; closed because the room of a line is counted up to `Size` (what it does to the buffer is the run `Keyboard_full`) |
| `ctrlc` | Screen | `ReachesOwnScreen` is violated |
| `dirs` | SystemCalls | `ListsDirectory` is violated |
| `twokeys`, `capsrepeat` | KeyModes | `ModeMatchesKeys` is violated |
| `ctrlheld`, `backslash`, `nul`, `overrun` | KeyModes | `ActsAsHeld` is violated |
| `noconv` (with `"h"` in `Formats`) | Library | `PrintsDirectives` is violated: `print_err_addr` shows no address |
| `leading`, `full` (`"full"` with a line of that length) | UserPrograms | `CommandTyped` is violated |
| `longline`, `binary`, `garbage` (with such a file) | UserPrograms | `GrepPrints` is violated |

---------------------------------------------------------------------------

## 4. What is proved

For every value of the constants that satisfies the modules' assumptions. Where
a theorem closes hazards, its hypothesis names them; most of them are known to
break the property (3.3), the others are closed because the argument needs it. The
inductive invariants were checked by TLC, as invariants of the runs' instances
with the hazards their theorems leave open, before they were proved.

| Module | Theorem | Property | Hazards closed |
|---|---|---|---|
| `Processes_proofs` | `TypeCorrect` | `TypeOK` | none |
| | `ContextInvariant`, `RunningContextHolds` | `RunningContext` | windows, `bgexec` |
| | `StacksInvariant`, `NoWildJumpHolds`, `OwnKernelStackHolds`, `HaltReturns`, `ContextsLiveHolds` | `NoWildJump`, `OwnKernelStack`, `HaltReturnsToParent`, `ContextsLive` | windows, `stale`, `bgexec`, `bgexit`, `bghalt1`, `nullpcb` |
| | `DisplayIsolated` | `DisplayIsolation` | windows, `bgexec`, `bgvidmap` |
| | `JobsInvariant`, `PidsAccountedHolds`, `JobsRefined` | `PidsAccounted`, `RefinesJobs` | windows, `bgexec` |
| `Keyboard_proofs` | `TypeCorrect` | `TypeOK` | none |
| | `LineInvariant`, `EnterAnnouncedHolds`, `LinesRefined` | `EnterAnnounced`, `RefinesLineInput` | all but `overfull` |
| | `ModeMatchesKeysHolds` (of `KeyModes`) | `ModeMatchesKeys` | `twokeys`, `capsrepeat` |
| | `ActsAsHeldHolds` (of `KeyModes`) | `ActsAsHeld` | all |
| `Rtc_proofs` | `TypeCorrect`, `InterruptsCounted`, `InterruptsSeen` | `TypeOK`, `CountsInterrupts`, `NoneHidden` | (it has none) |
| `Screen_proofs` | `OwnScreenOnly` | `ReachesOwnScreen` | `bgvidmap`, `ctrlc` |
| | `ScreenTypes` | `TypeOK` | `tab`, `enter`, `overfull` |
| | `ScreensAreConsoles` | `RefinesConsoles` | all |
| `SystemCalls_proofs` | `ReadingInvariant`, `TypeCorrect`, `ReadsInOrderHolds` | `TypeOK`, `ReadsInOrder` | none |
| | `OwnersInvariant`, `DescriptorsOwnedHolds` | `DescriptorsOwned` | `ctrlc`, unknown types in the image |
| | `FilesInvariant`, `ListsDirectoryHolds` | `ListsDirectory` | these and `dirs` |
| `Interrupts_proofs` | `TypeCorrect`, `EndsInterrupts`, `OrderHolds`, `PcbsPrepared`, `ContextKeptHolds` | `TypeOK`, `EndedBeforeLeaving`, `PcbsInUse`, `ContextKept` | none |
| `Library_proofs` | `BlockInvariant`, `BlockComplete` | `BlockWritten` | none |
| | `StringInvariant`, `StringsRightHolds` | `StringsRight` | none |
| | `PrintInvariant`, `PrintfRight` | `PrintsDirectives` | `noconv` |
| `UserPrograms_proofs` | `CommandIsTyped` | `CommandTyped` | `noarg`, `leading`, `full` |
| | `GrepFinds` | `GrepPrints` | `longline`, `binary`, `garbage` |

The windows are `kbd`, `switch`, `launched` and `halt`.

### The arguments

**Processes.** `TypeCorrect` has its content in the points of execution: the
frames to finish never outnumber the depth of the stack, also after a step
through a saved context.

* `RunningContext` (the process on the processor, `cur_pid`, the page at 128MB
  and the terminal table agree whenever a program runs) is not inductive: a
  halt hands the processor to the parent in four steps, and a tick to whatever
  the PCB has saved. `RunningContextInv` adds that a live job's parent is live,
  of the same terminal, has one child and is in control of none
  (`ParentsKept`), that the process of a terminal is a live job of it
  (`TerminalsKept`), that saved contexts belong to whom they are saved for and
  are in user mode or in an ordinary call (`ContextsKept`), and what
  `halt_func` and `launch_term` know at each point they have reached
  (`FrameKept`). The other hazards may be open: they break other properties, or
  send the model `wild`, of which the invariant says nothing.
* `StacksInv` carries the four properties about saved contexts. A process that
  waits, for the timer or for the halt of its child, waits in a place of its
  own kernel stack (`WaitingKept`); `tss.esp0`, and what each terminal will get
  back into it, is on the stack of the process that will trap through it
  (`ProcessorKept`); and what pushes is the running process alone. So nobody
  pushes where somebody waits, and a context is `Live` until it is resumed.
  `HandlerKept` follows `halt_func` and `launch_term`, where the running
  process is for a few steps not the one on the processor's stack.
* `DisplayInv` extends `DisplayIsolation` to kernel code, but for the point where
  `launch_term` has moved `curr_term` and still runs in the old terminal: then the
  new one has no process yet, and keeps none if the pid table is full.
* `JobsInv` is about lists that no variable holds: the line of jobs of a
  terminal, computed from the parents in the PCBs. A sequence
  that ends in `running_pid`, has each job's parent before it and begins with a
  shell is shown to be what `Jobs` computes: it names no pid twice, so it is no
  longer than `MaxProcs`, and the least depth at which the recursive function
  would differ from it is impossible. A step's new lines are then
  given as such sequences: one longer, one shorter or the same. `RefinesJobs` then has each step of `Processes` as a
  `Start`, a `Finish` or a stutter of `Jobs`.

**Keyboard.** `LineInv` says where each reader is. `has_enter` of a terminal is
set exactly if its line, displayed or in its backup, holds an Enter
(`EnterAnnounced`); one reader at most is past its wait (`PastWait`), and then
the displayed line is still the one it has seen completed, because switching, ending the
program and editing away the Enter are the closed hazards; what it has copied is the
beginning of that line (`Copied`) and what it will count is all of it that fits
(`CopyDone`). With that, `Clear` is the abstract `Read` and every other step of
a reader a stutter, and `AltF` moves lines between the buffer and the backups
without moving them between terminals.

**SystemCalls.** `ReadsInOrder` holds without any hypothesis, but only because
of a fact about descriptors that are *not* open: `close_func` and `init_pcb`
leave the inode and position of the last file in them, so every
descriptor of a file, used or not, has an inode of the image and a position
inside it (`FilesPlaced`), and one that is `opened` has been read up to its
position (`FilesRead`). `DescriptorsOwned` needs that the jobs of the terminals
are different processes: then the descriptors that `execute`, `halt` and `open`
change are of one process. `ListsDirectory` needs that `dir_number`, one for all
processes, is where the only open listing is (`OneListing`).

**KeyModes.** `ModeInv` adds to `ModeMatchesKeys` that of the Shift, the Ctrl and the
Alt keys one at most is held. The attempt to prove `ActsAsHeld` showed that `Meaning` gave L and C with
Ctrl by two overlapping guards of a `CASE`, which leaves their value open in
TLA+ though TLC takes the first; its guards are now disjoint.

**Interrupts.** `EndedBeforeLeaving` is inductive once the types are known, as a line enters
service only when a handler begins on top of the stack and leaves it before the
handler's `sti`. `PcbsInUse` needs `OrderInv`: up to `prep_term` the timer's line
is masked, from then on `running_pid` is never zero, terminals without a frame
to go on from are not scheduled, and no key but an editing one is in the machine
before the first shell, unless one came `early`. `ContextKept` holds whatever comes early: `KeptInv` adds that
until the first shell nothing leaves terminal 0, unless the model is `lost`.

**Rtc.** `CountsInterrupts` allows the interrupt from before the call only to a
read that found its flag set (`Due`): it says that none is counted twice, not that
a read waits for its number, which the code does not do (3.2). `ReadInv` adds
that a program between its busy wait and its reset still has its flag set, and that one
which has counted all it may has its flag reset.

**Screen.** `PagesInv` says that the region at 132MB is the only one cut into
pages that programs may see, that page 0 of the table is the only one of it
they may see, and where it leads. `ScreenInv` adds to the types that what has been
typed since the last Enter of the line has its room before the location
(`LineFits`: a character takes a place, a tab `TabLen`): that is why Backspace,
which steps back by what the line holds, stays on the screen as long as it does
not come to an Enter. Of the Enter itself, and of what lies before it, nothing
like this is true: the search over an Enter finds the last place that looks like
the character before it, or none, so the theorems close `enter`.
The room is there because whatever is drawn moves
the location on, unless the screen scrolls, and then it is in the last row,
where `ScreenAssumption` says that a line has its room (a line of 128 with tabs
of 4 takes 512 places, the rows above the last have 1920). The assumption also
says what keeps the two tabs from the wrong scroll where their hazards are closed: a
screen is not higher than wide (`putc` compares the column with the rows), and it has a
third row or tabs of one place, so that the place halfway down, where
`handle_tab` scrolls, is above the row it scrolls to. 25 rows of 80 have both.
The refinement maps a screen to its rows and its cursor (`Con`): each rule of `putc`, `handle_enter`
and the echo is shown to be a `Put`, place by place, and a text, whatever its
length, to be drawn as `PutAll` says by taking the first character after which
the two would differ. The display, the copies and `curr_term` change hands in
`launch_term` and `schedule` without a change to any console.

**Library.** `BlockInv` says that at every instruction group the bytes before
`edi` are written, the source ahead of `esi` is still what it was, and what
`ecx` and `edx` count is what is left. It holds for every memory size, block,
alignment and value, and for blocks that move down over themselves, though the
kernel's own are apart.
`StringInv` says of a string function after `i` turns that it has met no zero
(or, in the second loop of `strncpy`, that it has), and that `i` bytes are
written and the source from `i` on is not: the string's end is then where
`strlen` of the old memory is, and no function runs past it.
`PrintInv` says that `printf` stands at a directive of its format, or behind its
`%` or `#`, has printed the ones before it and will take the argument that is
the next one's. What a conversion prints is a matter of arithmetic: the digits
that `itoa` takes off a number, the last one first, are those of its quotients
by the powers of the base (`ReversedDigits`, by induction on how many there
are), reversed they are its numeral, as long as it must be (`OneFew`: powers
grow), and four binary digits to a hexadecimal one make the zeros of `%#x` fill
the width (`HexPower`).

**UserPrograms.** `LineInv` says that the shell's buffer holds the line that was
typed, a NUL, and then whatever earlier lines have left. From it the loops of
`execute_func` are followed one by one (`StopIs`, `NameIs`, `ArgumentIs`): the
first word ends where `Stop` stops, the argument is the second, and the NUL
behind the line keeps the rests out of both. `GrepInv` says where in the file a
read has ended: before a read `data` begins with the part of a line that has
been read and has no newline anywhere, rests of earlier reads included
(`Reads`, `NoLines`); after it, every newline in `data` is one of the file
(`Lines`); and what has been printed is what the file has up to the line that
is next (`Printed`). So `Carry`, which moves a cut line to the front, leaves it
to be completed and searched once, wherever the reads end, and a last line
without a newline is searched at the file's end.

### Only model-checked

* All liveness (`EveryTerminalRuns`, `ReadReturns` and those of the clock, the
  devices and the programs) and what `ENABLED` says: out of the prover's reach.

Every invariant and action property of a run that holds is stated by a theorem. What loops
compute for every number and text is induction over data, for which the
library's theorems cannot be used; it is done by hand, from the least number for
which a claim would fail (`LeastElement`, `Along`), about recursive functions.
No module declares a `RECURSIVE` operator.

---------------------------------------------------------------------------

## 5. Not modelled

* What `boot.S` and `entry` set up before interrupts are on: the multiboot
  information, the LDT and TSS descriptors, the control registers.
* Spurious interrupts, the lines without a device, NMI as a device (vector 2 is
  one of the exceptions).
* The loading of executables, the text of messages, colours.
* `memmove`, `memset_word` and `memset_dword`: nothing calls them.
* `cat` and `ls` (a loop over one read), `counter`, `pingpong` and `fish` (which
  draw), `syserr` (a test of the system calls), `ece391_itoa` and
  `ece391_strrev`. In all modules but `UserPrograms` a program may make any call at any time.
* The end of a kernel stack and what lies below it.
* `tests.c` (not called by the final kernel), the copies in
  `../backup-original`, the build tools.

---------------------------------------------------------------------------

## 6. Plan

Done, in this order: `Processes` with `Jobs` and its proofs; `Keyboard` with
`LineInput` and its proofs; `Rtc` with its proofs; `SystemCalls` with its
proofs; `Paging`, `Screen` with `Consoles`, and its proofs;
`Interrupts` with its proofs; `KeyModes` with its proofs; `Library` with its
proofs; `UserPrograms` with its proofs.

To come, the most important first:

1. The interleaving of a switch with ticks in `Screen` (the `sti` in
   `save_term_info`), so that the loss of output in the middle of a switch can be stated.
2. `Rtc` with Ctrl+C and halt in the middle of a read, and with rates that are
   no power of two.
3. The kernel stack's extent: how many commands a shell can run before its traps
   leave its stack, from the growth of `tss.esp0` that `Processes` follows.
