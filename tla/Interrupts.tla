------------------------------ MODULE Interrupts ------------------------------
(***************************************************************************)
(* From a device's request to the return of its handler: the two 8259      *)
(* controllers (i8259.c), the gates and stubs (idt_init.c,                  *)
(* interrupt_handler.S), the three handlers of pit.c, keyboard.c and        *)
(* rtc_handler.c as far as they touch the controllers, the interrupt flag   *)
(* or the kernel stacks, the exceptions (exception_handler.c), and the boot *)
(* sequence of entry (kernel.c) that unmasks the lines one by one.          *)
(*                                                                         *)
(* A handler runs as a frame on the kernel stack of the terminal that runs. *)
(* It may leave that stack in its middle: the timer's for another terminal, *)
(* the keyboard's for a new shell or for the parent of a program it ends.   *)
(* A controller delivers nothing of a line, or of a lower one, until it is  *)
(* told of the end of the interrupt in service.                             *)
(***************************************************************************)
EXTENDS Integers, Sequences

CONSTANTS
  NumTerms,   \* NUM_TERM
  MaxCodes,   \* bound: codes of keys that wait in the keyboard
  MaxNest,    \* bound: frames on the stack beyond which no device requests
  Hazards     \* what this instance allows

(***************************************************************************)
(* "fault": a program raises an exception.  "early": a key other than an    *)
(* editing one before the first shell runs, or any before i8259_init.       *)
(***************************************************************************)
ASSUME ConstantsAssumption ==
  /\ NumTerms \in 1 .. 3             \* Ctrl+C is 4
  /\ MaxCodes \in Nat \ {0}
  /\ MaxNest \in Nat \ {0}
  /\ Hazards \subseteq {"fault", "early"}

Terms == 0 .. NumTerms - 1

PIT_IRQ_NUM  == 0
KEYBOARD_IRQ == 1
SLAVE_IRQ    == 2                     \* ICW3_SLAVE: where the slave is cascaded
RTC_IRQ_NUM  == 8
Devices == {PIT_IRQ_NUM, KEYBOARD_IRQ, RTC_IRQ_NUM}
Exception    == 16                    \* the line of a frame no line has caused
Lines   == Devices \cup {SLAVE_IRQ}

(***************************************************************************)
(* Keys: 0 for one that only edits the line, 4 for Ctrl+C, n for Alt+Fn, as *)
(* process_char returns them.                                               *)
(***************************************************************************)
CtrlC == 4
Keys  == {0, CtrlC} \cup 1 .. NumTerms

Steps == << "i8259_init", "sti", "init_keyboard", "rtc_init", "rtc_enable",
            "prep_term", "pit_init", "init_term", "shell", "done" >>
Boots == {Steps[i] : i \in 1 .. Len(Steps)}

VARIABLES
  irr, isr,      \* the controllers: lines that request, lines in service
  masked,        \* master_mask and slave_mask
  due,           \* devices that may interrupt before the next idle moment
  register_C,    \* the clock waits for its register C to be read
  key,           \* codes of the keys not read from the keyboard yet
  early,         \* a key of hazard "early" has been pressed
  IF_,           \* the interrupt flag
  boot,          \* the next step of entry
  running_pid,   \* per terminal: 0 from the start, none (-1), or a process
  vid_backup,    \* the terminals' vid_backup are set
  curr_term, running_term,
  stack,         \* per terminal, its kernel frames, the innermost first
  lost           \* the kernel has gone on with the PCB of no process

devices == << due, register_C, key, early >>
pic     == << irr, isr, masked >>
table   == << running_pid, vid_backup, curr_term >>
vars    == << pic, devices, IF_, boot, table, running_term, stack, lost >>

Frames == [irq : Devices, at : {"begin", "sti", "act", "iret"},
           i : Keys]
          \cup [irq : {Exception}, at : {"squash"}, i : {0}]

TypeOK ==
  /\ irr \subseteq Devices /\ isr \subseteq Lines /\ masked \subseteq Lines
  /\ due \subseteq Devices
  /\ register_C \in BOOLEAN
  /\ key \in Seq(Keys)
  /\ early \in BOOLEAN
  /\ IF_ \in BOOLEAN
  /\ boot \in Boots
  /\ running_pid \in [Terms -> {"zero", "none", "process"}]
  /\ vid_backup \in BOOLEAN
  /\ curr_term \in Terms
  /\ running_term \in Terms
  /\ stack \in [Terms -> Seq(Frames)]
  /\ lost \in BOOLEAN

\* As the boot loader leaves the machine, with the timer already counting.
Init ==
  /\ irr = {} /\ isr = {} /\ masked = Lines
  /\ due = Devices
  /\ register_C = FALSE
  /\ key = << >>
  /\ early = FALSE
  /\ IF_ = FALSE
  /\ boot = "i8259_init"
  /\ running_pid = [t \in Terms |-> "zero"]
  /\ vid_backup = FALSE
  /\ curr_term = 0 /\ running_term = 0
  /\ stack = [t \in Terms |-> << >>]
  /\ lost = FALSE

-----------------------------------------------------------------------------
(***************************************************************************)
(* The controllers.                                                        *)
(***************************************************************************)
Open(irq) == irq \notin masked /\ (irq = RTC_IRQ_NUM => SLAVE_IRQ \notin masked)

\* The slave's lines come between the master's 1 and 3.
Above(irq) == IF irq = RTC_IRQ_NUM THEN Lines ELSE 0 .. irq

\* The line a controller offers to the processor now.
Deliverable(irq) ==
  /\ irq \in irr /\ Open(irq)
  /\ isr \cap Above(irq) = {}
  /\ \A l \in irr \cap Above(irq) : Open(l) => l = irq

enable_irq(irq)  == masked' = masked \ {irq}
disable_irq(irq) == masked' = masked \cup {irq}

send_eoi_slave(irq) == isr \ {irq}              \* mutant: only to the slave
send_eoi(irq) == IF irq = RTC_IRQ_NUM THEN isr \ {RTC_IRQ_NUM, SLAVE_IRQ}
                                      ELSE isr \ {irq}

-----------------------------------------------------------------------------
(***************************************************************************)
(* The frame that runs.                                                    *)
(***************************************************************************)
Running   == stack[running_term]
InProgram == Running = << >> /\ boot = "done"
At(irq, at) == Running # << >> /\ Head(Running).irq = irq /\ Head(Running).at = at

Squashing == At(Exception, "squash")

Replace(fr) == [stack EXCEPT ![running_term] = << fr >> \o Tail(@)]
GoTo(at)    == Replace([Head(Running) EXCEPT !.at = at])
Push(fr)    == [stack EXCEPT ![running_term] = << fr >> \o @]

\* An interrupt gate turns interrupts off; the stub calls the handler.
Accept(irq) ==
  /\ IF_
  /\ Deliverable(irq)
  /\ irr' = irr \ {irq}
  /\ isr' = isr \cup {irq} \cup (IF irq = RTC_IRQ_NUM THEN {SLAVE_IRQ} ELSE {})
  /\ IF_' = FALSE
  /\ stack' = Push([irq |-> irq, at |-> "begin", i |-> 0])
  /\ UNCHANGED << masked, devices, boot, table, running_term, lost >>

\* The sti that ends every handler.
Sti ==
  /\ Running # << >> /\ Head(Running).at = "sti"
  /\ IF_' = TRUE
  /\ stack' = GoTo(IF Head(Running).irq = KEYBOARD_IRQ THEN "act" ELSE "iret")
  /\ UNCHANGED << pic, devices, boot, table, running_term, lost >>

\* The stub's popfl turns interrupts off again, its iret on.
Iret ==
  /\ Running # << >> /\ Head(Running).at = "iret"
  /\ IF_' = TRUE
  /\ stack' = [stack EXCEPT ![running_term] = Tail(@)]
  /\ UNCHANGED << pic, devices, boot, table, running_term, lost >>

-----------------------------------------------------------------------------
(***************************************************************************)
(* The handlers.                                                           *)
(***************************************************************************)
\* get_next_process: round robin from the terminal that runs.
get_next_process ==
  LET Turn(n) == (running_term + n) % NumTerms
      live == {n \in 1 .. NumTerms : running_pid[Turn(n)] # "none"}
  IN IF live = {} THEN running_term
     ELSE Turn(CHOOSE n \in live : \A m \in live : n <= m)

\* pit_interrupt_handler up to its sti, and schedule within it.
TickDo(ended, scheduling) ==
  /\ At(PIT_IRQ_NUM, "begin")
  /\ isr' = ended
  /\ stack' = GoTo("sti")
  /\ IF scheduling
     THEN LET next == get_next_process
              saved == next # running_term => stack[next] # << >>
          IN /\ running_term' = next
             /\ lost' = (~saved \/ running_pid[running_term] # "process"
                                \/ running_pid[next] # "process")
     ELSE UNCHANGED << running_term, lost >>
  /\ UNCHANGED << irr, masked, devices, IF_, boot, table >>

Scheduling == \E t \in Terms \ {0} : running_pid[t] # "none"
Tick_late == TickDo(isr, Scheduling)            \* mutant: send_eoi after schedule
Tick_always == TickDo(send_eoi(PIT_IRQ_NUM), TRUE)    \* mutant: no test of pids
Tick == TickDo(send_eoi(PIT_IRQ_NUM), Scheduling)

\* rtc_interrupt_handler up to its sti.
RtcTick ==
  /\ At(RTC_IRQ_NUM, "begin")
  /\ register_C' = FALSE
  /\ isr' = send_eoi(RTC_IRQ_NUM)
  /\ stack' = GoTo("sti")
  /\ UNCHANGED << irr, masked, due, key, early, IF_, boot, table, running_term,
                  lost >>

\* keyboard_interrupt_handler up to its sti: inb, send_eoi, process_char.
KeyRead ==
  /\ At(KEYBOARD_IRQ, "begin")
  /\ key # << >>
  /\ key' = Tail(key)
  /\ irr' = IF Tail(key) = << >> THEN irr ELSE irr \cup {KEYBOARD_IRQ}
  /\ isr' = send_eoi(KEYBOARD_IRQ)
  /\ stack' = Replace([irq |-> KEYBOARD_IRQ, at |-> "sti", i |-> Head(key)])
  /\ UNCHANGED << masked, due, register_C, early, IF_, boot, table,
                  running_term, lost >>


Plain ==
  /\ At(KEYBOARD_IRQ, "act") /\ Head(Running).i = 0
  /\ stack' = GoTo("iret")
  /\ UNCHANGED << pic, devices, IF_, boot, table, running_term, lost >>

\* halt(1): the program of the displayed terminal ends, and its parent, or a
\* new shell, goes on from user mode on an empty kernel stack.
KeyHalt_unsaved ==                              \* mutant: as if it were running
  /\ At(KEYBOARD_IRQ, "act") /\ Head(Running).i = CtrlC
  /\ stack' = [stack EXCEPT ![running_term] = << >>]
  /\ running_term' = curr_term
  /\ lost' = (running_pid[curr_term] # "process")
  /\ UNCHANGED << pic, devices, IF_, boot, table >>

KeyHalt ==
  /\ At(KEYBOARD_IRQ, "act") /\ Head(Running).i = CtrlC
  /\ stack' = [GoTo("iret") EXCEPT ![curr_term] = << >>]
  /\ running_term' = curr_term
  /\ lost' = (running_pid[curr_term] # "process"
              \/ running_pid[running_term] # "process")
  /\ UNCHANGED << pic, devices, IF_, boot, table >>

Launch(t) ==
  /\ At(KEYBOARD_IRQ, "act") /\ Head(Running).i = t + 1
  /\ t # curr_term

\* launch_term(t) of a terminal with a process, or of the displayed one.
KeySwitchTo(shown) ==
  /\ \E t \in Terms :
       /\ At(KEYBOARD_IRQ, "act") /\ Head(Running).i = t + 1
       /\ t = curr_term \/ (running_pid[t] # "none" /\ vid_backup)
  /\ curr_term' = shown
  /\ stack' = GoTo("iret")
  /\ UNCHANGED << pic, devices, IF_, boot, running_pid, vid_backup,
                  running_term, lost >>

KeySwitch_i == KeySwitchTo(Head(Running).i)     \* mutant: not i - 1
KeySwitch == KeySwitchTo(Head(Running).i - 1)

\* launch_term(t) of a terminal without one: its first shell.
KeyLaunch ==
  /\ vid_backup
  /\ \E t \in Terms :
       /\ Launch(t)
       /\ running_pid[t] = "none"
       /\ curr_term' = t
       /\ running_pid' = [running_pid EXCEPT ![t] = "process"]
       /\ running_term' = t
       /\ stack' = [GoTo("iret") EXCEPT ![t] = << >>]
  /\ lost' = (running_pid[running_term] # "process")
  /\ UNCHANGED << pic, devices, IF_, boot, vid_backup >>

-----------------------------------------------------------------------------
(***************************************************************************)
(* Exceptions.  Their gates are trap gates: the stub turns interrupts off   *)
(* itself, a few instructions after the gate; that is one step here.  Every *)
(* handler prints its name and where it is, and squashes.                   *)
(***************************************************************************)
exceptions == 0 .. 14 \cup 16 .. 19

Raise ==
  /\ stack' = Push([irq |-> Exception, at |-> "squash", i |-> 0])
  /\ IF_' = FALSE
  /\ UNCHANGED << pic, devices, boot, table, running_term, lost >>

\* A program's fault.
Fault ==
  /\ "fault" \in Hazards
  /\ InProgram
  /\ \E v \in exceptions : Raise

\* squash: while (1).  After lost the code's behaviour is undefined.
squash == (Squashing \/ lost) /\ UNCHANGED vars

\* save_term_info copies the display to a backup at address 0.
PageFault ==
  /\ ~vid_backup
  /\ \E t \in Terms : Launch(t)
  /\ Raise

-----------------------------------------------------------------------------
(***************************************************************************)
(* The interrupted code.  Between two interrupts of one device it takes a   *)
(* step: its steps let every device interrupt again.                        *)
(***************************************************************************)
Uninterrupted ==
  /\ Running = << >>
  /\ ~(IF_ /\ \E l \in Devices : Deliverable(l))

Program ==
  /\ Uninterrupted /\ boot = "done"
  /\ due' = Devices
  /\ UNCHANGED << pic, register_C, key, early, IF_, boot, table, running_term,
                  stack, lost >>

After(step) == Steps[1 + (CHOOSE n \in 1 .. Len(Steps) : Steps[n] = step)]

BootStep(step) ==
  /\ Uninterrupted /\ boot = step
  /\ boot' = After(step)
  /\ due' = Devices
  /\ UNCHANGED << register_C, key, early, curr_term, running_term, stack, lost >>

i8259_init ==
  /\ BootStep("i8259_init")
  /\ irr' = {} /\ isr' = {}
  /\ masked' = Lines \ {SLAVE_IRQ}
  /\ UNCHANGED << IF_, running_pid, vid_backup >>

\* The sti of entry, and rtc_init, whose sti comes before its enable_irq.
EntrySti ==
  /\ BootStep("sti")
  /\ IF_' = TRUE
  /\ UNCHANGED << pic, running_pid, vid_backup >>

init_keyboard ==
  /\ BootStep("init_keyboard")
  /\ enable_irq(KEYBOARD_IRQ)
  /\ UNCHANGED << irr, isr, IF_, running_pid, vid_backup >>

rtc_init ==
  /\ BootStep("rtc_init")
  /\ disable_irq(RTC_IRQ_NUM)
  /\ IF_' = TRUE
  /\ UNCHANGED << irr, isr, running_pid, vid_backup >>

rtc_enable ==
  /\ BootStep("rtc_enable")
  /\ enable_irq(RTC_IRQ_NUM)
  /\ UNCHANGED << irr, isr, IF_, running_pid, vid_backup >>

prep_term ==
  /\ BootStep("prep_term")
  /\ running_pid' = [t \in Terms |-> "none"]
  /\ UNCHANGED << pic, IF_, vid_backup >>

pit_init ==
  /\ BootStep("pit_init")
  /\ enable_irq(PIT_IRQ_NUM)
  /\ UNCHANGED << irr, isr, IF_, running_pid, vid_backup >>

init_term ==
  /\ BootStep("init_term")
  /\ vid_backup' = TRUE
  /\ UNCHANGED << pic, IF_, running_pid >>

\* execute("shell") of init_term.
FirstShell ==
  /\ BootStep("shell")
  /\ running_pid' = [running_pid EXCEPT ![curr_term] = "process"]
  /\ UNCHANGED << pic, IF_, vid_backup >>

Boot == \/ i8259_init \/ EntrySti \/ init_keyboard \/ rtc_init \/ rtc_enable
        \/ prep_term \/ pit_init \/ init_term \/ FirstShell

-----------------------------------------------------------------------------
(***************************************************************************)
(* The devices.  A masked line remembers a request.                         *)
(***************************************************************************)
Request(irq) == irr' = irr \cup {irq} /\ due' = due \ {irq}

PitRequest ==
  /\ PIT_IRQ_NUM \in due
  /\ Request(PIT_IRQ_NUM)
  /\ UNCHANGED << isr, masked, register_C, key, early, IF_, boot, table,
                  running_term, stack, lost >>

\* Periodic interrupts of the clock are on from rtc_init.  It requests again
\* only after its register C has been read.
RtcRequest ==
  /\ RTC_IRQ_NUM \in due
  /\ boot \notin {"i8259_init", "sti", "init_keyboard", "rtc_init"}
  /\ ~register_C
  /\ register_C' = TRUE
  /\ Request(RTC_IRQ_NUM)
  /\ UNCHANGED << isr, masked, key, early, IF_, boot, table, running_term, stack,
                  lost >>

\* A key: the keyboard requests when its first code comes.
TooEarly(k) == boot = "i8259_init" \/ (boot # "done" /\ k # 0)

KeyPress ==
  /\ KEYBOARD_IRQ \in due
  /\ Len(key) < MaxCodes
  /\ \E k \in Keys :
       /\ TooEarly(k) => "early" \in Hazards
       /\ early' = (early \/ TooEarly(k))
       /\ key' = Append(key, k)
  /\ IF key = << >> THEN Request(KEYBOARD_IRQ)
     ELSE due' = due \ {KEYBOARD_IRQ} /\ UNCHANGED irr
  /\ UNCHANGED << isr, masked, register_C, IF_, boot, table, running_term, stack,
                  lost >>

-----------------------------------------------------------------------------
Handler == Sti \/ Iret \/ Tick \/ RtcTick \/ KeyRead \/ Plain \/ KeyHalt
             \/ KeySwitch \/ KeyLaunch \/ PageFault
Interrupt == \E l \in Devices : Accept(l)
Device == Len(Running) < MaxNest /\ (PitRequest \/ RtcRequest \/ KeyPress)

Next == \/ /\ ~lost
           /\ Interrupt \/ Handler \/ Fault \/ Program \/ Boot
                \/ Device
        \/ squash

(***************************************************************************)
(* The processor goes on: it takes an interrupt it is offered, handlers and *)
(* the interrupted code advance.  Devices and keys owe nothing.             *)
(***************************************************************************)
Spec == /\ Init /\ [][Next]_vars
        /\ WF_vars(~lost /\ Interrupt)
        /\ WF_vars(~lost /\ Handler)
        /\ WF_vars(~lost /\ (Program \/ Boot))

-----------------------------------------------------------------------------
(***************************************************************************)
(* Properties.                                                             *)
(***************************************************************************)
\* While a controller waits for the end of an interrupt, its handler has the
\* processor and interrupts are off: no handler leaves its stack, for another
\* terminal, a parent or a new shell, with the end unsent (pit.c:39,
\* keyboard.c:77: before schedule, halt and launch_term).
EndedBeforeLeaving ==
  isr # {} => /\ ~IF_
              /\ Running # << >>
              /\ Head(Running).at = "begin"
              /\ isr = {Head(Running).irq}
                         \cup (IF Head(Running).irq = RTC_IRQ_NUM THEN {SLAVE_IRQ}
                              ELSE {})

\* The order of entry keeps the kernel off PCBs no process has: the timer and
\* the keys find running_pid prepared, unless a key comes too early.
PcbsInUse == lost => early

\* A terminal that does not run but has a process has a frame to go on from.
ContextKept ==
  ~lost /\ boot = "done" =>
    \A t \in Terms \ {running_term} :
      running_pid[t] = "process" <=> stack[t] # << >>

\* Unless the machine has stopped, every request that a controller holds is
\* delivered, the clock's register C is always read, so that it can interrupt
\* again, and so is every key, unless one came before i8259_init dropped its
\* request: no device and no line stays silent for ever.
DevicesServed ==
  /\ \A l \in Devices : l \in irr ~> (l \notin irr \/ Squashing \/ lost)
  /\ register_C ~> (~register_C \/ Squashing \/ lost)
  /\ key # << >> ~> (key = << >> \/ early \/ Squashing)

\* "256 : program dies by an exception" is what execute is to return
\* (syscall_handler.c:28): a program that faults ends, and the processor leaves
\* its exception for another program.
FaultEndsProgram == Squashing /\ boot = "done" ~> ~Squashing
=============================================================================
