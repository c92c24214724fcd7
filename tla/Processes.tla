------------------------------ MODULE Processes ------------------------------
(***************************************************************************)
(* The process table, the three terminals and the timer scheduler of the   *)
(* kernel, on its one processor: syscall_handler.c (execute, halt, the     *)
(* PCBs), pit.c (the round robin between terminals), terminal.c            *)
(* (launch_term) and the part of keyboard.c that starts a halt or a        *)
(* terminal switch from the keyboard interrupt.                            *)
(*                                                                         *)
(* The processor is a kernel stack and the sequence of kernel frames still *)
(* to be finished on it.  A frame stands for one trap or interrupt with    *)
(* every C function it has called; its op is the point it has reached.     *)
(* Interrupts may arrive in user mode, inside an ordinary system call      *)
(* (int 0x80 is a trap gate: interrupts stay enabled) and, when Hazards    *)
(* opens them, in the windows between an sti and the next cli.  One such   *)
(* window is in no hazard: execute_func's sti just before its iret, whose  *)
(* first instruction is a cli (StartProcess is one step).                  *)
(***************************************************************************)
EXTENDS Integers, Sequences

CONSTANTS
  NumTerms,   \* NUM_TERM, the number of terminals
  MaxProcs,   \* MAX_PROCESSES, the size of pid_array
  MaxLeak,    \* bound: no execute from a stack whose esp0 is this deep
  MaxKeys,    \* bound: number of Ctrl+C and Alt+Fn presses
  Hazards     \* the windows and situations this instance allows

(***************************************************************************)
(* What an instance may open.  The first four are interrupt windows, the   *)
(* others are situations a user can bring about with no race at all.       *)
(***************************************************************************)
Windows    == {"kbd", "switch", "launched", "halt"}
Situations == {"stale", "bgexec", "bgexit", "bghalt1", "bgvidmap", "noproc",
                "nullpcb", "nestedkey"}

ASSUME ConstantsAssumption ==
  /\ NumTerms \in Nat \ {0}
  /\ MaxProcs \in Nat \ {0}
  /\ MaxLeak \in Nat
  /\ MaxKeys \in Nat
  /\ Hazards \subseteq Windows \cup Situations

None    == -1                     \* running_pid == -1, parent == NULL
Terms   == 0 .. NumTerms - 1
Pids    == 0 .. MaxProcs - 1
Display == NumTerms               \* VIDEO, next to the backups of Terms

(***************************************************************************)
(* A place on a kernel stack: stack p is the one of pid p, position 0 its  *)
(* base, one unit the extent of one frame.  None is the boot stack.        *)
(***************************************************************************)
Places  == [stack : Pids \cup {None}, pos : Nat]
Base_shared(p) == [stack |-> 0, pos |-> 0]        \* mutant: one stack for all
Base(p) == [stack |-> p, pos |-> 0]

Ops == {"sys",                       \* in an ordinary system call
        "kbdhalt", "kbdlaunch",      \* keyboard handler, after its sti
        "newterm", "oldterm",        \* inside switch_terminal
        "launched",                  \* before execute("shell") of launch_term
        "free", "shell", "handback", "esp0", "leave"}     \* halt_func

Frames == {fr \in [op : Ops, term : Terms, victim : Pids,
                   parent : Pids \cup {None}] :
             fr.op \in {"handback", "esp0", "leave"} => fr.parent # None}

(***************************************************************************)
(* A point of execution: of which process, on which stack and how deep,    *)
(* with which kernel frames to finish before user mode (todo, innermost    *)
(* first).  A saved esp/ebp pair is the point of a frame that is about to  *)
(* return, one deeper than the frames in todo; Dead is one whose frames    *)
(* have been returned from or overwritten.                                 *)
(***************************************************************************)
Points == {pt \in [proc : Pids \cup {None}, stack : Pids \cup {None},
                   pos : Nat, todo : Seq(Frames)] :
             Len(pt.todo) <= pt.pos}
SavedPoints == {pt \in Points : pt.todo # << >> => Len(pt.todo) < pt.pos}
Dead == [proc |-> None, stack |-> None, pos |-> 0, todo |-> << >>]

VARIABLES
  pid_array,     \* TRUE where the C array holds 1
  pcb,           \* the process control blocks
  term,          \* terminal table: running_pid and esp0
  cur_pid, curr_term, running_term,
  tss_esp0,      \* where the next trap from user mode starts its stack
  page,          \* pid whose 4MB page is mapped at 128MB
  video,         \* what the user video page at 132MB shows, None if unmapped
  cpu,           \* the current point of execution
  wild,          \* control has followed a dead or NULL pointer
  keys           \* key presses left

vars == << pid_array, pcb, term, cur_pid, curr_term, running_term, tss_esp0,
           page, video, cpu, wild, keys >>

PCBs == [parent : Pids \cup {None}, term_id : Terms, esp : SavedPoints,
         curr_esp : SavedPoints]

TypeOK ==
  /\ pid_array \in [Pids -> BOOLEAN]
  /\ pcb \in [Pids -> PCBs]
  /\ term \in [Terms -> [running_pid : Pids \cup {None}, esp0 : Places]]
  /\ cur_pid \in Pids
  /\ curr_term \in Terms
  /\ running_term \in Terms
  /\ tss_esp0 \in Places
  /\ page \in Pids
  /\ video \in Terms \cup {Display, None}
  /\ cpu \in Points
  /\ wild \in BOOLEAN
  /\ keys \in 0 .. MaxKeys

-----------------------------------------------------------------------------
User(p)  == [proc |-> p, stack |-> None, pos |-> 0, todo |-> << >>]
UserMode == cpu.todo = << >>
Op       == IF UserMode THEN "user" ELSE Head(cpu.todo).op

WindowOf(op) == CASE op \in {"kbdhalt", "kbdlaunch"} -> "kbd"
                  [] op \in {"newterm", "oldterm"} -> "switch"
                  [] op = "launched" -> "launched"
                  [] OTHER -> "halt"

\* No halt or launch is under way on the processor.
Settled == Op \in {"user", "sys"}

\* The points at which IF is set, as far as Hazards lets interrupts in.
Interruptible == Settled \/ WindowOf(Op) \in Hazards

\* Where the frame of a trap or interrupt taken now would lie: the processor
\* loads esp0 when it comes from user mode and stays on its stack otherwise.
Entry == IF UserMode THEN [tss_esp0 EXCEPT !.pos = @ + 1]
                     ELSE [stack |-> cpu.stack, pos |-> cpu.pos + 1]

\* The processor at place e with frame fr on top of what it was doing.
Enter(e, fr) == [proc |-> cpu.proc, stack |-> e.stack, pos |-> e.pos,
                 todo |-> << fr >> \o cpu.todo]

\* What a handler at place e saves as its esp/ebp: to go on from there is to
\* return from the handler to the interrupted point.
Here(e) == [proc |-> cpu.proc, stack |-> e.stack, pos |-> e.pos,
            todo |-> cpu.todo]

\* Going on from a saved point: return from its frame to the one below.
Resume(pt) == IF pt.todo = << >> THEN User(pt.proc)
                                 ELSE [pt EXCEPT !.pos = @ - 1]

\* The innermost frame is done, or moves on to op.
Return   == Resume([cpu EXCEPT !.todo = Tail(@)])
Goto(op) == [cpu EXCEPT !.todo = << [Head(@) EXCEPT !.op = op] >> \o Tail(@)]

\* Pushing a frame at place e overwrites what was saved from there on.
Overwritten(pt, e) == pt.stack = e.stack /\ pt.pos >= e.pos
Push(e) == [p \in Pids |->
             [pcb[p] EXCEPT !.esp = IF Overwritten(@, e) THEN Dead ELSE @,
                            !.curr_esp = IF Overwritten(@, e) THEN Dead ELSE @]]

\* pcb with the interrupted context of p saved in it.
Saved_lost(pcbs, p, pt) == pcbs                   \* mutant: not saved
Saved(pcbs, p, pt) == [pcbs EXCEPT ![p].curr_esp = pt]

\* What 132MB shows a process of terminal t while shown is displayed.
VideoFor_display(t, shown) == Display             \* mutant: never remapped
VideoFor(t, shown) == IF t = shown THEN Display ELSE t

Frame(o, t) == [op |-> o, term |-> t, victim |-> 0, parent |-> None]

-----------------------------------------------------------------------------
(***************************************************************************)
(* entry and init_term: the first shell, pid 0 of terminal 0, in user mode. *)
(***************************************************************************)
Init ==
  /\ pid_array = [p \in Pids |-> p = 0]
  /\ pcb = [p \in Pids |-> [parent |-> None, term_id |-> 0, esp |-> Dead,
                            curr_esp |-> Dead]]
  /\ term = [t \in Terms |->
               [running_pid |-> IF t = 0 THEN 0 ELSE None,
                esp0 |-> IF t = 0 THEN Base(0) ELSE Base(None)]]
  /\ cur_pid = 0 /\ curr_term = 0 /\ running_term = 0
  /\ tss_esp0 = Base(0)
  /\ page = 0
  /\ video = None
  /\ cpu = User(0)
  /\ wild = FALSE
  /\ keys = MaxKeys

-----------------------------------------------------------------------------
(***************************************************************************)
(* execute_func, once the file has been found executable.  It runs with    *)
(* interrupts off, from its cli to its iret.  The caller's frame, at       *)
(* caller, is what halt will return through.                               *)
(***************************************************************************)
Free == {p \in Pids : ~pid_array[p]}

\* get_available_pid: the lowest free entry.
get_available_pid_1 ==                  \* mutant: from the end, off by one
  (CHOOSE p \in Free : \A q \in Free : p >= q) + 1
get_available_pid == CHOOSE p \in Free : \A q \in Free : p <= q

\* get_parent_pcb: the process of the displayed terminal.
get_parent_pcb_running(terms) ==                  \* mutant: of the running one
  terms[running_term].running_pid
get_parent_pcb(terms) == terms[curr_term].running_pid

StartProcess(pcbs, terms, caller) ==
  LET new == get_available_pid
      parent == get_parent_pcb(terms)
  IN /\ pid_array' = [pid_array EXCEPT ![new] = TRUE]
     /\ cur_pid' = new
     /\ page' = new
     \* The frame under a base shell is never returned to: with no parent,
     \* halt_func starts another shell instead.
     /\ pcb' = [pcbs EXCEPT ![new] =
                  [@ EXCEPT !.parent = parent,
                            !.term_id = curr_term,
                            !.esp = IF parent = None THEN Dead ELSE caller]]
     /\ tss_esp0' = Base(new)
     /\ term' = [terms EXCEPT ![curr_term] =
                   [running_pid |-> new, esp0 |-> Base(new)]]
     /\ running_term' = curr_term
     /\ cpu' = User(new)
     /\ UNCHANGED << curr_term, video >>

\* A program calls execute.
Execute ==
  /\ UserMode
  /\ tss_esp0.pos < MaxLeak
  /\ running_term = curr_term \/ "bgexec" \in Hazards
  /\ Free # {}
  /\ StartProcess(Push(Entry), term, Here(Entry))
  /\ UNCHANGED << wild, keys >>

\* execute fails: no such executable (-1) or no free pid (-2).
ExecuteFails ==
  /\ UserMode
  /\ pcb' = Push(Entry)
  /\ UNCHANGED << pid_array, term, cur_pid, curr_term, running_term, tss_esp0,
                  page, video, cpu, wild, keys >>

-----------------------------------------------------------------------------
(***************************************************************************)
(* Other system calls: they only occupy the kernel stack, except vidmap,   *)
(* which maps the display whatever terminal the caller belongs to.         *)
(***************************************************************************)
SysCall ==
  /\ UserMode
  /\ pcb' = Push(Entry)
  /\ cpu' = Enter(Entry, Frame("sys", 0))
  /\ UNCHANGED << pid_array, term, cur_pid, curr_term, running_term, tss_esp0,
                  page, video, wild, keys >>

SysReturn ==
  /\ Op = "sys"
  /\ cpu' = Return
  /\ UNCHANGED << pid_array, pcb, term, cur_pid, curr_term, running_term,
                  tss_esp0, page, video, wild, keys >>

VidMap ==
  /\ UserMode
  /\ running_term = curr_term \/ "bgvidmap" \in Hazards
  /\ pcb' = Push(Entry)
  /\ video' = Display
  /\ UNCHANGED << pid_array, term, cur_pid, curr_term, running_term, tss_esp0,
                  page, cpu, wild, keys >>

-----------------------------------------------------------------------------
(***************************************************************************)
(* halt_func.  Its clear_keyboard_buffer (or _backup) ends in sti, so all  *)
(* that follows runs with interrupts enabled: the window "halt".           *)
(***************************************************************************)
HaltFrame_displayed(victim, t) ==                 \* mutant: always curr_term
  [op |-> "free", term |-> curr_term, victim |-> victim, parent |-> None]
HaltFrame(victim, t) ==
  [op |-> "free", term |-> t, victim |-> victim, parent |-> None]

\* status == 1: the victim is the process of the displayed terminal; the
\* running one is saved as if it had been scheduled away.
HaltDisplayed(pcbs, point, below) ==
  LET running == term[running_term].running_pid
      victim  == term[curr_term].running_pid
  IN IF victim = None \/ (running_term # curr_term /\ running = None)
     THEN /\ wild' = TRUE             \* get_specific_pcb((uint8_t)-1)
          /\ UNCHANGED << pcb, term, running_term, cpu >>
     ELSE /\ wild' = FALSE
          /\ IF running_term = curr_term
             THEN pcb' = pcbs /\ UNCHANGED << term, running_term >>
             ELSE /\ pcb' = Saved(pcbs, running, point)
                  /\ term' = [term EXCEPT ![running_term].esp0 = tss_esp0]
                  /\ running_term' = curr_term
          /\ cpu' = [point EXCEPT !.todo =
                       << HaltFrame(victim, curr_term) >> \o below]

\* A program calls halt with a status other than 1.
Halt ==
  /\ UserMode
  /\ \/ pcb[cur_pid].parent # None
     \/ pcb[cur_pid].term_id = curr_term
     \/ "bgexit" \in Hazards
  /\ pcb' = Push(Entry)
  /\ cpu' = Enter(Entry, HaltFrame(cur_pid, pcb[cur_pid].term_id))
  /\ UNCHANGED << pid_array, term, cur_pid, curr_term, running_term, tss_esp0,
                  page, video, wild, keys >>

\* A program calls halt with status 1, which halt takes for Ctrl+C.
Halt1 ==
  /\ UserMode
  /\ running_term = curr_term \/ "bghalt1" \in Hazards
  /\ HaltDisplayed(Push(Entry), Here(Entry), cpu.todo)
  /\ UNCHANGED << pid_array, cur_pid, curr_term, tss_esp0, page, video, keys >>

\* The pid is freed and the files are closed; then either the parent goes on
\* or, for a base shell, the terminal is left without a process.
HaltFree ==
  /\ Op = "free"
  /\ LET fr == Head(cpu.todo)
         parent == pcb[fr.victim].parent
     IN /\ pid_array' = [pid_array EXCEPT ![fr.victim] = FALSE]
        /\ IF parent = None
           THEN /\ term' = [term EXCEPT ![fr.term].running_pid = None]
                /\ cpu' = Goto("shell")
           ELSE /\ cpu' = [cpu EXCEPT !.todo =
                             << [fr EXCEPT !.op = "handback", !.parent = parent] >>
                             \o Tail(@)]
                /\ UNCHANGED term
  /\ UNCHANGED << pcb, cur_pid, curr_term, running_term, tss_esp0, page, video,
                  wild, keys >>

HandBack ==
  /\ Op = "handback"
  /\ LET fr == Head(cpu.todo)
     IN /\ term' = [term EXCEPT ![fr.term].running_pid = fr.parent]
        /\ page' = fr.parent
  /\ cpu' = Goto("esp0")
  /\ UNCHANGED << pid_array, pcb, cur_pid, curr_term, running_term, tss_esp0,
                  video, wild, keys >>

RestoreEsp0_keeps_cur_pid ==                      \* mutant: cur_pid not restored
  /\ Op = "esp0"
  /\ LET esp == pcb[Head(cpu.todo).victim].esp
     IN tss_esp0' = [stack |-> esp.stack, pos |-> esp.pos]
  /\ cpu' = Goto("leave")
  /\ UNCHANGED << pid_array, pcb, term, cur_pid, curr_term, running_term, page,
                  video, wild, keys >>

\* tss.esp0 becomes the place of the execute frame that is about to return.
RestoreEsp0 ==
  /\ Op = "esp0"
  /\ LET fr == Head(cpu.todo)
         esp == pcb[fr.victim].esp
     IN /\ tss_esp0' = [stack |-> esp.stack, pos |-> esp.pos]
        /\ cur_pid' = fr.parent
  /\ cpu' = Goto("leave")
  /\ UNCHANGED << pid_array, pcb, term, curr_term, running_term, page, video,
                  wild, keys >>

\* jmp RET_FROM_IRET on the saved frame: execute returns the status.
LeaveExecute ==
  /\ Op = "leave"
  /\ LET victim == Head(cpu.todo).victim
         esp == pcb[victim].esp
     IN IF esp = Dead
        THEN wild' = TRUE /\ UNCHANGED << pcb, cpu >>
        ELSE /\ cpu' = Resume(esp)
             /\ pcb' = [pcb EXCEPT ![victim].esp = Dead]
             /\ UNCHANGED wild
  /\ UNCHANGED << pid_array, term, cur_pid, curr_term, running_term, tss_esp0,
                  page, video, keys >>

\* execute("shell") from halt_func or from launch_term.  Where no pid is free
\* it returns: halt_func then dereferences its NULL parent, launch_term goes
\* back to the interrupted process.  The same would happen if the new shell
\* had a parent and halted.
StartShell ==
  /\ Op \in {"shell", "launched"}
  /\ \/ /\ Free # {}
        /\ StartProcess(pcb, term, IF Op = "shell" THEN Dead
                                   ELSE [cpu EXCEPT !.todo = Tail(@)])
        /\ UNCHANGED wild
     \/ /\ Free = {}
        /\ IF Op = "shell" THEN wild' = TRUE /\ UNCHANGED cpu
                           ELSE cpu' = Return /\ UNCHANGED wild
        /\ UNCHANGED << pid_array, pcb, term, cur_pid, curr_term, running_term,
                        tss_esp0, page, video >>
  /\ UNCHANGED keys

-----------------------------------------------------------------------------
(***************************************************************************)
(* The keyboard interrupt, for the keys that reach the process table.      *)
(***************************************************************************)
Key(fr) ==
  /\ Interruptible
  /\ Settled \/ "nestedkey" \in Hazards
  /\ keys > 0
  /\ keys' = keys - 1
  /\ pcb' = Push(Entry)
  /\ cpu' = Enter(Entry, fr)
  /\ UNCHANGED << pid_array, term, cur_pid, curr_term, running_term, tss_esp0,
                  page, video, wild >>

CtrlC == /\ term[curr_term].running_pid # None \/ "nullpcb" \in Hazards
         /\ Key(Frame("kbdhalt", 0))

\* Opening a terminal: there is a pid for its shell, and the esp0 saved for
\* the running process is fresh (it was executed or scheduled in and has not
\* got tss.esp0 back from a halt since).
AltF(t) ==
  /\ term[t].running_pid = None /\ t # curr_term =>
       /\ Free # {} \/ "noproc" \in Hazards
       /\ term[running_term].esp0 = tss_esp0 \/ "stale" \in Hazards
  /\ Key(Frame("kbdlaunch", t))

HaltFromKeyboard ==
  /\ Op = "kbdhalt"
  /\ HaltDisplayed(pcb, [cpu EXCEPT !.todo = Tail(@)], Tail(cpu.todo))
  /\ UNCHANGED << pid_array, cur_pid, curr_term, tss_esp0, page, video, keys >>

(***************************************************************************)
(* launch_term.  switch_terminal ends its save with sti (inside            *)
(* clear_keyboard_buffer): the window "switch", before curr_term moves.    *)
(***************************************************************************)
BeginSwitch ==
  /\ Op = "kbdlaunch"
  /\ LET t == Head(cpu.todo).term
     IN cpu' = IF t = curr_term THEN Return
               ELSE Goto(IF term[t].running_pid = None THEN "newterm"
                                                       ELSE "oldterm")
  /\ UNCHANGED << pid_array, pcb, term, cur_pid, curr_term, running_term,
                  tss_esp0, page, video, wild, keys >>

\* A terminal with no process: the running one is saved to be scheduled
\* later, but not its esp0, which stays what it last was in term.
ToNewTerminal ==
  /\ Op = "newterm"
  /\ LET running == term[running_term].running_pid
     IN IF running = None
        THEN wild' = TRUE /\ UNCHANGED << curr_term, pcb, cpu >>
        ELSE /\ curr_term' = Head(cpu.todo).term
             /\ pcb' = Saved(pcb, running, [cpu EXCEPT !.todo = Tail(@)])
             /\ cpu' = Goto("launched")
             /\ UNCHANGED wild
  /\ UNCHANGED << pid_array, term, cur_pid, running_term, tss_esp0, page,
                  video, keys >>

ToOldTerminal ==
  /\ Op = "oldterm"
  /\ curr_term' = Head(cpu.todo).term
  /\ video' = VideoFor(running_term, Head(cpu.todo).term)
  /\ cpu' = Return
  /\ UNCHANGED << pid_array, pcb, term, cur_pid, running_term, tss_esp0, page,
                  wild, keys >>

-----------------------------------------------------------------------------
(***************************************************************************)
(* pit_interrupt_handler, get_next_process and schedule.                   *)
(***************************************************************************)
\* The i-th terminal after the running one.
After(i) == (running_term + i) % NumTerms

next_term_lowest ==                               \* mutant: search from 0
  CHOOSE t \in Terms :
    /\ t # running_term /\ term[t].running_pid # None
    /\ \A u \in 0 .. t - 1 : u = running_term \/ term[u].running_pid = None

next_term == After(CHOOSE i \in 1 .. NumTerms :
                     /\ \/ term[After(i)].running_pid # None
                        \/ i = NumTerms
                     /\ \A j \in 1 .. i - 1 : term[After(j)].running_pid = None)

Schedules == \E t \in Terms \ {0} : term[t].running_pid # None

\* new_terminal is copied out of the table before esp0 is saved into it.
Schedule ==
  LET old     == term[running_term].running_pid
      process == term[next_term].running_pid
      saved   == Saved(Push(Entry), old, Here(Entry))
      point   == saved[process].curr_esp
  IN IF old = None \/ process = None \/ point = Dead
     THEN /\ wild' = TRUE
          /\ UNCHANGED << pcb, term, running_term, page, cur_pid, tss_esp0,
                          video, cpu >>
     ELSE /\ pcb' = [saved EXCEPT ![process].curr_esp = Dead]
          /\ term' = [term EXCEPT ![running_term].esp0 = tss_esp0]
          /\ running_term' = next_term
          /\ page' = process
          /\ cur_pid' = process
          /\ tss_esp0' = term[next_term].esp0
          /\ video' = VideoFor(next_term, curr_term)
          /\ cpu' = Resume(point)
          /\ UNCHANGED wild

PIT ==
  /\ Interruptible
  /\ IF Schedules
     THEN Schedule
     ELSE /\ pcb' = Push(Entry)
          /\ UNCHANGED << term, running_term, page, cur_pid, tss_esp0, video,
                          cpu, wild >>
  /\ UNCHANGED << pid_array, curr_term, keys >>

-----------------------------------------------------------------------------
HaltSteps   == HaltFree \/ HandBack \/ RestoreEsp0 \/ LeaveExecute
LaunchSteps == BeginSwitch \/ ToNewTerminal \/ ToOldTerminal
KernelSteps == SysReturn \/ HaltFromKeyboard \/ HaltSteps \/ LaunchSteps
               \/ StartShell
Programs    == Execute \/ ExecuteFails \/ SysCall \/ VidMap \/ Halt \/ Halt1
Keyboard    == CtrlC \/ \E t \in Terms : AltF(t)

Next == ~wild /\ (Programs \/ KernelSteps \/ Keyboard \/ PIT)

Spec == Init /\ [][Next]_vars

(***************************************************************************)
(* The timer ticks for ever.  A tick that comes while interrupts are off   *)
(* waits in the interrupt controller's request register and is taken as    *)
(* soon as they are on, however short the kernel leaves them on: hence     *)
(* strong fairness.  The processor goes on with the kernel code it is in;  *)
(* programs and the user owe nothing.                                      *)
(***************************************************************************)
Fairness == SF_vars(~wild /\ PIT) /\ WF_vars(~wild /\ KernelSteps)

FairSpec == Spec /\ Fairness
-----------------------------------------------------------------------------
(***************************************************************************)
(* Properties.                                                             *)
(***************************************************************************)
\* Whenever a program runs or waits in a system call, the processor executes
\* the process that the terminal table, cur_pid and the page tables all name
\* (schedule, halt_func and execute_func set the four separately).
RunningContext ==
  ~wild /\ Settled =>
    /\ cpu.proc = cur_pid
    /\ cpu.proc = page
    /\ cpu.proc = term[running_term].running_pid

\* No step of the kernel goes on through an esp that has been overwritten or
\* already returned through, nor through the PCB of pid -1 (schedule's and
\* halt_func's leave, ret).
NoWildJump == ~wild

\* The line of at most n jobs from a base shell to p, for each n and p, when
\* parent gives the parent of each.
Lines(parent) ==
  LET line[n \in 0 .. MaxProcs] ==
        [p \in Pids \cup {None} |->
           IF n = 0 \/ p = None THEN << >>
           ELSE Append(line[n - 1][parent[p]], p)]
  IN line

\* The jobs of terminal t, its base shell first, each the parent of the next.
Jobs(t) == Lines([p \in Pids |-> pcb[p].parent])[MaxProcs][term[t].running_pid]

JobSet(t) == {Jobs(t)[i] : i \in 1 .. Len(Jobs(t))}

\* The pids marked in pid_array are exactly the jobs of the terminals: none
\* is leaked by a halt, none is used twice, and every job is marked as of the
\* terminal whose stack of jobs it is in (pid_array against pcb and term).
PidsAccounted ==
  ~wild /\ Settled =>
    /\ {p \in Pids : pid_array[p]} = UNION {JobSet(t) : t \in Terms}
    /\ \A t, u \in Terms : t # u => JobSet(t) \cap JobSet(u) = {}
    /\ \A t \in Terms : \A p \in JobSet(t) : pcb[p].term_id = t

\* A process that is scheduled away can be scheduled back: the point saved in
\* its PCB is its own and its frames are intact; and so is the point in the
\* parent that each child's halt will return through (curr_esp and esp of the
\* PCBs against every later push on the same kernel stacks).
ContextsLive ==
  ~wild /\ Settled =>
    /\ \A t \in Terms \ {running_term} :
         LET p == term[t].running_pid
         IN p # None => pcb[p].curr_esp.proc = p
    /\ \A t \in Terms : \A p \in JobSet(t) :
         pcb[p].parent # None => pcb[p].esp.proc = pcb[p].parent

\* A trap from user mode lands on the kernel stack of the running process, and
\* a terminal's saved esp0 is on the stack of its process (tss.esp0).
OwnKernelStack ==
  ~wild /\ Settled =>
    /\ tss_esp0.stack = cur_pid
    /\ \A t \in Terms \ {running_term} :
         term[t].running_pid # None =>
           term[t].esp0.stack = term[t].running_pid

\* A process does not have the display mapped at 132MB while it shows another's
\* terminal (schedule and launch_term choose the page).
DisplayIsolation ==
  ~wild /\ UserMode /\ running_term # curr_term
        /\ term[curr_term].running_pid # None
      => video # Display

\* Each terminal is a stack of jobs: execute pushes on the displayed terminal,
\* halt pops, a terminal is opened with a shell.
AllJobs == [t \in Terms |-> Jobs(t)]
JobControl == INSTANCE Jobs WITH jobs <- AllJobs
RefinesJobs == JobControl!Spec

\* The round robin of get_next_process starves no terminal: one that has a
\* process gets the processor again and again.
EveryTerminalRuns ==
  \A t \in Terms :
    []<>(wild \/ term[t].running_pid = None \/ running_term = t)

-----------------------------------------------------------------------------
(***************************************************************************)
(* The invariant that RunningContext rests on.  It needs interrupts to stay *)
(* off in the windows and no background process to call execute.           *)
(***************************************************************************)
Calm(todo) == todo \in Seq({fr \in Frames : fr.op = "sys"})

\* The process that cur_pid, the page tables and the terminal table name.
Current(p) == p = cur_pid /\ p = page /\ p = term[running_term].running_pid

\* A job has one child at most, in its own terminal, and is in control of no
\* terminal while the child lives.
ParentsKept ==
  \A p \in Pids : pid_array[p] /\ pcb[p].parent # None =>
    LET q == pcb[p].parent
    IN /\ pid_array[q]
       /\ pcb[q].term_id = pcb[p].term_id
       /\ \A t \in Terms : term[t].running_pid # q
       /\ \A r \in Pids : pid_array[r] /\ pcb[r].parent = q => r = p

\* The process of a terminal is a live job of that terminal, but for the one
\* halt_func has freed and not yet replaced.
TerminalsKept ==
  \A t \in Terms : LET p == term[t].running_pid
    IN p # None =>
         /\ pcb[p].term_id = t
         /\ pid_array[p] \/ (Op = "handback" /\ Head(cpu.todo).victim = p)

\* A saved context is of the process it is saved for, and in user mode or in
\* ordinary system calls.
ContextOf(p, pt) == pt = Dead \/ (pt.proc = p /\ Calm(pt.todo))

ContextsKept ==
  \A p \in Pids : /\ ContextOf(p, pcb[p].curr_esp)
                  /\ ContextOf(pcb[p].parent, pcb[p].esp)

\* What halt_func and launch_term know at each point they have reached.
FrameKept ==
  LET fr == Head(cpu.todo)
      halting == fr.term = running_term /\ fr.victim \in Pids
  IN /\ Op \notin {"free", "shell", "handback", "esp0", "leave"} =>
          Current(cpu.proc)
     /\ Op # "user" => Calm(Tail(cpu.todo))
     /\ Op = "newterm" => term[fr.term].running_pid = None
     /\ Op = "launched" => term[curr_term].running_pid = None
     /\ Op = "free" =>
          halting /\ fr.victim = term[running_term].running_pid
     /\ Op = "handback" =>
          /\ halting /\ fr.victim = term[running_term].running_pid
          /\ ~pid_array[fr.victim]
          /\ fr.parent = pcb[fr.victim].parent
          /\ pid_array[fr.parent] /\ pcb[fr.parent].term_id = running_term
          /\ \A t \in Terms : term[t].running_pid # fr.parent
          /\ \A p \in Pids : pid_array[p] => pcb[p].parent # fr.parent
     /\ Op \in {"esp0", "leave"} =>
          /\ halting
          /\ fr.parent = pcb[fr.victim].parent
          /\ fr.parent = term[running_term].running_pid /\ fr.parent = page
     /\ Op = "leave" => fr.parent = cur_pid

RunningContextInv ==
  ~wild => ParentsKept /\ TerminalsKept /\ ContextsKept /\ FrameKept

(***************************************************************************)
(* The invariant that NoWildJump, ContextsLive, OwnKernelStack and         *)
(* HaltReturnsToParent rest on, next to RunningContextInv: every context   *)
(* that will be resumed lies on the kernel stack of its own process, which *)
(* nobody pushes on while it waits.                                        *)
(***************************************************************************)
OnOwnStack(p, pt) == pt.proc = p /\ pt.stack = p

\* The processor's own stack, but where halt_func runs on that of a process
\* it has interrupted.
ProcessorKept ==
  /\ Op \notin {"free", "shell", "handback", "esp0"} => tss_esp0.stack = cur_pid
  /\ Op \notin {"user", "free", "shell", "handback", "esp0", "leave"} =>
       cpu.stack = cur_pid

\* What the timer will resume, and what the halt of each child, also of the one
\* that is just ending, will.
WaitingKept ==
  /\ \A t \in Terms \ {running_term} :
       LET p == term[t].running_pid
       IN p # None => OnOwnStack(p, pcb[p].curr_esp) /\ term[t].esp0.stack = p
  /\ \A p \in Pids :
       /\ pcb[p].parent # None
       /\ \/ pid_array[p]
          \/ Op \in {"handback", "esp0", "leave"} /\ Head(cpu.todo).victim = p
       => OnOwnStack(pcb[p].parent, pcb[p].esp)

\* A key is opening a terminal that has no process.
Opening == LET t == Head(cpu.todo).term
           IN /\ Op = "newterm" \/ (Op = "kbdlaunch" /\ t # curr_term)
              /\ term[t].running_pid = None

\* What a handler has found out or done before the point it has reached.
HandlerKept ==
  /\ term[0].running_pid = None => Op = "shell" /\ curr_term = 0
  /\ Op = "kbdhalt" => term[curr_term].running_pid # None
  /\ Opening => term[running_term].esp0 = tss_esp0
  /\ Op = "launched" =>
       /\ OnOwnStack(cpu.proc, pcb[cpu.proc].curr_esp)
       /\ term[running_term].esp0.stack = cpu.proc
  /\ Op = "free" /\ pcb[Head(cpu.todo).victim].parent = None =>
       running_term = curr_term
  /\ Op = "shell" => /\ running_term = curr_term
                     /\ term[curr_term].running_pid = None
                     /\ Free # {}

StacksInv == ~wild /\ ProcessorKept /\ WaitingKept /\ HandlerKept

\* The invariant that DisplayIsolation rests on: launch_term moves curr_term
\* before it gives the processor away.
DisplayInv ==
  Op # "launched" /\ running_term # curr_term /\ term[curr_term].running_pid # None
    => video # Display

\* The invariant that PidsAccounted and RefinesJobs rest on: jb[t] is the line
\* of jobs of terminal t; the pids in use are those of the lines, but for the
\* one halt_func has freed and whose parent it has not yet put back.
JobLine(s, t) ==
  /\ \A i \in 1 .. Len(s) :
       /\ pcb[s[i]].parent = IF i = 1 THEN None ELSE s[i - 1]
       /\ pcb[s[i]].term_id = t
       /\ \A j \in 1 .. Len(s) : s[i] = s[j] => i = j
  /\ term[t].running_pid = IF s = << >> THEN None ELSE s[Len(s)]

InUse(p) == pid_array[p] \/ (Op = "handback" /\ Head(cpu.todo).victim = p)

JobsAre(jb) ==
  /\ \A t \in Terms : JobLine(jb[t], t)
  /\ \A p \in Pids :
       InUse(p) <=> \E t \in Terms : \E i \in 1 .. Len(jb[t]) : jb[t][i] = p

JobsInv == AllJobs \in [Terms -> Seq(Pids)] /\ JobsAre(AllJobs)

\* A halt makes the execute of the parent return: pcb_t.esp, read twice after
\* the pid is free, is still where the parent waits, unless the interrupt
\* window that clear_keyboard_buffer opens (hazard "halt") lets it be reused.
HaltReturnsToParent ==
  ~wild /\ Op = "leave" =>
    LET fr == Head(cpu.todo) IN pcb[fr.victim].esp.proc = fr.parent
=============================================================================
