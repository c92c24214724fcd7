--------------------------- MODULE Processes_proofs ---------------------------
(***************************************************************************)
(* Theorems about Processes, for every number of terminals and pids, every *)
(* bound and every set of hazards.                                         *)
(***************************************************************************)
EXTENDS Processes, SequenceTheorems, FiniteSetTheorems, WellFoundedInduction,
        TLAPS

-----------------------------------------------------------------------------
(* Lemmas on the data: least elements, frames, points of execution.        *)

\* A set of naturals that is not empty has a least element.
LEMMA LeastElement ==
  ASSUME NEW T \in SUBSET Nat, T # {}
  PROVE  \E m \in T : \A n \in T : m <= n
<1>1. PICK m \in T : \A n \in T : ~ << n, m >> \in OpToRel(<, Nat)
  BY NatLessThanWellFounded, WFMin, Zenon
<1>2. \A n \in T : ~(n < m)
  BY <1>1 DEF OpToRel
<1>. QED
  BY <1>2

\* A frame put on top of a sequence of frames.
LEMMA PushFrame ==
  ASSUME NEW fr \in Frames, NEW s \in Seq(Frames)
  PROVE  /\ << fr >> \o s \in Seq(Frames)
         /\ Len(<< fr >> \o s) = Len(s) + 1
         /\ << fr >> \o s # << >>
<1>1. << fr >> \in Seq(Frames) /\ Len(<< fr >>) = 1
  OBVIOUS
<1>. QED
  BY <1>1, ConcatProperties, EmptySeq, LenProperties

\* The parts of a point of execution.
LEMMA PointFacts ==
  ASSUME NEW pt \in Points
  PROVE  /\ pt.proc \in Pids \cup {None}
         /\ pt.stack \in Pids \cup {None}
         /\ pt.pos \in Nat
         /\ pt.todo \in Seq(Frames)
         /\ Len(pt.todo) \in Nat
         /\ Len(pt.todo) <= pt.pos
BY LenProperties DEF Points

\* A point of execution from its parts.
LEMMA MakePoint ==
  ASSUME NEW p \in Pids \cup {None}, NEW s \in Pids \cup {None},
         NEW k \in Nat, NEW td \in Seq(Frames), Len(td) <= k
  PROVE  [proc |-> p, stack |-> s, pos |-> k, todo |-> td] \in Points
BY DEF Points

\* User mode is a point of execution, saved or not.
LEMMA UserPoint ==
  ASSUME NEW p \in Pids \cup {None}
  PROVE  User(p) \in Points /\ User(p) \in SavedPoints
BY EmptySeq DEF User, Points, SavedPoints

\* A dead context has the type of a saved one.
LEMMA DeadPoint == Dead \in SavedPoints
BY EmptySeq DEF Dead, Points, SavedPoints

\* Going on from a saved context (leave, ret) is a point of execution.
LEMMA ResumePoint ==
  ASSUME NEW pt \in SavedPoints
  PROVE  Resume(pt) \in Points
<1>1. pt \in Points
  BY DEF SavedPoints
<1>2. CASE pt.todo = << >>
  BY <1>1, <1>2, UserPoint, PointFacts DEF Resume
<1>3. CASE pt.todo # << >>
  <2>1. Len(pt.todo) < pt.pos
    BY <1>3 DEF SavedPoints
  <2>. QED
    BY <1>1, <1>3, <2>1, PointFacts DEF Resume, Points
<1>. QED
  BY <1>2, <1>3

-----------------------------------------------------------------------------
(* Lemmas on the steps of the processor, from type-correct states.         *)

\* In kernel mode there is an innermost frame, and the stack is deeper than
\* the frames below it.
LEMMA KernelMode ==
  ASSUME cpu \in Points, Op # "user"
  PROVE  /\ cpu.todo # << >>
         /\ Head(cpu.todo) \in Frames
         /\ Head(cpu.todo).op = Op
         /\ Tail(cpu.todo) \in Seq(Frames)
         /\ Len(Tail(cpu.todo)) < cpu.pos
<1>1. cpu.todo # << >> /\ Head(cpu.todo).op = Op
  BY DEF Op, UserMode
<1>2. /\ Head(cpu.todo) \in Frames
      /\ Tail(cpu.todo) \in Seq(Frames)
      /\ Len(Tail(cpu.todo)) = Len(cpu.todo) - 1
  BY <1>1, PointFacts, HeadTailProperties
<1>. QED
  BY <1>1, <1>2, PointFacts

\* What is below the innermost frame can be saved or returned to.
LEMMA BelowPoint ==
  ASSUME cpu \in Points, Op # "user"
  PROVE  [cpu EXCEPT !.todo = Tail(@)] \in SavedPoints /\ Return \in Points
<1>1. [cpu EXCEPT !.todo = Tail(@)] \in SavedPoints
  <2>1. /\ Tail(cpu.todo) \in Seq(Frames)
        /\ Len(Tail(cpu.todo)) < cpu.pos
        /\ Len(Tail(cpu.todo)) <= cpu.pos
    BY KernelMode, LenProperties, PointFacts
  <2>2. [cpu EXCEPT !.todo = Tail(@)] \in Points
    BY <2>1 DEF Points
  <2>. QED
    BY <2>1, <2>2 DEF Points, SavedPoints
<1>. QED
  BY <1>1, ResumePoint DEF Return

\* The innermost frame may be replaced by another.
LEMMA TopFrame ==
  ASSUME cpu \in Points, Op # "user", NEW fr \in Frames
  PROVE  [cpu EXCEPT !.todo = << fr >> \o Tail(@)] \in Points
<1>1. Len(Tail(cpu.todo)) \in Nat
  BY KernelMode, LenProperties
<1>2. /\ << fr >> \o Tail(cpu.todo) \in Seq(Frames)
      /\ Len(<< fr >> \o Tail(cpu.todo)) <= cpu.pos
  BY <1>1, KernelMode, PushFrame, PointFacts
<1>. QED
  BY <1>2 DEF Points

\* The innermost frame may move on to another point of its handler.
LEMMA GotoPoint ==
  ASSUME cpu \in Points, Op # "user", NEW op \in Ops,
         op \in {"handback", "esp0", "leave"} => Head(cpu.todo).parent # None
  PROVE  Goto(op) \in Points
<1>1. [Head(cpu.todo) EXCEPT !.op = op] \in Frames
  BY KernelMode DEF Frames
<1>2. [cpu EXCEPT !.todo = << [Head(cpu.todo) EXCEPT !.op = op] >> \o Tail(@)]
        \in Points
  BY <1>1, TopFrame
<1>3. Goto(op) = [cpu EXCEPT !.todo =
                    << [Head(cpu.todo) EXCEPT !.op = op] >> \o Tail(cpu.todo)]
  BY PointFacts DEF Goto, Points
<1>. QED
  BY <1>2, <1>3 DEF Points

\* A trap finds a place on a kernel stack, above the frames that are on it.
LEMMA EntryPlace ==
  ASSUME cpu \in Points, tss_esp0 \in Places
  PROVE  Entry \in Places /\ Len(cpu.todo) < Entry.pos
<1>1. CASE UserMode
  <2>1. Len(cpu.todo) = 0
    BY <1>1, EmptySeq DEF UserMode
  <2>. QED
    BY <1>1, <2>1 DEF Entry, Places
<1>2. CASE ~UserMode
  BY <1>2, PointFacts DEF Entry, Places
<1>. QED
  BY <1>1, <1>2

\* A handler is entered, and what it saves or runs on, at that place.
LEMMA EnterPoint ==
  ASSUME cpu \in Points, tss_esp0 \in Places, NEW fr \in Frames
  PROVE  /\ Enter(Entry, fr) \in Points
         /\ Here(Entry) \in SavedPoints
         /\ [Here(Entry) EXCEPT !.todo = << fr >> \o cpu.todo] \in Points
<1>1. /\ Entry.stack \in Pids \cup {None}
      /\ Entry.pos \in Nat
      /\ Len(cpu.todo) < Entry.pos
  BY EntryPlace DEF Places
<1>2. /\ << fr >> \o cpu.todo \in Seq(Frames)
      /\ Len(<< fr >> \o cpu.todo) <= Entry.pos
  BY <1>1, PointFacts, PushFrame
<1>3. Here(Entry) \in SavedPoints
  BY <1>1, PointFacts DEF Here, Points, SavedPoints
<1>. QED
  BY <1>1, <1>2, <1>3, PointFacts DEF Enter, Here, Points

\* A push on a kernel stack keeps the types of the PCBs.
LEMMA PushPCBs ==
  ASSUME pcb \in [Pids -> PCBs], NEW e
  PROVE  Push(e) \in [Pids -> PCBs]
BY DeadPoint DEF Push, PCBs

\* Saving a context keeps the types of the PCBs.
LEMMA SavedPCBs ==
  ASSUME NEW pcbs \in [Pids -> PCBs], NEW p \in Pids, NEW pt \in SavedPoints
  PROVE  Saved(pcbs, p, pt) \in [Pids -> PCBs]
BY DEF Saved, PCBs

\* The frame a handler begins with.
LEMMA KernelFrame ==
  ASSUME NEW o \in Ops \ {"handback", "esp0", "leave"}, NEW t \in Terms
  PROVE  Frame(o, t) \in Frames
BY ConstantsAssumption DEF Frame, Frames, Pids, None

\* get_available_pid finds a free pid if there is one.
LEMMA AvailablePid ==
  ASSUME pid_array \in [Pids -> BOOLEAN], Free # {}
  PROVE  get_available_pid \in Free /\ get_available_pid \in Pids
<1>1. Free \in SUBSET Nat
  BY ConstantsAssumption DEF Free, Pids
<1>2. \E p \in Free : \A q \in Free : p <= q
  BY <1>1, LeastElement
<1>3. get_available_pid \in Free
  BY <1>2 DEF get_available_pid
<1>. QED
  BY <1>3 DEF Free

\* get_next_process finds the place of its search: the first with a process.
LEMMA NextTermChosen ==
  ASSUME running_term \in Terms
  PROVE  \E k \in 1 .. NumTerms :
           /\ next_term = After(k)
           /\ term[After(k)].running_pid # None \/ k = NumTerms
           /\ \A j \in 1 .. k - 1 : term[After(j)].running_pid = None
<1> DEFINE C == {i \in 1 .. NumTerms :
                   term[After(i)].running_pid # None \/ i = NumTerms}
           Best(i) == /\ \/ term[After(i)].running_pid # None
                         \/ i = NumTerms
                      /\ \A j \in 1 .. i - 1 : term[After(j)].running_pid = None
<1>1. NumTerms \in Nat \ {0}
  BY ConstantsAssumption
<1>2. C \in SUBSET Nat /\ NumTerms \in C
  BY <1>1
<1>3. PICK i \in C : \A n \in C : i <= n
  BY <1>2, LeastElement
<1>4. i \in 1 .. NumTerms /\ Best(i)
  <2>1. i \in 1 .. NumTerms
    BY <1>3
  <2>2. \A j \in 1 .. i - 1 : term[After(j)].running_pid = None
    <3>1. SUFFICES ASSUME NEW j \in 1 .. i - 1,
                          term[After(j)].running_pid # None
                   PROVE  FALSE
      OBVIOUS
    <3>2. j \in 1 .. NumTerms
      BY <1>1, <2>1
    <3>3. j \in C
      BY <3>1, <3>2
    <3>4. i <= j
      BY <1>3, <3>3
    <3>. QED
      BY <2>1, <3>1, <3>4
  <2>3. term[After(i)].running_pid # None \/ i = NumTerms
    BY <1>3
  <2>. QED
    BY <2>1, <2>2, <2>3
<1>5. (CHOOSE k \in 1 .. NumTerms : Best(k)) \in 1 .. NumTerms
      /\ Best(CHOOSE k \in 1 .. NumTerms : Best(k))
  BY <1>4
<1>. QED
  BY <1>5 DEF next_term

\* get_next_process chooses a terminal.
LEMMA NextTerm ==
  ASSUME running_term \in Terms
  PROVE  next_term \in Terms
<1>1. \A k \in 1 .. NumTerms : After(k) \in Terms
  BY ConstantsAssumption DEF After, Terms
<1>. QED
  BY <1>1, NextTermChosen

-----------------------------------------------------------------------------
(* Type correctness: one lemma per group of actions, one step per action.  *)

\* execute_func keeps the types.
LEMMA StartProcessType ==
  ASSUME TypeOK, NEW pcbs \in [Pids -> PCBs], NEW caller \in SavedPoints,
         Free # {}, StartProcess(pcbs, term, caller),
         UNCHANGED << wild, keys >>
  PROVE  TypeOK'
<1> DEFINE new == get_available_pid
           parent == get_parent_pcb(term)
<1>1. new \in Pids
  BY AvailablePid DEF TypeOK
<1>2. parent \in Pids \cup {None}
  BY DEF TypeOK, get_parent_pcb
<1>3. Base(new) \in Places
  BY <1>1 DEF Base, Places
<1>4. User(new) \in Points
  BY <1>1, UserPoint
<1>5. (IF parent = None THEN Dead ELSE caller) \in SavedPoints
  BY DeadPoint
<1>. HIDE DEF new, parent
<1>6. /\ pid_array' = [pid_array EXCEPT ![new] = TRUE]
      /\ cur_pid' = new
      /\ page' = new
      /\ pcb' = [pcbs EXCEPT ![new] =
                  [@ EXCEPT !.parent = parent,
                            !.term_id = curr_term,
                            !.esp = IF parent = None THEN Dead ELSE caller]]
      /\ tss_esp0' = Base(new)
      /\ term' = [term EXCEPT ![curr_term] =
                   [running_pid |-> new, esp0 |-> Base(new)]]
      /\ running_term' = curr_term
      /\ cpu' = User(new)
      /\ UNCHANGED << curr_term, video >>
  BY DEF StartProcess, new, parent
<1>7. pcb' \in [Pids -> PCBs]
  BY <1>1, <1>2, <1>5, <1>6, ZenonT(60) DEF PCBs, TypeOK
<1>. QED
  BY <1>1, <1>3, <1>4, <1>6, <1>7 DEF TypeOK

\* The beginning of halt(1) keeps the types.
LEMMA HaltDisplayedType ==
  ASSUME TypeOK, NEW pcbs \in [Pids -> PCBs], NEW point \in SavedPoints,
         NEW below,
         \A fr \in Frames : [point EXCEPT !.todo = << fr >> \o below] \in Points,
         HaltDisplayed(pcbs, point, below),
         UNCHANGED << pid_array, cur_pid, curr_term, tss_esp0, page, video, keys >>
  PROVE  TypeOK'
<1> DEFINE running == term[running_term].running_pid
           victim  == term[curr_term].running_pid
<1>1. running \in Pids \cup {None} /\ victim \in Pids \cup {None}
  BY DEF TypeOK
<1>2. CASE victim = None \/ (running_term # curr_term /\ running = None)
  BY <1>2 DEF HaltDisplayed, TypeOK
<1>3. CASE ~(victim = None \/ (running_term # curr_term /\ running = None))
  <2>1. HaltFrame(victim, curr_term) \in Frames
    BY <1>1, <1>3 DEF HaltFrame, Frames, Ops, TypeOK
  <2>2. cpu' \in Points
    BY <1>3, <2>1 DEF HaltDisplayed
  <2>3. pcb' \in [Pids -> PCBs]
    BY <1>1, <1>3, SavedPCBs DEF HaltDisplayed
  <2>4. term' \in [Terms -> [running_pid : Pids \cup {None}, esp0 : Places]]
    BY <1>3 DEF HaltDisplayed, TypeOK
  <2>5. running_term' \in Terms /\ wild' \in BOOLEAN
    BY <1>3 DEF HaltDisplayed, TypeOK
  <2>. QED
    BY <2>2, <2>3, <2>4, <2>5 DEF TypeOK
<1>. QED
  BY <1>2, <1>3

\* Init, from entry and init_term, satisfies TypeOK.
LEMMA InitType ==
  ASSUME Init
  PROVE  TypeOK
<1>1. 0 \in Pids /\ 0 \in Terms /\ None \notin Pids
  BY ConstantsAssumption DEF Pids, Terms, None
<1>2. Base(0) \in Places /\ Base(None) \in Places
  BY <1>1 DEF Base, Places
<1>3. User(0) \in Points
  BY <1>1, UserPoint
<1>4. pcb \in [Pids -> PCBs]
  BY <1>1, DeadPoint DEF Init, PCBs
<1>5. term \in [Terms -> [running_pid : Pids \cup {None}, esp0 : Places]]
  BY <1>1, <1>2 DEF Init
<1>6. tss_esp0 \in Places /\ keys \in 0 .. MaxKeys
  BY <1>2, ConstantsAssumption DEF Init
<1>. QED
  BY <1>1, <1>3, <1>4, <1>5, <1>6 DEF Init, TypeOK

\* The round robin keeps TypeOK: the incoming terminal is a terminal and the
\* contexts saved and resumed are points of execution.
LEMMA PITType ==
  ASSUME TypeOK, PIT
  PROVE  TypeOK'
<1> DEFINE old     == term[running_term].running_pid
           process == term[next_term].running_pid
           saved   == Saved(Push(Entry), old, Here(Entry))
           point   == saved[process].curr_esp
<1>1. next_term \in Terms
  BY NextTerm DEF TypeOK
<1>2. Push(Entry) \in [Pids -> PCBs]
  BY PushPCBs DEF TypeOK
<1>3. CASE ~Schedules
  BY <1>2, <1>3 DEF PIT, TypeOK
<1>4. CASE Schedules /\ (old = None \/ process = None \/ point = Dead)
  BY <1>4 DEF PIT, Schedule, TypeOK
<1>5. CASE Schedules /\ ~(old = None \/ process = None \/ point = Dead)
  <2>1. old \in Pids /\ process \in Pids
    BY <1>1, <1>5 DEF TypeOK
  <2>2. Here(Entry) \in SavedPoints
    <3>1. \E fr : fr \in Frames
      <4>1. 0 \in Terms
        BY ConstantsAssumption DEF Terms
      <4>2. "sys" \in Ops \ {"handback", "esp0", "leave"}
        BY DEF Ops
      <4>. QED
        BY <4>1, <4>2, KernelFrame
    <3>. QED
      BY <3>1, EnterPoint DEF TypeOK
  <2>3. saved \in [Pids -> PCBs]
    BY <1>2, <2>1, <2>2, SavedPCBs
  <2>4. point \in SavedPoints
    BY <2>1, <2>3 DEF PCBs
  <2>5. Resume(point) \in Points
    BY <2>4, ResumePoint
  <2>. HIDE DEF saved, point, process, old
  <2>6. /\ pcb' = [saved EXCEPT ![process].curr_esp = Dead]
        /\ term' = [term EXCEPT ![running_term].esp0 = tss_esp0]
        /\ running_term' = next_term
        /\ page' = process
        /\ cur_pid' = process
        /\ tss_esp0' = term[next_term].esp0
        /\ video' = VideoFor(next_term, curr_term)
        /\ cpu' = Resume(point)
        /\ UNCHANGED << wild, pid_array, curr_term, keys >>
    BY <1>5 DEF PIT, Schedule, saved, point, process, old
  <2>7. pcb' \in [Pids -> PCBs]
    BY <2>3, <2>6, DeadPoint DEF PCBs
  <2>8. video' \in Terms \cup {Display, None}
    BY <1>1, <2>6 DEF VideoFor
  <2>. QED
    BY <1>1, <2>1, <2>5, <2>6, <2>7, <2>8 DEF TypeOK
<1>. QED
  BY <1>3, <1>4, <1>5

\* Every step keeps the types.
LEMMA NextType ==
  ASSUME TypeOK, [Next]_vars
  PROVE  TypeOK'
<1>1. /\ cpu \in Points
      /\ tss_esp0 \in Places
      /\ pcb \in [Pids -> PCBs]
      /\ cur_pid \in Pids
      /\ 0 \in Terms
  BY ConstantsAssumption DEF TypeOK, Terms
<1>2. Push(Entry) \in [Pids -> PCBs]
  BY <1>1, PushPCBs
<1>3. \A fr \in Frames : Enter(Entry, fr) \in Points
  BY <1>1, EnterPoint
<1>4. \A t \in Terms : \A o \in {"sys", "kbdhalt", "kbdlaunch"} : Frame(o, t) \in Frames
  BY KernelFrame DEF Ops
<1>5. Here(Entry) \in SavedPoints
  BY <1>1, <1>4, EnterPoint
<1>6. CASE Execute
  BY <1>2, <1>5, <1>6, StartProcessType DEF Execute
<1>7. CASE ExecuteFails
  BY <1>2, <1>7 DEF ExecuteFails, TypeOK
<1>8. CASE SysCall
  <2>1. cpu' \in Points
    BY <1>1, <1>3, <1>4, <1>8 DEF SysCall
  <2>. QED
    BY <1>2, <1>8, <2>1 DEF SysCall, TypeOK
<1>9. CASE SysReturn
  <2>1. cpu' \in Points
    BY <1>1, <1>9, BelowPoint DEF SysReturn
  <2>. QED
    BY <1>9, <2>1 DEF SysReturn, TypeOK
<1>10. CASE VidMap
  BY <1>2, <1>10 DEF VidMap, TypeOK
<1>11. CASE Halt
  <2>1. HaltFrame(cur_pid, pcb[cur_pid].term_id) \in Frames
    BY <1>1 DEF HaltFrame, Frames, Ops, PCBs
  <2>2. cpu' \in Points
    BY <1>3, <1>11, <2>1 DEF Halt
  <2>. QED
    BY <1>2, <1>11, <2>2 DEF Halt, TypeOK
<1>12. CASE Halt1
  <2>1. \A fr \in Frames :
          [Here(Entry) EXCEPT !.todo = << fr >> \o cpu.todo] \in Points
    BY <1>1, EnterPoint
  <2>. QED
    BY <1>2, <1>5, <1>12, <2>1, HaltDisplayedType DEF Halt1
<1>13. CASE HaltFree
  <2> DEFINE fr == Head(cpu.todo)
             parent == pcb[fr.victim].parent
  <2>1. Op # "user"
    BY <1>13 DEF HaltFree
  <2>2. fr \in Frames
    BY <1>1, <2>1, KernelMode
  <2>3. fr.victim \in Pids /\ fr.term \in Terms
    BY <2>2 DEF Frames
  <2>4. parent \in Pids \cup {None}
    BY <1>1, <2>3 DEF PCBs
  <2>5. CASE parent = None
    <3>1. cpu' \in Points
      BY <1>1, <1>13, <2>1, <2>5, GotoPoint DEF HaltFree, Ops
    <3>. QED
      BY <1>13, <2>3, <2>5, <3>1 DEF HaltFree, TypeOK
  <2>6. CASE parent # None
    <3>1. [fr EXCEPT !.op = "handback", !.parent = parent] \in Frames
      BY <2>2, <2>4, <2>6 DEF Frames, Ops
    <3>2. cpu' \in Points
      BY <1>1, <1>13, <2>1, <2>6, <3>1, TopFrame DEF HaltFree
    <3>. QED
      BY <1>13, <2>3, <2>6, <3>2 DEF HaltFree, TypeOK
  <2>. QED
    BY <2>5, <2>6
<1>14. CASE HandBack
  <2>1. Op = "handback" /\ Op # "user"
    BY <1>14 DEF HandBack
  <2>2. /\ Head(cpu.todo).parent \in Pids
        /\ Head(cpu.todo).parent # None
        /\ Head(cpu.todo).term \in Terms
    BY <1>1, <2>1, KernelMode DEF Frames
  <2>3. Goto("esp0") \in Points
    BY <1>1, <2>1, <2>2, GotoPoint DEF Ops
  <2>. QED
    BY <1>14, <2>2, <2>3 DEF HandBack, TypeOK
<1>15. CASE RestoreEsp0
  <2>1. Op = "esp0" /\ Op # "user"
    BY <1>15 DEF RestoreEsp0
  <2>2. /\ Head(cpu.todo).parent \in Pids
        /\ Head(cpu.todo).parent # None
        /\ Head(cpu.todo).victim \in Pids
    BY <1>1, <2>1, KernelMode DEF Frames
  <2>3. Goto("leave") \in Points
    BY <1>1, <2>1, <2>2, GotoPoint DEF Ops
  <2>4. pcb[Head(cpu.todo).victim].esp \in Points
    BY <1>1, <2>2 DEF PCBs, SavedPoints
  <2>5. tss_esp0' \in Places
    BY <1>15, <2>4, PointFacts DEF RestoreEsp0, Places
  <2>. QED
    BY <1>15, <2>2, <2>3, <2>5 DEF RestoreEsp0, TypeOK
<1>16. CASE LeaveExecute
  <2> DEFINE victim == Head(cpu.todo).victim
             esp == pcb[victim].esp
  <2>1. victim \in Pids
    BY <1>1, <1>16, KernelMode DEF LeaveExecute, Frames
  <2>2. CASE esp = Dead
    BY <1>16, <2>2 DEF LeaveExecute, TypeOK
  <2>3. CASE esp # Dead
    <3>1. Resume(esp) \in Points
      BY <1>1, <2>1, ResumePoint DEF PCBs
    <3>2. pcb' \in [Pids -> PCBs]
      BY <1>1, <1>16, <2>1, <2>3, DeadPoint DEF LeaveExecute, PCBs
    <3>. QED
      BY <1>16, <2>3, <3>1, <3>2 DEF LeaveExecute, TypeOK
  <2>. QED
    BY <2>2, <2>3
<1>17. CASE StartShell
  <2>1. Op # "user"
    BY <1>17 DEF StartShell
  <2>2. /\ [cpu EXCEPT !.todo = Tail(@)] \in SavedPoints
        /\ Return \in Points
    BY <1>1, <2>1, BelowPoint
  <2>3. (IF Op = "shell" THEN Dead ELSE [cpu EXCEPT !.todo = Tail(@)])
          \in SavedPoints
    BY <2>2, DeadPoint
  <2>4. CASE Free # {}
    BY <1>1, <1>17, <2>3, <2>4, StartProcessType DEF StartShell
  <2>5. CASE Free = {}
    BY <1>17, <2>2, <2>5 DEF StartShell, TypeOK
  <2>. QED
    BY <2>4, <2>5
<1>18. CASE CtrlC \/ \E t \in Terms : AltF(t)
  <2>1. PICK fr \in Frames : Key(fr)
    BY <1>1, <1>4, <1>18 DEF CtrlC, AltF
  <2>2. cpu' \in Points
    BY <1>3, <2>1 DEF Key
  <2>3. keys' \in 0 .. MaxKeys
    BY <2>1, ConstantsAssumption DEF Key, TypeOK
  <2>. QED
    BY <1>2, <2>1, <2>2, <2>3 DEF Key, TypeOK
<1>19. CASE HaltFromKeyboard
  <2> DEFINE point == [cpu EXCEPT !.todo = Tail(@)]
  <2>1. Op # "user"
    BY <1>19 DEF HaltFromKeyboard
  <2>2. point \in SavedPoints
    BY <1>1, <2>1, BelowPoint
  <2>3. \A fr \in Frames :
          [point EXCEPT !.todo = << fr >> \o Tail(cpu.todo)] \in Points
    <3>1. \A fr \in Frames :
            [point EXCEPT !.todo = << fr >> \o Tail(cpu.todo)]
              = [cpu EXCEPT !.todo = << fr >> \o Tail(@)]
      BY <1>1 DEF Points
    <3>. QED
      BY <1>1, <2>1, <3>1, TopFrame
  <2>. QED
    BY <1>1, <1>19, <2>2, <2>3, HaltDisplayedType DEF HaltFromKeyboard
<1>20. CASE BeginSwitch
  <2>1. Op # "user"
    BY <1>20 DEF BeginSwitch
  <2>2. Return \in Points /\ Goto("newterm") \in Points /\ Goto("oldterm") \in Points
    BY <1>1, <2>1, BelowPoint, GotoPoint DEF Ops
  <2>3. cpu' \in Points
    BY <1>20, <2>2 DEF BeginSwitch
  <2>. QED
    BY <1>20, <2>3 DEF BeginSwitch, TypeOK
<1>21. CASE ToNewTerminal
  <2> DEFINE running == term[running_term].running_pid
  <2>1. Op # "user"
    BY <1>21 DEF ToNewTerminal
  <2>2. Head(cpu.todo).term \in Terms
    BY <1>1, <2>1, KernelMode DEF Frames
  <2>3. CASE running = None
    BY <1>21, <2>3 DEF ToNewTerminal, TypeOK
  <2>4. CASE running # None
    <3>1. running \in Pids
      BY <2>4 DEF TypeOK
    <3>2. Saved(pcb, running, [cpu EXCEPT !.todo = Tail(@)]) \in [Pids -> PCBs]
      BY <1>1, <2>1, <3>1, BelowPoint, SavedPCBs
    <3>3. Goto("launched") \in Points
      BY <1>1, <2>1, GotoPoint DEF Ops
    <3>. QED
      BY <1>21, <2>2, <2>4, <3>2, <3>3 DEF ToNewTerminal, TypeOK
  <2>. QED
    BY <2>3, <2>4
<1>22. CASE ToOldTerminal
  <2>1. Op # "user"
    BY <1>22 DEF ToOldTerminal
  <2>2. Head(cpu.todo).term \in Terms
    BY <1>1, <2>1, KernelMode DEF Frames
  <2>3. Return \in Points
    BY <1>1, <2>1, BelowPoint
  <2>4. video' \in Terms \cup {Display, None}
    BY <1>22 DEF ToOldTerminal, VideoFor, TypeOK
  <2>. QED
    BY <1>22, <2>2, <2>3, <2>4 DEF ToOldTerminal, TypeOK
<1>23. CASE PIT
  BY <1>23, PITType
<1>24. CASE UNCHANGED vars
  BY <1>24 DEF vars, TypeOK
<1>. QED
  BY <1>6, <1>7, <1>8, <1>9, <1>10, <1>11, <1>12, <1>13, <1>14, <1>15, <1>16,
     <1>17, <1>18, <1>19, <1>20, <1>21, <1>22, <1>23, <1>24
     DEF Next, Programs, KernelSteps, HaltSteps, LaunchSteps, Keyboard

(***************************************************************************)
(* Whatever the hazards, every identity the kernel keeps (cur_pid,         *)
(* running_term, the mapped page, running_pid and parent) names a pid or a *)
(* terminal, and every frame the processor has to finish lies on the stack *)
(* it runs on: no handler of syscall_handler.c, pit.c or terminal.c leaves *)
(* the state without the types of its tables.                              *)
(***************************************************************************)
THEOREM TypeCorrect == Spec => []TypeOK
<1>1. Init => TypeOK
  BY InitType
<1>2. TypeOK /\ [Next]_vars => TypeOK'
  BY NextType
<1>. QED
  BY <1>1, <1>2, PTL DEF Spec

-----------------------------------------------------------------------------
(* RunningContext.  First what the points of execution look like after the *)
(* steps that change them.                                                 *)

\* The frames of a calm context are those of ordinary system calls.
LEMMA CalmPoint ==
  ASSUME NEW todo, Calm(todo)
  PROVE  /\ todo \in Seq(Frames)
         /\ todo # << >> => /\ Head(todo).op = "sys"
                            /\ Calm(Tail(todo))
<1> DEFINE SysFrames == {fr \in Frames : fr.op = "sys"}
<1>1. todo \in Seq(SysFrames)
  BY DEF Calm
<1>2. todo \in Seq(Frames)
  <2>1. \A i \in 1 .. Len(todo) : todo[i] \in Frames
    BY <1>1, ElementOfSeq
  <2>. QED
    BY <1>1, <2>1, SeqDef, LenProperties
<1>3. CASE todo # << >>
  <2>1. Head(todo) \in SysFrames /\ Tail(todo) \in Seq(SysFrames)
    BY <1>1, <1>3, HeadTailProperties
  <2>. QED
    BY <1>2, <2>1 DEF Calm
<1>. QED
  BY <1>2, <1>3

\* A context with no frame is calm.
LEMMA CalmNothing == Calm(<< >>)
BY EmptySeq DEF Calm

\* The point reached where a frame has been put on top.
LEMMA AtTop ==
  ASSUME NEW fr \in Frames, NEW td \in Seq(Frames), NEW p, NEW s, NEW k,
         cpu' = [proc |-> p, stack |-> s, pos |-> k, todo |-> << fr >> \o td]
  PROVE  /\ Op' = fr.op /\ fr.op # "user"
         /\ Head(cpu'.todo) = fr
         /\ Tail(cpu'.todo) = td
         /\ cpu'.proc = p
<1>1. << fr >> \o td # << >>
  BY PushFrame
<1>2. Head(<< fr >> \o td) = fr /\ Tail(<< fr >> \o td) = td
  OBVIOUS
<1>3. fr.op # "user"
  BY DEF Frames, Ops
<1>. QED
  BY <1>1, <1>2, <1>3 DEF Op, UserMode

\* The point reached where a program runs.
LEMMA AtUser ==
  ASSUME NEW p, cpu' = User(p)
  PROVE  Op' = "user" /\ cpu'.proc = p
BY DEF User, Op, UserMode

\* The point reached where a calm context is resumed.
LEMMA AtResume ==
  ASSUME NEW pt \in SavedPoints, Calm(pt.todo), cpu' = Resume(pt)
  PROVE  /\ cpu'.proc = pt.proc
         /\ Op' \in {"user", "sys"}
         /\ Op' # "user" => Calm(Tail(cpu'.todo))
<1>1. CASE pt.todo = << >>
  BY <1>1, AtUser DEF Resume
<1>2. CASE pt.todo # << >>
  <2>1. cpu'.proc = pt.proc /\ cpu'.todo = pt.todo
    BY <1>2, PointFacts DEF Resume, SavedPoints, Points
  <2>. QED
    BY <1>2, <2>1, CalmPoint DEF Op, UserMode
<1>. QED
  BY <1>1, <1>2

(***************************************************************************)
(* Now the parts of RunningContextInv.  pcbs is the PCB table as a step    *)
(* leaves it: with the same jobs, and with contexts like those before.     *)
(***************************************************************************)
SameJobs(pcbs) ==
  /\ pcbs \in [Pids -> PCBs]
  /\ \A p \in Pids : /\ pcbs[p].parent = pcb[p].parent
                     /\ pcbs[p].term_id = pcb[p].term_id

ContextsIn(pcbs) ==
  \A p \in Pids : /\ ContextOf(p, pcbs[p].curr_esp)
                  /\ ContextOf(pcbs[p].parent, pcbs[p].esp)

\* A push on a kernel stack changes no job and leaves each context its own or dead.
LEMMA PushKeeps ==
  ASSUME pcb \in [Pids -> PCBs], ContextsKept, NEW e
  PROVE  SameJobs(Push(e)) /\ ContextsIn(Push(e))
<1>1. Push(e) \in [Pids -> PCBs]
  BY PushPCBs
<1>2. ASSUME NEW p \in Pids
      PROVE  /\ Push(e)[p].parent = pcb[p].parent
             /\ Push(e)[p].term_id = pcb[p].term_id
             /\ Push(e)[p].curr_esp \in {Dead, pcb[p].curr_esp}
             /\ Push(e)[p].esp \in {Dead, pcb[p].esp}
  BY DEF Push, PCBs
<1>. QED
  BY <1>1, <1>2 DEF SameJobs, ContextsIn, ContextsKept, ContextOf

\* So does saving a context of a process in its own PCB.
LEMMA SavedKeeps ==
  ASSUME NEW pcbs, SameJobs(pcbs), ContextsIn(pcbs),
         NEW p \in Pids, NEW pt \in SavedPoints, ContextOf(p, pt)
  PROVE  SameJobs(Saved(pcbs, p, pt)) /\ ContextsIn(Saved(pcbs, p, pt))
<1>1. pcbs \in [Pids -> PCBs]
  BY DEF SameJobs
<1>2. Saved(pcbs, p, pt) \in [Pids -> PCBs]
  BY <1>1, SavedPCBs
<1>3. ASSUME NEW q \in Pids
      PROVE  /\ Saved(pcbs, p, pt)[q].parent = pcbs[q].parent
             /\ Saved(pcbs, p, pt)[q].term_id = pcbs[q].term_id
             /\ Saved(pcbs, p, pt)[q].esp = pcbs[q].esp
             /\ Saved(pcbs, p, pt)[q].curr_esp
                  = IF q = p THEN pt ELSE pcbs[q].curr_esp
  BY <1>1 DEF Saved, PCBs
<1>. QED
  BY <1>2, <1>3 DEF SameJobs, ContextsIn

\* A step that only moves contexts.
LEMMA JobsStay ==
  ASSUME ParentsKept, TerminalsKept, Op # "handback",
         UNCHANGED pid_array,
         \A t \in Terms : term'[t].running_pid = term[t].running_pid,
         term \in [Terms -> [running_pid : Pids \cup {None}, esp0 : Places]],
         pcb \in [Pids -> PCBs],
         SameJobs(pcb'), ContextsIn(pcb')
  PROVE  ParentsKept' /\ TerminalsKept' /\ ContextsKept'
<1>1. ContextsKept'
  BY DEF ContextsKept, ContextsIn, ContextOf, Calm
<1>2. \A p \in Pids : /\ pcb'[p].parent = pcb[p].parent
                      /\ pcb'[p].term_id = pcb[p].term_id
                      /\ pcb[p].parent \in Pids \cup {None}
  BY DEF SameJobs, PCBs
<1>3. ParentsKept'
  BY <1>2 DEF ParentsKept
<1>4. TerminalsKept'
  BY <1>2 DEF TerminalsKept
<1>. QED
  BY <1>1, <1>3, <1>4

\* execute_func.
LEMMA StartProcessKeeps ==
  ASSUME TypeOK, ParentsKept, TerminalsKept, Op # "handback",
         NEW pcbs, SameJobs(pcbs), ContextsIn(pcbs),
         NEW caller \in SavedPoints,
         term[curr_term].running_pid # None =>
           ContextOf(term[curr_term].running_pid, caller),
         Free # {}, StartProcess(pcbs, term, caller)
  PROVE  ParentsKept' /\ TerminalsKept' /\ ContextsKept' /\ FrameKept'
<1> DEFINE new == get_available_pid
           parent == get_parent_pcb(term)
           esp == IF parent = None THEN Dead ELSE caller
<1>1. new \in Pids /\ ~pid_array[new]
  BY AvailablePid DEF TypeOK, Free
<1>2. parent = term[curr_term].running_pid /\ parent \in Pids \cup {None}
  BY DEF get_parent_pcb, TypeOK
<1>3. ContextOf(parent, esp)
  BY <1>2 DEF ContextOf
<1>4. pcbs \in [Pids -> PCBs]
  BY DEF SameJobs
<1>. HIDE DEF new, parent
<1>5. /\ pid_array' = [pid_array EXCEPT ![new] = TRUE]
      /\ cur_pid' = new
      /\ page' = new
      /\ pcb' = [pcbs EXCEPT ![new] = [@ EXCEPT !.parent = parent,
                                                !.term_id = curr_term,
                                                !.esp = esp]]
      /\ term' = [term EXCEPT ![curr_term] =
                   [running_pid |-> new, esp0 |-> Base(new)]]
      /\ running_term' = curr_term
      /\ cpu' = User(new)
      /\ UNCHANGED curr_term
  BY DEF StartProcess, new, parent
<1>. HIDE DEF esp
<1>6. ASSUME NEW p \in Pids
      PROVE  /\ pcb'[p].curr_esp = pcbs[p].curr_esp
             /\ pcb'[p].parent = IF p = new THEN parent ELSE pcb[p].parent
             /\ pcb'[p].term_id = IF p = new THEN curr_term ELSE pcb[p].term_id
             /\ pcb'[p].esp = IF p = new THEN esp ELSE pcbs[p].esp
             /\ pid_array'[p] = IF p = new THEN TRUE ELSE pid_array[p]
  BY <1>1, <1>4, <1>5 DEF SameJobs, PCBs, TypeOK
<1>7. ASSUME NEW t \in Terms
      PROVE  term'[t].running_pid = IF t = curr_term THEN new
                                    ELSE term[t].running_pid
  BY <1>5 DEF TypeOK
<1>8. curr_term \in Terms /\ None \notin Pids
  BY DEF TypeOK, None, Pids
<1>9. ContextsKept'
  <2>1. ASSUME NEW p \in Pids
        PROVE  ContextOf(p, pcb'[p].curr_esp) /\ ContextOf(pcb'[p].parent, pcb'[p].esp)
    BY <1>3, <1>6 DEF ContextsIn, SameJobs
  <2>. QED
    BY <2>1 DEF ContextsKept, ContextOf, Calm
<1>10. ParentsKept'
  <2>1. SUFFICES ASSUME NEW p \in Pids, pid_array'[p], pcb'[p].parent # None
                 PROVE  LET q == pcb'[p].parent
                        IN /\ pid_array'[q]
                           /\ pcb'[q].term_id = pcb'[p].term_id
                           /\ \A t \in Terms : term'[t].running_pid # q
                           /\ \A r \in Pids : pid_array'[r] /\ pcb'[r].parent = q
                                                => r = p
    BY DEF ParentsKept
  <2>2. CASE p = new
    <3>1. pcb'[p].parent = parent /\ parent \in Pids
      BY <1>2, <1>6, <2>1, <2>2
    <3>2. pid_array[parent] /\ pcb[parent].term_id = curr_term /\ parent # new
      BY <1>1, <1>2, <1>8, <3>1 DEF TerminalsKept
    <3>3. \A t \in Terms : t # curr_term => term[t].running_pid # parent
      BY <1>2, <1>8, <3>1, <3>2 DEF TerminalsKept
    <3>4. \A r \in Pids : r # new /\ pid_array[r] => pcb[r].parent # parent
      BY <1>2, <1>8, <3>1 DEF ParentsKept
    <3>. QED
      BY <1>6, <1>7, <2>2, <3>1, <3>2, <3>3, <3>4, ZenonT(60)
  <2>3. CASE p # new
    <3>1. pid_array[p] /\ pcb[p].parent # None /\ pcb'[p].parent = pcb[p].parent
      BY <1>6, <2>1, <2>3
    <3>2. pcb[p].parent \in Pids
      BY <3>1 DEF TypeOK, PCBs
    <3>3. /\ pid_array[pcb[p].parent]
          /\ pcb[pcb[p].parent].term_id = pcb[p].term_id
          /\ \A t \in Terms : term[t].running_pid # pcb[p].parent
          /\ \A r \in Pids : pid_array[r] /\ pcb[r].parent = pcb[p].parent => r = p
      BY <3>1 DEF ParentsKept
    <3>4. pcb[p].parent # new
      BY <1>1, <3>3
    <3>5. parent # pcb[p].parent
      BY <1>2, <1>8, <3>3
    <3>. QED
      BY <1>6, <1>7, <2>3, <3>1, <3>2, <3>3, <3>4, <3>5, ZenonT(60)
  <2>. QED
    BY <2>2, <2>3
<1>11. TerminalsKept'
  <2>1. SUFFICES ASSUME NEW t \in Terms, term'[t].running_pid # None
                 PROVE  /\ pcb'[term'[t].running_pid].term_id = t
                        /\ pid_array'[term'[t].running_pid]
    BY DEF TerminalsKept
  <2>2. CASE t = curr_term
    BY <1>1, <1>6, <1>7, <2>2
  <2>3. CASE t # curr_term
    <3>1. term'[t].running_pid = term[t].running_pid
      BY <1>7, <2>3
    <3>2. term[t].running_pid \in Pids
      BY <2>1, <3>1 DEF TypeOK
    <3>3. pcb[term[t].running_pid].term_id = t /\ pid_array[term[t].running_pid]
      BY <2>1, <3>1 DEF TerminalsKept
    <3>. QED
      BY <1>1, <1>6, <3>1, <3>2, <3>3
  <2>. QED
    BY <2>2, <2>3
<1>12. FrameKept'
  <2>1. Op' = "user" /\ cpu'.proc = new
    BY <1>5, AtUser
  <2>2. /\ cpu'.proc = cur_pid' /\ cpu'.proc = page'
        /\ cpu'.proc = term'[running_term'].running_pid
    BY <1>5, <1>7, <1>8, <2>1
  <2>. QED
    BY <2>1, <2>2 DEF FrameKept, Current
<1>. QED
  BY <1>9, <1>10, <1>11, <1>12

\* Going on as the same process, in user mode, in a system call or on the way
\* into launch_term or halt_func.
LEMMA SameProcess ==
  ASSUME FrameKept, Op \notin {"free", "shell", "handback", "esp0", "leave"},
         cpu'.proc = cpu.proc,
         Op' \in {"user", "sys", "kbdhalt", "kbdlaunch", "oldterm"},
         Op' # "user" => Calm(Tail(cpu'.todo)),
         UNCHANGED << cur_pid, page, running_term >>,
         term'[running_term].running_pid = term[running_term].running_pid
  PROVE  FrameKept'
<1>1. Current(cpu.proc)
  BY DEF FrameKept
<1>2. /\ cpu'.proc = cur_pid' /\ cpu'.proc = page'
      /\ cpu'.proc = term'[running_term'].running_pid
  BY <1>1 DEF Current
<1>. QED
  BY <1>2 DEF FrameKept, Current, Calm

\* The beginning of halt(1) keeps the four parts of the invariant.
LEMMA HaltDisplayedKeeps ==
  ASSUME TypeOK, ParentsKept, TerminalsKept, Op # "handback",
         NEW pcbs, SameJobs(pcbs), ContextsIn(pcbs),
         NEW point \in SavedPoints, ContextOf(cpu.proc, point),
         NEW below, Calm(below), Current(cpu.proc),
         HaltDisplayed(pcbs, point, below), ~wild',
         UNCHANGED << pid_array, cur_pid, curr_term, page >>
  PROVE  ParentsKept' /\ TerminalsKept' /\ ContextsKept' /\ FrameKept'
<1> DEFINE running == term[running_term].running_pid
           victim  == term[curr_term].running_pid
<1>1. running = cpu.proc /\ running \in Pids \cup {None} /\ victim \in Pids \cup {None}
  BY DEF TypeOK, Current
<1>2. ~(victim = None \/ (running_term # curr_term /\ running = None))
  BY DEF HaltDisplayed
<1>3. /\ running_term' = curr_term
      /\ cpu' = [point EXCEPT !.todo = << HaltFrame(victim, curr_term) >> \o below]
      /\ pcb' = pcbs \/ (running \in Pids /\ pcb' = Saved(pcbs, running, point))
      /\ \A t \in Terms : term'[t].running_pid = term[t].running_pid
  BY <1>1, <1>2 DEF HaltDisplayed, TypeOK
<1>4. SameJobs(pcb') /\ ContextsIn(pcb')
  BY <1>1, <1>3, SavedKeeps
<1>5. ParentsKept' /\ TerminalsKept' /\ ContextsKept'
  BY <1>3, <1>4, JobsStay DEF TypeOK
<1>6. FrameKept'
  <2>1. /\ HaltFrame(victim, curr_term) \in Frames
        /\ HaltFrame(victim, curr_term).op = "free"
        /\ HaltFrame(victim, curr_term).term = curr_term
        /\ HaltFrame(victim, curr_term).victim = victim
    BY <1>1, <1>2 DEF HaltFrame, Frames, Ops, TypeOK
  <2>2. cpu' = [proc |-> point.proc, stack |-> point.stack, pos |-> point.pos,
                todo |-> << HaltFrame(victim, curr_term) >> \o below]
    BY <1>3 DEF SavedPoints, Points
  <2>3. /\ Op' = "free"
        /\ Head(cpu'.todo) = HaltFrame(victim, curr_term)
        /\ Tail(cpu'.todo) = below
    BY <2>1, <2>2, CalmPoint, AtTop
  <2>4. term'[curr_term].running_pid = victim
    BY <1>3 DEF TypeOK
  <2>. QED
    BY <1>1, <1>2, <1>3, <2>1, <2>3, <2>4 DEF FrameKept, Calm
<1>. QED
  BY <1>5, <1>6

\* A program, or one in an ordinary system call, has a calm context.
LEMMA SettledCalm ==
  ASSUME cpu \in Points, FrameKept, Op \in {"user", "sys"}
  PROVE  Calm(cpu.todo)
<1>1. CASE UserMode
  BY <1>1, CalmNothing DEF UserMode
<1>2. CASE ~UserMode
  <2> DEFINE fr == Head(cpu.todo)
             SysFrames == {f \in Frames : f.op = "sys"}
  <2>1. cpu.todo # << >> /\ cpu.todo \in Seq(Frames) /\ fr \in Frames
    BY <1>2, PointFacts, HeadTailProperties DEF UserMode
  <2>2. Op = "sys" /\ fr \in SysFrames
    BY <1>2, <2>1 DEF Op, Frames, Ops
  <2>3. Tail(cpu.todo) \in Seq(SysFrames)
    BY <2>2 DEF FrameKept, Calm
  <2>4. cpu.todo = << fr >> \o Tail(cpu.todo)
    BY <2>1
  <2>5. << fr >> \in Seq(SysFrames)
    BY <2>2
  <2>. QED
    BY <2>3, <2>4, <2>5, ConcatProperties DEF Calm
<1>. QED
  BY <1>1, <1>2

\* schedule.
LEMMA PITKeeps ==
  ASSUME TypeOK, ParentsKept, TerminalsKept, ContextsKept, FrameKept,
         Op \in {"user", "sys"}, PIT, ~wild'
  PROVE  /\ ParentsKept' /\ TerminalsKept' /\ ContextsKept' /\ FrameKept'
         /\ Op' \in {"user", "sys"}
<1> DEFINE old     == term[running_term].running_pid
           process == term[next_term].running_pid
           saved   == Saved(Push(Entry), old, Here(Entry))
           point   == saved[process].curr_esp
<1>1. SameJobs(Push(Entry)) /\ ContextsIn(Push(Entry))
  BY PushKeeps DEF TypeOK
<1>2. Current(cpu.proc)
  BY DEF FrameKept
<1>4. Calm(cpu.todo)
  BY SettledCalm DEF TypeOK
<1>5. CASE ~Schedules
  <2>1. pcb' = Push(Entry) /\ UNCHANGED << term, running_term, page, cur_pid,
                                           cpu, pid_array >>
    BY <1>5 DEF PIT
  <2>2. Op' = Op /\ cpu'.todo = cpu.todo
    BY <2>1 DEF Op, UserMode
  <2>3. FrameKept'
    <3>1. Op' # "user" => Calm(Tail(cpu'.todo))
      BY <2>1, <2>2 DEF FrameKept
    <3>. QED
      BY <2>1, <2>2, <3>1, SameProcess
  <2>. QED
    BY <1>1, <2>1, <2>2, <2>3, JobsStay DEF TypeOK
<1>6. CASE Schedules
  <2>1. ~(old = None \/ process = None \/ point = Dead)
    BY <1>6 DEF PIT, Schedule
  <2>2. next_term \in Terms
    BY NextTerm DEF TypeOK
  <2>3. old \in Pids /\ process \in Pids
    BY <2>1, <2>2 DEF TypeOK
  <2>4. old = cpu.proc
    BY <1>2 DEF Current
  <2>5. Here(Entry) \in SavedPoints /\ ContextOf(old, Here(Entry))
    <3>1. \E fr : fr \in Frames
      <4>1. 0 \in Terms
        BY ConstantsAssumption DEF Terms
      <4>. QED
        BY <4>1, KernelFrame DEF Ops
    <3>2. Here(Entry) \in SavedPoints
      BY <3>1, EnterPoint DEF TypeOK
    <3>. QED
      BY <1>4, <2>4, <3>2 DEF Here, ContextOf
  <2>6. SameJobs(saved) /\ ContextsIn(saved)
    BY <1>1, <2>3, <2>5, SavedKeeps
  <2>7. point \in SavedPoints /\ point.proc = process /\ Calm(point.todo)
    BY <2>1, <2>3, <2>6 DEF SameJobs, PCBs, ContextsIn, ContextOf
  <2>. HIDE DEF saved, point, process, old
  <2>8. /\ pcb' = [saved EXCEPT ![process].curr_esp = Dead]
        /\ term' = [term EXCEPT ![running_term].esp0 = tss_esp0]
        /\ running_term' = next_term
        /\ page' = process
        /\ cur_pid' = process
        /\ cpu' = Resume(point)
        /\ UNCHANGED << pid_array >>
    BY <1>6, <2>1 DEF PIT, Schedule, saved, point, process, old
  <2>9. SameJobs(pcb') /\ ContextsIn(pcb')
    <3>1. saved \in [Pids -> PCBs]
      BY <2>6 DEF SameJobs
    <3>2. pcb' \in [Pids -> PCBs]
      BY <2>3, <2>8, <3>1, DeadPoint DEF PCBs
    <3>3. ASSUME NEW p \in Pids
          PROVE  /\ pcb'[p].parent = saved[p].parent
                 /\ pcb'[p].term_id = saved[p].term_id
                 /\ pcb'[p].esp = saved[p].esp
                 /\ pcb'[p].curr_esp \in {Dead, saved[p].curr_esp}
      BY <2>3, <2>8, <3>1 DEF PCBs
    <3>. QED
      BY <2>6, <3>2, <3>3 DEF SameJobs, ContextsIn, ContextOf
  <2>10. \A t \in Terms : term'[t].running_pid = term[t].running_pid
    BY <2>8 DEF TypeOK
  <2>11. ParentsKept' /\ TerminalsKept' /\ ContextsKept'
    BY <2>8, <2>9, <2>10, JobsStay DEF TypeOK
  <2>12. /\ cpu'.proc = process
         /\ Op' \in {"user", "sys"}
         /\ Op' # "user" => Calm(Tail(cpu'.todo))
    BY <2>7, <2>8, AtResume
  <2>13. term'[running_term'].running_pid = process
    BY <2>2, <2>8, <2>10 DEF process
  <2>14. FrameKept'
    BY <2>8, <2>12, <2>13 DEF FrameKept, Current, Calm
  <2>. QED
    BY <2>11, <2>12, <2>14
<1>. QED
  BY <1>5, <1>6

\* The point reached where a handler moves on.
LEMMA AtGoto ==
  ASSUME cpu \in Points, Op # "user", NEW op \in Ops,
         op \in {"handback", "esp0", "leave"} => Head(cpu.todo).parent # None,
         cpu' = Goto(op)
  PROVE  /\ Op' = op
         /\ Head(cpu'.todo).term = Head(cpu.todo).term
         /\ Head(cpu'.todo).victim = Head(cpu.todo).victim
         /\ Head(cpu'.todo).parent = Head(cpu.todo).parent
         /\ Tail(cpu'.todo) = Tail(cpu.todo)
         /\ cpu'.proc = cpu.proc
<1> DEFINE fr == [Head(cpu.todo) EXCEPT !.op = op]
<1>1. /\ fr \in Frames
      /\ fr.op = op
      /\ fr.term = Head(cpu.todo).term
      /\ fr.victim = Head(cpu.todo).victim
      /\ fr.parent = Head(cpu.todo).parent
  BY KernelMode DEF Frames
<1>2. cpu' = [proc |-> cpu.proc, stack |-> cpu.stack, pos |-> cpu.pos,
              todo |-> << fr >> \o Tail(cpu.todo)]
  BY DEF Goto, Points
<1>. HIDE DEF fr
<1>3. /\ Op' = fr.op
      /\ Head(cpu'.todo) = fr
      /\ Tail(cpu'.todo) = Tail(cpu.todo)
      /\ cpu'.proc = cpu.proc
  <2>1. Tail(cpu.todo) \in Seq(Frames)
    BY KernelMode
  <2>. QED
    BY <1>1, <1>2, <2>1, AtTop, ZenonT(60)
<1>. QED
  BY <1>1, <1>3

\* The point reached where a handler returns.
LEMMA AtReturn ==
  ASSUME cpu \in Points, Op # "user", FrameKept, cpu' = Return
  PROVE  /\ cpu'.proc = cpu.proc
         /\ Op' \in {"user", "sys"}
         /\ Op' # "user" => Calm(Tail(cpu'.todo))
<1> DEFINE pt == [cpu EXCEPT !.todo = Tail(@)]
<1>1. pt \in SavedPoints
  BY BelowPoint
<1>2. pt.proc = cpu.proc /\ pt.todo = Tail(cpu.todo)
  BY DEF Points
<1>3. Calm(Tail(cpu.todo))
  BY DEF FrameKept
<1>4. cpu' = Resume(pt)
  BY DEF Return
<1>. HIDE DEF pt
<1>. QED
  BY <1>1, <1>2, <1>3, <1>4, AtResume

(***************************************************************************)
(* The steps of halt_func.                                                 *)
(***************************************************************************)
LEMMA HaltFreeKeeps ==
  ASSUME TypeOK, ParentsKept, TerminalsKept, ContextsKept, FrameKept, HaltFree
  PROVE  ParentsKept' /\ TerminalsKept' /\ ContextsKept' /\ FrameKept'
<1> DEFINE fr == Head(cpu.todo)
           victim == fr.victim
           parent == pcb[victim].parent
<1>1. Op = "free" /\ cpu \in Points /\ fr \in Frames
  BY KernelMode DEF HaltFree, TypeOK
<1>2. /\ victim \in Pids /\ victim = term[running_term].running_pid
      /\ fr.term = running_term /\ running_term \in Terms
      /\ Calm(Tail(cpu.todo))
      /\ parent \in Pids \cup {None} /\ None \notin Pids
  BY <1>1 DEF FrameKept, TypeOK, Frames, PCBs, None, Pids
<1>3. /\ pid_array' = [pid_array EXCEPT ![victim] = FALSE]
      /\ UNCHANGED << pcb, cur_pid, running_term, page >>
      /\ \A p \in Pids : pid_array'[p] <=> pid_array[p] /\ p # victim
  BY <1>2 DEF HaltFree, TypeOK
<1>4. pid_array[victim] /\ pcb[victim].term_id = running_term
  BY <1>1, <1>2 DEF TerminalsKept
<1>5. \A t \in Terms \ {running_term} : term[t].running_pid # victim
  BY <1>2, <1>4 DEF TerminalsKept
<1>6. ContextsKept'
  BY <1>3 DEF ContextsKept, ContextOf, Calm
<1>7. /\ \A t \in Terms : term'[t].running_pid \in {None, term[t].running_pid}
      /\ parent = None => term'[running_term].running_pid = None
      /\ parent # None => term' = term
  BY <1>2 DEF HaltFree, TypeOK
<1>8. ParentsKept'
  <2>1. SUFFICES ASSUME NEW p \in Pids, pid_array[p], p # victim,
                        pcb[p].parent # None
                 PROVE  LET q == pcb[p].parent
                        IN /\ pid_array'[q]
                           /\ pcb[q].term_id = pcb[p].term_id
                           /\ \A t \in Terms : term'[t].running_pid # q
                           /\ \A r \in Pids : pid_array'[r] /\ pcb[r].parent = q
                                                => r = p
    BY <1>3 DEF ParentsKept
  <2>2. pcb[p].parent \in Pids
    BY <2>1 DEF TypeOK, PCBs
  <2>3. /\ pid_array[pcb[p].parent]
        /\ pcb[pcb[p].parent].term_id = pcb[p].term_id
        /\ \A t \in Terms : term[t].running_pid # pcb[p].parent
        /\ \A r \in Pids : pid_array[r] /\ pcb[r].parent = pcb[p].parent => r = p
    BY <2>1 DEF ParentsKept
  <2>. QED
    BY <1>2, <1>3, <1>7, <2>1, <2>2, <2>3
<1>9. CASE parent = None
  <2>1. cpu' = Goto("shell")
    BY <1>9 DEF HaltFree
  <2>2. Op' = "shell" /\ Tail(cpu'.todo) = Tail(cpu.todo)
    BY <1>1, <2>1, AtGoto DEF Ops
  <2>3. FrameKept'
    BY <1>2, <2>2 DEF FrameKept, Calm
  <2>4. TerminalsKept'
    <3>1. ASSUME NEW t \in Terms, term'[t].running_pid # None
          PROVE  /\ pcb[term'[t].running_pid].term_id = t
                 /\ pid_array'[term'[t].running_pid]
      <4>1. t # running_term /\ term'[t].running_pid = term[t].running_pid
        BY <1>7, <1>9, <3>1
      <4>2. term[t].running_pid \in Pids
        BY <3>1, <4>1 DEF TypeOK
      <4>. QED
        BY <1>1, <1>3, <1>5, <3>1, <4>1, <4>2 DEF TerminalsKept
    <3>. QED
      BY <1>3, <3>1 DEF TerminalsKept
  <2>. QED
    BY <1>6, <1>8, <2>3, <2>4
<1>10. CASE parent # None
  <2> DEFINE next == [fr EXCEPT !.op = "handback", !.parent = parent]
  <2>1. /\ next \in Frames /\ next.op = "handback" /\ next.parent = parent
        /\ next.victim = victim /\ next.term = running_term
    BY <1>1, <1>2, <1>10 DEF Frames, Ops
  <2>2. cpu' = [proc |-> cpu.proc, stack |-> cpu.stack, pos |-> cpu.pos,
                todo |-> << next >> \o Tail(cpu.todo)]
    BY <1>1, <1>10 DEF HaltFree, Points
  <2>. HIDE DEF next
  <2>3. Op' = "handback" /\ Head(cpu'.todo) = next /\ Tail(cpu'.todo) = Tail(cpu.todo)
    BY <1>1, <2>1, <2>2, KernelMode, AtTop
  <2>4. /\ pid_array[parent] /\ pcb[parent].term_id = running_term
        /\ \A t \in Terms : term[t].running_pid # parent
        /\ \A p \in Pids : pid_array[p] /\ pcb[p].parent = parent => p = victim
    BY <1>2, <1>4, <1>10 DEF ParentsKept
  <2>5. FrameKept'
    <3>1. /\ Head(cpu'.todo).term = running_term'
          /\ Head(cpu'.todo).victim \in Pids
          /\ Head(cpu'.todo).victim = term'[running_term'].running_pid
          /\ ~pid_array'[Head(cpu'.todo).victim]
          /\ Head(cpu'.todo).parent = pcb'[Head(cpu'.todo).victim].parent
      BY <1>2, <1>3, <1>7, <1>10, <2>1, <2>3
    <3>2. /\ pid_array'[Head(cpu'.todo).parent]
          /\ pcb'[Head(cpu'.todo).parent].term_id = running_term'
          /\ \A t \in Terms : term'[t].running_pid # Head(cpu'.todo).parent
          /\ \A p \in Pids : pid_array'[p] => pcb'[p].parent # Head(cpu'.todo).parent
      BY <1>2, <1>3, <1>7, <1>10, <2>1, <2>3, <2>4
    <3>. QED
      BY <1>2, <2>3, <3>1, <3>2 DEF FrameKept, Calm
  <2>6. TerminalsKept'
    <3>1. ASSUME NEW t \in Terms, term[t].running_pid # None
          PROVE  /\ pcb[term[t].running_pid].term_id = t
                 /\ pid_array'[term[t].running_pid] \/ term[t].running_pid = victim
      <4>1. term[t].running_pid \in Pids
        BY <3>1 DEF TypeOK
      <4>. QED
        BY <1>1, <1>3, <3>1, <4>1 DEF TerminalsKept
    <3>. QED
      BY <1>3, <1>7, <1>10, <2>1, <2>3, <3>1 DEF TerminalsKept
  <2>. QED
    BY <1>6, <1>8, <2>5, <2>6
<1>. QED
  BY <1>9, <1>10

\* halt_func gives the terminal to the parent.
LEMMA HandBackKeeps ==
  ASSUME TypeOK, ParentsKept, TerminalsKept, ContextsKept, FrameKept, HandBack
  PROVE  ParentsKept' /\ TerminalsKept' /\ ContextsKept' /\ FrameKept'
<1> DEFINE fr == Head(cpu.todo)
<1>1. Op = "handback" /\ cpu \in Points /\ fr \in Frames /\ fr.op = Op
  BY KernelMode DEF HandBack, TypeOK
<1>2. /\ fr.parent \in Pids /\ fr.victim \in Pids /\ fr.parent # None
      /\ fr.term = running_term /\ running_term \in Terms
  BY <1>1 DEF Frames, FrameKept, TypeOK
<1>3. /\ UNCHANGED << pid_array, pcb, running_term >>
      /\ page' = fr.parent
      /\ cpu' = Goto("esp0")
      /\ \A t \in Terms : term'[t].running_pid =
            IF t = running_term THEN fr.parent ELSE term[t].running_pid
  BY <1>2 DEF HandBack, TypeOK
<1>4. /\ fr.victim = term[running_term].running_pid
      /\ fr.parent = pcb[fr.victim].parent
      /\ pid_array[fr.parent] /\ pcb[fr.parent].term_id = running_term
      /\ \A p \in Pids : pid_array[p] => pcb[p].parent # fr.parent
      /\ Calm(Tail(cpu.todo))
  BY <1>1 DEF FrameKept
<1>5. ContextsKept'
  BY <1>3 DEF ContextsKept, ContextOf, Calm
<1>6. ParentsKept'
  BY <1>3, <1>4 DEF ParentsKept
<1>7. TerminalsKept'
  <2>1. ASSUME NEW t \in Terms, term'[t].running_pid # None
        PROVE  /\ pcb[term'[t].running_pid].term_id = t
               /\ pid_array[term'[t].running_pid]
    <3>1. CASE t = running_term
      BY <1>3, <1>4, <3>1
    <3>2. CASE t # running_term
      <4>1. term'[t].running_pid = term[t].running_pid
        BY <1>3, <3>2
      <4>2. pcb[term[t].running_pid].term_id = t
        BY <2>1, <4>1 DEF TerminalsKept
      <4>3. pcb[fr.victim].term_id = running_term
        BY <1>2, <1>4 DEF TerminalsKept, None, Pids
      <4>4. term[t].running_pid # fr.victim
        BY <3>2, <4>2, <4>3
      <4>. QED
        BY <2>1, <4>1, <4>2, <4>4 DEF TerminalsKept
    <3>. QED
      BY <3>1, <3>2
  <2>. QED
    BY <1>3, <2>1 DEF TerminalsKept
<1>8. /\ Op' = "esp0"
      /\ Head(cpu'.todo).term = running_term
      /\ Head(cpu'.todo).victim = fr.victim
      /\ Head(cpu'.todo).parent = fr.parent
      /\ Tail(cpu'.todo) = Tail(cpu.todo)
  BY <1>1, <1>2, <1>3, AtGoto DEF Ops
<1>9. FrameKept'
  BY <1>2, <1>3, <1>4, <1>8 DEF FrameKept, Calm
<1>. QED
  BY <1>5, <1>6, <1>7, <1>9

\* halt_func restores tss.esp0 and cur_pid.
LEMMA RestoreEsp0Keeps ==
  ASSUME TypeOK, ParentsKept, TerminalsKept, ContextsKept, FrameKept, RestoreEsp0
  PROVE  ParentsKept' /\ TerminalsKept' /\ ContextsKept' /\ FrameKept'
<1> DEFINE fr == Head(cpu.todo)
<1>1. Op = "esp0" /\ cpu \in Points /\ fr \in Frames /\ fr.op = Op
  BY KernelMode DEF RestoreEsp0, TypeOK
<1>2. /\ UNCHANGED << pid_array, pcb, term, running_term, page >>
      /\ cur_pid' = fr.parent
      /\ cpu' = Goto("leave")
  BY DEF RestoreEsp0
<1>3. SameJobs(pcb') /\ ContextsIn(pcb')
  BY <1>2 DEF SameJobs, ContextsIn, ContextsKept, TypeOK
<1>4. ParentsKept' /\ TerminalsKept' /\ ContextsKept'
  BY <1>1, <1>2, <1>3, JobsStay DEF TypeOK
<1>5. /\ Op' = "leave"
      /\ Head(cpu'.todo).term = fr.term
      /\ Head(cpu'.todo).victim = fr.victim
      /\ Head(cpu'.todo).parent = fr.parent
      /\ Tail(cpu'.todo) = Tail(cpu.todo)
  BY <1>1, <1>2, AtGoto DEF Ops, Frames
<1>6. FrameKept'
  BY <1>1, <1>2, <1>5 DEF FrameKept, Calm
<1>. QED
  BY <1>4, <1>6

\* halt_func returns through the frame of the parent's execute.
LEMMA LeaveExecuteKeeps ==
  ASSUME TypeOK, ParentsKept, TerminalsKept, ContextsKept, FrameKept,
         LeaveExecute, ~wild'
  PROVE  ParentsKept' /\ TerminalsKept' /\ ContextsKept' /\ FrameKept'
<1> DEFINE fr == Head(cpu.todo)
           esp == pcb[fr.victim].esp
<1>1. Op = "leave" /\ cpu \in Points /\ fr \in Frames
  BY KernelMode DEF LeaveExecute, TypeOK
<1>2. fr.victim \in Pids /\ pcb \in [Pids -> PCBs]
  BY <1>1 DEF Frames, TypeOK
<1>3. esp # Dead
  BY DEF LeaveExecute
<1>4. /\ cpu' = Resume(esp)
      /\ pcb' = [pcb EXCEPT ![fr.victim].esp = Dead]
      /\ UNCHANGED << pid_array, term, cur_pid, running_term, page >>
  BY <1>3 DEF LeaveExecute
<1>5. esp \in SavedPoints /\ esp.proc = pcb[fr.victim].parent /\ Calm(esp.todo)
  BY <1>2, <1>3 DEF PCBs, ContextsKept, ContextOf
<1>6. SameJobs(pcb') /\ ContextsIn(pcb')
  <2>1. pcb' \in [Pids -> PCBs]
    BY <1>2, <1>4, DeadPoint DEF PCBs
  <2>2. ASSUME NEW p \in Pids
        PROVE  /\ pcb'[p].parent = pcb[p].parent
               /\ pcb'[p].term_id = pcb[p].term_id
               /\ pcb'[p].curr_esp = pcb[p].curr_esp
               /\ pcb'[p].esp \in {Dead, pcb[p].esp}
    BY <1>2, <1>4 DEF PCBs
  <2>. QED
    BY <2>1, <2>2 DEF SameJobs, ContextsIn, ContextsKept, ContextOf
<1>7. ParentsKept' /\ TerminalsKept' /\ ContextsKept'
  BY <1>1, <1>4, <1>6, JobsStay DEF TypeOK
<1>8. /\ cpu'.proc = pcb[fr.victim].parent
      /\ Op' \in {"user", "sys"}
      /\ Op' # "user" => Calm(Tail(cpu'.todo))
  BY <1>4, <1>5, AtResume
<1>9. Current(fr.parent) /\ fr.parent = pcb[fr.victim].parent
  BY <1>1 DEF FrameKept, Current
<1>10. FrameKept'
  BY <1>4, <1>8, <1>9 DEF FrameKept, Current, Calm
<1>. QED
  BY <1>7, <1>10

\* The boot establishes the invariant.
LEMMA InitKeeps ==
  ASSUME Init
  PROVE  ParentsKept /\ TerminalsKept /\ ContextsKept /\ FrameKept
<1>1. 0 \in Pids /\ 0 \in Terms /\ None \notin Pids
  BY ConstantsAssumption DEF Pids, Terms, None
<1>2. ParentsKept /\ ContextsKept
  BY DEF Init, ParentsKept, ContextsKept, ContextOf
<1>3. TerminalsKept
  BY <1>1 DEF Init, TerminalsKept
<1>4. Op = "user" /\ cpu.proc = 0
  BY DEF Init, User, Op, UserMode
<1>5. Current(0)
  BY <1>1 DEF Init, Current
<1>6. FrameKept
  BY <1>4, <1>5 DEF FrameKept
<1>. QED
  BY <1>2, <1>3, <1>6

\* With the windows closed, interrupts come to no handler.
LEMMA WindowsClosed ==
  ASSUME Hazards \cap (Windows \cup {"bgexec"}) = {}, Interruptible
  PROVE  Op \in {"user", "sys"}
<1>1. WindowOf(Op) \in Windows
  BY DEF WindowOf, Windows
<1>. QED
  BY <1>1 DEF Interruptible, Settled

\* Traps from user mode that leave the processor where it was or one frame
\* deeper in the same process.
LEMMA SameTables ==
  ASSUME TypeOK, ParentsKept, TerminalsKept, ContextsKept, FrameKept,
         Op \in {"user", "sys"},
         pcb' = Push(Entry),
         UNCHANGED << pid_array, term, cur_pid, running_term, page >>,
         \/ UNCHANGED cpu
         \/ \E fr \in Frames : /\ fr.op \in {"sys", "kbdhalt", "kbdlaunch"}
                               /\ cpu' = Enter(Entry, fr)
  PROVE  ParentsKept' /\ TerminalsKept' /\ ContextsKept' /\ FrameKept'
<1>1. ParentsKept' /\ TerminalsKept' /\ ContextsKept'
  BY PushKeeps, JobsStay DEF TypeOK
<1>2. CASE UNCHANGED cpu
  <2>1. Op' = Op /\ cpu'.todo = cpu.todo
    BY <1>2 DEF Op, UserMode
  <2>2. FrameKept'
    BY <1>2, <2>1, SameProcess DEF FrameKept
  <2>. QED
    BY <1>1, <2>2
<1>3. CASE \E fr \in Frames : /\ fr.op \in {"sys", "kbdhalt", "kbdlaunch"}
                              /\ cpu' = Enter(Entry, fr)
  <2>1. PICK fr \in Frames : /\ fr.op \in {"sys", "kbdhalt", "kbdlaunch"}
                             /\ cpu' = Enter(Entry, fr)
    BY <1>3
  <2>2. Calm(cpu.todo) /\ cpu.todo \in Seq(Frames)
    BY SettledCalm, PointFacts DEF TypeOK
  <2>3. /\ Op' = fr.op
        /\ Tail(cpu'.todo) = cpu.todo
        /\ cpu'.proc = cpu.proc
    BY <2>1, <2>2, AtTop DEF Enter
  <2>4. FrameKept'
    BY <2>1, <2>2, <2>3, SameProcess
  <2>. QED
    BY <1>1, <2>4
<1>. QED
  BY <1>2, <1>3

\* Every step keeps the invariant, with the windows closed and no execute in
\* the background.
LEMMA NextKeeps ==
  ASSUME Hazards \cap (Windows \cup {"bgexec"}) = {},
         TypeOK, ParentsKept, TerminalsKept, ContextsKept, FrameKept,
         Next, ~wild'
  PROVE  ParentsKept' /\ TerminalsKept' /\ ContextsKept' /\ FrameKept'
<1>1. /\ cpu \in Points /\ tss_esp0 \in Places /\ pcb \in [Pids -> PCBs]
      /\ 0 \in Terms /\ None \notin Pids
  BY ConstantsAssumption DEF TypeOK, Terms, None, Pids
<1>2. SameJobs(Push(Entry)) /\ ContextsIn(Push(Entry))
  BY <1>1, PushKeeps
<1>3. SameJobs(pcb) /\ ContextsIn(pcb)
  BY <1>1 DEF SameJobs, ContextsIn, ContextsKept
<1>4. \A t \in Terms : \A o \in {"sys", "kbdhalt", "kbdlaunch"} :
        Frame(o, t) \in Frames /\ Frame(o, t).op = o
  BY KernelFrame DEF Ops, Frame
<1>5. UserMode => /\ Op = "user" /\ cpu.todo = << >> /\ Current(cpu.proc)
                  /\ Here(Entry) \in SavedPoints
                  /\ ContextOf(cpu.proc, Here(Entry))
  <2>1. Here(Entry) \in SavedPoints
    BY <1>1, <1>4, EnterPoint
  <2>. QED
    BY <2>1, CalmNothing DEF UserMode, Op, FrameKept, Here, ContextOf
<1>6. Op # "user" => /\ [cpu EXCEPT !.todo = Tail(@)] \in SavedPoints
                     /\ Calm(Tail(cpu.todo))
                     /\ ContextOf(cpu.proc, [cpu EXCEPT !.todo = Tail(@)])
  BY <1>1, BelowPoint DEF FrameKept, ContextOf, Points
<1>7. CASE Execute
  <2>1. running_term = curr_term
    BY <1>7 DEF Execute
  <2>2. term[curr_term].running_pid = cpu.proc
    BY <1>5, <1>7, <2>1 DEF Execute, Current
  <2>. QED
    BY <1>2, <1>5, <1>7, <2>2, StartProcessKeeps DEF Execute
<1>8. CASE ExecuteFails
  BY <1>5, <1>8, SameTables DEF ExecuteFails
<1>9. CASE SysCall
  BY <1>1, <1>4, <1>5, <1>9, SameTables DEF SysCall
<1>10. CASE SysReturn
  <2>1. Op = "sys" /\ cpu' = Return
        /\ UNCHANGED << pid_array, pcb, term, cur_pid, running_term, page >>
    BY <1>10 DEF SysReturn
  <2>2. FrameKept'
    BY <1>1, <2>1, AtReturn, SameProcess
  <2>. QED
    BY <1>1, <1>3, <2>1, <2>2, JobsStay DEF SameJobs, ContextsIn, TypeOK
<1>11. CASE VidMap
  BY <1>5, <1>11, SameTables DEF VidMap
<1>12. CASE Halt
  <2> DEFINE fr == HaltFrame(cur_pid, pcb[cur_pid].term_id)
  <2>1. /\ cur_pid \in Pids /\ cur_pid = term[running_term].running_pid
        /\ running_term \in Terms
    BY <1>5, <1>12 DEF Halt, Current, TypeOK
  <2>2. pcb[cur_pid].term_id = running_term
    BY <1>1, <2>1 DEF TerminalsKept
  <2>3. fr \in Frames /\ fr.op = "free" /\ fr.victim = cur_pid /\ fr.term = running_term
    BY <2>1, <2>2 DEF HaltFrame, Frames, Ops
  <2>. HIDE DEF fr
  <2>4. /\ cpu' = Enter(Entry, fr)
        /\ pcb' = Push(Entry)
        /\ UNCHANGED << pid_array, term, cur_pid, running_term, page >>
    BY <1>12 DEF Halt, fr
  <2>5. Op' = "free" /\ Head(cpu'.todo) = fr /\ Tail(cpu'.todo) = << >>
    <3>1. cpu.todo = << >> /\ cpu.todo \in Seq(Frames)
      BY <1>1, <1>5, <1>12, PointFacts DEF Halt
    <3>2. cpu' = [proc |-> cpu.proc, stack |-> Entry.stack, pos |-> Entry.pos,
                  todo |-> << fr >> \o cpu.todo]
      BY <2>4 DEF Enter
    <3>3. Op' = fr.op /\ Head(cpu'.todo) = fr /\ Tail(cpu'.todo) = cpu.todo
      BY <2>3, <3>1, <3>2, AtTop
    <3>. QED
      BY <2>3, <3>1, <3>3
  <2>6. FrameKept'
    BY <2>1, <2>3, <2>4, <2>5, CalmNothing DEF FrameKept, Calm
  <2>. QED
    BY <1>2, <1>5, <1>12, <2>4, <2>6, JobsStay DEF Halt, TypeOK
<1>13. CASE Halt1
  BY <1>2, <1>5, <1>13, CalmNothing, HaltDisplayedKeeps DEF Halt1
<1>14. CASE HaltFree
  BY <1>14, HaltFreeKeeps
<1>15. CASE HandBack
  BY <1>15, HandBackKeeps
<1>16. CASE RestoreEsp0
  BY <1>16, RestoreEsp0Keeps
<1>17. CASE LeaveExecute
  BY <1>17, LeaveExecuteKeeps
<1>18. CASE StartShell
  <2>1. Op \in {"shell", "launched"}
    BY <1>18 DEF StartShell
  <2>2. CASE Free # {}
    <3> DEFINE caller == IF Op = "shell" THEN Dead ELSE [cpu EXCEPT !.todo = Tail(@)]
    <3>1. caller \in SavedPoints
      BY <1>6, <2>1, DeadPoint
    <3>2. term[curr_term].running_pid # None =>
            ContextOf(term[curr_term].running_pid, caller)
      BY <2>1 DEF FrameKept, ContextOf
    <3>3. StartProcess(pcb, term, caller)
      BY <1>18, <2>2 DEF StartShell
    <3>. HIDE DEF caller
    <3>. QED
      BY <1>3, <2>1, <2>2, <3>1, <3>2, <3>3, StartProcessKeeps
  <2>3. CASE Free = {}
    <3>1. /\ Op = "launched" /\ cpu' = Return
          /\ UNCHANGED << pid_array, pcb, term, cur_pid, running_term, page >>
      BY <1>18, <2>1, <2>3 DEF StartShell
    <3>2. FrameKept'
      BY <1>1, <3>1, AtReturn, SameProcess
    <3>. QED
      BY <1>1, <1>3, <3>1, <3>2, JobsStay DEF SameJobs, ContextsIn, TypeOK
  <2>. QED
    BY <2>2, <2>3
<1>19. CASE CtrlC \/ \E t \in Terms : AltF(t)
  <2>1. PICK fr \in Frames : fr.op \in {"kbdhalt", "kbdlaunch"} /\ Key(fr)
    BY <1>1, <1>4, <1>19 DEF CtrlC, AltF
  <2>2. Op \in {"user", "sys"}
    BY <2>1, WindowsClosed DEF Key
  <2>. QED
    BY <2>1, <2>2, SameTables DEF Key
<1>20. CASE HaltFromKeyboard
  <2> DEFINE point == [cpu EXCEPT !.todo = Tail(@)]
  <2>1. Op = "kbdhalt"
    BY <1>20 DEF HaltFromKeyboard
  <2>2. Current(cpu.proc)
    BY <2>1 DEF FrameKept
  <2>3. /\ HaltDisplayed(pcb, point, Tail(cpu.todo))
        /\ UNCHANGED << pid_array, cur_pid, curr_term, page >>
    BY <1>20 DEF HaltFromKeyboard
  <2>4. point \in SavedPoints /\ ContextOf(cpu.proc, point) /\ Calm(Tail(cpu.todo))
    BY <1>6, <2>1
  <2>. HIDE DEF point
  <2>. QED
    BY <1>3, <2>1, <2>2, <2>3, <2>4, HaltDisplayedKeeps
<1>21. CASE BeginSwitch
  <2> DEFINE t == Head(cpu.todo).term
  <2>1. /\ Op = "kbdlaunch"
        /\ UNCHANGED << pid_array, pcb, term, cur_pid, running_term, page >>
    BY <1>21 DEF BeginSwitch
  <2>2. Current(cpu.proc) /\ Calm(Tail(cpu.todo))
    BY <2>1 DEF FrameKept
  <2>3. ParentsKept' /\ TerminalsKept' /\ ContextsKept'
    BY <1>1, <1>3, <2>1, JobsStay DEF SameJobs, ContextsIn, TypeOK
  <2>4. CASE cpu' = Return
    <3>1. FrameKept'
      BY <1>1, <2>1, <2>4, AtReturn, SameProcess
    <3>. QED
      BY <2>3, <3>1
  <2>5. CASE cpu' = Goto("oldterm")
    <3>1. Op' = "oldterm" /\ cpu'.proc = cpu.proc /\ Tail(cpu'.todo) = Tail(cpu.todo)
      BY <1>1, <2>1, <2>5, AtGoto DEF Ops
    <3>2. FrameKept'
      BY <2>1, <2>2, <3>1, SameProcess
    <3>. QED
      BY <2>3, <3>2
  <2>6. CASE cpu' = Goto("newterm") /\ term[t].running_pid = None
    <3>1. /\ Op' = "newterm" /\ cpu'.proc = cpu.proc
          /\ Tail(cpu'.todo) = Tail(cpu.todo) /\ Head(cpu'.todo).term = t
      BY <1>1, <2>1, <2>6, AtGoto DEF Ops
    <3>2. FrameKept'
      BY <2>1, <2>2, <2>6, <3>1 DEF FrameKept, Current, Calm
    <3>. QED
      BY <2>3, <3>2
  <2>. QED
    BY <1>21, <2>4, <2>5, <2>6 DEF BeginSwitch
<1>22. CASE ToNewTerminal
  <2> DEFINE running == term[running_term].running_pid
             point == [cpu EXCEPT !.todo = Tail(@)]
             fr == Head(cpu.todo)
  <2>1. Op = "newterm" /\ Current(cpu.proc) /\ Calm(Tail(cpu.todo))
        /\ term[fr.term].running_pid = None
    BY <1>22 DEF ToNewTerminal, FrameKept
  <2>2. running # None
    BY <1>22 DEF ToNewTerminal
  <2>3. running \in Pids /\ running = cpu.proc
    BY <2>1, <2>2 DEF Current, TypeOK
  <2>4. /\ curr_term' = fr.term
        /\ pcb' = Saved(pcb, running, point)
        /\ cpu' = Goto("launched")
        /\ UNCHANGED << pid_array, term, cur_pid, running_term, page >>
    BY <1>22, <2>2 DEF ToNewTerminal
  <2>5. point \in SavedPoints /\ ContextOf(running, point)
    BY <1>6, <2>1, <2>3
  <2>6. SameJobs(pcb') /\ ContextsIn(pcb')
    BY <1>3, <2>3, <2>4, <2>5, SavedKeeps
  <2>7. Op' = "launched" /\ cpu'.proc = cpu.proc /\ Tail(cpu'.todo) = Tail(cpu.todo)
    BY <1>1, <2>1, <2>4, AtGoto DEF Ops
  <2>8. FrameKept'
    BY <2>1, <2>4, <2>7 DEF FrameKept, Current, Calm
  <2>. QED
    BY <1>1, <2>1, <2>4, <2>6, <2>8, JobsStay DEF TypeOK
<1>23. CASE ToOldTerminal
  <2>1. Op = "oldterm" /\ cpu' = Return
        /\ UNCHANGED << pid_array, pcb, term, cur_pid, running_term, page >>
    BY <1>23 DEF ToOldTerminal
  <2>2. FrameKept'
    BY <1>1, <2>1, AtReturn, SameProcess
  <2>. QED
    BY <1>1, <1>3, <2>1, <2>2, JobsStay DEF SameJobs, ContextsIn, TypeOK
<1>24. CASE PIT
  BY <1>24, WindowsClosed, PITKeeps DEF PIT
<1>. QED
  BY <1>7, <1>8, <1>9, <1>10, <1>11, <1>12, <1>13, <1>14, <1>15, <1>16, <1>17,
     <1>18, <1>19, <1>20, <1>21, <1>22, <1>23, <1>24
     DEF Next, Programs, KernelSteps, HaltSteps, LaunchSteps, Keyboard

\* A step that changes nothing keeps the invariant.
LEMMA StutterKeeps ==
  ASSUME RunningContextInv, UNCHANGED vars
  PROVE  RunningContextInv'
BY DEF vars, RunningContextInv, ParentsKept, TerminalsKept, ContextsKept,
       FrameKept, ContextOf, Current, Calm, Op, UserMode

(***************************************************************************)
(* With interrupts off in the windows of the switch and halt code, and no  *)
(* background process calling execute, the tables of the kernel keep the   *)
(* shape RunningContextInv says they have.                                 *)
(***************************************************************************)
THEOREM ContextInvariant ==
  ASSUME Hazards \cap (Windows \cup {"bgexec"}) = {}
  PROVE  Spec => []RunningContextInv
<1>1. Init => RunningContextInv
  BY InitKeeps DEF RunningContextInv
<1>2. TypeOK /\ RunningContextInv /\ [Next]_vars => RunningContextInv'
  <2>1. SUFFICES ASSUME TypeOK, RunningContextInv, [Next]_vars
                 PROVE  RunningContextInv'
    OBVIOUS
  <2>2. CASE Next
    <3>1. SUFFICES ASSUME ~wild'
                   PROVE  ParentsKept' /\ TerminalsKept' /\ ContextsKept' /\ FrameKept'
      BY DEF RunningContextInv
    <3>2. ~wild
      BY <2>2 DEF Next
    <3>. QED
      BY <2>1, <2>2, <3>1, <3>2, NextKeeps DEF RunningContextInv
  <2>3. CASE UNCHANGED vars
    BY <2>1, <2>3, StutterKeeps
  <2>. QED
    BY <2>1, <2>2, <2>3
<1>. QED
  BY <1>1, <1>2, TypeCorrect, PTL DEF Spec

(***************************************************************************)
(* The process on the processor, cur_pid, the mapped page and the terminal *)
(* table agree whenever a program runs or waits in a system call: schedule, *)
(* execute_func, halt_func and launch_term, which set the four separately, *)
(* never leave one behind.                                                 *)
(***************************************************************************)
THEOREM RunningContextHolds ==
  ASSUME Hazards \cap (Windows \cup {"bgexec"}) = {}
  PROVE  Spec => []RunningContext
<1>1. RunningContextInv => RunningContext
  BY DEF RunningContextInv, RunningContext, FrameKept, Settled, Current
<1>. QED
  BY <1>1, ContextInvariant, PTL

-----------------------------------------------------------------------------
(* StacksInv: what the timer and the halts will resume is intact.          *)

\* The remainder of a number on either side of the modulus.
LEMMA RoundTrip ==
  ASSUME NEW n \in Nat \ {0}, NEW x \in 0 .. n - 1
  PROVE  x % n = x /\ (x + n) % n = x
OBVIOUS

\* The round robin reaches every other terminal before it is back.
LEMMA AfterReaches ==
  ASSUME running_term \in Terms
  PROVE  /\ \A t \in Terms \ {running_term} : \E j \in 1 .. NumTerms - 1 : After(j) = t
         /\ \A j \in 1 .. NumTerms - 1 : After(j) # running_term
         /\ After(NumTerms) = running_term
<1>1. NumTerms \in Nat \ {0} /\ running_term \in 0 .. NumTerms - 1
  BY ConstantsAssumption DEF Terms
<1>2. \A x \in 0 .. NumTerms - 1 : x % NumTerms = x /\ (x + NumTerms) % NumTerms = x
  BY <1>1, RoundTrip
<1>3. ASSUME NEW t \in Terms \ {running_term}
      PROVE  \E j \in 1 .. NumTerms - 1 : After(j) = t
  <2>1. t \in 0 .. NumTerms - 1
    BY DEF Terms
  <2>2. CASE t > running_term
    <3>1. t - running_term \in 1 .. NumTerms - 1
      BY <1>1, <2>1, <2>2
    <3>2. running_term + (t - running_term) = t
      BY <1>1, <2>1
    <3>3. After(t - running_term) = t
      BY <1>2, <2>1, <3>2 DEF After
    <3>. QED
      BY <3>1, <3>3
  <2>3. CASE t < running_term
    <3>1. t + NumTerms - running_term \in 1 .. NumTerms - 1
      BY <1>1, <2>1, <2>3
    <3>2. running_term + (t + NumTerms - running_term) = t + NumTerms
      BY <1>1, <2>1
    <3>3. After(t + NumTerms - running_term) = t
      BY <1>2, <2>1, <3>2 DEF After
    <3>. QED
      BY <3>1, <3>3
  <2>. QED
    BY <1>1, <2>1, <2>2, <2>3
<1>4. ASSUME NEW j \in 1 .. NumTerms - 1
      PROVE  After(j) # running_term
  <2>1. CASE running_term + j < NumTerms
    <3>1. running_term + j \in 0 .. NumTerms - 1
      BY <1>1, <2>1
    <3>2. After(j) = running_term + j
      BY <1>2, <3>1 DEF After
    <3>. QED
      BY <1>1, <3>2
  <2>2. CASE running_term + j >= NumTerms
    <3>1. running_term + j - NumTerms \in 0 .. NumTerms - 1
      BY <1>1, <2>2
    <3>2. (running_term + j - NumTerms) + NumTerms = running_term + j
      BY <1>1
    <3>3. After(j) = running_term + j - NumTerms
      BY <1>2, <3>1, <3>2 DEF After
    <3>. QED
      BY <1>1, <3>3
  <2>. QED
    BY <1>1, <2>1, <2>2
<1>5. After(NumTerms) = running_term
  BY <1>1, <1>2 DEF After
<1>. QED
  BY <1>3, <1>4, <1>5

\* get_next_process chooses a terminal with a process, and leaves the running
\* one if there is another.
LEMMA NextTermFound ==
  ASSUME running_term \in Terms
  PROVE  /\ next_term = running_term \/ term[next_term].running_pid # None
         /\ (\E t \in Terms \ {running_term} : term[t].running_pid # None)
              => next_term # running_term
<1> DEFINE Best(i) == /\ \/ term[After(i)].running_pid # None
                         \/ i = NumTerms
                      /\ \A j \in 1 .. i - 1 : term[After(j)].running_pid = None
<1>1. PICK k \in 1 .. NumTerms : next_term = After(k) /\ Best(k)
  BY NextTermChosen
<1>2. k = NumTerms \/ k \in 1 .. NumTerms - 1
  BY <1>1, ConstantsAssumption
<1>3. ASSUME NEW t \in Terms \ {running_term}, term[t].running_pid # None
      PROVE  next_term # running_term
  <2>1. PICK j \in 1 .. NumTerms - 1 : After(j) = t
    BY AfterReaches
  <2>2. k # NumTerms
    BY <1>1, <1>3, <2>1
  <2>. QED
    BY <1>1, <1>2, <2>2, AfterReaches
<1>. QED
  BY <1>1, <1>2, <1>3, AfterReaches

(***************************************************************************)
(* pcbs is the PCB table as a step leaves it: the contexts that wait are   *)
(* as whole in it as in pcb.                                               *)
(***************************************************************************)
WaitingIn(pcbs) ==
  /\ \A t \in Terms \ {running_term} :
       LET p == term[t].running_pid
       IN p # None => OnOwnStack(p, pcbs[p].curr_esp) /\ term[t].esp0.stack = p
  /\ \A p \in Pids : pid_array[p] /\ pcb[p].parent # None =>
       OnOwnStack(pcb[p].parent, pcbs[p].esp)

\* What a program or a handler that has stopped none knows of its process.
LEMMA OwnProcess ==
  ASSUME TypeOK, TerminalsKept, FrameKept,
         Op \notin {"free", "shell", "handback", "esp0", "leave"}
  PROVE  /\ cpu.proc = cur_pid /\ cpu.proc = term[running_term].running_pid
         /\ cpu.proc \in Pids /\ cpu.proc # None
         /\ pid_array[cpu.proc] /\ pcb[cpu.proc].term_id = running_term
<1>1. cpu.proc = cur_pid /\ cpu.proc = term[running_term].running_pid
  BY DEF FrameKept, Current
<1>2. cur_pid \in Pids /\ None \notin Pids /\ running_term \in Terms
  BY DEF TypeOK, None, Pids
<1>. QED
  BY <1>1, <1>2 DEF TerminalsKept

\* A push on the stack of the running process spares every context that waits.
LEMMA PushSpares ==
  ASSUME TypeOK, ParentsKept, TerminalsKept, FrameKept,
         Op \in {"user", "sys"}, WaitingKept, NEW e, e.stack = cur_pid
  PROVE  WaitingIn(Push(e))
<1>1. /\ cur_pid \in Pids /\ cur_pid = term[running_term].running_pid
      /\ pcb[cur_pid].term_id = running_term /\ running_term \in Terms
      /\ None \notin Pids /\ pcb \in [Pids -> PCBs]
  BY OwnProcess DEF TypeOK, None, Pids
<1>2. ASSUME NEW p \in Pids
      PROVE  /\ pcb[p].curr_esp.stack # cur_pid => Push(e)[p].curr_esp = pcb[p].curr_esp
             /\ pcb[p].esp.stack # cur_pid => Push(e)[p].esp = pcb[p].esp
  BY <1>1 DEF Push, Overwritten, PCBs
<1>3. ASSUME NEW t \in Terms \ {running_term}, term[t].running_pid # None
      PROVE  /\ OnOwnStack(term[t].running_pid, Push(e)[term[t].running_pid].curr_esp)
             /\ term[t].esp0.stack = term[t].running_pid
  <2>1. /\ term[t].running_pid \in Pids
        /\ OnOwnStack(term[t].running_pid, pcb[term[t].running_pid].curr_esp)
        /\ term[t].esp0.stack = term[t].running_pid
    BY <1>3 DEF TypeOK, WaitingKept
  <2>2. term[t].running_pid # cur_pid
    BY <1>1, <1>3 DEF TerminalsKept
  <2>. QED
    BY <1>2, <2>1, <2>2 DEF OnOwnStack
<1>4. ASSUME NEW p \in Pids, pid_array[p], pcb[p].parent # None
      PROVE  OnOwnStack(pcb[p].parent, Push(e)[p].esp)
  <2>1. OnOwnStack(pcb[p].parent, pcb[p].esp) /\ pcb[p].parent # cur_pid
    BY <1>1, <1>4 DEF WaitingKept, ParentsKept
  <2>. QED
    BY <1>2, <2>1 DEF OnOwnStack
<1>. QED
  BY <1>3, <1>4 DEF WaitingIn

\* Saving a context of the running process spares the others.
LEMMA SavedSpares ==
  ASSUME TypeOK, TerminalsKept, FrameKept,
         Op \notin {"free", "shell", "handback", "esp0", "leave"},
         NEW pcbs \in [Pids -> PCBs], WaitingIn(pcbs), NEW pt
  PROVE  WaitingIn(Saved(pcbs, cpu.proc, pt))
<1>1. cpu.proc \in Pids /\ pcb[cpu.proc].term_id = running_term /\ running_term \in Terms
  BY OwnProcess DEF TypeOK
<1>2. ASSUME NEW p \in Pids
      PROVE  /\ Saved(pcbs, cpu.proc, pt)[p].esp = pcbs[p].esp
             /\ p # cpu.proc =>
                  Saved(pcbs, cpu.proc, pt)[p].curr_esp = pcbs[p].curr_esp
  BY <1>1 DEF Saved, PCBs
<1>3. ASSUME NEW t \in Terms \ {running_term}, term[t].running_pid # None
      PROVE  term[t].running_pid \in Pids /\ term[t].running_pid # cpu.proc
  BY <1>1, <1>3 DEF TypeOK, TerminalsKept
<1>. QED
  BY <1>2, <1>3 DEF WaitingIn

\* Terminals, parents and pids stay as they are: so does what waits.
LEMMA WaitingStays ==
  ASSUME TypeOK, pcb' \in [Pids -> PCBs], WaitingIn(pcb'),
         UNCHANGED << pid_array, running_term >>,
         \A t \in Terms \ {running_term} : term'[t] = term[t],
         \A p \in Pids : pcb'[p].parent = pcb[p].parent,
         Op' \notin {"handback", "esp0", "leave"}
  PROVE  WaitingKept'
BY DEF WaitingIn, WaitingKept, OnOwnStack

\* What execute_func leaves.
LEMMA StartProcessStacks ==
  ASSUME TypeOK, ParentsKept, TerminalsKept, Op # "handback",
         NEW pcbs, SameJobs(pcbs), WaitingIn(pcbs), NEW caller,
         LET q == term[curr_term].running_pid
         IN q # None => OnOwnStack(q, caller),
         LET p == term[running_term].running_pid
         IN running_term # curr_term /\ p # None =>
              OnOwnStack(p, pcbs[p].curr_esp) /\ term[running_term].esp0.stack = p,
         term[0].running_pid # None \/ curr_term = 0,
         Free # {}, StartProcess(pcbs, term, caller)
  PROVE  ProcessorKept' /\ WaitingKept' /\ HandlerKept'
<1> DEFINE new == get_available_pid
           parent == get_parent_pcb(term)
           esp == IF parent = None THEN Dead ELSE caller
<1>1. new \in Pids /\ ~pid_array[new]
  BY AvailablePid DEF TypeOK, Free
<1>2. parent = term[curr_term].running_pid /\ parent \in Pids \cup {None}
  BY DEF get_parent_pcb, TypeOK
<1>3. parent # None => OnOwnStack(parent, esp)
  BY <1>2
<1>4. pcbs \in [Pids -> PCBs] /\ curr_term \in Terms /\ None \notin Pids
  BY DEF SameJobs, TypeOK, None, Pids
<1>. HIDE DEF new, parent
<1>5. /\ pid_array' = [pid_array EXCEPT ![new] = TRUE]
      /\ cur_pid' = new
      /\ pcb' = [pcbs EXCEPT ![new] = [@ EXCEPT !.parent = parent,
                                                !.term_id = curr_term,
                                                !.esp = esp]]
      /\ tss_esp0' = Base(new)
      /\ term' = [term EXCEPT ![curr_term] =
                   [running_pid |-> new, esp0 |-> Base(new)]]
      /\ running_term' = curr_term
      /\ cpu' = User(new)
      /\ UNCHANGED curr_term
  BY DEF StartProcess, new, parent
<1>. HIDE DEF esp
<1>6. ASSUME NEW p \in Pids
      PROVE  /\ pcb'[p].curr_esp = pcbs[p].curr_esp
             /\ pcb'[p].parent = IF p = new THEN parent ELSE pcb[p].parent
             /\ pcb'[p].esp = IF p = new THEN esp ELSE pcbs[p].esp
             /\ pid_array'[p] = IF p = new THEN TRUE ELSE pid_array[p]
  BY <1>1, <1>4, <1>5 DEF SameJobs, PCBs, TypeOK
<1>7. /\ \A t \in Terms \ {curr_term} : term'[t] = term[t]
      /\ term'[curr_term].running_pid = new
  BY <1>4, <1>5 DEF TypeOK
<1>8. Op' = "user"
  BY <1>5, AtUser
<1>9. ProcessorKept'
  BY <1>5, <1>8 DEF ProcessorKept, Base
<1>10. WaitingKept'
  <2>1. ASSUME NEW t \in Terms \ {curr_term}, term[t].running_pid # None
        PROVE  /\ OnOwnStack(term[t].running_pid, pcb'[term[t].running_pid].curr_esp)
               /\ term[t].esp0.stack = term[t].running_pid
    <3>1. term[t].running_pid \in Pids
      BY <2>1 DEF TypeOK
    <3>2. pcb'[term[t].running_pid].curr_esp = pcbs[term[t].running_pid].curr_esp
      BY <1>6, <3>1
    <3>3. CASE t = running_term
      BY <2>1, <3>2, <3>3
    <3>4. CASE t # running_term
      BY <2>1, <3>2, <3>4 DEF WaitingIn
    <3>. QED
      BY <3>3, <3>4
  <2>2. ASSUME NEW p \in Pids, pid_array'[p], pcb'[p].parent # None
        PROVE  OnOwnStack(pcb'[p].parent, pcb'[p].esp)
    BY <1>3, <1>6, <2>2 DEF WaitingIn
  <2>3. \A t \in Terms \ {curr_term} : term'[t].running_pid # None =>
          /\ OnOwnStack(term'[t].running_pid, pcb'[term'[t].running_pid].curr_esp)
          /\ term'[t].esp0.stack = term'[t].running_pid
    BY <1>7, <2>1
  <2>. QED
    BY <1>5, <1>8, <2>2, <2>3 DEF WaitingKept, OnOwnStack
<1>11. HandlerKept'
  <2>1. term'[0].running_pid # None
    BY <1>1, <1>4, <1>7, ConstantsAssumption DEF Terms
  <2>. QED
    BY <1>8, <2>1 DEF HandlerKept, Opening
<1>. QED
  BY <1>9, <1>10, <1>11

\* Where a resumed context runs.
LEMMA ResumeStack ==
  ASSUME NEW pt \in SavedPoints, cpu' = Resume(pt), Op' # "user"
  PROVE  cpu'.stack = pt.stack
<1>1. pt.todo # << >>
  BY AtUser DEF Resume
<1>. QED
  BY <1>1 DEF Resume, SavedPoints, Points

\* A handler that returns stays on its stack.
LEMMA ReturnStack ==
  ASSUME cpu \in Points, Op # "user", cpu' = Return, Op' # "user"
  PROVE  cpu'.stack = cpu.stack
<1> DEFINE pt == [cpu EXCEPT !.todo = Tail(@)]
<1>1. pt \in SavedPoints /\ cpu' = Resume(pt)
  BY BelowPoint DEF Return
<1>2. pt.stack = cpu.stack
  BY DEF Points
<1>. HIDE DEF pt
<1>. QED
  BY <1>1, <1>2, ResumeStack

\* A handler is entered on the stack of the process.
LEMMA EntryStack ==
  ASSUME TypeOK, Op \in {"user", "sys"}, ProcessorKept
  PROVE  /\ Entry.stack = cur_pid
         /\ Here(Entry).stack = cur_pid /\ Here(Entry).proc = cpu.proc
         /\ \A fr : Enter(Entry, fr).stack = cur_pid
<1>1. CASE UserMode
  <2>1. Op = "user"
    BY <1>1 DEF Op
  <2>. QED
    BY <1>1, <2>1 DEF Entry, ProcessorKept, Here, Enter, TypeOK, Places
<1>2. CASE ~UserMode
  <2>1. Op = "sys"
    <3>1. /\ cpu.todo # << >> /\ Op = Head(cpu.todo).op
      BY <1>2 DEF Op, UserMode
    <3>2. Head(cpu.todo) \in Frames
      BY <3>1, PointFacts, HeadTailProperties DEF TypeOK
    <3>. QED
      BY <3>1, <3>2 DEF Frames, Ops
  <2>. QED
    BY <1>2, <2>1 DEF Entry, ProcessorKept, Here, Enter
<1>. QED
  BY <1>1, <1>2

\* Traps and interrupts that leave the tables as they are: one frame deeper,
\* or back where they were.
LEMMA TrapStacks ==
  ASSUME TypeOK, ParentsKept, TerminalsKept, ContextsKept, FrameKept,
         ProcessorKept, WaitingKept, HandlerKept,
         Op \in {"user", "sys"}, pcb' = Push(Entry),
         UNCHANGED << pid_array, term, cur_pid, curr_term, running_term, tss_esp0 >>,
         \/ UNCHANGED cpu
         \/ \E fr \in Frames :
              /\ cpu' = Enter(Entry, fr)
              /\ fr.op \in {"sys", "kbdhalt", "kbdlaunch", "free"}
              /\ fr.op = "kbdhalt" => term[curr_term].running_pid # None
              /\ fr.op = "kbdlaunch" /\ fr.term # curr_term
                   /\ term[fr.term].running_pid = None =>
                   term[running_term].esp0 = tss_esp0
              /\ fr.op = "free" /\ pcb[fr.victim].parent = None =>
                   fr.victim \in Pids /\ running_term = curr_term
              /\ fr.op = "free" => fr.victim \in Pids
  PROVE  ProcessorKept' /\ WaitingKept' /\ HandlerKept'
<1>1. /\ pcb \in [Pids -> PCBs] /\ cpu \in Points
      /\ Push(Entry) \in [Pids -> PCBs] /\ WaitingIn(Push(Entry))
      /\ \A p \in Pids : Push(Entry)[p].parent = pcb[p].parent
  BY EntryStack, PushSpares, PushKeeps DEF TypeOK, SameJobs
<1>2. term[0].running_pid # None
  BY DEF HandlerKept
<1>3. CASE UNCHANGED cpu
  <2>1. Op' = Op /\ UNCHANGED cpu
    BY <1>3 DEF Op, UserMode
  <2>2. WaitingKept'
    BY <1>1, <2>1, WaitingStays
  <2>. QED
    BY <1>2, <2>1, <2>2 DEF ProcessorKept, HandlerKept, Opening
<1>4. ASSUME NEW fr \in Frames,
             /\ cpu' = Enter(Entry, fr)
             /\ fr.op \in {"sys", "kbdhalt", "kbdlaunch", "free"}
             /\ fr.op = "kbdhalt" => term[curr_term].running_pid # None
             /\ fr.op = "kbdlaunch" /\ fr.term # curr_term
                  /\ term[fr.term].running_pid = None =>
                  term[running_term].esp0 = tss_esp0
             /\ fr.op = "free" /\ pcb[fr.victim].parent = None =>
                  fr.victim \in Pids /\ running_term = curr_term
             /\ fr.op = "free" => fr.victim \in Pids
      PROVE  ProcessorKept' /\ WaitingKept' /\ HandlerKept'
  <2>1. Op' = fr.op /\ Head(cpu'.todo) = fr /\ cpu'.stack = cur_pid
    <3>1. cpu.todo \in Seq(Frames)
      BY <1>1, PointFacts
    <3>2. cpu' = [proc |-> cpu.proc, stack |-> Entry.stack, pos |-> Entry.pos,
                  todo |-> << fr >> \o cpu.todo]
      BY <1>4 DEF Enter
    <3>. QED
      BY <1>4, <3>1, <3>2, AtTop, EntryStack, ZenonT(60)
  <2>2. WaitingKept'
    BY <1>1, <1>4, <2>1, WaitingStays
  <2>3. tss_esp0.stack = cur_pid
    BY DEF ProcessorKept
  <2>4. ProcessorKept'
    BY <1>4, <2>1, <2>3 DEF ProcessorKept
  <2>5. HandlerKept'
    BY <1>1, <1>2, <1>4, <2>1 DEF HandlerKept, Opening
  <2>. QED
    BY <2>2, <2>4, <2>5
<1>. QED
  BY <1>3, <1>4

\* The beginning of halt(1).
LEMMA HaltDisplayedStacks ==
  ASSUME TypeOK, ParentsKept, TerminalsKept, FrameKept,
         Op \in {"user", "kbdhalt"}, ProcessorKept, HandlerKept,
         term[curr_term].running_pid # None,
         NEW pcbs, SameJobs(pcbs), WaitingIn(pcbs),
         NEW point \in SavedPoints, OnOwnStack(cpu.proc, point),
         NEW below \in Seq(Frames),
         HaltDisplayed(pcbs, point, below),
         UNCHANGED << pid_array, cur_pid, curr_term, tss_esp0 >>
  PROVE  ~wild' /\ ProcessorKept' /\ WaitingKept' /\ HandlerKept'
<1> DEFINE victim == term[curr_term].running_pid
           fr == HaltFrame(victim, curr_term)
<1>1. /\ cpu.proc \in Pids /\ cpu.proc # None /\ cpu.proc = cur_pid
      /\ cpu.proc = term[running_term].running_pid
      /\ victim \in Pids /\ curr_term \in Terms /\ running_term \in Terms
      /\ pcbs \in [Pids -> PCBs]
  BY OwnProcess DEF TypeOK, SameJobs
<1>2. /\ ~wild'
      /\ running_term' = curr_term
      /\ cpu' = [point EXCEPT !.todo = << fr >> \o below]
      /\ IF running_term = curr_term
         THEN pcb' = pcbs /\ term' = term
         ELSE /\ pcb' = Saved(pcbs, cpu.proc, point)
              /\ term' = [term EXCEPT ![running_term].esp0 = tss_esp0]
  BY <1>1 DEF HaltDisplayed
<1>3. /\ fr \in Frames /\ fr.op = "free" /\ fr.victim = victim
  BY <1>1 DEF HaltFrame, Frames, Ops
<1>4. Op' = "free" /\ Head(cpu'.todo) = fr
  <2>1. cpu' = [proc |-> point.proc, stack |-> point.stack, pos |-> point.pos,
                todo |-> << fr >> \o below]
    BY <1>2 DEF SavedPoints, Points
  <2>. HIDE DEF fr
  <2>. QED
    BY <1>3, <2>1, AtTop
<1>. HIDE DEF fr
<1>5. ProcessorKept'
  BY <1>4 DEF ProcessorKept
<1>6. HandlerKept'
  <2>1. term'[0].running_pid = term[0].running_pid
    <3>1. term' \in {term, [term EXCEPT ![running_term].esp0 = tss_esp0]}
      BY <1>2
    <3>2. 0 \in Terms
      BY ConstantsAssumption DEF Terms
    <3>. QED
      BY <3>1, <3>2 DEF TypeOK
  <2>. QED
    BY <1>2, <1>4, <2>1 DEF HandlerKept, Opening
<1>7. WaitingKept'
  <2>1. CASE running_term = curr_term
    <3>1. \A p \in Pids : pcb'[p].parent = pcb[p].parent
      BY <1>2, <2>1 DEF SameJobs
    <3>. QED
      BY <1>1, <1>2, <1>4, <2>1, <3>1, WaitingStays
  <2>2. CASE running_term # curr_term
    <3>1. pcb' = Saved(pcbs, cpu.proc, point)
          /\ term' = [term EXCEPT ![running_term].esp0 = tss_esp0]
      BY <1>2, <2>2
    <3>2. WaitingIn(pcb')
      BY <1>1, <3>1, SavedSpares
    <3>3. pcb'[cpu.proc].curr_esp = point /\ \A p \in Pids : pcb'[p].parent = pcb[p].parent
      BY <1>1, <3>1 DEF Saved, SameJobs, PCBs
    <3>4. /\ \A t \in Terms \ {running_term} : term'[t] = term[t]
          /\ term'[running_term].running_pid = cpu.proc
          /\ term'[running_term].esp0 = tss_esp0
      BY <1>1, <3>1 DEF TypeOK
    <3>5. tss_esp0.stack = cpu.proc
      BY <1>1 DEF ProcessorKept
    <3>6. ASSUME NEW t \in Terms \ {curr_term}, term'[t].running_pid # None
          PROVE  /\ OnOwnStack(term'[t].running_pid, pcb'[term'[t].running_pid].curr_esp)
                 /\ term'[t].esp0.stack = term'[t].running_pid
      <4>1. CASE t = running_term
        BY <3>3, <3>4, <3>5, <4>1
      <4>2. CASE t # running_term
        BY <3>2, <3>4, <3>6, <4>2 DEF WaitingIn
      <4>. QED
        BY <4>1, <4>2
    <3>7. ASSUME NEW p \in Pids, pid_array[p], pcb'[p].parent # None
          PROVE  OnOwnStack(pcb'[p].parent, pcb'[p].esp)
      BY <3>2, <3>3, <3>7 DEF WaitingIn
    <3>. QED
      BY <1>2, <1>4, <3>6, <3>7 DEF WaitingKept, OnOwnStack
  <2>. QED
    BY <2>1, <2>2
<1>. QED
  BY <1>2, <1>5, <1>6, <1>7

\* The steps of halt_func: the child's execute is found where it waits.
LEMMA HaltFreeStacks ==
  ASSUME TypeOK, ParentsKept, TerminalsKept, FrameKept,
         WaitingKept, HandlerKept, HaltFree
  PROVE  ProcessorKept' /\ WaitingKept' /\ HandlerKept'
<1> DEFINE fr == Head(cpu.todo)
           victim == fr.victim
           parent == pcb[victim].parent
<1>1. Op = "free" /\ cpu \in Points /\ fr \in Frames /\ Op # "user"
  BY KernelMode DEF HaltFree, TypeOK
<1>2. /\ victim \in Pids /\ fr.term = running_term /\ running_term \in Terms
      /\ victim = term[running_term].running_pid
      /\ parent \in Pids \cup {None} /\ None \notin Pids
  BY <1>1 DEF FrameKept, TypeOK, Frames, PCBs, None, Pids
<1>3. pid_array[victim]
  BY <1>1, <1>2 DEF TerminalsKept
<1>4. /\ \A p \in Pids : pid_array'[p] <=> pid_array[p] /\ p # victim
      /\ UNCHANGED << pcb, cur_pid, curr_term, running_term, tss_esp0 >>
  BY <1>2 DEF HaltFree, TypeOK
<1>5. \A t \in Terms \ {running_term} : term'[t] = term[t]
  BY <1>2 DEF HaltFree, TypeOK
<1>6. term[0].running_pid # None
  BY <1>1 DEF HandlerKept
<1>7. CASE parent = None
  <2>1. cpu' = Goto("shell") /\ term'[running_term].running_pid = None
    BY <1>2, <1>7 DEF HaltFree, TypeOK
  <2>2. Op' = "shell"
    BY <1>1, <2>1, AtGoto DEF Ops
  <2>3. running_term = curr_term
    BY <1>1, <1>7 DEF HandlerKept
  <2>4. victim \in Free'
    BY <1>2, <1>4 DEF Free
  <2>5. term'[0].running_pid = None => curr_term = 0
    BY <1>5, <1>6, <2>3, ConstantsAssumption DEF Terms
  <2>6. HandlerKept'
    BY <1>4, <2>1, <2>2, <2>3, <2>4, <2>5 DEF HandlerKept, Opening
  <2>7. WaitingKept'
    BY <1>4, <1>5, <2>2 DEF WaitingKept, OnOwnStack
  <2>. QED
    BY <2>2, <2>6, <2>7 DEF ProcessorKept
<1>8. CASE parent # None
  <2> DEFINE next == [fr EXCEPT !.op = "handback", !.parent = parent]
  <2>1. next \in Frames /\ next.op = "handback" /\ next.victim = victim
    BY <1>1, <1>2, <1>8 DEF Frames, Ops
  <2>2. cpu' = [proc |-> cpu.proc, stack |-> cpu.stack, pos |-> cpu.pos,
                todo |-> << next >> \o Tail(cpu.todo)] /\ term' = term
    BY <1>1, <1>8 DEF HaltFree, Points
  <2>3. Tail(cpu.todo) \in Seq(Frames)
    BY <1>1, KernelMode
  <2>. HIDE DEF next
  <2>4. Op' = "handback" /\ Head(cpu'.todo) = next
    BY <2>1, <2>2, <2>3, AtTop
  <2>5. HandlerKept'
    BY <1>6, <2>2, <2>4 DEF HandlerKept, Opening
  <2>6. WaitingKept'
    <3>1. ASSUME NEW p \in Pids, pcb[p].parent # None, pid_array'[p] \/ p = victim
          PROVE  OnOwnStack(pcb[p].parent, pcb[p].esp)
      BY <1>3, <1>4, <3>1 DEF WaitingKept
    <3>. QED
      BY <1>4, <1>5, <2>1, <2>4, <3>1 DEF WaitingKept, OnOwnStack
  <2>. QED
    BY <2>4, <2>5, <2>6 DEF ProcessorKept
<1>. QED
  BY <1>7, <1>8

\* A step within halt_func that touches no PCB and no other terminal.
LEMMA HaltingStays ==
  ASSUME TypeOK, FrameKept, WaitingKept, HandlerKept,
         Op \in {"handback", "esp0"}, NEW op \in {"esp0", "leave"},
         cpu' = Goto(op),
         UNCHANGED << pid_array, pcb, running_term, curr_term >>,
         \A t \in Terms \ {running_term} : term'[t] = term[t],
         term'[running_term].running_pid # None
  PROVE  Op' = op /\ WaitingKept' /\ HandlerKept'
<1>1. /\ cpu \in Points /\ Op # "user" /\ Head(cpu.todo) \in Frames
      /\ Head(cpu.todo).parent # None
  BY KernelMode DEF TypeOK, Frames
<1>2. Op' = op /\ Head(cpu'.todo).victim = Head(cpu.todo).victim
  BY <1>1, AtGoto DEF Ops
<1>3. WaitingKept'
  BY <1>2 DEF WaitingKept, OnOwnStack
<1>4. term'[0].running_pid # None
  BY ConstantsAssumption DEF HandlerKept, Terms
<1>. QED
  BY <1>2, <1>3, <1>4 DEF HandlerKept, Opening

\* The terminal and the page are given back to the parent.
LEMMA HandBackStacks ==
  ASSUME TypeOK, FrameKept, WaitingKept, HandlerKept, HandBack
  PROVE  ProcessorKept' /\ WaitingKept' /\ HandlerKept'
<1>1. /\ Op = "handback" /\ Head(cpu.todo).term = running_term
      /\ Head(cpu.todo).parent # None /\ running_term \in Terms
  BY KernelMode DEF HandBack, FrameKept, Frames, TypeOK
<1>2. /\ \A t \in Terms \ {running_term} : term'[t] = term[t]
      /\ term'[running_term].running_pid # None
      /\ cpu' = Goto("esp0")
      /\ UNCHANGED << pid_array, pcb, running_term, curr_term >>
  BY <1>1 DEF HandBack, TypeOK
<1>3. Op' = "esp0" /\ WaitingKept' /\ HandlerKept'
  BY <1>1, <1>2, HaltingStays
<1>. QED
  BY <1>3 DEF ProcessorKept

\* tss.esp0 goes back to the stack of the parent.
LEMMA RestoreEsp0Stacks ==
  ASSUME TypeOK, FrameKept, WaitingKept, HandlerKept, RestoreEsp0
  PROVE  ProcessorKept' /\ WaitingKept' /\ HandlerKept'
<1> DEFINE fr == Head(cpu.todo)
<1>1. /\ Op = "esp0" /\ fr.parent # None /\ running_term \in Terms
      /\ fr.victim \in Pids /\ fr.parent = pcb[fr.victim].parent
      /\ fr.parent = term[running_term].running_pid
  BY KernelMode DEF RestoreEsp0, FrameKept, Frames, TypeOK
<1>2. /\ cpu' = Goto("leave")
      /\ UNCHANGED << pid_array, pcb, running_term, curr_term, term >>
      /\ tss_esp0'.stack = pcb[fr.victim].esp.stack
      /\ cur_pid' = fr.parent
  BY DEF RestoreEsp0
<1>3. Op' = "leave" /\ WaitingKept' /\ HandlerKept'
  BY <1>1, <1>2, HaltingStays
<1>4. OnOwnStack(fr.parent, pcb[fr.victim].esp)
  BY <1>1 DEF WaitingKept
<1>. QED
  BY <1>2, <1>3, <1>4 DEF ProcessorKept, OnOwnStack

\* The parent's execute returns, on the parent's stack.
LEMMA LeaveExecuteStacks ==
  ASSUME TypeOK, ParentsKept, ContextsKept, FrameKept,
         ProcessorKept, WaitingKept, HandlerKept, LeaveExecute, ~wild
  PROVE  ~wild' /\ ProcessorKept' /\ WaitingKept' /\ HandlerKept'
<1> DEFINE fr == Head(cpu.todo)
           esp == pcb[fr.victim].esp
<1>1. /\ Op = "leave" /\ fr.parent \in Pids /\ fr.parent # None
      /\ running_term \in Terms
      /\ fr.victim \in Pids /\ fr.parent = pcb[fr.victim].parent
      /\ fr.parent = term[running_term].running_pid /\ fr.parent = cur_pid
      /\ pcb \in [Pids -> PCBs]
  BY KernelMode DEF LeaveExecute, FrameKept, Frames, TypeOK
<1>2. OnOwnStack(fr.parent, esp)
  BY <1>1 DEF WaitingKept
<1>3. esp # Dead
  BY <1>1, <1>2 DEF OnOwnStack, Dead
<1>4. /\ cpu' = Resume(esp)
      /\ pcb' = [pcb EXCEPT ![fr.victim].esp = Dead]
      /\ UNCHANGED << pid_array, term, cur_pid, curr_term, running_term, tss_esp0,
                      wild >>
  BY <1>3 DEF LeaveExecute
<1>5. esp \in SavedPoints /\ Calm(esp.todo)
  BY <1>1, <1>3 DEF PCBs, ContextsKept, ContextOf
<1>. HIDE DEF esp
<1>6. Op' \in {"user", "sys"} /\ (Op' # "user" => cpu'.stack = cur_pid)
  BY <1>1, <1>2, <1>4, <1>5, AtResume, ResumeStack DEF OnOwnStack
<1>7. ProcessorKept'
  <2>1. tss_esp0.stack = cur_pid
    BY <1>1 DEF ProcessorKept
  <2>. QED
    BY <1>4, <1>6, <2>1 DEF ProcessorKept
<1>8. WaitingKept'
  <2>1. ~pid_array[fr.victim]
    BY <1>1 DEF ParentsKept
  <2>2. \A p \in Pids : /\ pcb'[p].parent = pcb[p].parent
                        /\ pcb'[p].curr_esp = pcb[p].curr_esp
                        /\ p # fr.victim => pcb'[p].esp = pcb[p].esp
    BY <1>1, <1>4 DEF PCBs
  <2>3. pcb' \in [Pids -> PCBs]
    BY <1>1, <1>4, DeadPoint DEF PCBs
  <2>4. WaitingIn(pcb')
    <3>1. ASSUME NEW t \in Terms \ {running_term}, term[t].running_pid # None
          PROVE  /\ term[t].running_pid \in Pids
                 /\ OnOwnStack(term[t].running_pid, pcb[term[t].running_pid].curr_esp)
                 /\ term[t].esp0.stack = term[t].running_pid
      BY <3>1 DEF WaitingKept, TypeOK
    <3>. QED
      BY <2>1, <2>2, <3>1 DEF WaitingIn, WaitingKept
  <2>. QED
    BY <1>4, <1>6, <2>2, <2>3, <2>4, WaitingStays
<1>9. HandlerKept'
  BY <1>1, <1>4, <1>6 DEF HandlerKept, Opening
<1>. QED
  BY <1>4, <1>7, <1>8, <1>9

\* schedule: both the context saved and the one resumed are on the stacks of
\* their own processes, and so is the esp0 that goes with them.
LEMMA PITStacks ==
  ASSUME TypeOK, ParentsKept, TerminalsKept, ContextsKept, FrameKept,
         ProcessorKept, WaitingKept, HandlerKept,
         Op \in {"user", "sys"}, PIT, ~wild
  PROVE  ~wild' /\ ProcessorKept' /\ WaitingKept' /\ HandlerKept'
<1> DEFINE old     == term[running_term].running_pid
           process == term[next_term].running_pid
           saved   == Saved(Push(Entry), old, Here(Entry))
           point   == saved[process].curr_esp
<1>1. /\ old = cpu.proc /\ old = cur_pid /\ old \in Pids /\ old # None
      /\ pcb[old].term_id = running_term /\ running_term \in Terms
      /\ term[0].running_pid # None /\ 0 \in Terms
  BY OwnProcess, ConstantsAssumption DEF TypeOK, HandlerKept, Terms
<1>2. /\ SameJobs(Push(Entry)) /\ ContextsIn(Push(Entry)) /\ WaitingIn(Push(Entry))
      /\ Push(Entry) \in [Pids -> PCBs]
  BY EntryStack, PushSpares, PushKeeps DEF TypeOK, SameJobs
<1>3. CASE ~Schedules
  <2>1. pcb' = Push(Entry) /\ ~wild'
        /\ UNCHANGED << term, running_term, curr_term, cur_pid, tss_esp0, cpu, pid_array >>
    BY <1>3 DEF PIT
  <2>. QED
    BY <2>1, TrapStacks
<1>4. CASE Schedules
  <2>1. next_term \in Terms /\ next_term # running_term /\ process # None
    <3>1. \E t \in Terms \ {running_term} : term[t].running_pid # None
      BY <1>1, <1>4 DEF Schedules
    <3>. QED
      BY <1>1, <3>1, NextTerm, NextTermFound
  <2>2. process \in Pids /\ process # old
    BY <1>1, <2>1 DEF TypeOK, TerminalsKept
  <2>3. /\ saved \in [Pids -> PCBs] /\ WaitingIn(saved)
        /\ saved[old].curr_esp = Here(Entry)
        /\ \A p \in Pids : saved[p].parent = pcb[p].parent
    <3>1. Here(Entry) \in SavedPoints
      <4>1. Frame("sys", 0) \in Frames
        BY <1>1, KernelFrame DEF Ops
      <4>. QED
        BY <4>1, EnterPoint DEF TypeOK
    <3>2. saved \in [Pids -> PCBs]
      BY <1>1, <1>2, <3>1, SavedPCBs
    <3>. QED
      BY <1>1, <1>2, <3>2, SavedSpares DEF Saved, SameJobs, PCBs
  <2>4. OnOwnStack(process, point) /\ term[next_term].esp0.stack = process
    BY <2>1, <2>3 DEF WaitingIn
  <2>5. point # Dead
    BY <2>1, <2>4 DEF OnOwnStack, Dead
  <2>. HIDE DEF saved, point, process, old
  <2>6. /\ pcb' = [saved EXCEPT ![process].curr_esp = Dead]
        /\ term' = [term EXCEPT ![running_term].esp0 = tss_esp0]
        /\ running_term' = next_term
        /\ cur_pid' = process
        /\ tss_esp0' = term[next_term].esp0
        /\ cpu' = Resume(point)
        /\ ~wild'
        /\ UNCHANGED << pid_array, curr_term >>
    BY <1>1, <1>4, <2>1, <2>5 DEF PIT, Schedule, saved, point, process, old
  <2>7. /\ term'[running_term].running_pid = old
        /\ term'[running_term].esp0 = tss_esp0
        /\ \A t \in Terms \ {running_term} : term'[t] = term[t]
        /\ \A t \in Terms : term'[t].running_pid = term[t].running_pid
    BY <1>1, <2>6 DEF TypeOK, old
  <2>8. \A p \in Pids : /\ p # process => pcb'[p].curr_esp = saved[p].curr_esp
                        /\ pcb'[p].parent = pcb[p].parent
                        /\ pcb'[p].esp = saved[p].esp
    BY <2>2, <2>3, <2>6 DEF PCBs
  <2>9. Op' \in {"user", "sys"} /\ (Op' # "user" => cpu'.stack = process)
    <3>1. point \in SavedPoints
      BY <2>2, <2>3 DEF point, PCBs
    <3>2. Calm(point.todo)
      <4>1. point = Push(Entry)[process].curr_esp
        BY <1>1, <1>2, <2>2 DEF point, saved, Saved
      <4>. QED
        BY <1>2, <2>2, <2>5, <4>1 DEF ContextsIn, ContextOf
    <3>. QED
      BY <2>4, <2>6, <3>1, <3>2, AtResume, ResumeStack DEF OnOwnStack
  <2>10. ProcessorKept'
    BY <2>4, <2>6, <2>9 DEF ProcessorKept
  <2>11. WaitingKept'
    <3>1. ASSUME NEW t \in Terms \ {next_term}, term[t].running_pid # None
          PROVE  /\ OnOwnStack(term[t].running_pid, pcb'[term[t].running_pid].curr_esp)
                 /\ term'[t].esp0.stack = term[t].running_pid
      <4>1. CASE t = running_term
        <5>1. OnOwnStack(old, Here(Entry)) /\ tss_esp0.stack = old
          BY <1>1, EntryStack DEF OnOwnStack, ProcessorKept, old
        <5>. QED
          BY <1>1, <2>2, <2>3, <2>7, <2>8, <4>1, <5>1 DEF old
      <4>2. CASE t # running_term
        <5>1. term[t].running_pid \in Pids /\ term[t].running_pid # process
          BY <2>1, <3>1 DEF TypeOK, TerminalsKept, process
        <5>. QED
          BY <2>3, <2>7, <2>8, <3>1, <4>2, <5>1 DEF WaitingIn
      <4>. QED
        BY <4>1, <4>2
    <3>2. ASSUME NEW p \in Pids, pid_array[p], pcb[p].parent # None
          PROVE  OnOwnStack(pcb[p].parent, pcb'[p].esp)
      BY <2>3, <2>8, <3>2 DEF WaitingIn
    <3>. QED
      BY <2>6, <2>7, <2>8, <2>9, <3>1, <3>2 DEF WaitingKept, OnOwnStack
  <2>12. HandlerKept'
    BY <1>1, <2>7, <2>9 DEF HandlerKept, Opening
  <2>. QED
    BY <2>6, <2>10, <2>11, <2>12
<1>. QED
  BY <1>3, <1>4

\* The hazards under which a context that waits may be overwritten or lost.
StackHazards == Windows \cup {"stale", "bgexec", "bgexit", "bghalt1", "nullpcb"}

\* Every step leaves what waits whole.
LEMMA NextStacks ==
  ASSUME Hazards \cap StackHazards = {},
         TypeOK, ParentsKept, TerminalsKept, ContextsKept, FrameKept,
         ProcessorKept, WaitingKept, HandlerKept, Next
  PROVE  ~wild' /\ ProcessorKept' /\ WaitingKept' /\ HandlerKept'
<1>1. /\ cpu \in Points /\ pcb \in [Pids -> PCBs] /\ ~wild
      /\ 0 \in Terms /\ None \notin Pids /\ running_term \in Terms
  BY ConstantsAssumption DEF TypeOK, Terms, None, Pids, Next
<1>2. /\ \A h \in StackHazards : h \notin Hazards
      /\ Hazards \cap (Windows \cup {"bgexec"}) = {}
  BY DEF StackHazards
<1>3. \A t \in Terms : \A o \in {"sys", "kbdhalt", "kbdlaunch"} :
        /\ Frame(o, t) \in Frames
        /\ Frame(o, t).op = o /\ Frame(o, t).term = t
  BY KernelFrame DEF Ops, Frame
<1>4. /\ SameJobs(pcb)
      /\ Op \notin {"handback", "esp0", "leave"} => WaitingIn(pcb)
  BY <1>1 DEF SameJobs, WaitingIn, WaitingKept
<1>5. Op \in {"user", "sys"} =>
        /\ SameJobs(Push(Entry)) /\ WaitingIn(Push(Entry))
        /\ Entry.stack = cur_pid /\ OnOwnStack(cpu.proc, Here(Entry))
  BY EntryStack, PushSpares, PushKeeps, OwnProcess DEF TypeOK, OnOwnStack
<1>6. UserMode => Op = "user" /\ cpu.todo = << >> /\ cpu.todo \in Seq(Frames)
                  /\ Here(Entry) \in SavedPoints
  <2>1. Frame("sys", 0) \in Frames
    BY <1>1, <1>3
  <2>. QED
    BY <1>1, <2>1, PointFacts, EnterPoint DEF UserMode, Op, TypeOK
<1>7. Op # "user" => /\ [cpu EXCEPT !.todo = Tail(@)] \in SavedPoints
                     /\ [cpu EXCEPT !.todo = Tail(@)].proc = cpu.proc
                     /\ [cpu EXCEPT !.todo = Tail(@)].stack = cpu.stack
                     /\ Tail(cpu.todo) \in Seq(Frames)
  BY <1>1, BelowPoint, KernelMode DEF Points
<1>8. Op # "shell" => term[0].running_pid # None
  BY DEF HandlerKept
<1>9. CASE Execute
  <2>1. /\ running_term = curr_term /\ Op = "user" /\ ~wild'
        /\ StartProcess(Push(Entry), term, Here(Entry)) /\ Free # {}
    BY <1>1, <1>2, <1>6, <1>9 DEF Execute, StackHazards
  <2>2. term[curr_term].running_pid = cpu.proc
    BY <2>1, OwnProcess
  <2>. QED
    BY <1>5, <1>8, <2>1, <2>2, StartProcessStacks
<1>10. CASE ExecuteFails
  <2>. QED
    BY <1>1, <1>6, <1>10, TrapStacks DEF ExecuteFails
<1>11. CASE SysCall
  <2>1. Frame("sys", 0) \in Frames /\ Frame("sys", 0).op = "sys"
    BY <1>1, <1>3
  <2>. QED
    BY <1>1, <1>6, <1>11, <2>1, TrapStacks DEF SysCall
<1>12. CASE SysReturn
  <2>1. Op = "sys" /\ cpu' = Return /\ ~wild'
        /\ UNCHANGED << pid_array, pcb, term, cur_pid, curr_term, running_term, tss_esp0 >>
    BY <1>1, <1>12 DEF SysReturn
  <2>2. Op' \in {"user", "sys"} /\ (Op' # "user" => cpu'.stack = cpu.stack)
    BY <1>1, <2>1, AtReturn, ReturnStack
  <2>3. WaitingKept'
    BY <1>1, <1>4, <2>1, <2>2, WaitingStays
  <2>. QED
    BY <1>8, <2>1, <2>2, <2>3 DEF ProcessorKept, HandlerKept, Opening
<1>13. CASE VidMap
  BY <1>1, <1>6, <1>13, TrapStacks DEF VidMap
<1>14. CASE Halt
  <2> DEFINE fr == HaltFrame(cur_pid, pcb[cur_pid].term_id)
  <2>1. /\ cur_pid \in Pids /\ pcb[cur_pid].term_id = running_term
        /\ pcb[cur_pid].parent = None => running_term = curr_term
    <3>1. Op = "user"
      BY <1>6, <1>14 DEF Halt
    <3>2. cur_pid \in Pids /\ pcb[cur_pid].term_id = running_term
      BY <3>1, OwnProcess
    <3>. QED
      BY <1>2, <1>14, <3>2 DEF Halt, StackHazards
  <2>2. fr \in Frames /\ fr.op = "free" /\ fr.victim = cur_pid
    BY <1>1, <2>1 DEF HaltFrame, Frames, Ops
  <2>. HIDE DEF fr
  <2>3. cpu' = Enter(Entry, fr)
    BY <1>14 DEF Halt, fr
  <2>. QED
    BY <1>1, <1>6, <1>14, <2>1, <2>2, <2>3, TrapStacks DEF Halt
<1>15. CASE Halt1
  <2>1. /\ running_term = curr_term /\ Op = "user"
        /\ HaltDisplayed(Push(Entry), Here(Entry), cpu.todo)
        /\ UNCHANGED << pid_array, cur_pid, curr_term, tss_esp0 >>
    BY <1>2, <1>6, <1>15 DEF Halt1, StackHazards
  <2>2. term[curr_term].running_pid # None
    BY <2>1, OwnProcess
  <2>. QED
    BY <1>5, <1>6, <1>15, <2>1, <2>2, HaltDisplayedStacks DEF Halt1
<1>16. CASE HaltFree
  BY <1>1, <1>16, HaltFreeStacks DEF HaltFree
<1>17. CASE HandBack
  BY <1>1, <1>17, HandBackStacks DEF HandBack
<1>18. CASE RestoreEsp0
  BY <1>1, <1>18, RestoreEsp0Stacks DEF RestoreEsp0
<1>19. CASE LeaveExecute
  BY <1>1, <1>19, LeaveExecuteStacks
<1>20. CASE StartShell
  <2>1. Op \in {"shell", "launched"}
    BY <1>20 DEF StartShell
  <2>2. /\ term[curr_term].running_pid = None
        /\ Op = "shell" => running_term = curr_term /\ Free # {}
        /\ term[0].running_pid # None \/ curr_term = 0
    BY <2>1 DEF FrameKept, HandlerKept
  <2>3. CASE Free # {}
    <3> DEFINE caller == IF Op = "shell" THEN Dead ELSE [cpu EXCEPT !.todo = Tail(@)]
    <3>1. StartProcess(pcb, term, caller) /\ ~wild'
      BY <1>1, <1>20, <2>3 DEF StartShell
    <3>2. Op = "launched" =>
            /\ OnOwnStack(term[running_term].running_pid,
                          pcb[term[running_term].running_pid].curr_esp)
            /\ term[running_term].esp0.stack = term[running_term].running_pid
      BY OwnProcess DEF HandlerKept
    <3>. HIDE DEF caller
    <3>. QED
      BY <1>4, <2>1, <2>2, <2>3, <3>1, <3>2, StartProcessStacks
  <2>4. CASE Free = {}
    <3>1. /\ Op = "launched" /\ cpu' = Return /\ ~wild'
          /\ UNCHANGED << pid_array, pcb, term, cur_pid, curr_term, running_term, tss_esp0 >>
      BY <1>1, <1>20, <2>1, <2>2, <2>4 DEF StartShell
    <3>2. Op' \in {"user", "sys"} /\ (Op' # "user" => cpu'.stack = cpu.stack)
      BY <1>1, <3>1, AtReturn, ReturnStack
    <3>3. WaitingKept'
      BY <1>1, <1>4, <3>1, <3>2, WaitingStays
    <3>. QED
      BY <1>8, <3>1, <3>2, <3>3 DEF ProcessorKept, HandlerKept, Opening
  <2>. QED
    BY <2>3, <2>4
<1>21. CASE CtrlC \/ \E t \in Terms : AltF(t)
  <2>1. PICK fr \in Frames :
          /\ fr.op \in {"kbdhalt", "kbdlaunch"} /\ Key(fr)
          /\ fr.op = "kbdhalt" => term[curr_term].running_pid # None
          /\ fr.op = "kbdlaunch" /\ fr.term # curr_term
               /\ term[fr.term].running_pid = None =>
               term[running_term].esp0 = tss_esp0
    <3>1. CASE CtrlC
      <4>1. Frame("kbdhalt", 0) \in Frames /\ Frame("kbdhalt", 0).op = "kbdhalt"
        BY <1>1, <1>3
      <4>. QED
        BY <1>2, <3>1, <4>1 DEF CtrlC, StackHazards
    <3>2. ASSUME NEW t \in Terms, AltF(t)
          PROVE  \E fr \in Frames :
                   /\ fr.op = "kbdlaunch" /\ Key(fr)
                   /\ fr.term # curr_term /\ term[fr.term].running_pid = None =>
                        term[running_term].esp0 = tss_esp0
      <4>1. /\ Frame("kbdlaunch", t) \in Frames
            /\ Frame("kbdlaunch", t).op = "kbdlaunch"
            /\ Frame("kbdlaunch", t).term = t
        BY <1>3
      <4>. QED
        BY <1>2, <3>2, <4>1 DEF AltF, StackHazards
    <3>. QED
      BY <1>21, <3>1, <3>2
  <2>2. Op \in {"user", "sys"}
    BY <1>2, <2>1, WindowsClosed DEF Key
  <2>. QED
    BY <1>1, <2>1, <2>2, TrapStacks DEF Key
<1>22. CASE HaltFromKeyboard
  <2> DEFINE point == [cpu EXCEPT !.todo = Tail(@)]
  <2>1. /\ Op = "kbdhalt" /\ HaltDisplayed(pcb, point, Tail(cpu.todo))
        /\ UNCHANGED << pid_array, cur_pid, curr_term, tss_esp0 >>
    BY <1>22 DEF HaltFromKeyboard
  <2>2. term[curr_term].running_pid # None
    BY <2>1 DEF HandlerKept
  <2>3. OnOwnStack(cpu.proc, point)
    BY <1>7, <2>1, OwnProcess DEF ProcessorKept, OnOwnStack
  <2>4. point \in SavedPoints
    BY <1>7, <2>1
  <2>. HIDE DEF point
  <2>. QED
    BY <1>4, <1>7, <2>1, <2>2, <2>3, <2>4, HaltDisplayedStacks
<1>23. CASE BeginSwitch
  <2> DEFINE t == Head(cpu.todo).term
  <2>1. /\ Op = "kbdlaunch" /\ ~wild'
        /\ UNCHANGED << pid_array, pcb, term, cur_pid, curr_term, running_term, tss_esp0 >>
    BY <1>1, <1>23 DEF BeginSwitch
  <2>2. tss_esp0.stack = cur_pid /\ cpu.stack = cur_pid
    BY <2>1 DEF ProcessorKept
  <2>3. CASE cpu' = Return
    <3>1. Op' \in {"user", "sys"} /\ (Op' # "user" => cpu'.stack = cpu.stack)
      BY <1>1, <2>1, <2>3, AtReturn, ReturnStack
    <3>2. WaitingKept'
      BY <1>1, <1>4, <2>1, <3>1, WaitingStays
    <3>. QED
      BY <1>8, <2>1, <2>2, <3>1, <3>2 DEF ProcessorKept, HandlerKept, Opening
  <2>4. ASSUME NEW op \in {"newterm", "oldterm"}, cpu' = Goto(op), t # curr_term
        PROVE  ProcessorKept' /\ WaitingKept' /\ HandlerKept'
    <3>1. Op' = op /\ Head(cpu'.todo).term = t
      BY <1>1, <2>1, <2>4, AtGoto DEF Ops
    <3>2. cpu'.stack = cpu.stack
      BY <1>1, <2>4 DEF Goto, Points
    <3>3. WaitingKept'
      BY <1>1, <1>4, <2>1, <3>1, WaitingStays
    <3>4. ProcessorKept'
      BY <2>1, <2>2, <3>1, <3>2 DEF ProcessorKept
    <3>5. HandlerKept'
      BY <1>8, <2>1, <2>4, <3>1 DEF HandlerKept, Opening
    <3>. QED
      BY <3>3, <3>4, <3>5
  <2>. QED
    BY <1>23, <2>1, <2>3, <2>4 DEF BeginSwitch
<1>24. CASE ToNewTerminal
  <2> DEFINE point == [cpu EXCEPT !.todo = Tail(@)]
             t == Head(cpu.todo).term
  <2>1. /\ Op = "newterm" /\ term[t].running_pid = None
        /\ term[running_term].esp0 = tss_esp0
    BY <1>24 DEF ToNewTerminal, FrameKept, HandlerKept, Opening
  <2>2. /\ cpu.proc = term[running_term].running_pid /\ cpu.proc # None
        /\ cpu.proc \in Pids /\ cpu.proc = cur_pid
        /\ tss_esp0.stack = cur_pid /\ cpu.stack = cur_pid
    BY <2>1, OwnProcess DEF ProcessorKept
  <2>3. /\ pcb' = Saved(pcb, cpu.proc, point)
        /\ cpu' = Goto("launched") /\ ~wild'
        /\ UNCHANGED << pid_array, term, cur_pid, running_term, tss_esp0 >>
    BY <1>1, <1>24, <2>2 DEF ToNewTerminal
  <2>4. OnOwnStack(cpu.proc, point) /\ point \in SavedPoints
    BY <1>7, <2>1, <2>2 DEF OnOwnStack
  <2>5. Op' = "launched" /\ cpu'.proc = cpu.proc /\ cpu'.stack = cpu.stack
    BY <1>1, <2>1, <2>3, AtGoto DEF Ops, Goto, Points
  <2>. HIDE DEF point
  <2>6. /\ pcb' \in [Pids -> PCBs] /\ WaitingIn(pcb')
        /\ pcb'[cpu.proc].curr_esp = point
        /\ \A p \in Pids : pcb'[p].parent = pcb[p].parent
    <3>1. pcb' \in [Pids -> PCBs] /\ WaitingIn(pcb')
      BY <1>1, <1>4, <2>1, <2>2, <2>3, <2>4, SavedPCBs, SavedSpares
    <3>. QED
      BY <1>1, <2>2, <2>3, <3>1 DEF Saved, PCBs
  <2>7. WaitingKept'
    BY <2>3, <2>5, <2>6, WaitingStays
  <2>8. HandlerKept'
    BY <1>8, <2>1, <2>2, <2>3, <2>4, <2>5, <2>6 DEF HandlerKept, Opening
  <2>. QED
    BY <2>2, <2>3, <2>5, <2>7, <2>8 DEF ProcessorKept
<1>25. CASE ToOldTerminal
  <2>1. Op = "oldterm" /\ cpu' = Return /\ ~wild'
        /\ UNCHANGED << pid_array, pcb, term, cur_pid, running_term, tss_esp0 >>
    BY <1>1, <1>25 DEF ToOldTerminal
  <2>2. Op' \in {"user", "sys"} /\ (Op' # "user" => cpu'.stack = cpu.stack)
    BY <1>1, <2>1, AtReturn, ReturnStack
  <2>3. WaitingKept'
    BY <1>1, <1>4, <2>1, <2>2, WaitingStays
  <2>. QED
    BY <1>8, <2>1, <2>2, <2>3 DEF ProcessorKept, HandlerKept, Opening
<1>26. CASE PIT
  BY <1>1, <1>2, <1>26, WindowsClosed, PITStacks DEF PIT
<1>. QED
  BY <1>9, <1>10, <1>11, <1>12, <1>13, <1>14, <1>15, <1>16, <1>17, <1>18, <1>19,
     <1>20, <1>21, <1>22, <1>23, <1>24, <1>25, <1>26
     DEF Next, Programs, KernelSteps, HaltSteps, LaunchSteps, Keyboard

\* The boot leaves one context, of the first shell in user mode.
LEMMA InitStacks ==
  ASSUME Init
  PROVE  StacksInv
<1>1. 0 \in Pids /\ 0 \in Terms /\ None \notin Pids
  BY ConstantsAssumption DEF Pids, Terms, None
<1>2. Op = "user" /\ ~wild
  BY DEF Init, User, Op, UserMode
<1>3. ProcessorKept
  BY <1>2 DEF Init, ProcessorKept, Base
<1>4. WaitingKept
  BY <1>1, <1>2 DEF Init, WaitingKept
<1>5. HandlerKept
  BY <1>1, <1>2 DEF Init, HandlerKept, Opening
<1>. QED
  BY <1>2, <1>3, <1>4, <1>5 DEF StacksInv

\* A step that changes nothing keeps it.
LEMMA StutterStacks ==
  ASSUME StacksInv, UNCHANGED vars
  PROVE  StacksInv'
BY DEF vars, StacksInv, ProcessorKept, WaitingKept, HandlerKept, OnOwnStack,
       Opening, Free, Op, UserMode

(***************************************************************************)
(* The kernel never goes on through a context that has been overwritten,   *)
(* returned through or never saved: the frames that wait for the timer and *)
(* for a child's halt lie on the stack of their own process, and nobody    *)
(* pushes on a stack whose process waits (schedule, halt_func, execute_func *)
(* and launch_term together).                                              *)
(***************************************************************************)
THEOREM StacksInvariant ==
  ASSUME Hazards \cap StackHazards = {}
  PROVE  Spec => []StacksInv
<1>1. Init => StacksInv
  BY InitStacks
<1>2. TypeOK /\ RunningContextInv /\ StacksInv /\ [Next]_vars => StacksInv'
  <2>1. SUFFICES ASSUME TypeOK, RunningContextInv, StacksInv, [Next]_vars
                 PROVE  StacksInv'
    OBVIOUS
  <2>2. CASE Next
    BY <2>1, <2>2, NextStacks DEF StacksInv, RunningContextInv
  <2>3. CASE UNCHANGED vars
    BY <2>1, <2>3, StutterStacks
  <2>. QED
    BY <2>1, <2>2, <2>3
<1>3. Hazards \cap (Windows \cup {"bgexec"}) = {}
  BY DEF StackHazards
<1>4. Spec => []RunningContextInv
  BY <1>3, ContextInvariant
<1>. QED
  BY <1>1, <1>2, <1>4, TypeCorrect, PTL DEF Spec

(***************************************************************************)
(* No step of the kernel goes on through a dead pointer or the PCB of pid  *)
(* -1.                                                                     *)
(***************************************************************************)
THEOREM NoWildJumpHolds ==
  ASSUME Hazards \cap StackHazards = {}
  PROVE  Spec => []NoWildJump
<1>1. StacksInv => NoWildJump
  BY DEF StacksInv, NoWildJump
<1>. QED
  BY <1>1, StacksInvariant, PTL

(***************************************************************************)
(* tss.esp0 and every esp0 kept for a terminal are on the kernel stack of  *)
(* the process that will trap through them.                                *)
(***************************************************************************)
THEOREM OwnKernelStackHolds ==
  ASSUME Hazards \cap StackHazards = {}
  PROVE  Spec => []OwnKernelStack
<1>1. StacksInv => OwnKernelStack
  BY DEF StacksInv, ProcessorKept, WaitingKept, OwnKernelStack, Settled
<1>. QED
  BY <1>1, StacksInvariant, PTL

(***************************************************************************)
(* When halt_func jumps, the esp it jumps through is the one where the     *)
(* parent of the process that ends waits in execute.                       *)
(***************************************************************************)
THEOREM HaltReturns ==
  ASSUME Hazards \cap StackHazards = {}
  PROVE  Spec => []HaltReturnsToParent
<1>1. TypeOK /\ RunningContextInv /\ StacksInv => HaltReturnsToParent
  <2>1. SUFFICES ASSUME TypeOK, RunningContextInv, StacksInv, Op = "leave"
                 PROVE  pcb[Head(cpu.todo).victim].esp.proc = Head(cpu.todo).parent
    BY DEF HaltReturnsToParent
  <2>2. /\ Head(cpu.todo).victim \in Pids /\ Head(cpu.todo).parent # None
        /\ Head(cpu.todo).parent = pcb[Head(cpu.todo).victim].parent
    BY <2>1, KernelMode DEF RunningContextInv, StacksInv, FrameKept, TypeOK, Frames
  <2>. QED
    BY <2>1, <2>2 DEF StacksInv, WaitingKept, OnOwnStack
<1>2. Hazards \cap (Windows \cup {"bgexec"}) = {}
  BY DEF StackHazards
<1>3. Spec => []RunningContextInv
  BY <1>2, ContextInvariant
<1>. QED
  BY <1>1, <1>3, StacksInvariant, TypeCorrect, PTL

-----------------------------------------------------------------------------
(* DisplayIsolation.                                                       *)

\* The hazards under which 132MB may show a background process the display.
DisplayHazards == Windows \cup {"bgexec", "bgvidmap"}

\* A step that moves neither the display nor the processor to another terminal,
\* and gives none that is not running a process.
LEMMA DisplayStays ==
  ASSUME DisplayInv, Op # "launched",
         UNCHANGED << running_term, curr_term, video >>,
         running_term # curr_term /\ term'[curr_term].running_pid # None
           => term[curr_term].running_pid # None
  PROVE  DisplayInv'
BY DEF DisplayInv

\* A step after which the displayed terminal runs.
LEMMA DisplayRuns ==
  ASSUME running_term' = curr_term'
  PROVE  DisplayInv'
BY DEF DisplayInv

\* Every step keeps the display from the background.
LEMMA NextDisplay ==
  ASSUME Hazards \cap DisplayHazards = {},
         TypeOK, ParentsKept, TerminalsKept, ContextsKept, FrameKept,
         DisplayInv, Next, ~wild'
  PROVE  DisplayInv'
<1>1. /\ cpu \in Points /\ 0 \in Terms
      /\ running_term \in Terms /\ curr_term \in Terms
  BY ConstantsAssumption DEF TypeOK, Terms
<1>2. /\ \A h \in DisplayHazards : h \notin Hazards
      /\ Hazards \cap (Windows \cup {"bgexec"}) = {}
  BY DEF DisplayHazards
<1>3. UserMode => Op = "user"
  BY DEF Op
<1>4. Display \notin Terms
  BY ConstantsAssumption DEF Display, Terms
<1>5. ASSUME NEW pcbs, NEW caller, StartProcess(pcbs, term, caller)
      PROVE  DisplayInv'
  BY <1>5, DisplayRuns DEF StartProcess
<1>6. ASSUME NEW pcbs, NEW point, NEW below,
             HaltDisplayed(pcbs, point, below), UNCHANGED curr_term
      PROVE  DisplayInv'
  <2>1. running_term' = curr_term
    BY <1>6 DEF HaltDisplayed
  <2>. QED
    BY <1>6, <2>1, DisplayRuns
<1>7. CASE Execute
  BY <1>5, <1>7 DEF Execute
<1>8. CASE ExecuteFails \/ SysCall \/ Halt
  BY <1>3, <1>8, DisplayStays DEF ExecuteFails, SysCall, Halt
<1>9. CASE SysReturn
  BY <1>9, DisplayStays DEF SysReturn
<1>10. CASE VidMap
  <2>1. running_term' = curr_term'
    BY <1>2, <1>10 DEF VidMap, DisplayHazards
  <2>. QED
    BY <2>1, DisplayRuns
<1>11. CASE Halt1
  BY <1>6, <1>11 DEF Halt1
<1>12. CASE HaltFree \/ HandBack
  <2>1. /\ Op \in {"free", "handback"}
        /\ Head(cpu.todo).term = running_term
        /\ UNCHANGED << running_term, curr_term, video >>
    BY <1>12 DEF HaltFree, HandBack, FrameKept
  <2>2. running_term # curr_term => term'[curr_term] = term[curr_term]
    BY <1>1, <1>12, <2>1 DEF HaltFree, HandBack, TypeOK
  <2>. QED
    BY <2>1, <2>2, DisplayStays
<1>13. CASE RestoreEsp0
  BY <1>13, DisplayStays DEF RestoreEsp0
<1>14. CASE LeaveExecute
  BY <1>14, DisplayStays DEF LeaveExecute
<1>15. CASE StartShell
  <2>1. CASE Free # {}
    BY <1>5, <1>15, <2>1 DEF StartShell
  <2>2. CASE Free = {}
    <3>1. Op = "launched" /\ UNCHANGED << term, curr_term >>
      BY <1>15, <2>2 DEF StartShell
    <3>2. term'[curr_term'].running_pid = None
      BY <3>1 DEF FrameKept
    <3>. QED
      BY <3>2 DEF DisplayInv
  <2>. QED
    BY <2>1, <2>2
<1>16. CASE CtrlC \/ \E t \in Terms : AltF(t)
  <2>1. PICK fr : Key(fr)
    BY <1>16 DEF CtrlC, AltF
  <2>2. Op \in {"user", "sys"}
    BY <1>2, <2>1, WindowsClosed DEF Key
  <2>. QED
    BY <2>1, <2>2, DisplayStays DEF Key
<1>17. CASE HaltFromKeyboard
  BY <1>6, <1>17 DEF HaltFromKeyboard
<1>18. CASE BeginSwitch
  BY <1>18, DisplayStays DEF BeginSwitch
<1>19. CASE ToNewTerminal
  <2>1. Op = "newterm" /\ cpu' = Goto("launched")
    BY <1>19 DEF ToNewTerminal
  <2>2. Op' = "launched"
    BY <1>1, <2>1, AtGoto DEF Ops
  <2>. QED
    BY <2>2 DEF DisplayInv
<1>20. CASE ToOldTerminal
  <2>1. video' = VideoFor(running_term, curr_term') /\ UNCHANGED running_term
    BY <1>20 DEF ToOldTerminal
  <2>. QED
    BY <1>1, <1>4, <2>1 DEF DisplayInv, VideoFor
<1>21. CASE PIT
  <2>1. CASE Schedules
    <3>1. video' = VideoFor(running_term', curr_term') /\ running_term' \in Terms
      BY <1>1, <1>21, <2>1, NextTerm DEF PIT, Schedule
    <3>. QED
      BY <1>4, <3>1 DEF DisplayInv, VideoFor
  <2>2. CASE ~Schedules
    <3>1. Op \in {"user", "sys"}
      BY <1>2, <1>21, WindowsClosed DEF PIT
    <3>. QED
      BY <1>21, <2>2, <3>1, DisplayStays DEF PIT
  <2>. QED
    BY <2>1, <2>2
<1>. QED
  BY <1>7, <1>8, <1>9, <1>10, <1>11, <1>12, <1>13, <1>14, <1>15, <1>16, <1>17,
     <1>18, <1>19, <1>20, <1>21
     DEF Next, Programs, KernelSteps, HaltSteps, LaunchSteps, Keyboard

(***************************************************************************)
(* While the display shows another terminal's process, a process does not  *)
(* have it at 132MB: launch_term and schedule remap the page whenever one  *)
(* of the two terminals moves.                                             *)
(***************************************************************************)
THEOREM DisplayIsolated ==
  ASSUME Hazards \cap DisplayHazards = {}
  PROVE  Spec => []DisplayIsolation
<1>1. Init => DisplayInv
  BY DEF Init, DisplayInv
<1>2. TypeOK /\ RunningContextInv /\ (wild \/ DisplayInv) /\ [Next]_vars
        => (wild \/ DisplayInv)'
  <2>1. SUFFICES ASSUME TypeOK, RunningContextInv, wild \/ DisplayInv,
                        [Next]_vars, ~wild'
                 PROVE  DisplayInv'
    OBVIOUS
  <2>2. CASE Next
    <3>1. ~wild
      BY <2>2 DEF Next
    <3>. QED
      BY <2>1, <2>2, <3>1, NextDisplay DEF RunningContextInv
  <2>3. CASE UNCHANGED vars
    BY <2>1, <2>3 DEF vars, DisplayInv, Op, UserMode
  <2>. QED
    BY <2>1, <2>2, <2>3
<1>3. (wild \/ DisplayInv) => DisplayIsolation
  BY DEF DisplayInv, DisplayIsolation, Op
<1>4. Hazards \cap (Windows \cup {"bgexec"}) = {}
  BY DEF DisplayHazards
<1>5. Spec => []RunningContextInv
  BY <1>4, ContextInvariant
<1>. QED
  BY <1>1, <1>2, <1>3, <1>5, TypeCorrect, PTL DEF Spec

-----------------------------------------------------------------------------
(* The lines of jobs: what the recursion in Lines computes.                *)

\* A line of pids by the function parent, ending in p.
LineTo(s, p, parent) ==
  /\ s \in Seq(Pids)
  /\ \A i \in 1 .. Len(s) : parent[s[i]] = IF i = 1 THEN None ELSE s[i - 1]
  /\ p = IF s = << >> THEN None ELSE s[Len(s)]

\* One more step of the recursion, on the lines f of fewer jobs.
Longer(f, n, parent) ==
  [p \in Pids \cup {None} |->
     IF n = 0 \/ p = None THEN << >> ELSE Append(f[n - 1][parent[p]], p)]

\* The recursion of Lines defines a function.
LEMMA LinesDefined ==
  ASSUME NEW parent
  PROVE  Lines(parent) =
           [n \in 0 .. MaxProcs |-> Longer(Lines(parent), n, parent)]
<1> DEFINE Upto(m) == \E f : f = [n \in 0 .. m |-> Longer(f, n, parent)]
           T == {m \in 0 .. MaxProcs : ~Upto(m)}
<1>1. MaxProcs \in Nat
  BY ConstantsAssumption
<1>2. Upto(0)
  <2> DEFINE f == [n \in 0 .. 0 |-> [p \in Pids \cup {None} |-> << >>]]
  <2>1. f = [n \in 0 .. 0 |-> Longer(f, n, parent)]
    <3>1. \A n \in 0 .. 0 : Longer(f, n, parent) = [p \in Pids \cup {None} |-> << >>]
      BY DEF Longer
    <3>. QED
      BY <3>1
  <2>. QED
    BY <2>1
<1>3. ASSUME NEW m \in 1 .. MaxProcs, Upto(m - 1)
      PROVE  Upto(m)
  <2>1. PICK f : f = [n \in 0 .. m - 1 |-> Longer(f, n, parent)]
    BY <1>3
  <2> DEFINE g == [n \in 0 .. m |-> IF n = m THEN Longer(f, m, parent) ELSE f[n]]
  <2>2. m \in Nat /\ m - 1 \in Nat
    BY <1>1
  <2>3. \A n \in 0 .. m : Longer(g, n, parent) = Longer(f, n, parent)
    <3>1. SUFFICES ASSUME NEW n \in 0 .. m
                   PROVE  Longer(g, n, parent) = Longer(f, n, parent)
      OBVIOUS
    <3>2. n # 0 => g[n - 1] = f[n - 1]
      BY <2>2, <3>1
    <3>. HIDE DEF g
    <3>. QED
      BY <3>2 DEF Longer
  <2>4. \A n \in 0 .. m : g[n] = Longer(f, n, parent)
    <3>1. SUFFICES ASSUME NEW n \in 0 .. m
                   PROVE  g[n] = Longer(f, n, parent)
      OBVIOUS
    <3>2. n # m => n \in 0 .. m - 1
      BY <2>2, <3>1
    <3>3. n # m => f[n] = Longer(f, n, parent)
      BY <2>1, <3>2
    <3>. QED
      BY <3>3
  <2>5. g = [n \in 0 .. m |-> Longer(g, n, parent)]
    <3>1. DOMAIN g = 0 .. m /\ g = [n \in 0 .. m |-> g[n]]
      OBVIOUS
    <3>. HIDE DEF g
    <3>. QED
      BY <2>3, <2>4, <3>1
  <2>. HIDE DEF g
  <2>. QED
    BY <2>5
<1>4. T = {}
  <2>1. SUFFICES ASSUME T # {}
                 PROVE  FALSE
    OBVIOUS
  <2>2. T \in SUBSET Nat
    OBVIOUS
  <2>. HIDE DEF T
  <2>3. PICK m \in T : \A n \in T : m <= n
    BY <2>1, <2>2, LeastElement
  <2>. USE DEF T
  <2>. HIDE DEF Upto
  <2>4. m \in 1 .. MaxProcs /\ m - 1 \in 0 .. MaxProcs
    BY <1>1, <1>2, <2>3
  <2>5. Upto(m - 1)
    BY <2>3, <2>4
  <2>. QED
    BY <1>3, <2>3, <2>4, <2>5
<1>5. Upto(MaxProcs)
  <2>. HIDE DEF Upto
  <2>. QED
    BY <1>1, <1>4
<1>6. Lines(parent) = CHOOSE f : f = [n \in 0 .. MaxProcs |-> Longer(f, n, parent)]
  BY DEF Lines, Longer
<1>. QED
  BY <1>5, <1>6

\* A line of n jobs at most is what Lines finds from its last job.
LEMMA LineFound ==
  ASSUME NEW parent, NEW n \in 0 .. MaxProcs, NEW s, NEW p,
         LineTo(s, p, parent), Len(s) <= n
  PROVE  Lines(parent)[n][p] = s
<1> DEFINE f == Lines(parent)
           Found(m) == \A u \in Seq(Pids) : \A q \in Pids \cup {None} :
                         LineTo(u, q, parent) /\ Len(u) <= m => f[m][q] = u
           T == {m \in 0 .. MaxProcs : ~Found(m)}
<1>1. MaxProcs \in Nat /\ None \notin Pids
  BY ConstantsAssumption DEF None, Pids
<1>2. f = [m \in 0 .. MaxProcs |-> Longer(f, m, parent)]
  BY LinesDefined
<1>. HIDE DEF f
<1>3. \A m \in 0 .. MaxProcs : f[m] = Longer(f, m, parent)
  BY <1>2
<1>4. \A m \in 0 .. MaxProcs : f[m][None] = << >>
  BY <1>3 DEF Longer
<1>5. ASSUME NEW m \in 0 .. MaxProcs, m # 0 => Found(m - 1)
      PROVE  Found(m)
  <2>1. SUFFICES ASSUME NEW u \in Seq(Pids), NEW q \in Pids \cup {None},
                        LineTo(u, q, parent), Len(u) <= m
                 PROVE  f[m][q] = u
    OBVIOUS
  <2>2. CASE u = << >>
    BY <1>4, <2>1, <2>2 DEF LineTo
  <2>3. CASE u # << >>
    <3> DEFINE k == Len(u)
               v == SubSeq(u, 1, k - 1)
    <3>1. k \in Nat /\ k >= 1 /\ k <= m /\ m - 1 \in 0 .. MaxProcs
      BY <1>1, <2>1, <2>3
    <3>2. q = u[k] /\ q \in Pids
      BY <2>1, <2>3, <3>1 DEF LineTo
    <3>3. /\ v \in Seq(Pids) /\ Len(v) = k - 1
          /\ \A i \in 1 .. k - 1 : v[i] = u[i]
          /\ u = Append(v, q)
      <4>1. \A i \in 1 .. k - 1 : u[i] \in Pids
        BY <3>1
      <4>2. /\ v \in Seq(Pids) /\ Len(v) = k - 1
            /\ \A i \in 1 .. k - 1 : v[i] = u[i]
        <5>1. 1 \in Int /\ k - 1 \in Int
          BY <3>1
        <5>. HIDE DEF k
        <5>2. /\ v \in Seq(Pids)
              /\ Len(v) = IF 1 <= k - 1 THEN (k - 1) - 1 + 1 ELSE 0
              /\ \A i \in 1 .. (k - 1) - 1 + 1 : v[i] = u[1 + i - 1]
          BY <4>1, <5>1, SubSeqProperties
        <5>3. (k - 1) - 1 + 1 = k - 1 /\ \A i \in 1 .. k - 1 : 1 + i - 1 = i
          BY <3>1
        <5>. QED
          BY <3>1, <5>2, <5>3
      <4>. HIDE DEF v
      <4>3. /\ Append(v, q) \in Seq(Pids) /\ Len(Append(v, q)) = k
            /\ \A i \in 1 .. k - 1 : Append(v, q)[i] = u[i]
            /\ Append(v, q)[k] = u[k]
        <5>1. /\ Append(v, q) \in Seq(Pids)
              /\ Len(Append(v, q)) = Len(v) + 1
              /\ \A i \in 1 .. Len(v) : Append(v, q)[i] = v[i]
              /\ Append(v, q)[Len(v) + 1] = q
          <6>1. q \in Pids
            BY <3>2
          <6>. QED
            BY <4>2, <6>1, AppendProperties
        <5>2. Len(v) + 1 = k
          BY <3>1, <4>2
        <5>. QED
          BY <3>2, <4>2, <5>1, <5>2
      <4>4. \A i \in 1 .. k : Append(v, q)[i] = u[i]
        <5>1. \A i \in 1 .. k : i = k \/ i \in 1 .. k - 1
          BY <3>1
        <5>. QED
          BY <4>3, <5>1
      <4>. QED
        BY <4>2, <4>3, <4>4, SeqEqual
    <3>. HIDE DEF v
    <3>4. LineTo(v, parent[q], parent) /\ parent[q] \in Pids \cup {None}
      <4>1. \A i \in 1 .. Len(v) : parent[v[i]] = IF i = 1 THEN None ELSE v[i - 1]
        <5>1. SUFFICES ASSUME NEW i \in 1 .. k - 1
                       PROVE  parent[v[i]] = IF i = 1 THEN None ELSE v[i - 1]
          BY <3>3
        <5>2. i \in 1 .. Len(u) /\ (i # 1 => i - 1 \in 1 .. k - 1)
          BY <3>1
        <5>. QED
          BY <2>1, <3>3, <5>1, <5>2 DEF LineTo
      <4>2. parent[q] = IF v = << >> THEN None ELSE v[Len(v)]
        <5>1. parent[q] = IF k = 1 THEN None ELSE u[k - 1]
          <6>1. k \in 1 .. Len(u)
            BY <3>1
          <6>. QED
            BY <2>1, <3>2, <6>1 DEF LineTo
        <5>2. v = << >> <=> k = 1
          BY <3>1, <3>3
        <5>3. k # 1 => u[k - 1] = v[Len(v)]
          BY <3>1, <3>3
        <5>. QED
          BY <5>1, <5>2, <5>3
      <4>3. v # << >> => v[Len(v)] \in Pids
        BY <3>3
      <4>. QED
        BY <3>3, <4>1, <4>2, <4>3 DEF LineTo
    <3>5. f[m - 1][parent[q]] = v
      <4>1. Found(m - 1) /\ Len(v) <= m - 1
        BY <1>5, <3>1, <3>3
      <4>. QED
        BY <3>3, <3>4, <4>1
    <3>6. f[m][q] = Append(f[m - 1][parent[q]], q)
      <4>1. m \in 0 .. MaxProcs /\ m # 0 /\ q # None
        BY <1>1, <3>1, <3>2
      <4>. QED
        BY <1>3, <3>2, <4>1, ZenonT(60) DEF Longer
    <3>. QED
      BY <3>3, <3>5, <3>6
  <2>. QED
    BY <2>2, <2>3
<1>6. T = {}
  <2>1. SUFFICES ASSUME T # {}
                 PROVE  FALSE
    OBVIOUS
  <2>2. T \in SUBSET Nat
    OBVIOUS
  <2>. HIDE DEF T
  <2>3. PICK m \in T : \A k \in T : m <= k
    BY <2>1, <2>2, LeastElement
  <2>. USE DEF T
  <2>. HIDE DEF Found
  <2>4. m \in 0 .. MaxProcs /\ ~Found(m) /\ (m # 0 => m - 1 \in 0 .. MaxProcs)
    BY <1>1, <2>3
  <2>5. m # 0 => Found(m - 1)
    BY <2>3, <2>4
  <2>. QED
    BY <1>5, <2>4, <2>5
<1>7. Found(n)
  <2>. HIDE DEF Found
  <2>. QED
    BY <1>6
<1>8. s \in Seq(Pids) /\ p \in Pids \cup {None}
  <2>1. s # << >> => s[Len(s)] \in Pids
    BY DEF LineTo
  <2>. QED
    BY <2>1 DEF LineTo
<1>. QED
  BY <1>7, <1>8 DEF f

\* A line that names no pid twice is no longer than the process table.
LEMMA LineFits ==
  ASSUME NEW s \in Seq(Pids),
         \A i, j \in 1 .. Len(s) : s[i] = s[j] => i = j
  PROVE  Len(s) <= MaxProcs
<1>1. MaxProcs \in Nat /\ Len(s) \in Nat
  BY ConstantsAssumption
<1>2. /\ IsFiniteSet(1 .. Len(s)) /\ Cardinality(1 .. Len(s)) = Len(s)
      /\ IsFiniteSet(Pids) /\ Cardinality(Pids) = MaxProcs
  <2>1. IsFiniteSet(1 .. Len(s)) /\ Cardinality(1 .. Len(s)) = Len(s)
    <3>1. 1 \in Int /\ Len(s) \in Int
      BY <1>1
    <3>2. Cardinality(1 .. Len(s)) = IF 1 > Len(s) THEN 0 ELSE Len(s) - 1 + 1
      BY <3>1, FS_Interval
    <3>. QED
      BY <1>1, <3>1, <3>2, FS_Interval, SMTT(30)
  <2>2. IsFiniteSet(Pids) /\ Cardinality(Pids) = MaxProcs
    <3>1. 0 \in Int /\ MaxProcs - 1 \in Int
      BY <1>1
    <3>2. Cardinality(0 .. MaxProcs - 1)
            = IF 0 > MaxProcs - 1 THEN 0 ELSE MaxProcs - 1 - 0 + 1
      BY <3>1, FS_Interval
    <3>. QED
      BY <1>1, <3>1, <3>2, FS_Interval DEF Pids
  <2>. QED
    BY <2>1, <2>2
<1>3. s \in [1 .. Len(s) -> Pids]
  OBVIOUS
<1>. QED
  BY <1>1, <1>2, <1>3, FS_PigeonHole

-----------------------------------------------------------------------------
(* The lines of the terminals, step by step.                               *)

\* The function of the parents in a PCB table.
ParentIn(pcbs) == [p \in Pids |-> pcbs[p].parent]

\* The line of jobs of a terminal is the one that Jobs computes.
LEMMA LineOfTerminal ==
  ASSUME NEW pcbs, NEW s \in Seq(Pids), NEW p,
         \A i \in 1 .. Len(s) :
           /\ pcbs[s[i]].parent = IF i = 1 THEN None ELSE s[i - 1]
           /\ \A j \in 1 .. Len(s) : s[i] = s[j] => i = j,
         p = IF s = << >> THEN None ELSE s[Len(s)]
  PROVE  Lines(ParentIn(pcbs))[MaxProcs][p] = s
<1>1. LineTo(s, p, ParentIn(pcbs))
  <2>1. \A i \in 1 .. Len(s) : s[i] \in Pids
    OBVIOUS
  <2>. QED
    BY <2>1 DEF LineTo, ParentIn
<1>2. Len(s) <= MaxProcs
  BY LineFits
<1>3. MaxProcs \in 0 .. MaxProcs
  BY ConstantsAssumption
<1>. QED
  BY <1>1, <1>2, <1>3, LineFound

\* Lines that fit the PCBs and the terminal table are those of Jobs.
LEMMA JobsFound ==
  ASSUME NEW jb \in [Terms -> Seq(Pids)], JobsAre(jb)
  PROVE  AllJobs = jb /\ JobsInv
<1>1. ASSUME NEW t \in Terms
      PROVE  Jobs(t) = jb[t]
  <2>1. JobLine(jb[t], t) /\ jb[t] \in Seq(Pids)
    BY DEF JobsAre
  <2>2. Lines(ParentIn(pcb))[MaxProcs][term[t].running_pid] = jb[t]
    BY <2>1, LineOfTerminal DEF JobLine
  <2>. QED
    BY <2>2 DEF Jobs, ParentIn
<1>2. AllJobs = jb
  BY <1>1 DEF AllJobs
<1>. QED
  BY <1>2 DEF JobsInv

\* The same after a step.
LEMMA JobsFoundNext ==
  ASSUME NEW jb \in [Terms -> Seq(Pids)], JobsAre(jb)'
  PROVE  AllJobs' = jb /\ JobsInv'
<1>1. ASSUME NEW t \in Terms
      PROVE  Jobs(t)' = jb[t]
  <2>1. JobLine(jb[t], t)' /\ jb[t] \in Seq(Pids)
    BY DEF JobsAre
  <2>2. Lines(ParentIn(pcb'))[MaxProcs][term'[t].running_pid] = jb[t]
    BY <2>1, LineOfTerminal, SMTT(30) DEF JobLine
  <2>. QED
    BY <2>2 DEF Jobs, ParentIn
<1>2. AllJobs' = jb
  BY <1>1 DEF AllJobs
<1>. QED
  BY <1>2 DEF JobsInv

\* A step that starts and ends no job.
LEMMA JobsUntouched ==
  ASSUME JobsInv,
         SameJobs(pcb'),
         \A t \in Terms : term'[t].running_pid = term[t].running_pid,
         \A p \in Pids : InUse(p)' <=> InUse(p)
  PROVE  JobsInv' /\ AllJobs' = AllJobs
<1>1. PICK jb \in [Terms -> Seq(Pids)] : jb = AllJobs
  BY DEF JobsInv
<1>2. JobsAre(jb)
  BY <1>1 DEF JobsInv
<1>3. ASSUME NEW t \in Terms
      PROVE  JobLine(jb[t], t)'
  <2>1. JobLine(jb[t], t) /\ jb[t] \in Seq(Pids)
    BY <1>2 DEF JobsAre
  <2>2. \A i \in 1 .. Len(jb[t]) : jb[t][i] \in Pids
    BY <2>1
  <2>. QED
    BY <2>1, <2>2 DEF JobLine, SameJobs
<1>4. JobsAre(jb)'
  BY <1>2, <1>3 DEF JobsAre
<1>. QED
  BY <1>1, <1>4, JobsFoundNext

\* The pids in use but for the moment between a halt's freeing and its handing
\* back are those marked in pid_array.
LEMMA InUseMarked ==
  /\ Op # "handback" => \A p \in Pids : InUse(p) <=> pid_array[p]
  /\ Op' # "handback" => \A p \in Pids : InUse(p)' <=> pid_array'[p]
BY DEF InUse

\* execute_func pushes a job on the line of the displayed terminal.
LEMMA StartProcessJobs ==
  ASSUME TypeOK, JobsInv, Op # "handback", NEW t \in Terms, t = curr_term,
         NEW pcbs, SameJobs(pcbs), NEW caller \in SavedPoints,
         Free # {}, StartProcess(pcbs, term, caller)
  PROVE  JobsInv' /\ \E p \in Pids : JobControl!Start(t, p)
<1> DEFINE new == get_available_pid
           parent == term[t].running_pid
<1>1. /\ new \in Pids /\ new \in Free /\ ~pid_array[new]
      /\ None \notin Pids
      /\ parent \in Pids \cup {None}
  BY AvailablePid, ConstantsAssumption DEF TypeOK, Free, None, Pids
<1>. HIDE DEF new
<1>2. /\ \A p \in Pids : pid_array'[p] <=> (p = new \/ pid_array[p])
      /\ \A p \in Pids \ {new} : /\ pcb'[p].parent = pcb[p].parent
                                 /\ pcb'[p].term_id = pcb[p].term_id
      /\ pcb'[new].parent = parent /\ pcb'[new].term_id = t
      /\ \A u \in Terms : term'[u].running_pid
                            = IF u = t THEN new ELSE term[u].running_pid
  <2>1. /\ pid_array' = [pid_array EXCEPT ![new] = TRUE]
        /\ pcb' = [pcbs EXCEPT ![new] =
                     [@ EXCEPT !.parent = parent,
                               !.term_id = curr_term,
                               !.esp = IF parent = None THEN Dead ELSE caller]]
        /\ term' = [term EXCEPT ![curr_term] =
                      [running_pid |-> new, esp0 |-> Base(new)]]
    BY DEF StartProcess, get_parent_pcb, new
  <2>2. \A p \in Pids : pcbs[p] \in PCBs
    BY DEF SameJobs
  <2>3. pcbs \in [Pids -> PCBs]
    BY DEF SameJobs
  <2>4. \A p \in Pids \ {new} : /\ pcb'[p].parent = pcb[p].parent
                                /\ pcb'[p].term_id = pcb[p].term_id
    BY <2>1, <2>3 DEF SameJobs
  <2>5. pcb'[new].parent = parent /\ pcb'[new].term_id = t
    BY <1>1, <2>1, <2>2, <2>3 DEF PCBs
  <2>6. \A u \in Terms : term'[u].running_pid
                           = IF u = t THEN new ELSE term[u].running_pid
    BY <1>1, <2>1 DEF TypeOK
  <2>7. \A p \in Pids : pid_array'[p] <=> (p = new \/ pid_array[p])
    BY <1>1, <2>1 DEF TypeOK
  <2>. QED
    BY <2>4, <2>5, <2>6, <2>7
<1>3. Op' # "handback"
  BY AtUser DEF StartProcess
<1>4. AllJobs \in [Terms -> Seq(Pids)] /\ JobsAre(AllJobs)
  BY DEF JobsInv
<1>5. \A p \in Pids :
        pid_array[p] <=> \E u \in Terms : \E i \in 1 .. Len(AllJobs[u]) : AllJobs[u][i] = p
  BY <1>4, InUseMarked DEF JobsAre
<1>6. \A u \in Terms : /\ JobLine(AllJobs[u], u) /\ AllJobs[u] \in Seq(Pids)
                       /\ \A i \in 1 .. Len(AllJobs[u]) :
                            AllJobs[u][i] \in Pids \ {new}
  <2>1. \A u \in Terms : JobLine(AllJobs[u], u) /\ AllJobs[u] \in Seq(Pids)
    BY <1>4 DEF JobsAre
  <2>2. \A u \in Terms : \A i \in 1 .. Len(AllJobs[u]) : AllJobs[u][i] \in Pids
    BY <2>1
  <2>. QED
    BY <1>1, <1>5, <2>1, <2>2
<1>7. PICK jb \in [Terms -> Seq(Pids)] :
        jb = [AllJobs EXCEPT ![t] = Append(@, new)]
  <2>1. [AllJobs EXCEPT ![t] = Append(@, new)] \in [Terms -> Seq(Pids)]
    BY <1>1, <1>4
  <2>. QED
    BY <2>1
<1>8. /\ jb[t] = Append(AllJobs[t], new)
      /\ \A u \in Terms \ {t} : jb[u] = AllJobs[u]
  BY <1>1, <1>4, <1>7
<1>9. /\ Len(jb[t]) = Len(AllJobs[t]) + 1
      /\ \A i \in 1 .. Len(AllJobs[t]) : jb[t][i] = AllJobs[t][i]
      /\ jb[t][Len(AllJobs[t]) + 1] = new
      /\ jb[t] # << >> /\ Len(AllJobs[t]) \in Nat
  BY <1>1, <1>6, <1>8, AppendProperties
<1>10. ASSUME NEW u \in Terms \ {t}
       PROVE  JobLine(jb[u], u)'
  <2>1. JobLine(jb[u], u)
    BY <1>6, <1>8
  <2>2. \A i \in 1 .. Len(jb[u]) :
          /\ pcb'[jb[u][i]].parent = pcb[jb[u][i]].parent
          /\ pcb'[jb[u][i]].term_id = pcb[jb[u][i]].term_id
    BY <1>2, <1>6, <1>8
  <2>3. term'[u].running_pid = term[u].running_pid
    BY <1>2
  <2>. QED
    BY <2>1, <2>2, <2>3 DEF JobLine
<1>11. JobLine(jb[t], t)'
  <2> DEFINE k == Len(AllJobs[t])
  <2>1. \A i \in 1 .. k + 1 : i = k + 1 \/ (i \in 1 .. k /\ i # k + 1)
    BY <1>9
  <2>2. ASSUME NEW i \in 1 .. k
        PROVE  /\ pcb'[jb[t][i]].parent = IF i = 1 THEN None ELSE jb[t][i - 1]
               /\ pcb'[jb[t][i]].term_id = t
               /\ jb[t][i] # new
               /\ \A j \in 1 .. k : jb[t][i] = jb[t][j] => i = j
    <3>1. /\ pcb[AllJobs[t][i]].parent = IF i = 1 THEN None ELSE AllJobs[t][i - 1]
          /\ pcb[AllJobs[t][i]].term_id = t
          /\ \A j \in 1 .. k : AllJobs[t][i] = AllJobs[t][j] => i = j
          /\ AllJobs[t][i] \in Pids \ {new}
      BY <1>1, <1>6 DEF JobLine
    <3>2. i # 1 => i - 1 \in 1 .. k
      BY <1>9
    <3>. QED
      BY <1>2, <1>9, <3>1, <3>2, ZenonT(60)
  <2>3. pcb'[new].parent = IF k + 1 = 1 THEN None ELSE jb[t][k + 1 - 1]
    <3>1. parent = IF AllJobs[t] = << >> THEN None ELSE AllJobs[t][k]
      BY <1>1, <1>6 DEF JobLine
    <3>2. AllJobs[t] = << >> <=> k = 0
      BY <1>1, <1>6
    <3>3. k # 0 => k \in 1 .. k
      BY <1>9
    <3>. QED
      BY <1>2, <1>9, <3>1, <3>2, <3>3
  <2>4. term'[t].running_pid = jb[t][Len(jb[t])]
    BY <1>1, <1>2, <1>9
  <2>5. \A i \in 1 .. k + 1 :
          /\ pcb'[jb[t][i]].parent = IF i = 1 THEN None ELSE jb[t][i - 1]
          /\ pcb'[jb[t][i]].term_id = t
          /\ \A j \in 1 .. k + 1 : jb[t][i] = jb[t][j] => i = j
    BY <1>2, <1>9, <2>1, <2>2, <2>3
  <2>. QED
    BY <1>9, <2>4, <2>5 DEF JobLine
<1>12. \A p \in Pids :
         InUse(p)' <=> \E u \in Terms : \E i \in 1 .. Len(jb[u]) : jb[u][i] = p
  <2>1. \A i \in 1 .. Len(AllJobs[t]) + 1 :
          i = Len(AllJobs[t]) + 1 \/ i \in 1 .. Len(AllJobs[t])
    BY <1>9
  <2>2. /\ \A i \in 1 .. Len(AllJobs[t]) : i \in 1 .. Len(AllJobs[t]) + 1
        /\ Len(AllJobs[t]) + 1 \in 1 .. Len(AllJobs[t]) + 1
    BY <1>9
  <2>3. \A p \in Pids :
          (\E i \in 1 .. Len(jb[t]) : jb[t][i] = p)
            <=> p = new \/ \E i \in 1 .. Len(AllJobs[t]) : AllJobs[t][i] = p
    BY <1>9, <2>1, <2>2
  <2>4. \A p \in Pids : InUse(p)' <=> (p = new \/ pid_array[p])
    BY <1>2, <1>3, InUseMarked
  <2> DEFINE In(s, p) == \E i \in 1 .. Len(s) : s[i] = p
  <2>5. SUFFICES ASSUME NEW p \in Pids
                 PROVE  InUse(p)' <=> \E u \in Terms : In(jb[u], p)
    OBVIOUS
  <2>6. pid_array[p] <=> \E u \in Terms : In(AllJobs[u], p)
    BY <1>5
  <2>7. In(jb[t], p) <=> p = new \/ In(AllJobs[t], p)
    BY <2>3
  <2>8. \A u \in Terms \ {t} : In(jb[u], p) <=> In(AllJobs[u], p)
    BY <1>8
  <2>9. InUse(p)' <=> p = new \/ pid_array[p]
    BY <2>4
  <2>. HIDE DEF In
  <2>10. (\E u \in Terms : In(jb[u], p))
           <=> p = new \/ \E u \in Terms : In(AllJobs[u], p)
    BY <2>7, <2>8, Zenon
  <2>. QED
    BY <2>6, <2>9, <2>10
<1>13. JobsAre(jb)'
  BY <1>10, <1>11, <1>12 DEF JobsAre
<1>14. AllJobs' = jb /\ JobsInv'
  BY <1>13, JobsFoundNext
<1>15. new \notin JobControl!Live
  BY <1>6 DEF JobControl!Live, JobControl!Terms, Terms
<1>. QED
  BY <1>1, <1>7, <1>14, <1>15 DEF JobControl!Start

\* A job that ends is taken off the line of its terminal.
LEMMA LinePopped ==
  ASSUME JobsInv, pcb \in [Pids -> PCBs], NEW t \in Terms, NEW victim \in Pids,
         victim = term[t].running_pid,
         SameJobs(pcb'),
         \A u \in Terms :
           term'[u].running_pid = IF u = t THEN pcb[victim].parent
                                           ELSE term[u].running_pid,
         \A p \in Pids : InUse(p)' <=> InUse(p) /\ p # victim
  PROVE  JobsInv' /\ JobControl!Finish(t)
<1> DEFINE k == Len(AllJobs[t])
           front == SubSeq(AllJobs[t], 1, k - 1)
<1>1. /\ AllJobs \in [Terms -> Seq(Pids)] /\ JobsAre(AllJobs)
      /\ None \notin Pids
  BY ConstantsAssumption DEF JobsInv, None, Pids
<1>2. \A u \in Terms : /\ JobLine(AllJobs[u], u) /\ AllJobs[u] \in Seq(Pids)
                       /\ \A i \in 1 .. Len(AllJobs[u]) : AllJobs[u][i] \in Pids
  <2>1. \A u \in Terms : JobLine(AllJobs[u], u) /\ AllJobs[u] \in Seq(Pids)
    BY <1>1 DEF JobsAre
  <2>. QED
    BY <2>1
<1>3. AllJobs[t] # << >> /\ AllJobs[t][k] = victim
  BY <1>1, <1>2 DEF JobLine
<1>4. k \in Nat /\ k >= 1 /\ k \in 1 .. k
  BY <1>2, <1>3
<1>5. /\ front \in Seq(Pids) /\ Len(front) = k - 1
      /\ \A i \in 1 .. k - 1 : front[i] = AllJobs[t][i]
  <2>1. 1 \in Int /\ k - 1 \in Int /\ \A i \in 1 .. k - 1 : AllJobs[t][i] \in Pids
    BY <1>2, <1>4
  <2>. HIDE DEF k
  <2>2. /\ front \in Seq(Pids)
        /\ Len(front) = IF 1 <= k - 1 THEN (k - 1) - 1 + 1 ELSE 0
        /\ \A i \in 1 .. (k - 1) - 1 + 1 : front[i] = AllJobs[t][1 + i - 1]
    BY <2>1, SubSeqProperties
  <2>3. (k - 1) - 1 + 1 = k - 1 /\ \A i \in 1 .. k - 1 : 1 + i - 1 = i
    BY <1>4
  <2>. QED
    BY <1>4, <2>2, <2>3
<1>. HIDE DEF front
<1>6. \A i \in 1 .. k : /\ i = k \/ i \in 1 .. k - 1
                        /\ i \in 1 .. k - 1 => i # k /\ i \in 1 .. k
  BY <1>4
<1>7. \A i \in 1 .. k - 1 : i \in 1 .. k /\ i # k /\ (i # 1 => i - 1 \in 1 .. k - 1)
  BY <1>4
<1>8. PICK jb \in [Terms -> Seq(Pids)] : jb = [AllJobs EXCEPT ![t] = front]
  <2>1. [AllJobs EXCEPT ![t] = front] \in [Terms -> Seq(Pids)]
    BY <1>1, <1>5
  <2>. QED
    BY <2>1
<1>9. jb[t] = front /\ \A u \in Terms \ {t} : jb[u] = AllJobs[u]
  BY <1>1, <1>8
<1>10. ASSUME NEW u \in Terms \ {t}
       PROVE  JobLine(jb[u], u)'
  <2>1. JobLine(jb[u], u)
    BY <1>2, <1>9
  <2>2. \A i \in 1 .. Len(jb[u]) :
          /\ pcb'[jb[u][i]].parent = pcb[jb[u][i]].parent
          /\ pcb'[jb[u][i]].term_id = pcb[jb[u][i]].term_id
    BY <1>2, <1>9 DEF SameJobs
  <2>3. term'[u].running_pid = term[u].running_pid
    OBVIOUS
  <2>. QED
    BY <2>1, <2>2, <2>3 DEF JobLine
<1>11. JobLine(jb[t], t)'
  <2>1. /\ Len(jb[t]) = k - 1
        /\ \A i \in 1 .. k - 1 : jb[t][i] = AllJobs[t][i]
    BY <1>5, <1>9
  <2>2. \A i \in 1 .. k :
          /\ pcb[AllJobs[t][i]].parent = IF i = 1 THEN None ELSE AllJobs[t][i - 1]
          /\ pcb[AllJobs[t][i]].term_id = t
          /\ \A j \in 1 .. k : AllJobs[t][i] = AllJobs[t][j] => i = j
          /\ AllJobs[t][i] \in Pids
    BY <1>2 DEF JobLine
  <2>3. \A i \in 1 .. k - 1 :
          /\ pcb'[jb[t][i]].parent = IF i = 1 THEN None ELSE jb[t][i - 1]
          /\ pcb'[jb[t][i]].term_id = t
          /\ \A j \in 1 .. k - 1 : jb[t][i] = jb[t][j] => i = j
    <3>1. SUFFICES ASSUME NEW i \in 1 .. k - 1
                   PROVE  /\ pcb'[jb[t][i]].parent
                               = IF i = 1 THEN None ELSE jb[t][i - 1]
                          /\ pcb'[jb[t][i]].term_id = t
                          /\ \A j \in 1 .. k - 1 : jb[t][i] = jb[t][j] => i = j
      OBVIOUS
    <3>2. jb[t][i] = AllJobs[t][i] /\ i \in 1 .. k /\ jb[t][i] \in Pids
      BY <1>7, <2>1, <2>2
    <3>3. /\ pcb'[jb[t][i]].parent = pcb[jb[t][i]].parent
          /\ pcb'[jb[t][i]].term_id = pcb[jb[t][i]].term_id
      BY <3>2 DEF SameJobs
    <3>4. i # 1 => jb[t][i - 1] = AllJobs[t][i - 1]
      BY <1>7, <2>1
    <3>5. \A j \in 1 .. k - 1 : jb[t][j] = AllJobs[t][j] /\ j \in 1 .. k
      BY <1>7, <2>1
    <3>. QED
      BY <2>2, <3>2, <3>3, <3>4, <3>5
  <2>4. term'[t].running_pid = IF jb[t] = << >> THEN None ELSE jb[t][Len(jb[t])]
    <3>1. pcb[victim].parent = IF k = 1 THEN None ELSE AllJobs[t][k - 1]
      BY <1>3, <1>4, <2>2
    <3>2. jb[t] = << >> <=> k = 1
      <4>1. Len(jb[t]) = 0 <=> k = 1
        BY <1>4, <2>1
      <4>2. jb[t] = << >> <=> Len(jb[t]) = 0
        BY <1>5, <1>9, EmptySeq
      <4>. QED
        BY <4>1, <4>2
    <3>3. k # 1 => k - 1 \in 1 .. k - 1
      <4>. HIDE DEF k
      <4>1. k # 1 => k - 1 \in Nat /\ 1 <= k - 1
        BY <1>4
      <4>. QED
        BY <4>1
    <3>4. term'[t].running_pid = pcb[victim].parent
      OBVIOUS
    <3>5. k # 1 => AllJobs[t][k - 1] = jb[t][Len(jb[t])]
      BY <2>1, <3>3
    <3>. QED
      BY <3>1, <3>2, <3>4, <3>5
  <2>. QED
    BY <2>1, <2>3, <2>4 DEF JobLine
<1>12. \A p \in Pids :
         InUse(p)' <=> \E u \in Terms : \E i \in 1 .. Len(jb[u]) : jb[u][i] = p
  <2> DEFINE In(s, p) == \E i \in 1 .. Len(s) : s[i] = p
  <2>1. SUFFICES ASSUME NEW p \in Pids
                 PROVE  InUse(p)' <=> \E u \in Terms : In(jb[u], p)
    OBVIOUS
  <2>2. InUse(p) <=> \E u \in Terms : In(AllJobs[u], p)
    BY <1>1 DEF JobsAre
  <2>3. In(jb[t], p) <=> In(AllJobs[t], p) /\ p # victim
    <3>1. In(front, p) <=> \E i \in 1 .. k - 1 : AllJobs[t][i] = p
      BY <1>5
    <3>2. In(AllJobs[t], p) <=> \E i \in 1 .. k : AllJobs[t][i] = p
      OBVIOUS
    <3>3. \A i \in 1 .. k - 1 : AllJobs[t][i] # victim
      BY <1>2, <1>3, <1>4, <1>7 DEF JobLine
    <3>. QED
      BY <1>3, <1>6, <1>7, <1>9, <3>1, <3>2, <3>3
  <2>4. \A u \in Terms \ {t} :
          (In(jb[u], p) <=> In(AllJobs[u], p)) /\ ~In(jb[u], victim)
    <3>1. SUFFICES ASSUME NEW u \in Terms \ {t}
                   PROVE  ~In(AllJobs[u], victim)
      BY <1>9
    <3>2. pcb[victim].term_id = t
      BY <1>2, <1>3, <1>4 DEF JobLine
    <3>3. \A i \in 1 .. Len(AllJobs[u]) : pcb[AllJobs[u][i]].term_id = u
      BY <1>2 DEF JobLine
    <3>. QED
      BY <3>2, <3>3
  <2>5. InUse(p)' <=> InUse(p) /\ p # victim
    OBVIOUS
  <2>. HIDE DEF In
  <2>6. (\E u \in Terms : In(jb[u], p))
          <=> p # victim /\ \E u \in Terms : In(AllJobs[u], p)
    BY <2>3, <2>4
  <2>. QED
    BY <2>2, <2>5, <2>6
<1>13. JobsAre(jb)'
  BY <1>10, <1>11, <1>12 DEF JobsAre
<1>14. AllJobs' = jb /\ JobsInv'
  BY <1>13, JobsFoundNext
<1>. QED
  BY <1>3, <1>8, <1>14 DEF JobControl!Finish, front

\* Saving a context of a process changes no job.
LEMMA SavedJobs ==
  ASSUME NEW pcbs, SameJobs(pcbs), NEW p \in Pids, NEW pt \in SavedPoints
  PROVE  SameJobs(Saved(pcbs, p, pt))
<1>1. pcbs \in [Pids -> PCBs]
  BY DEF SameJobs
<1>2. Saved(pcbs, p, pt) \in [Pids -> PCBs]
  BY <1>1, SavedPCBs
<1>3. \A q \in Pids : /\ Saved(pcbs, p, pt)[q].parent = pcbs[q].parent
                      /\ Saved(pcbs, p, pt)[q].term_id = pcbs[q].term_id
  BY <1>1 DEF Saved, PCBs
<1>. QED
  BY <1>2, <1>3 DEF SameJobs

\* Between two moments at which no halt is between freeing and handing back, a
\* step that leaves pid_array alone leaves the pids in use.
LEMMA JobsRest ==
  ASSUME JobsInv, SameJobs(pcb'), UNCHANGED pid_array,
         \A t \in Terms : term'[t].running_pid = term[t].running_pid,
         \/ UNCHANGED cpu
         \/ Op # "handback" /\ Op' # "handback"
  PROVE  JobsInv' /\ AllJobs' = AllJobs
<1>1. \A p \in Pids : InUse(p)' <=> InUse(p)
  BY DEF InUse, Op, UserMode
<1>. QED
  BY <1>1, JobsUntouched

\* halt_func frees the pid.
LEMMA HaltFreeJobs ==
  ASSUME TypeOK, TerminalsKept, FrameKept, JobsInv, HaltFree
  PROVE  /\ JobsInv'
         /\ AllJobs' = AllJobs \/ \E t \in Terms : JobControl!Finish(t)
<1> DEFINE fr == Head(cpu.todo)
           victim == fr.victim
           t == running_term
           parent == pcb[victim].parent
<1>1. cpu \in Points /\ Op = "free" /\ fr \in Frames /\ Op # "user"
  BY KernelMode DEF HaltFree, TypeOK
<1>2. fr.term = t /\ victim \in Pids /\ victim = term[t].running_pid
      /\ t \in Terms /\ None \notin Pids
  BY <1>1, ConstantsAssumption DEF FrameKept, TypeOK, None, Pids
<1>3. pid_array[victim] /\ parent \in Pids \cup {None}
  BY <1>1, <1>2 DEF TerminalsKept, TypeOK, PCBs
<1>4. \A p \in Pids : pid_array'[p] <=> pid_array[p] /\ p # victim
  BY <1>2 DEF HaltFree, TypeOK
<1>5. SameJobs(pcb')
  BY DEF HaltFree, SameJobs, TypeOK
<1>6. CASE parent = None
  <2>1. cpu' = Goto("shell")
        /\ term' = [term EXCEPT ![t].running_pid = None]
    BY <1>2, <1>6 DEF HaltFree
  <2>2. Op' = "shell"
    BY <1>1, <2>1, AtGoto DEF Ops
  <2>3. \A u \in Terms : term'[u].running_pid
                           = IF u = t THEN parent ELSE term[u].running_pid
    BY <1>2, <1>6, <2>1 DEF TypeOK
  <2>4. \A p \in Pids : InUse(p)' <=> InUse(p) /\ p # victim
    BY <1>1, <1>4, <2>2, InUseMarked
  <2>5. JobsInv' /\ JobControl!Finish(t)
    BY <1>2, <1>5, <2>3, <2>4, LinePopped DEF TypeOK
  <2>. QED
    BY <1>2, <2>5
<1>7. CASE parent # None
  <2> DEFINE next == [fr EXCEPT !.op = "handback", !.parent = parent]
  <2>1. next \in Frames /\ next.op = "handback" /\ next.victim = victim
    BY <1>1, <1>3, <1>7 DEF Frames, Ops
  <2>2. cpu' = [proc |-> cpu.proc, stack |-> cpu.stack, pos |-> cpu.pos,
                todo |-> << next >> \o Tail(cpu.todo)] /\ UNCHANGED term
    BY <1>1, <1>7 DEF HaltFree, Points
  <2>3. Tail(cpu.todo) \in Seq(Frames)
    BY <1>1, KernelMode
  <2>. HIDE DEF next
  <2>4. Op' = "handback" /\ Head(cpu'.todo) = next
    BY <2>1, <2>2, <2>3, AtTop
  <2>5. \A p \in Pids : InUse(p)' <=> InUse(p)
    <3>1. \A p \in Pids : InUse(p)' <=> pid_array'[p] \/ p = victim
      BY <2>1, <2>4 DEF InUse
    <3>2. \A p \in Pids : InUse(p) <=> pid_array[p]
      BY <1>1 DEF InUse
    <3>. QED
      BY <1>3, <1>4, <3>1, <3>2
  <2>6. JobsInv' /\ AllJobs' = AllJobs
    BY <1>5, <2>2, <2>5, JobsUntouched
  <2>. QED
    BY <2>6
<1>. QED
  BY <1>6, <1>7

\* halt_func hands the terminal back to the parent.
LEMMA HandBackJobs ==
  ASSUME TypeOK, FrameKept, JobsInv, HandBack
  PROVE  JobsInv' /\ \E t \in Terms : JobControl!Finish(t)
<1> DEFINE fr == Head(cpu.todo)
           victim == fr.victim
           t == running_term
<1>1. cpu \in Points /\ Op = "handback" /\ fr \in Frames /\ Op # "user"
      /\ fr.parent # None
  BY KernelMode DEF HandBack, TypeOK, Frames
<1>2. /\ fr.term = t /\ victim \in Pids /\ victim = term[t].running_pid
      /\ ~pid_array[victim] /\ fr.parent = pcb[victim].parent
      /\ t \in Terms
  BY <1>1 DEF FrameKept, TypeOK
<1>3. SameJobs(pcb')
  BY DEF HandBack, SameJobs, TypeOK
<1>4. Op' = "esp0"
  BY <1>1, AtGoto DEF HandBack, Ops
<1>5. \A u \in Terms : term'[u].running_pid
                         = IF u = t THEN pcb[victim].parent ELSE term[u].running_pid
  BY <1>2 DEF HandBack, TypeOK
<1>6. \A p \in Pids : InUse(p)' <=> InUse(p) /\ p # victim
  <2>1. \A p \in Pids : InUse(p)' <=> pid_array[p]
    BY <1>4, InUseMarked DEF HandBack
  <2>2. \A p \in Pids : InUse(p) <=> pid_array[p] \/ p = victim
    BY <1>1 DEF InUse
  <2>. QED
    BY <1>2, <2>1, <2>2
<1>7. JobsInv' /\ JobControl!Finish(t)
  BY <1>2, <1>3, <1>5, <1>6, LinePopped DEF TypeOK
<1>. QED
  BY <1>2, <1>7

\* The boot leaves one job, the first shell, on terminal 0.
LEMMA InitJobs ==
  ASSUME Init
  PROVE  JobsInv /\ JobControl!Init
<1>1. 0 \in Pids /\ 0 \in Terms /\ None \notin Pids
  BY ConstantsAssumption DEF Pids, Terms, None
<1>2. PICK jb \in [Terms -> Seq(Pids)] :
        jb = [t \in Terms |-> IF t = 0 THEN << 0 >> ELSE << >>]
  <2>1. << 0 >> \in Seq(Pids) /\ << >> \in Seq(Pids)
    BY <1>1
  <2>2. [t \in Terms |-> IF t = 0 THEN << 0 >> ELSE << >>] \in [Terms -> Seq(Pids)]
    BY <2>1
  <2>. QED
    BY <2>2
<1>3. Op = "user"
  BY DEF Init, User, Op, UserMode
<1>4. ASSUME NEW t \in Terms
      PROVE  JobLine(jb[t], t)
  <2>1. CASE t = 0
    <3>1. jb[t] = << 0 >> /\ Len(jb[t]) = 1 /\ jb[t][1] = 0 /\ jb[t] # << >>
      BY <1>2, <2>1
    <3>2. \A i \in 1 .. 1 : i = 1
      OBVIOUS
    <3>3. pcb[0].parent = None /\ pcb[0].term_id = 0 /\ term[0].running_pid = 0
      BY <1>1 DEF Init
    <3>. QED
      BY <2>1, <3>1, <3>2, <3>3 DEF JobLine
  <2>2. CASE t # 0
    <3>1. jb[t] = << >> /\ Len(jb[t]) = 0 /\ term[t].running_pid = None
      BY <1>2, <2>2 DEF Init
    <3>. QED
      BY <3>1 DEF JobLine
  <2>. QED
    BY <2>1, <2>2
<1>5. \A p \in Pids :
        InUse(p) <=> \E t \in Terms : \E i \in 1 .. Len(jb[t]) : jb[t][i] = p
  <2>1. \A p \in Pids : InUse(p) <=> p = 0
    BY <1>3 DEF InUse, Init
  <2>2. jb[0] = << 0 >> /\ Len(jb[0]) = 1 /\ jb[0][1] = 0
    BY <1>1, <1>2
  <2>3. \A t \in Terms \ {0} : Len(jb[t]) = 0
    BY <1>2
  <2>4. \A i \in 1 .. 1 : i = 1
    OBVIOUS
  <2>. QED
    BY <1>1, <2>1, <2>2, <2>3, <2>4
<1>6. AllJobs = jb /\ JobsInv
  BY <1>4, <1>5, JobsFound DEF JobsAre
<1>7. JobControl!Init
  BY <1>2, <1>6 DEF JobControl!Init, JobControl!Terms, Terms
<1>. QED
  BY <1>6, <1>7

\* Every step keeps the lines, and is a step of Jobs or leaves them alone.
LEMMA NextJobs ==
  ASSUME Hazards \cap (Windows \cup {"bgexec"}) = {},
         TypeOK, ParentsKept, TerminalsKept, ContextsKept, FrameKept,
         JobsInv, Next
  PROVE  JobsInv' /\ (JobControl!Next \/ AllJobs' = AllJobs)
<1>1. /\ cpu \in Points /\ tss_esp0 \in Places /\ pcb \in [Pids -> PCBs]
      /\ 0 \in Terms /\ curr_term \in Terms /\ running_term \in Terms
      /\ None \notin Pids
  BY ConstantsAssumption DEF TypeOK, Terms, None, Pids
<1>2. SameJobs(pcb) /\ SameJobs(Push(Entry))
  BY <1>1, PushKeeps DEF SameJobs
<1>3. UserMode => /\ Op = "user" /\ cpu.todo = << >>
                  /\ Here(Entry) \in SavedPoints /\ cpu.todo \in Seq(Frames)
  <2>1. Frame("sys", 0) \in Frames
    BY <1>1, KernelFrame DEF Ops
  <2>. QED
    BY <1>1, <2>1, EnterPoint, PointFacts DEF Op, UserMode
<1>4. \A t \in Terms : \A o \in {"sys", "kbdhalt", "kbdlaunch"} :
        Frame(o, t) \in Frames /\ Frame(o, t).op = o
  BY KernelFrame DEF Ops, Frame
<1>5. \A fr \in Frames : cpu' = Enter(Entry, fr) => Op' = fr.op
  <2>1. SUFFICES ASSUME NEW fr \in Frames, cpu' = Enter(Entry, fr)
                 PROVE  Op' = fr.op
    OBVIOUS
  <2>2. cpu' = [proc |-> cpu.proc, stack |-> Entry.stack, pos |-> Entry.pos,
                todo |-> << fr >> \o cpu.todo]
    BY <2>1 DEF Enter
  <2>3. cpu.todo \in Seq(Frames)
    BY <1>1, PointFacts
  <2>. QED
    BY <2>2, <2>3, AtTop
<1>6. ASSUME NEW t \in Terms, JobControl!Finish(t) \/ \E p \in Pids : JobControl!Start(t, p)
      PROVE  JobControl!Next
  BY <1>6 DEF JobControl!Next, JobControl!Terms, JobControl!Pids, Terms, Pids
<1>7. ASSUME NEW pcbs, SameJobs(pcbs), NEW caller \in SavedPoints,
             Free # {}, StartProcess(pcbs, term, caller), Op # "handback"
      PROVE  JobsInv' /\ JobControl!Next
  BY <1>1, <1>6, <1>7, StartProcessJobs
<1>8. ASSUME NEW pcbs, SameJobs(pcbs), NEW point \in SavedPoints,
             NEW below \in Seq(Frames), Op # "handback",
             HaltDisplayed(pcbs, point, below), UNCHANGED pid_array
      PROVE  JobsInv' /\ AllJobs' = AllJobs
  <2> DEFINE running == term[running_term].running_pid
             victim == term[curr_term].running_pid
             fr == HaltFrame(victim, curr_term)
  <2>1. running \in Pids \cup {None} /\ victim \in Pids \cup {None}
    BY <1>1 DEF TypeOK
  <2>2. CASE victim = None \/ (running_term # curr_term /\ running = None)
    BY <1>2, <1>8, <2>2, JobsRest DEF HaltDisplayed
  <2>3. CASE ~(victim = None \/ (running_term # curr_term /\ running = None))
    <3>1. fr \in Frames /\ fr.op = "free"
      BY <1>1, <2>1, <2>3 DEF HaltFrame, Frames, Ops
    <3>2. cpu' = [proc |-> point.proc, stack |-> point.stack, pos |-> point.pos,
                  todo |-> << fr >> \o below]
      BY <1>8, <2>3 DEF HaltDisplayed, SavedPoints, Points
    <3>. HIDE DEF fr
    <3>3. Op' = "free"
      BY <1>8, <3>1, <3>2, AtTop
    <3>4. CASE running_term = curr_term
      BY <1>8, <2>3, <3>3, <3>4, JobsRest DEF HaltDisplayed
    <3>5. CASE running_term # curr_term
      <4>1. /\ pcb' = Saved(pcbs, running, point)
            /\ term' = [term EXCEPT ![running_term].esp0 = tss_esp0]
        BY <1>8, <2>3, <3>5 DEF HaltDisplayed
      <4>2. SameJobs(pcb')
        BY <1>8, <2>1, <2>3, <3>5, <4>1, SavedJobs
      <4>3. \A t \in Terms : term'[t].running_pid = term[t].running_pid
        BY <1>1, <4>1 DEF TypeOK
      <4>. QED
        BY <1>8, <3>3, <4>2, <4>3, JobsRest
    <3>. QED
      BY <3>4, <3>5
  <2>. QED
    BY <2>2, <2>3
<1>9. CASE Execute
  BY <1>2, <1>3, <1>7, <1>9 DEF Execute
<1>10. CASE ExecuteFails
  BY <1>2, <1>10, JobsRest DEF ExecuteFails
<1>11. CASE SysCall
  <2>1. Op = "user" /\ Op' = "sys"
    BY <1>1, <1>3, <1>4, <1>5, <1>11 DEF SysCall
  <2>. QED
    BY <1>2, <1>11, <2>1, JobsRest DEF SysCall
<1>12. CASE SysReturn
  <2>1. Op = "sys" /\ Op' \in {"user", "sys"}
    BY <1>1, <1>12, AtReturn DEF SysReturn
  <2>. QED
    BY <1>2, <1>12, <2>1, JobsRest DEF SysReturn
<1>13. CASE VidMap
  BY <1>2, <1>13, JobsRest DEF VidMap
<1>14. CASE Halt
  <2> DEFINE fr == HaltFrame(cur_pid, pcb[cur_pid].term_id)
  <2>1. fr \in Frames /\ fr.op = "free"
    BY DEF HaltFrame, Frames, Ops, TypeOK, PCBs
  <2>2. cpu' = Enter(Entry, fr)
    BY <1>14 DEF Halt
  <2>. HIDE DEF fr
  <2>3. Op = "user" /\ Op' = "free"
    BY <1>3, <1>5, <1>14, <2>1, <2>2 DEF Halt
  <2>. QED
    BY <1>2, <1>14, <2>3, JobsRest DEF Halt
<1>15. CASE Halt1
  BY <1>2, <1>3, <1>8, <1>15 DEF Halt1
<1>16. CASE HaltFree
  BY <1>6, <1>16, HaltFreeJobs
<1>17. CASE HandBack
  BY <1>6, <1>17, HandBackJobs
<1>18. CASE RestoreEsp0
  <2>1. Op = "esp0" /\ Op' = "leave"
    BY <1>1, <1>18, KernelMode, AtGoto DEF RestoreEsp0, Ops, Frames
  <2>. QED
    BY <1>2, <1>18, <2>1, JobsRest DEF RestoreEsp0
<1>19. CASE LeaveExecute
  <2> DEFINE victim == Head(cpu.todo).victim
             esp == pcb[victim].esp
  <2>1. Op = "leave" /\ victim \in Pids
    BY <1>1, <1>19, KernelMode DEF LeaveExecute, Frames
  <2>2. CASE esp = Dead
    BY <1>2, <1>19, <2>2, JobsRest DEF LeaveExecute
  <2>3. CASE esp # Dead
    <3>1. cpu' = Resume(esp) /\ pcb' = [pcb EXCEPT ![victim].esp = Dead]
      BY <1>19, <2>3 DEF LeaveExecute
    <3>2. esp \in SavedPoints /\ Calm(esp.todo)
      BY <1>1, <2>1, <2>3 DEF PCBs, ContextsKept, ContextOf
    <3>. HIDE DEF esp
    <3>3. Op' \in {"user", "sys"}
      BY <3>1, <3>2, AtResume
    <3>4. SameJobs(pcb')
      <4>1. pcb' \in [Pids -> PCBs]
        BY <1>1, <2>1, <3>1, DeadPoint DEF PCBs
      <4>2. \A p \in Pids : /\ pcb'[p].parent = pcb[p].parent
                            /\ pcb'[p].term_id = pcb[p].term_id
        BY <1>1, <2>1, <3>1 DEF PCBs
      <4>. QED
        BY <4>1, <4>2 DEF SameJobs
    <3>. QED
      BY <1>19, <2>1, <3>3, <3>4, JobsRest DEF LeaveExecute
  <2>. QED
    BY <2>2, <2>3
<1>20. CASE StartShell
  <2>1. Op \in {"shell", "launched"}
    BY <1>20 DEF StartShell
  <2>2. CASE Free # {}
    <3> DEFINE caller == IF Op = "shell" THEN Dead ELSE [cpu EXCEPT !.todo = Tail(@)]
    <3>1. caller \in SavedPoints
      BY <1>1, <2>1, BelowPoint, DeadPoint
    <3>. HIDE DEF caller
    <3>2. StartProcess(pcb, term, caller)
      BY <1>20, <2>2 DEF StartShell, caller
    <3>. QED
      BY <1>2, <1>7, <2>1, <2>2, <3>1, <3>2
  <2>3. CASE Free = {}
    <3>1. UNCHANGED cpu \/ (Op = "launched" /\ cpu' = Return)
      BY <1>20, <2>1, <2>3 DEF StartShell
    <3>2. UNCHANGED cpu \/ Op' \in {"user", "sys"}
      BY <1>1, <3>1, AtReturn
    <3>. QED
      BY <1>2, <1>20, <2>1, <2>3, <3>2, JobsRest DEF StartShell
  <2>. QED
    BY <2>2, <2>3
<1>21. CASE CtrlC \/ \E t \in Terms : AltF(t)
  <2>1. PICK fr \in Frames : fr.op \in {"kbdhalt", "kbdlaunch"} /\ Key(fr)
    <3>1. CtrlC => Frame("kbdhalt", 0) \in Frames /\ Key(Frame("kbdhalt", 0))
      BY <1>1, <1>4 DEF CtrlC
    <3>. QED
      BY <1>1, <1>4, <1>21, <3>1 DEF AltF
  <2>2. Op \in {"user", "sys"}
    BY <2>1, WindowsClosed DEF Key
  <2>3. Op' = fr.op
    BY <1>5, <2>1 DEF Key
  <2>. QED
    BY <1>2, <2>1, <2>2, <2>3, JobsRest DEF Key
<1>22. CASE HaltFromKeyboard
  <2>1. [cpu EXCEPT !.todo = Tail(@)] \in SavedPoints /\ Tail(cpu.todo) \in Seq(Frames)
    BY <1>1, <1>22, BelowPoint, KernelMode DEF HaltFromKeyboard
  <2>. QED
    BY <1>2, <1>8, <1>22, <2>1 DEF HaltFromKeyboard
<1>23. CASE BeginSwitch
  <2>1. Op = "kbdlaunch"
    BY <1>23 DEF BeginSwitch
  <2>2. cpu' = Return \/ \E op \in {"newterm", "oldterm"} : cpu' = Goto(op)
    BY <1>23 DEF BeginSwitch
  <2>3. Op' \in {"user", "sys", "newterm", "oldterm"}
    BY <1>1, <2>1, <2>2, AtReturn, AtGoto DEF Ops
  <2>. QED
    BY <1>2, <1>23, <2>1, <2>3, JobsRest DEF BeginSwitch
<1>24. CASE ToNewTerminal
  <2> DEFINE running == term[running_term].running_pid
             point == [cpu EXCEPT !.todo = Tail(@)]
  <2>1. Op = "newterm" /\ running \in Pids \cup {None} /\ point \in SavedPoints
    BY <1>1, <1>24, BelowPoint DEF ToNewTerminal, TypeOK
  <2>2. CASE running = None
    BY <1>2, <1>24, <2>2, JobsRest DEF ToNewTerminal
  <2>3. CASE running # None
    <3>1. cpu' = Goto("launched") /\ pcb' = Saved(pcb, running, point)
      BY <1>24, <2>3 DEF ToNewTerminal
    <3>2. Op' = "launched"
      BY <1>1, <2>1, <3>1, AtGoto DEF Ops
    <3>. HIDE DEF point
    <3>3. SameJobs(pcb')
      BY <1>2, <2>1, <2>3, <3>1, SavedJobs
    <3>. QED
      BY <1>24, <2>1, <3>2, <3>3, JobsRest DEF ToNewTerminal
  <2>. QED
    BY <2>2, <2>3
<1>25. CASE ToOldTerminal
  <2>1. Op = "oldterm" /\ Op' \in {"user", "sys"}
    BY <1>1, <1>25, AtReturn DEF ToOldTerminal
  <2>. QED
    BY <1>2, <1>25, <2>1, JobsRest DEF ToOldTerminal
<1>26. CASE PIT
  <2> DEFINE old == term[running_term].running_pid
             process == term[next_term].running_pid
             saved == Saved(Push(Entry), old, Here(Entry))
             point == saved[process].curr_esp
  <2>1. Op \in {"user", "sys"}
    BY <1>26, WindowsClosed DEF PIT
  <2>2. CASE UNCHANGED cpu /\ UNCHANGED term /\ pcb' \in {pcb, Push(Entry)}
    BY <1>2, <1>26, <2>2, JobsRest DEF PIT
  <2>3. CASE /\ Schedules /\ old # None /\ process # None /\ point # Dead
    <3>1. /\ pcb' = [saved EXCEPT ![process].curr_esp = Dead]
          /\ term' = [term EXCEPT ![running_term].esp0 = tss_esp0]
          /\ UNCHANGED wild /\ UNCHANGED pid_array
      BY <1>26, <2>3 DEF PIT, Schedule
    <3>2. old \in Pids /\ process \in Pids
      BY <1>1, <2>3, NextTerm DEF TypeOK
    <3>3. Here(Entry) \in SavedPoints
      <4>1. Frame("sys", 0) \in Frames
        BY <1>1, <1>4
      <4>. QED
        BY <1>1, <4>1, EnterPoint
    <3>4. SameJobs(saved)
      BY <1>2, <3>2, <3>3, SavedJobs
    <3>. HIDE DEF saved, process, old
    <3>5. SameJobs(pcb')
      <4>1. pcb' = Saved(saved, process, Dead)
        BY <3>1 DEF Saved
      <4>. QED
        BY <3>2, <3>4, <4>1, DeadPoint, SavedJobs
    <3>6. \A t \in Terms : term'[t].running_pid = term[t].running_pid
      BY <1>1, <3>1 DEF TypeOK
    <3>7. Op' \in {"user", "sys"}
      <4>1. ~wild'
        BY <3>1 DEF Next
      <4>. QED
        BY <1>26, <2>1, <4>1, PITKeeps
    <3>. QED
      BY <2>1, <3>1, <3>5, <3>6, <3>7, JobsRest
  <2>4. CASE ~(Schedules /\ old # None /\ process # None /\ point # Dead)
    <3>1. UNCHANGED cpu /\ UNCHANGED term /\ pcb' \in {pcb, Push(Entry)}
      BY <1>26, <2>4 DEF PIT, Schedule
    <3>. QED
      BY <2>2, <3>1
  <2>. QED
    BY <2>3, <2>4
<1>. QED
  BY <1>9, <1>10, <1>11, <1>12, <1>13, <1>14, <1>15, <1>16, <1>17, <1>18, <1>19,
     <1>20, <1>21, <1>22, <1>23, <1>24, <1>25, <1>26
     DEF Next, Programs, KernelSteps, HaltSteps, LaunchSteps, Keyboard

\* A step that changes nothing keeps the lines.
LEMMA StutterJobs ==
  ASSUME JobsInv, UNCHANGED vars
  PROVE  JobsInv' /\ AllJobs' = AllJobs
<1>1. AllJobs' = AllJobs
  BY DEF vars, AllJobs, Jobs
<1>. QED
  BY <1>1 DEF vars, JobsInv, JobsAre, JobLine, InUse, Op, UserMode

(***************************************************************************)
(* Each terminal has a line of jobs from its base shell to the one in      *)
(* control of it, the lines share no pid and pid_array marks exactly their *)
(* pids: what execute_func and halt_func keep between the PCBs, pid_array  *)
(* and the terminal table.                                                 *)
(***************************************************************************)
THEOREM JobsInvariant ==
  ASSUME Hazards \cap (Windows \cup {"bgexec"}) = {}
  PROVE  Spec => []JobsInv
<1>1. Init => JobsInv
  BY InitJobs
<1>2. TypeOK /\ RunningContextInv /\ JobsInv /\ [Next]_vars => JobsInv'
  <2>1. SUFFICES ASSUME TypeOK, RunningContextInv, JobsInv, [Next]_vars
                 PROVE  JobsInv'
    OBVIOUS
  <2>2. CASE Next
    BY <2>1, <2>2, NextJobs DEF RunningContextInv, Next
  <2>3. CASE UNCHANGED vars
    BY <2>1, <2>3, StutterJobs
  <2>. QED
    BY <2>1, <2>2, <2>3
<1>. QED
  BY <1>1, <1>2, TypeCorrect, ContextInvariant, PTL DEF Spec

(***************************************************************************)
(* execute, halt and the terminal keys implement a stack of jobs for each  *)
(* terminal: every step of the kernel starts a job on a line, ends the top *)
(* job of one, or leaves the lines as they are.                            *)
(***************************************************************************)
THEOREM JobsRefined ==
  ASSUME Hazards \cap (Windows \cup {"bgexec"}) = {}
  PROVE  Spec => RefinesJobs
<1>1. Init => JobControl!Init
  BY InitJobs
<1>2. TypeOK /\ RunningContextInv /\ JobsInv /\ [Next]_vars
        => [JobControl!Next]_AllJobs
  <2>1. SUFFICES ASSUME TypeOK, RunningContextInv, JobsInv, [Next]_vars
                 PROVE  JobControl!Next \/ AllJobs' = AllJobs
    OBVIOUS
  <2>2. CASE Next
    BY <2>1, <2>2, NextJobs DEF RunningContextInv, Next
  <2>3. CASE UNCHANGED vars
    BY <2>1, <2>3, StutterJobs
  <2>. QED
    BY <2>1, <2>2, <2>3
<1>. QED
  BY <1>1, <1>2, TypeCorrect, ContextInvariant, JobsInvariant, PTL
     DEF Spec, RefinesJobs, JobControl!Spec

(***************************************************************************)
(* The pids marked in pid_array are those of the terminals' lines of jobs, *)
(* each in one line and marked with its terminal.                          *)
(***************************************************************************)
THEOREM PidsAccountedHolds ==
  ASSUME Hazards \cap (Windows \cup {"bgexec"}) = {}
  PROVE  Spec => []PidsAccounted
<1>1. TypeOK /\ JobsInv => PidsAccounted
  <2>1. SUFFICES ASSUME TypeOK, JobsInv, Settled
                 PROVE  PidsAccounted
    BY DEF PidsAccounted
  <2>2. /\ \A t \in Terms : AllJobs[t] = Jobs(t) /\ AllJobs[t] \in Seq(Pids)
        /\ \A t \in Terms : JobLine(AllJobs[t], t)
        /\ \A p \in Pids : InUse(p) <=>
             \E t \in Terms : \E i \in 1 .. Len(AllJobs[t]) : AllJobs[t][i] = p
    BY <2>1 DEF JobsInv, JobsAre, AllJobs
  <2>3. \A p \in Pids : InUse(p) <=> pid_array[p]
    BY <2>1, InUseMarked DEF Settled
  <2>4. \A t \in Terms : \A p : p \in JobSet(t) <=>
          \E i \in 1 .. Len(AllJobs[t]) : AllJobs[t][i] = p
    BY <2>2 DEF JobSet
  <2>5. \A t \in Terms : \A p \in JobSet(t) : p \in Pids
    BY <2>2, <2>4
  <2>6. {p \in Pids : pid_array[p]} = UNION {JobSet(t) : t \in Terms}
    BY <2>2, <2>3, <2>4, <2>5
  <2>7. \A t \in Terms : \A p \in JobSet(t) : pcb[p].term_id = t
    BY <2>2, <2>4 DEF JobLine
  <2>8. \A t, u \in Terms : t # u => JobSet(t) \cap JobSet(u) = {}
    BY <2>7
  <2>. QED
    BY <2>6, <2>7, <2>8 DEF PidsAccounted
<1>. QED
  BY <1>1, TypeCorrect, JobsInvariant, PTL

(***************************************************************************)
(* Every context that will be resumed is alive: that of the process each   *)
(* other terminal waits with, and the one in the parent of every job, for  *)
(* its halt to return through.                                             *)
(***************************************************************************)
THEOREM ContextsLiveHolds ==
  ASSUME Hazards \cap StackHazards = {}
  PROVE  Spec => []ContextsLive
<1>1. TypeOK /\ PidsAccounted /\ StacksInv => ContextsLive
  <2>1. SUFFICES ASSUME TypeOK, PidsAccounted, StacksInv, Settled
                 PROVE  ContextsLive
    BY DEF ContextsLive
  <2>2. \A t \in Terms : \A p \in JobSet(t) : p \in Pids /\ pid_array[p]
    BY <2>1 DEF PidsAccounted, StacksInv
  <2>. QED
    BY <2>1, <2>2 DEF ContextsLive, StacksInv, WaitingKept, OnOwnStack
<1>2. Hazards \cap (Windows \cup {"bgexec"}) = {}
  BY DEF StackHazards
<1>3. Spec => []PidsAccounted
  BY <1>2, PidsAccountedHolds
<1>. QED
  BY <1>1, <1>3, TypeCorrect, StacksInvariant, PTL
=============================================================================
