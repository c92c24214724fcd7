-------------------------- MODULE Interrupts_proofs --------------------------
(***************************************************************************)
(* Proofs about Interrupts, for every bound on keys and frames: the types, *)
(* that a handler ends its interrupt before it can leave its stack, that   *)
(* the order of entry keeps the kernel off the PCBs of no process, and     *)
(* that every terminal with a process keeps its context.                   *)
(***************************************************************************)
EXTENDS Interrupts, TLAPS

-----------------------------------------------------------------------------
(* Stacks of frames.                                                       *)

\* A sequence that is not empty is its head and its tail.
LEMMA TopOf ==
  ASSUME NEW S, NEW s \in Seq(S), s # << >>
  PROVE  Head(s) \in S /\ Tail(s) \in Seq(S)
OBVIOUS

\* What a push leaves.
LEMMA Pushed ==
  ASSUME NEW S, NEW s \in Seq(S), NEW f \in S
  PROVE  /\ << f >> \o s \in Seq(S)
         /\ << f >> \o s # << >>
         /\ Head(<< f >> \o s) = f
OBVIOUS

\* The step of entry that follows a step.
LEMMA StepAfter ==
  ASSUME NEW j \in 1 .. Len(Steps) - 1
  PROVE  After(Steps[j]) = Steps[j + 1]
<1>1. \A n \in 1 .. 10 : Steps[n] = Steps[j] => n = j
  <2>1. /\ Steps[1] = "i8259_init" /\ Steps[2] = "sti" /\ Steps[3] = "init_keyboard"
        /\ Steps[4] = "rtc_init" /\ Steps[5] = "rtc_enable" /\ Steps[6] = "prep_term"
        /\ Steps[7] = "pit_init" /\ Steps[8] = "init_term" /\ Steps[9] = "shell"
        /\ Steps[10] = "done" /\ Len(Steps) = 10
    BY DEF Steps
  <2>2. j \in 1 .. 9
    BY <2>1
  <2> HIDE DEF Steps
  <2> QED
    BY <2>1, <2>2, SMTT(30)
<1> DEFINE step == Steps[j]
           place == CHOOSE n \in 1 .. Len(Steps) : Steps[n] = step
<1>2. j \in 1 .. 9 /\ Len(Steps) = 10
  BY DEF Steps
<1>3. place = j
  <2> HIDE DEF Steps
  <2> QED
    BY <1>1, <1>2
<1>4. After(step) = Steps[1 + place]
  BY DEF After
<1> HIDE DEF place, step
<1>5. After(step) = Steps[j + 1]
  BY <1>2, <1>3, <1>4
<1> QED
  BY <1>5 DEF step

\* The order of entry.
LEMMA BootOrder ==
  /\ After("i8259_init") = "sti" /\ After("sti") = "init_keyboard"
  /\ After("init_keyboard") = "rtc_init" /\ After("rtc_init") = "rtc_enable"
  /\ After("rtc_enable") = "prep_term" /\ After("prep_term") = "pit_init"
  /\ After("pit_init") = "init_term" /\ After("init_term") = "shell"
  /\ After("shell") = "done"
<1>1. \A j \in 1 .. 9 : After(Steps[j]) = Steps[j + 1]
  BY StepAfter DEF Steps
<1>2. /\ Steps[1] = "i8259_init" /\ Steps[2] = "sti" /\ Steps[3] = "init_keyboard"
      /\ Steps[4] = "rtc_init" /\ Steps[5] = "rtc_enable" /\ Steps[6] = "prep_term"
      /\ Steps[7] = "pit_init" /\ Steps[8] = "init_term" /\ Steps[9] = "shell"
      /\ Steps[10] = "done"
  BY DEF Steps
<1> QED
  BY <1>1, <1>2

\* The names of the steps.
LEMMA BootNames ==
  Boots = {"i8259_init", "sti", "init_keyboard", "rtc_init", "rtc_enable",
           "prep_term", "pit_init", "init_term", "shell", "done"}
BY DEF Boots, Steps

-----------------------------------------------------------------------------
(* Types.                                                                  *)

\* get_next_process names a terminal, one with a process if there is one.
LEMMA NextTerm ==
  ASSUME ConstantsAssumption, TypeOK
  PROVE  /\ get_next_process \in Terms
         /\ Scheduling => running_pid[get_next_process] # "none"
<1> DEFINE Turn(n) == (running_term + n) % NumTerms
           live == {n \in 1 .. NumTerms : running_pid[Turn(n)] # "none"}
           first == CHOOSE n \in live : \A m \in live : n <= m
<1>1. NumTerms \in 1 .. 3 /\ running_term \in 0 .. NumTerms - 1
  BY DEF ConstantsAssumption, TypeOK, Terms
<1>2. \A n \in 1 .. NumTerms : Turn(n) \in Terms
  BY <1>1 DEF Terms
<1>3. ASSUME live # {} PROVE first \in live
  <2>1. live \subseteq 1 .. 3
    BY <1>1
  <2>2. \E n \in live : \A m \in live : n <= m
    <3> HIDE DEF live
    <3>1. CASE 1 \in live
      BY <2>1, <3>1
    <3>2. CASE 1 \notin live /\ 2 \in live
      BY <2>1, <3>2
    <3>3. CASE 1 \notin live /\ 2 \notin live
      <4>1. PICK n : n \in live
        BY <1>3
      <4>2. \A m \in live : m = 3
        BY <2>1, <3>3
      <4> QED
        BY <4>1, <4>2
    <3> QED
      BY <3>1, <3>2, <3>3
  <2> HIDE DEF live
  <2> QED
    BY <2>2
<1>4. ASSUME Scheduling PROVE live # {}
  <2>1. PICK t \in Terms : running_pid[t] # "none"
    BY <1>4 DEF Scheduling
  <2>2. \E n \in 1 .. NumTerms : Turn(n) = t
    <3>1. CASE t > running_term
      <4>1. t - running_term \in 1 .. NumTerms /\ Turn(t - running_term) = t
        BY <1>1, <2>1, <3>1 DEF Terms
      <4> QED
        BY <4>1
    <3>2. CASE t <= running_term
      <4>1. /\ t + NumTerms - running_term \in 1 .. NumTerms
            /\ Turn(t + NumTerms - running_term) = t
        BY <1>1, <2>1, <3>2 DEF Terms
      <4> QED
        BY <4>1
    <3> QED
      BY <1>1, <2>1, <3>1, <3>2 DEF Terms
  <2> QED
    BY <2>1, <2>2
<1>5. get_next_process = IF live = {} THEN running_term ELSE Turn(first)
  BY DEF get_next_process
<1>6. live # {} => Turn(first) \in Terms /\ running_pid[Turn(first)] # "none"
  BY <1>2, <1>3
<1>7. running_term \in Terms
  BY DEF TypeOK
<1> HIDE DEF live, first, Turn
<1> QED
  BY <1>4, <1>5, <1>6, <1>7

\* The machine as the boot loader leaves it.
LEMMA InitTypes == ConstantsAssumption /\ Init => TypeOK
<1> SUFFICES ASSUME ConstantsAssumption, Init PROVE TypeOK
  OBVIOUS
<1>1. boot \in Boots
  BY BootNames DEF Init
<1>2. 0 \in Terms
  BY DEF ConstantsAssumption, Terms
<1>3. stack \in [Terms -> Seq(Frames)] /\ key \in Seq(Keys)
  BY DEF Init
<1>4. running_pid \in [Terms -> {"zero", "none", "process"}]
  BY DEF Init
<1> QED
  BY <1>1, <1>2, <1>3, <1>4 DEF Init, TypeOK

\* The frame a handler goes on with, and the stacks it leaves.
LEMMA Replaced ==
  ASSUME TypeOK, Running # << >>, NEW fr \in Frames
  PROVE  Replace(fr) \in [Terms -> Seq(Frames)]
<1>1. Running \in Seq(Frames) /\ Tail(Running) \in Seq(Frames)
  BY TopOf DEF TypeOK, Running
<1>2. << fr >> \o Tail(Running) \in Seq(Frames)
  BY <1>1, Pushed
<1> QED
  BY <1>2 DEF TypeOK, Replace, Running

\* A device's frame goes on.
LEMMA WentTo ==
  ASSUME TypeOK, Running # << >>, Head(Running).irq \in Devices,
         NEW at \in {"begin", "sti", "act", "iret"}
  PROVE  GoTo(at) \in [Terms -> Seq(Frames)]
<1>1. Head(Running) \in Frames
  BY TopOf DEF TypeOK, Running
<1>2. Head(Running).irq # Exception
  BY DEF Devices, PIT_IRQ_NUM, KEYBOARD_IRQ, RTC_IRQ_NUM, Exception
<1>3. [Head(Running) EXCEPT !.at = at] \in Frames
  BY <1>1, <1>2 DEF Frames
<1> QED
  BY <1>3, Replaced DEF GoTo

\* A push on the running terminal's stack.
LEMMA PushTypes ==
  ASSUME TypeOK, NEW fr \in Frames
  PROVE  Push(fr) \in [Terms -> Seq(Frames)]
<1>1. << fr >> \o Running \in Seq(Frames)
  BY Pushed DEF TypeOK, Running
<1> QED
  BY <1>1 DEF TypeOK, Push, Running

\* What a frame that goes on has: the stack of a terminal that runs.
LEMMA AtFrame ==
  ASSUME TypeOK, NEW irq, NEW at, At(irq, at)
  PROVE  Running # << >> /\ Head(Running) \in Frames /\ Head(Running).irq = irq
BY TopOf DEF TypeOK, Running, At

\* Every step keeps the types.
LEMMA NextTypes == ConstantsAssumption /\ TypeOK /\ [Next]_vars => TypeOK'
<1> SUFFICES ASSUME ConstantsAssumption, TypeOK, [Next]_vars PROVE TypeOK'
  OBVIOUS
<1> USE DEF pic, devices, table
<1>0. /\ PIT_IRQ_NUM \in Devices /\ KEYBOARD_IRQ \in Devices
      /\ RTC_IRQ_NUM \in Devices /\ SLAVE_IRQ \in Lines /\ Devices \subseteq Lines
  BY DEF Devices, Lines
<1>1. ASSUME NEW l \in Devices, Accept(l) PROVE TypeOK'
  <2>1. [irq |-> l, at |-> "begin", i |-> 0] \in Frames
    BY DEF Frames, Keys
  <2>2. stack' \in [Terms -> Seq(Frames)]
    BY <1>1, <2>1, PushTypes DEF Accept
  <2> QED
    BY <1>0, <1>1, <2>2 DEF Accept, TypeOK
<1>2. CASE Sti
  <2>1. Head(Running) \in Frames /\ Head(Running).irq \in Devices
    BY <1>2, TopOf DEF Sti, TypeOK, Running, Frames
  <2>2. stack' \in [Terms -> Seq(Frames)]
    BY <1>2, <2>1, WentTo DEF Sti
  <2> QED
    BY <1>2, <2>2 DEF Sti, TypeOK
<1>3. CASE Iret
  <2>1. Tail(Running) \in Seq(Frames)
    BY <1>3, TopOf DEF Iret, TypeOK, Running
  <2>2. stack' \in [Terms -> Seq(Frames)]
    BY <1>3, <2>1 DEF Iret, TypeOK, Running
  <2> QED
    BY <1>3, <2>2 DEF Iret, TypeOK
<1>4. CASE Tick
  <2>1. stack' \in [Terms -> Seq(Frames)]
    BY <1>0, <1>4, AtFrame, WentTo DEF Tick, TickDo
  <2>2. running_term' \in Terms /\ lost' \in BOOLEAN
    BY <1>4, NextTerm DEF Tick, TickDo, TypeOK
  <2> QED
    BY <1>4, <2>1, <2>2 DEF Tick, TickDo, TypeOK, send_eoi
<1>5. CASE RtcTick
  <2>1. stack' \in [Terms -> Seq(Frames)]
    BY <1>0, <1>5, AtFrame, WentTo DEF RtcTick
  <2> QED
    BY <1>5, <2>1 DEF RtcTick, TypeOK, send_eoi
<1>6. CASE KeyRead
  <2>1. Head(key) \in Keys /\ Tail(key) \in Seq(Keys)
    BY <1>6, TopOf DEF KeyRead, TypeOK
  <2>2. [irq |-> KEYBOARD_IRQ, at |-> "sti", i |-> Head(key)] \in Frames
    BY <1>0, <2>1 DEF Frames
  <2>3. stack' \in [Terms -> Seq(Frames)]
    BY <1>6, <2>2, AtFrame, Replaced DEF KeyRead
  <2> QED
    BY <1>0, <1>6, <2>1, <2>3 DEF KeyRead, TypeOK, send_eoi
<1>7. CASE Plain
  <2>1. stack' \in [Terms -> Seq(Frames)]
    BY <1>0, <1>7, AtFrame, WentTo DEF Plain
  <2> QED
    BY <1>7, <2>1 DEF Plain, TypeOK
<1>8. CASE KeyHalt
  <2>1. GoTo("iret") \in [Terms -> Seq(Frames)]
    BY <1>0, <1>8, AtFrame, WentTo DEF KeyHalt
  <2>2. stack' \in [Terms -> Seq(Frames)]
    <3>1. stack' = [GoTo("iret") EXCEPT ![curr_term] = << >>]
      BY <1>8 DEF KeyHalt
    <3>2. curr_term \in Terms
      BY DEF TypeOK
    <3> QED
      BY <2>1, <3>1, <3>2
  <2> QED
    BY <1>8, <2>2 DEF KeyHalt, TypeOK
<1>9. CASE KeySwitch
  <2>1. PICK t \in Terms : Head(Running).i = t + 1 /\ At(KEYBOARD_IRQ, "act")
    BY <1>9 DEF KeySwitch, KeySwitchTo
  <2>2. stack' \in [Terms -> Seq(Frames)]
    BY <1>0, <1>9, <2>1, AtFrame, WentTo DEF KeySwitch, KeySwitchTo
  <2>3. curr_term' = t
    BY <1>9, <2>1 DEF KeySwitch, KeySwitchTo, Terms
  <2> QED
    BY <1>9, <2>2, <2>3 DEF KeySwitch, KeySwitchTo, TypeOK
<1>10. CASE KeyLaunch
  <2>1. PICK t \in Terms :
          /\ Launch(t) /\ curr_term' = t /\ running_term' = t
          /\ running_pid' = [running_pid EXCEPT ![t] = "process"]
          /\ stack' = [GoTo("iret") EXCEPT ![t] = << >>]
    BY <1>10 DEF KeyLaunch
  <2>2. GoTo("iret") \in [Terms -> Seq(Frames)]
    BY <1>0, <2>1, AtFrame, WentTo DEF Launch
  <2>3. stack' \in [Terms -> Seq(Frames)]
    BY <2>1, <2>2
  <2> QED
    BY <1>10, <2>1, <2>3 DEF KeyLaunch, TypeOK
<1>11. ASSUME Raise PROVE TypeOK'
  <2>1. [irq |-> Exception, at |-> "squash", i |-> 0] \in Frames
    BY DEF Frames
  <2>2. stack' \in [Terms -> Seq(Frames)]
    BY <1>11, <2>1, PushTypes DEF Raise
  <2> QED
    BY <1>11, <2>2 DEF Raise, TypeOK
<1>12. CASE Program
  BY <1>12 DEF Program, TypeOK
<1>13. CASE Boot
  <2>1. ASSUME NEW step \in Boots \ {"done"}, BootStep(step)
        PROVE  boot' \in Boots /\ due' = Devices
    BY <2>1, BootOrder, BootNames DEF BootStep, TypeOK
  <2> USE <1>0, <1>13, <2>1, BootNames DEF BootStep, TypeOK, enable_irq, disable_irq
  <2>2. CASE i8259_init
    BY <2>2 DEF i8259_init
  <2>3. CASE EntrySti
    BY <2>3 DEF EntrySti
  <2>4. CASE init_keyboard
    BY <2>4 DEF init_keyboard
  <2>5. CASE rtc_init
    BY <2>5 DEF rtc_init, Lines
  <2>6. CASE rtc_enable
    BY <2>6 DEF rtc_enable
  <2>7. CASE prep_term
    BY <2>7 DEF prep_term
  <2>8. CASE pit_init
    BY <2>8 DEF pit_init
  <2>9. CASE init_term
    BY <2>9 DEF init_term
  <2>10. CASE FirstShell
    BY <2>10 DEF FirstShell
  <2> QED
    BY <2>2, <2>3, <2>4, <2>5, <2>6, <2>7, <2>8, <2>9, <2>10 DEF Boot
<1>14. CASE PitRequest
  BY <1>0, <1>14 DEF PitRequest, Request, TypeOK
<1>15. CASE RtcRequest
  BY <1>0, <1>15 DEF RtcRequest, Request, TypeOK
<1>16. CASE KeyPress
  <2>1. PICK k \in Keys : /\ key' = Append(key, k)
                          /\ early' = (early \/ TooEarly(k))
    BY <1>16 DEF KeyPress
  <2>2. key' \in Seq(Keys) /\ early' \in BOOLEAN
    BY <2>1 DEF TypeOK
  <2> QED
    BY <1>0, <1>16, <2>2 DEF KeyPress, Request, TypeOK
<1>17. CASE UNCHANGED vars
  BY <1>17 DEF vars, TypeOK
<1> QED
  BY <1>1, <1>2, <1>3, <1>4, <1>5, <1>6, <1>7, <1>8, <1>9, <1>10, <1>11, <1>12,
     <1>13, <1>14, <1>15, <1>16, <1>17
  DEF Next, Interrupt, Handler, Fault, PageFault, Device, squash

\* The controllers, the stacks and the tables keep their types.
THEOREM TypeCorrect == Spec => []TypeOK
<1>1. ConstantsAssumption
  BY ConstantsAssumption
<1>2. Init => TypeOK
  BY <1>1, InitTypes
<1>3. TypeOK /\ [Next]_vars => TypeOK'
  BY <1>1, NextTypes
<1> QED
  BY <1>2, <1>3, PTL DEF Spec

-----------------------------------------------------------------------------
(* The end of every interrupt.                                             *)

\* Nothing is in service where interrupts are on, no frame runs or the frame
\* that runs is past its beginning.
LEMMA NoneInService ==
  ASSUME EndedBeforeLeaving,
         IF_ \/ Running = << >> \/ Head(Running).at # "begin"
  PROVE  isr = {}
BY DEF EndedBeforeLeaving

\* send_eoi ends what the handler that begins was called for.
LEMMA Ends ==
  ASSUME EndedBeforeLeaving, NEW irq \in Devices, At(irq, "begin")
  PROVE  send_eoi(irq) = {}
BY DEF EndedBeforeLeaving, At, send_eoi, Devices, PIT_IRQ_NUM, KEYBOARD_IRQ,
       RTC_IRQ_NUM, SLAVE_IRQ

\* Every step keeps it so.
LEMMA NextEnded ==
  TypeOK /\ EndedBeforeLeaving /\ [Next]_vars => EndedBeforeLeaving'
<1> SUFFICES ASSUME TypeOK, EndedBeforeLeaving, [Next]_vars
             PROVE  EndedBeforeLeaving'
  OBVIOUS
<1>0. ASSUME isr' = {} PROVE EndedBeforeLeaving'
  BY <1>0 DEF EndedBeforeLeaving
<1>1. ASSUME NEW l \in Devices, Accept(l) PROVE EndedBeforeLeaving'
  <2> DEFINE begin == [irq |-> l, at |-> "begin", i |-> 0]
  <2>1. isr = {} /\ running_term' = running_term /\ IF_' = FALSE
    BY <1>1, NoneInService DEF Accept
  <2>2. begin \in Frames
    BY DEF Frames, Keys
  <2>3. Running' = << begin >> \o Running
    BY <1>1 DEF Accept, Push, Running, TypeOK
  <2>4. Running' # << >> /\ Head(Running') = begin
    BY <2>2, <2>3, Pushed DEF TypeOK, Running
  <2>5. isr' = {l} \cup (IF l = RTC_IRQ_NUM THEN {SLAVE_IRQ} ELSE {})
    BY <1>1, <2>1 DEF Accept
  <2> QED
    BY <2>1, <2>4, <2>5 DEF EndedBeforeLeaving
<1>2. CASE Sti
  BY <1>0, <1>2, NoneInService DEF Sti, pic
<1>3. CASE Iret
  BY <1>0, <1>3, NoneInService DEF Iret, pic
<1>4. CASE Tick
  BY <1>0, <1>4, Ends DEF Tick, TickDo, Devices
<1>5. CASE RtcTick
  BY <1>0, <1>5, Ends DEF RtcTick, Devices
<1>6. CASE KeyRead
  BY <1>0, <1>6, Ends DEF KeyRead, Devices
<1>7. CASE Plain
  BY <1>0, <1>7, NoneInService DEF Plain, At, pic
<1>8. CASE KeyHalt
  BY <1>0, <1>8, NoneInService DEF KeyHalt, At, pic
<1>9. CASE KeySwitch
  BY <1>0, <1>9, NoneInService DEF KeySwitch, KeySwitchTo, At, pic
<1>10. CASE KeyLaunch
  BY <1>0, <1>10, NoneInService DEF KeyLaunch, Launch, At, pic
<1>11. CASE Fault
  BY <1>0, <1>11, NoneInService DEF Fault, InProgram, Raise, pic
<1>12. CASE PageFault
  BY <1>0, <1>12, NoneInService DEF PageFault, Launch, At, Raise, pic
<1>13. CASE Program
  BY <1>0, <1>13, NoneInService DEF Program, Uninterrupted, pic
<1>14. CASE Boot
  <2>1. Running = << >>
    BY <1>14 DEF Boot, i8259_init, EntrySti, init_keyboard, rtc_init, rtc_enable,
       prep_term, pit_init, init_term, FirstShell, BootStep, Uninterrupted
  <2>2. isr' = {}
    BY <1>14, <2>1, NoneInService DEF Boot, i8259_init, EntrySti, init_keyboard,
       rtc_init, rtc_enable, prep_term, pit_init, init_term, FirstShell, pic
  <2> QED
    BY <1>0, <2>2
<1>15. CASE Device \/ UNCHANGED vars
  <2>1. UNCHANGED << isr, IF_, running_term, stack >>
    BY <1>15 DEF Device, PitRequest, RtcRequest, KeyPress, vars, pic
  <2> QED
    BY <2>1 DEF EndedBeforeLeaving, Running
<1> QED
  BY <1>1, <1>2, <1>3, <1>4, <1>5, <1>6, <1>7, <1>8, <1>9, <1>10, <1>11, <1>12,
     <1>13, <1>14, <1>15
  DEF Next, Interrupt, Handler, squash

\* No handler leaves its stack, for another terminal, a parent or a new shell,
\* with the end of its interrupt unsent.
THEOREM EndsInterrupts == Spec => []EndedBeforeLeaving
<1>1. ConstantsAssumption
  BY ConstantsAssumption
<1>2. Init => EndedBeforeLeaving
  BY DEF Init, EndedBeforeLeaving
<1>3. TypeOK /\ EndedBeforeLeaving /\ [Next]_vars => EndedBeforeLeaving'
  BY NextEnded
<1> QED
  BY <1>1, <1>2, <1>3, TypeCorrect, PTL DEF Spec

-----------------------------------------------------------------------------
(***************************************************************************)
(* The order of entry.  Until prep_term the timer is masked and has no      *)
(* frame; from then on every terminal is without a process until the first  *)
(* shell; until that shell only editing keys wait or are being handled.     *)
(***************************************************************************)
BeforePrep == {"i8259_init", "sti", "init_keyboard", "rtc_init", "rtc_enable",
               "prep_term"}
Prepared   == {"pit_init", "init_term", "shell"}

EditFrames == {fr \in Frames : fr.i = 0}
NoTick     == {fr \in EditFrames : fr.irq # PIT_IRQ_NUM}
NoTimer    == {fr \in Frames : fr.irq # PIT_IRQ_NUM}

Booting ==
  /\ curr_term = 0 /\ running_term = 0
  /\ key \in Seq({0})
  /\ \A t \in Terms \ {0} : stack[t] = << >>
  /\ stack[0] \in Seq(EditFrames)
  /\ boot \in BeforePrep => PIT_IRQ_NUM \in masked /\ stack[0] \in Seq(NoTick)
  /\ boot \in Prepared => \A t \in Terms : running_pid[t] = "none"
  /\ boot = "shell" => vid_backup

Booted ==
  /\ vid_backup
  /\ \A t \in Terms : running_pid[t] \in {"none", "process"}
  /\ running_pid[curr_term] = "process" /\ running_pid[running_term] = "process"
  /\ \A t \in Terms \ {running_term} :
       running_pid[t] = "process" <=> stack[t] # << >>

OrderInv ==
  ~early => ~lost /\ IF boot = "done" THEN Booted ELSE Booting

\* The boot loader leaves the machine so.
LEMMA InitOrder == ConstantsAssumption /\ Init => OrderInv
BY DEF Init, OrderInv, Booting, BeforePrep, Prepared, Lines, Devices,
       ConstantsAssumption, Terms

\* A frame that goes on where it was stays one that the invariant allows.
LEMMA GoesOn ==
  ASSUME TypeOK, 0 \in Terms, running_term = 0, Running # << >>,
         NEW S \in {EditFrames, NoTick, NoTimer, Frames}, stack[0] \in Seq(S),
         NEW at \in {"begin", "sti", "act", "iret"},
         Head(Running).irq \in Devices
  PROVE  /\ GoTo(at)[0] \in Seq(S)
         /\ \A t \in Terms \ {0} : GoTo(at)[t] = stack[t]
<1>1. Head(Running) \in S /\ Tail(stack[0]) \in Seq(S)
  BY TopOf DEF Running
<1> DEFINE fr == [Head(Running) EXCEPT !.at = at]
<1>2. fr \in S
  <2>1. Head(Running) \in Frames
    BY <1>1 DEF NoTick, EditFrames, NoTimer
  <2>2. Head(Running).irq # Exception
    BY DEF Devices, PIT_IRQ_NUM, KEYBOARD_IRQ, RTC_IRQ_NUM, Exception
  <2>3. fr \in Frames /\ fr.irq = Head(Running).irq /\ fr.i = Head(Running).i
    BY <2>1, <2>2 DEF Frames
  <2> QED
    BY <1>1, <2>3 DEF NoTick, EditFrames, NoTimer
<1>3. << fr >> \o Tail(stack[0]) \in Seq(S)
  BY <1>1, <1>2, Pushed
<1> QED
  BY <1>3 DEF GoTo, Replace, TypeOK

\* The kernel before its first shell: every step that no early key takes part
\* in keeps the order.
LEMMA NextBooting ==
  ASSUME ConstantsAssumption, TypeOK, OrderInv, ~early, ~early', Next,
         boot # "done"
  PROVE  ~lost' /\ IF boot' = "done" THEN Booted' ELSE Booting'
<1> USE DEF pic, devices, table
<1>0. /\ ~lost /\ Booting /\ 0 \in Terms /\ stack \in [Terms -> Seq(Frames)]
      /\ boot \in BeforePrep \cup Prepared
  BY BootNames DEF OrderInv, ConstantsAssumption, Terms, TypeOK, BeforePrep,
     Prepared
<1>e. NoTick \subseteq EditFrames
  BY DEF NoTick
<1> DEFINE S == IF boot \in BeforePrep THEN NoTick ELSE EditFrames
<1>s. S \in {EditFrames, NoTick} /\ stack[0] \in Seq(S) /\ Running = stack[0]
  BY <1>0 DEF Booting, Running
<1>k. ASSUME stack'[0] \in Seq(S), \A t \in Terms \ {0} : stack'[t] = stack[t],
             key' \in Seq({0}),
             UNCHANGED << masked, boot, table, running_term, lost >>
      PROVE  ~lost' /\ boot' # "done" /\ Booting'
  <2>1. stack'[0] \in Seq(EditFrames)
    BY <1>e, <1>k
  <2> QED
    BY <1>0, <1>k, <2>1 DEF Booting
<1>h. ASSUME Running # << >> PROVE Head(Running).i = 0
  BY <1>s, <1>h, TopOf DEF EditFrames, NoTick
<1>1. ASSUME NEW l \in Devices, Accept(l) PROVE ~lost' /\ boot' # "done" /\ Booting'
  <2> DEFINE begin == [irq |-> l, at |-> "begin", i |-> 0]
  <2>1. boot \in BeforePrep => l # PIT_IRQ_NUM
    BY <1>0, <1>1 DEF Accept, Deliverable, Open, Booting
  <2>2. begin \in S
    BY <2>1 DEF EditFrames, NoTick, Frames, Keys
  <2>3. << begin >> \o stack[0] \in Seq(S)
    BY <1>s, <2>2, Pushed
  <2>4. stack' = [stack EXCEPT ![0] = << begin >> \o stack[0]]
    BY <1>0, <1>1 DEF Accept, Push, Booting
  <2> QED
    BY <1>0, <1>1, <1>k, <2>3, <2>4 DEF Accept, Booting
<1>2. CASE Sti
  <2>1. Head(Running).irq \in Devices
    BY <1>2, TopOf DEF Sti, TypeOK, Running, Frames
  <2> QED
    BY <1>0, <1>2, <1>k, <1>s, <2>1, GoesOn DEF Sti, Booting
<1>3. CASE Iret
  <2>1. Tail(stack[0]) \in Seq(S)
    BY <1>3, <1>s, TopOf DEF Iret
  <2> QED
    BY <1>0, <1>3, <1>k, <2>1 DEF Iret, Booting
<1>4. CASE Tick
  <2>1. Running # << >> /\ Head(Running).irq = PIT_IRQ_NUM
    BY <1>4 DEF Tick, TickDo, At
  <2>2. boot \notin BeforePrep
    BY <1>s, <2>1, TopOf DEF NoTick
  <2>3. ~Scheduling
    BY <1>0, <2>2 DEF Booting, Scheduling
  <2> QED
    BY <1>0, <1>4, <1>k, <1>s, <2>1, <2>3, GoesOn DEF Tick, TickDo, Booting, Devices
<1>5. CASE RtcTick
  BY <1>0, <1>5, <1>k, <1>s, GoesOn DEF RtcTick, At, Booting, Devices
<1>6. CASE KeyRead
  <2> DEFINE fr == [irq |-> KEYBOARD_IRQ, at |-> "sti", i |-> Head(key)]
  <2>1. Head(key) = 0 /\ key' \in Seq({0})
    BY <1>0, <1>6, TopOf DEF KeyRead, Booting
  <2>2. fr \in S
    BY <2>1 DEF EditFrames, NoTick, Frames, Keys, Devices, KEYBOARD_IRQ, PIT_IRQ_NUM
  <2>3. << fr >> \o Tail(stack[0]) \in Seq(S)
    BY <1>6, <1>s, <2>2, TopOf, Pushed DEF KeyRead, At
  <2>4. stack' = [stack EXCEPT ![0] = << fr >> \o Tail(stack[0])]
    BY <1>0, <1>6 DEF KeyRead, Replace, Booting
  <2> QED
    BY <1>0, <1>6, <1>k, <2>1, <2>3, <2>4 DEF KeyRead
<1>7. CASE Plain
  BY <1>0, <1>7, <1>k, <1>s, GoesOn DEF Plain, At, Booting, Devices
<1>8. ASSUME KeyHalt \/ KeySwitch \/ KeyLaunch \/ PageFault PROVE FALSE
  <2>1. Running # << >> /\ \/ Head(Running).i = CtrlC
                           \/ \E t \in Terms : Head(Running).i = t + 1
    BY <1>8 DEF KeyHalt, KeySwitch, KeySwitchTo, KeyLaunch, PageFault, Launch, At
  <2> QED
    BY <1>h, <2>1 DEF CtrlC, Terms, ConstantsAssumption
<1>9. ASSUME Fault \/ Program PROVE FALSE
  BY <1>9 DEF Fault, InProgram, Program
<1>10. CASE Boot
  <2> DEFINE Going(step, next) == BootStep(step) => boot = step /\ boot' = next
  <2>1. /\ Going("i8259_init", "sti") /\ Going("sti", "init_keyboard")
        /\ Going("init_keyboard", "rtc_init") /\ Going("rtc_init", "rtc_enable")
        /\ Going("rtc_enable", "prep_term") /\ Going("prep_term", "pit_init")
        /\ Going("pit_init", "init_term") /\ Going("init_term", "shell")
        /\ Going("shell", "done")
    BY BootOrder DEF BootStep
  <2>2. UNCHANGED << register_C, key, early, curr_term, running_term, stack, lost >>
    BY <1>10 DEF Boot, BootStep, i8259_init, EntrySti, init_keyboard, rtc_init,
       rtc_enable, prep_term, pit_init, init_term, FirstShell
  <2>3. stack'[0] \in Seq(EditFrames)
    BY <1>0, <2>2 DEF Booting
  <2> USE <1>0, <2>1, <2>2, <2>3 DEF Booting, BeforePrep, Prepared
  <2>4. CASE i8259_init
    BY <2>4 DEF i8259_init, Lines, Devices, PIT_IRQ_NUM, SLAVE_IRQ
  <2>5. CASE EntrySti
    BY <2>5 DEF EntrySti
  <2>6. CASE init_keyboard
    BY <2>6 DEF init_keyboard, enable_irq, PIT_IRQ_NUM, KEYBOARD_IRQ
  <2>7. CASE rtc_init
    BY <2>7 DEF rtc_init, disable_irq
  <2>8. CASE rtc_enable
    BY <2>8 DEF rtc_enable, enable_irq, PIT_IRQ_NUM, RTC_IRQ_NUM
  <2>9. CASE prep_term
    BY <2>9 DEF prep_term
  <2>10. CASE pit_init
    BY <2>10 DEF pit_init
  <2>11. CASE init_term
    BY <2>11 DEF init_term
  <2>12. CASE FirstShell
    <3>1. /\ running_pid' = [running_pid EXCEPT ![0] = "process"]
          /\ boot = "shell" /\ boot' = "done" /\ vid_backup'
      BY <2>12 DEF FirstShell
    <3>2. \A t \in Terms \ {0} : running_pid'[t] = "none"
      BY <3>1 DEF TypeOK
    <3>3. running_pid'[0] = "process"
      BY <3>1 DEF TypeOK
    <3> QED
      BY <3>1, <3>2, <3>3 DEF Booted
  <2> QED
    BY <1>10, <2>4, <2>5, <2>6, <2>7, <2>8, <2>9, <2>10, <2>11, <2>12 DEF Boot
<1>11. CASE Device
  <2>1. key' \in Seq({0})
    <3>1. CASE KeyPress
      <4>1. PICK k \in Keys : early' = (early \/ TooEarly(k)) /\ key' = Append(key, k)
        BY <3>1 DEF KeyPress
      <4>2. k = 0
        BY <4>1 DEF TooEarly
      <4> QED
        BY <1>0, <4>1, <4>2 DEF Booting
    <3> QED
      BY <1>0, <1>11, <3>1 DEF Device, PitRequest, RtcRequest, Booting
  <2>2. UNCHANGED << masked, boot, table, running_term, stack, lost >>
    BY <1>11 DEF Device, PitRequest, RtcRequest, KeyPress
  <2> QED
    BY <1>k, <1>s, <2>1, <2>2
<1>12. CASE squash
  BY <1>0, <1>12 DEF squash, vars, Booting
<1> QED
  BY <1>1, <1>2, <1>3, <1>4, <1>5, <1>6, <1>7, <1>8, <1>9, <1>10, <1>11, <1>12
  DEF Next, Interrupt, Handler

\* The kernel from its first shell on: every terminal with a process keeps a
\* frame while another runs.
LEMMA NextBooted ==
  ASSUME ConstantsAssumption, TypeOK, ~lost, Booted, Next, boot = "done"
  PROVE  ~lost' /\ boot' = "done" /\ Booted'
<1> USE DEF pic, devices, table
<1>0. /\ ~lost /\ Booted
      /\ running_pid \in [Terms -> {"zero", "none", "process"}]
      /\ stack \in [Terms -> Seq(Frames)]
      /\ running_term \in Terms /\ curr_term \in Terms
  BY DEF TypeOK
<1>k. ASSUME \A t \in Terms \ {running_term} : stack'[t] = stack[t],
             UNCHANGED << boot, table, running_term, lost >>
      PROVE  ~lost' /\ boot' = "done" /\ Booted'
  BY <1>0, <1>k DEF Booted
<1>g. ASSUME NEW at PROVE \A t \in Terms \ {running_term} : GoTo(at)[t] = stack[t]
  BY <1>0 DEF GoTo, Replace
<1>n. ASSUME Running # << >>, Head(Running).irq \in Devices,
             NEW at \in {"begin", "sti", "act", "iret"}
      PROVE  GoTo(at) \in [Terms -> Seq(Frames)] /\ GoTo(at)[running_term] # << >>
  <2> DEFINE fr == [Head(Running) EXCEPT !.at = at]
  <2>1. GoTo(at) \in [Terms -> Seq(Frames)]
    BY <1>n, WentTo
  <2>2. GoTo(at)[running_term] = << fr >> \o Tail(Running)
    BY <1>0 DEF GoTo, Replace, Running
  <2>3. Tail(Running) \in Seq(Frames)
    BY <1>0, <1>n, TopOf DEF Running
  <2>4. << fr >> \o Tail(Running) # << >>
    <3>1. Tail(Running) \in Seq(Frames \cup {fr}) /\ fr \in Frames \cup {fr}
      BY <2>3
    <3> HIDE DEF fr
    <3> QED
      BY <3>1, Pushed
  <2> QED
    BY <2>1, <2>2, <2>4
<1>1. ASSUME NEW l \in Devices, Accept(l) PROVE ~lost' /\ boot' = "done" /\ Booted'
  BY <1>0, <1>1, <1>k DEF Accept, Push
<1>2. CASE Sti
  BY <1>2, <1>g, <1>k DEF Sti
<1>3. CASE Iret
  BY <1>0, <1>3, <1>k DEF Iret
<1>4. CASE Tick
  <2>1. /\ Running # << >> /\ Head(Running).irq \in Devices
        /\ stack' = GoTo("sti")
        /\ UNCHANGED << boot, table >>
    BY <1>4 DEF Tick, TickDo, At, Devices
  <2>2. CASE ~Scheduling
    BY <1>4, <1>g, <1>k, <2>1, <2>2 DEF Tick, TickDo
  <2>3. CASE Scheduling
    <3> DEFINE next == get_next_process
    <3>1. next \in Terms /\ running_pid[next] = "process"
      BY <1>0, <2>3, NextTerm DEF Booted
    <3>2. running_term' = next
      BY <1>4, <2>3 DEF Tick, TickDo
    <3>3. next # running_term => stack[next] # << >>
      BY <1>0, <3>1 DEF Booted
    <3>4. lost' = (~(next # running_term => stack[next] # << >>)
                   \/ running_pid[running_term] # "process"
                   \/ running_pid[next] # "process")
      BY <1>4, <2>3 DEF Tick, TickDo
    <3>5. ~lost'
      BY <1>0, <3>1, <3>3, <3>4 DEF Booted
    <3>6. /\ stack'[running_term] # << >>
          /\ \A t \in Terms \ {running_term} : stack'[t] = stack[t]
      BY <1>g, <1>n, <2>1
    <3> HIDE DEF next
    <3> QED
      BY <1>0, <2>1, <3>1, <3>2, <3>5, <3>6 DEF Booted
  <2> QED
    BY <2>2, <2>3
<1>5. CASE RtcTick
  BY <1>5, <1>g, <1>k DEF RtcTick
<1>6. CASE KeyRead
  BY <1>0, <1>6, <1>k DEF KeyRead, Replace
<1>7. CASE Plain
  BY <1>7, <1>g, <1>k DEF Plain
<1>8. CASE KeyHalt
  <2>1. /\ Running # << >> /\ Head(Running).irq \in Devices
        /\ stack' = [GoTo("iret") EXCEPT ![curr_term] = << >>]
        /\ running_term' = curr_term
        /\ UNCHANGED << boot, table >>
    BY <1>8 DEF KeyHalt, At, Devices
  <2>2. /\ GoTo("iret") \in [Terms -> Seq(Frames)]
        /\ GoTo("iret")[running_term] # << >>
        /\ \A t \in Terms \ {running_term} : GoTo("iret")[t] = stack[t]
    BY <1>g, <1>n, <2>1
  <2>3. ~lost'
    BY <1>0, <1>8 DEF KeyHalt, Booted
  <2>4. \A t \in Terms \ {curr_term} :
          stack'[t] = GoTo("iret")[t]
    BY <2>1, <2>2
  <2> QED
    BY <1>0, <2>1, <2>2, <2>3, <2>4 DEF Booted
<1>9. CASE KeySwitch
  <2>1. PICK t \in Terms : /\ Head(Running).i = t + 1
                           /\ t = curr_term \/ running_pid[t] # "none"
    BY <1>9 DEF KeySwitch, KeySwitchTo
  <2>2. curr_term' = t
    BY <1>9, <2>1 DEF KeySwitch, KeySwitchTo, Terms
  <2>3. running_pid[t] = "process"
    BY <1>0, <2>1 DEF Booted
  <2>4. \A u \in Terms \ {running_term} : stack'[u] = stack[u]
    BY <1>9, <1>g DEF KeySwitch, KeySwitchTo
  <2> QED
    BY <1>0, <1>9, <2>2, <2>3, <2>4 DEF KeySwitch, KeySwitchTo, Booted
<1>10. CASE KeyLaunch
  <2>1. PICK t \in Terms :
          /\ Launch(t) /\ running_pid[t] = "none"
          /\ curr_term' = t /\ running_term' = t
          /\ running_pid' = [running_pid EXCEPT ![t] = "process"]
          /\ stack' = [GoTo("iret") EXCEPT ![t] = << >>]
    BY <1>10 DEF KeyLaunch
  <2>2. /\ GoTo("iret") \in [Terms -> Seq(Frames)]
        /\ GoTo("iret")[running_term] # << >>
        /\ \A u \in Terms \ {running_term} : GoTo("iret")[u] = stack[u]
    BY <1>g, <1>n, <2>1 DEF Launch, At, Devices
  <2>3. ~lost' /\ vid_backup' /\ boot' = "done" /\ t # running_term
    BY <1>0, <1>10, <2>1 DEF KeyLaunch, Booted
  <2>4. /\ running_pid'[t] = "process"
        /\ \A u \in Terms \ {t} : /\ running_pid'[u] = running_pid[u]
                                  /\ stack'[u] = GoTo("iret")[u]
    BY <1>0, <2>1, <2>2
  <2> QED
    BY ZenonT(60), <1>0, <2>1, <2>2, <2>3, <2>4 DEF Booted
<1>11. CASE Fault
  BY <1>0, <1>11, <1>k DEF Fault, Raise, Push
<1>12. ASSUME PageFault PROVE FALSE
  BY <1>0, <1>12 DEF PageFault, Booted
<1>13. CASE Program
  BY <1>13, <1>k DEF Program
<1>14. ASSUME Boot PROVE FALSE
  BY <1>14 DEF Boot, BootStep, i8259_init, EntrySti, init_keyboard, rtc_init,
     rtc_enable, prep_term, pit_init, init_term, FirstShell
<1>15. CASE Device
  BY <1>15, <1>k DEF Device, PitRequest, RtcRequest, KeyPress
<1>16. CASE squash
  BY <1>16, <1>k DEF squash, vars
<1> QED
  BY <1>1, <1>2, <1>3, <1>4, <1>5, <1>6, <1>7, <1>8, <1>9, <1>10, <1>11, <1>12,
     <1>13, <1>14, <1>15, <1>16
  DEF Next, Interrupt, Handler

\* A key that was too early stays so; without one every step keeps the order.
LEMMA NextOrder ==
  ConstantsAssumption /\ TypeOK /\ OrderInv /\ [Next]_vars => OrderInv'
<1> SUFFICES ASSUME ConstantsAssumption, TypeOK, OrderInv, [Next]_vars, ~early'
             PROVE  OrderInv'
  BY DEF OrderInv
<1>1. ~early
  <2>1. Next => early' = early \/ KeyPress
    BY DEF Next, Interrupt, Accept, Handler, Sti, Iret, Tick, TickDo, RtcTick,
       KeyRead, Plain, KeyHalt, KeySwitch, KeySwitchTo, KeyLaunch,
       PageFault, Fault, Raise, Program, Boot, BootStep, i8259_init,
       EntrySti, init_keyboard, rtc_init, rtc_enable, prep_term, pit_init,
       init_term, FirstShell, Device, PitRequest, RtcRequest, squash, vars,
       devices
  <2>2. KeyPress => \E k \in Keys : early' = (early \/ TooEarly(k))
    BY DEF KeyPress
  <2> QED
    BY <2>1, <2>2 DEF vars, devices
<1>2. CASE Next
  BY <1>1, <1>2, NextBooting, NextBooted DEF OrderInv
<1>3. CASE UNCHANGED vars
  BY <1>3 DEF OrderInv, Booting, Booted, vars, pic, devices, table
<1> QED
  BY <1>2, <1>3

\* The timer and the keys find running_pid prepared and every terminal's
\* context where it was left, unless a key comes before the first shell.
THEOREM OrderHolds == Spec => []OrderInv
<1>1. ConstantsAssumption
  BY ConstantsAssumption
<1>2. Init => OrderInv
  BY <1>1, InitOrder
<1>3. TypeOK /\ OrderInv /\ [Next]_vars => OrderInv'
  BY <1>1, NextOrder
<1> QED
  BY <1>2, <1>3, TypeCorrect, PTL DEF Spec

\* The kernel goes on with the PCB of no process only after such a key.
THEOREM PcbsPrepared == Spec => []PcbsInUse
<1>1. OrderInv => PcbsInUse
  BY DEF OrderInv, PcbsInUse
<1> QED
  BY <1>1, OrderHolds, PTL

-----------------------------------------------------------------------------
(***************************************************************************)
(* The contexts, whatever keys come early.  Until the first shell nothing  *)
(* leaves terminal 0 but with the PCB of no process, that is, lost.        *)
(***************************************************************************)
Entering ==
  /\ curr_term = 0 /\ running_term = 0
  /\ \A t \in Terms \ {0} : stack[t] = << >>
  /\ boot \in BeforePrep => /\ PIT_IRQ_NUM \in masked /\ stack[0] \in Seq(NoTimer)
                            /\ \A t \in Terms : running_pid[t] = "zero"
  /\ boot \in Prepared => \A t \in Terms : running_pid[t] = "none"
  /\ vid_backup => boot = "shell"
  /\ boot = "shell" => vid_backup

KeptInv == ~lost => IF boot = "done" THEN Booted ELSE Entering

LEMMA NextEntering ==
  ASSUME ConstantsAssumption, TypeOK, ~lost, Entering, Next, boot # "done"
  PROVE  ~lost' => IF boot' = "done" THEN Booted' ELSE Entering'
<1> USE DEF pic, devices, table
<1>0. /\ 0 \in Terms /\ stack \in [Terms -> Seq(Frames)]
      /\ boot \in BeforePrep \cup Prepared
  BY BootNames DEF ConstantsAssumption, Terms, TypeOK, BeforePrep, Prepared
<1> DEFINE S    == IF boot \in BeforePrep THEN NoTimer ELSE Frames
           Kept == ~lost' => IF boot' = "done" THEN Booted' ELSE Entering'
<1>. HIDE DEF Kept
<1>. SUFFICES Kept
  BY DEF Kept
<1>s. /\ S \in {EditFrames, NoTick, NoTimer, Frames} /\ stack[0] \in Seq(S)
      /\ Running = stack[0]
  BY <1>0 DEF Entering, Running
<1>k. ASSUME stack'[0] \in Seq(S), \A t \in Terms \ {0} : stack'[t] = stack[t],
             UNCHANGED << masked, boot, table, running_term >>
      PROVE  Kept
  BY <1>0, <1>k DEF Entering, Kept
<1>p. running_pid[0] # "process"
  BY <1>0 DEF Entering
<1>1. ASSUME NEW l \in Devices, Accept(l) PROVE Kept
  <2> DEFINE begin == [irq |-> l, at |-> "begin", i |-> 0]
  <2>1. boot \in BeforePrep => l # PIT_IRQ_NUM
    BY <1>0, <1>1 DEF Accept, Deliverable, Open, Entering
  <2>2. begin \in S
    BY <2>1 DEF NoTimer, Frames, Keys
  <2>3. << begin >> \o stack[0] \in Seq(S)
    BY <1>s, <2>2, Pushed
  <2>4. stack' = [stack EXCEPT ![0] = << begin >> \o stack[0]]
    BY <1>0, <1>1 DEF Accept, Push, Entering
  <2> QED
    BY <1>0, <1>1, <1>k, <2>3, <2>4 DEF Accept
<1>2. CASE Sti
  <2>1. Head(Running).irq \in Devices
    BY <1>2, TopOf DEF Sti, TypeOK, Running, Frames
  <2> QED
    BY <1>0, <1>2, <1>k, <1>s, <2>1, GoesOn DEF Sti, Entering
<1>3. CASE Iret
  <2>1. Tail(stack[0]) \in Seq(S)
    BY <1>3, <1>s, TopOf DEF Iret
  <2> QED
    BY <1>0, <1>3, <1>k, <2>1 DEF Iret, Entering
<1>4. CASE Tick
  <2>1. Running # << >> /\ Head(Running).irq = PIT_IRQ_NUM
    BY <1>4 DEF Tick, TickDo, At
  <2>2. boot \notin BeforePrep
    BY <1>s, <2>1, TopOf DEF NoTimer
  <2>3. ~Scheduling
    BY <1>0, <2>2 DEF Entering, Scheduling
  <2> QED
    BY <1>0, <1>4, <1>k, <1>s, <2>1, <2>3, GoesOn DEF Tick, TickDo, Entering, Devices
<1>5. CASE RtcTick
  BY <1>0, <1>5, <1>k, <1>s, GoesOn DEF RtcTick, At, Entering, Devices
<1>6. CASE KeyRead
  <2> DEFINE fr == [irq |-> KEYBOARD_IRQ, at |-> "sti", i |-> Head(key)]
  <2>1. Head(key) \in Keys
    BY <1>6, TopOf DEF KeyRead, TypeOK
  <2>2. fr \in S
    BY <2>1 DEF NoTimer, Frames, Devices, KEYBOARD_IRQ, PIT_IRQ_NUM
  <2>3. << fr >> \o Tail(stack[0]) \in Seq(S)
    BY ZenonT(60), <1>6, <1>s, <2>2, TopOf, Pushed DEF KeyRead, At
  <2>4. stack' = [stack EXCEPT ![0] = << fr >> \o Tail(stack[0])]
    BY <1>0, <1>6 DEF KeyRead, Replace, Entering
  <2> QED
    BY <1>0, <1>6, <1>k, <2>3, <2>4 DEF KeyRead
<1>7. CASE Plain
  BY <1>0, <1>7, <1>k, <1>s, GoesOn DEF Plain, At, Entering, Devices
<1>8. ASSUME KeyHalt \/ KeyLaunch PROVE Kept
  <2>1. lost'
    BY <1>8, <1>p DEF KeyHalt, KeyLaunch, Entering
  <2> QED
    BY <2>1 DEF Kept
<1>9. CASE KeySwitch
  <2>1. PICK t \in Terms : /\ At(KEYBOARD_IRQ, "act") /\ Head(Running).i = t + 1
                           /\ t = curr_term \/ (running_pid[t] # "none" /\ vid_backup)
    BY <1>9 DEF KeySwitch, KeySwitchTo
  <2>2. t = 0
    BY <1>0, <2>1 DEF Entering, Prepared
  <2>3. curr_term' = 0
    BY <1>9, <2>1, <2>2 DEF KeySwitch, KeySwitchTo
  <2>4. /\ stack' = GoTo("iret")
        /\ UNCHANGED << masked, boot, running_pid, vid_backup, running_term, lost >>
    BY <1>9 DEF KeySwitch, KeySwitchTo
  <2>5. GoTo("iret")[0] \in Seq(S) /\ \A u \in Terms \ {0} : GoTo("iret")[u] = stack[u]
    BY <1>0, <1>s, <2>1, GoesOn DEF At, Entering, Devices
  <2> QED
    BY <1>k, <2>3, <2>4, <2>5 DEF Entering
<1>10. CASE PageFault
  <2> DEFINE fr == [irq |-> Exception, at |-> "squash", i |-> 0]
  <2>1. fr \in S
    BY DEF NoTimer, Frames, Exception, PIT_IRQ_NUM
  <2>2. << fr >> \o stack[0] \in Seq(S)
    BY <1>s, <2>1, Pushed
  <2>3. stack' = [stack EXCEPT ![0] = << fr >> \o stack[0]]
    BY <1>0, <1>10 DEF PageFault, Raise, Push, Entering
  <2> QED
    BY <1>0, <1>10, <1>k, <2>2, <2>3 DEF PageFault, Raise
<1>11. ASSUME Fault \/ Program PROVE FALSE
  BY <1>11 DEF Fault, InProgram, Program
<1>12. CASE Boot
  <2> DEFINE Going(step, next) == BootStep(step) => boot = step /\ boot' = next
  <2>1. /\ Going("i8259_init", "sti") /\ Going("sti", "init_keyboard")
        /\ Going("init_keyboard", "rtc_init") /\ Going("rtc_init", "rtc_enable")
        /\ Going("rtc_enable", "prep_term") /\ Going("prep_term", "pit_init")
        /\ Going("pit_init", "init_term") /\ Going("init_term", "shell")
        /\ Going("shell", "done")
    BY BootOrder DEF BootStep
  <2>2. UNCHANGED << register_C, key, early, curr_term, running_term, stack, lost >>
    BY <1>12 DEF Boot, BootStep, i8259_init, EntrySti, init_keyboard, rtc_init,
       rtc_enable, prep_term, pit_init, init_term, FirstShell
  <2> USE <1>0, <2>1, <2>2 DEF Kept, Entering, BeforePrep, Prepared
  <2>4. CASE i8259_init
    BY <2>4 DEF i8259_init, Lines, Devices, PIT_IRQ_NUM, SLAVE_IRQ
  <2>5. CASE EntrySti
    BY <2>5 DEF EntrySti
  <2>6. CASE init_keyboard
    BY <2>6 DEF init_keyboard, enable_irq, PIT_IRQ_NUM, KEYBOARD_IRQ
  <2>7. CASE rtc_init
    BY <2>7 DEF rtc_init, disable_irq
  <2>8. CASE rtc_enable
    BY <2>8 DEF rtc_enable, enable_irq, PIT_IRQ_NUM, RTC_IRQ_NUM
  <2>9. CASE prep_term
    BY <2>9 DEF prep_term
  <2>10. CASE pit_init
    BY <2>10 DEF pit_init
  <2>11. CASE init_term
    BY <2>11 DEF init_term
  <2>12. CASE FirstShell
    <3>1. /\ running_pid' = [running_pid EXCEPT ![0] = "process"]
          /\ boot = "shell" /\ boot' = "done" /\ vid_backup'
      BY <2>12 DEF FirstShell
    <3>2. \A t \in Terms \ {0} : running_pid'[t] = "none"
      BY <3>1 DEF TypeOK
    <3>3. running_pid'[0] = "process"
      BY <3>1 DEF TypeOK
    <3> QED
      BY <3>1, <3>2, <3>3 DEF Booted
  <2> QED
    BY <1>12, <2>4, <2>5, <2>6, <2>7, <2>8, <2>9, <2>10, <2>11, <2>12 DEF Boot
<1>13. CASE Device
  <2>1. UNCHANGED << masked, boot, table, running_term, stack, lost >>
    BY <1>13 DEF Device, PitRequest, RtcRequest, KeyPress
  <2> QED
    BY <1>k, <1>s, <2>1
<1>14. CASE squash
  BY <1>s, <1>k, <1>14 DEF squash, vars
<1> QED
  BY <1>1, <1>2, <1>3, <1>4, <1>5, <1>6, <1>7, <1>8, <1>9, <1>10, <1>11, <1>12,
     <1>13, <1>14
  DEF Next, Interrupt, Handler

LEMMA InitKept == ConstantsAssumption /\ Init => KeptInv
BY DEF Init, KeptInv, Entering, BeforePrep, Prepared, Lines, Devices, Terms,
       ConstantsAssumption

LEMMA NextKept ==
  ConstantsAssumption /\ TypeOK /\ KeptInv /\ [Next]_vars => KeptInv'
<1> SUFFICES ASSUME ConstantsAssumption, TypeOK, KeptInv, [Next]_vars
             PROVE  KeptInv'
  OBVIOUS
<1>1. CASE UNCHANGED vars
  BY <1>1 DEF KeptInv, Entering, Booted, vars, pic, devices, table
<1>2. CASE Next /\ lost
  BY <1>2 DEF Next, squash, vars, KeptInv
<1>3. CASE Next /\ ~lost
  BY <1>3, NextEntering, NextBooted DEF KeptInv
<1> QED
  BY <1>1, <1>2, <1>3

\* Whatever is pressed and whenever: unless the kernel has gone on with the PCB
\* of no process, each terminal that does not run has a frame to go on from if
\* and only if it has a process (pit.c, keyboard.c: schedule, halt, launch_term).
THEOREM ContextKeptHolds == Spec => []ContextKept
<1>1. ConstantsAssumption
  BY ConstantsAssumption
<1>2. Init => KeptInv
  BY <1>1, InitKept
<1>3. KeptInv => ContextKept
  BY DEF KeptInv, ContextKept, Booted
<1>4. TypeOK /\ KeptInv /\ [Next]_vars => KeptInv'
  BY <1>1, NextKept
<1> QED
  BY <1>2, <1>3, <1>4, TypeCorrect, PTL DEF Spec
=============================================================================
