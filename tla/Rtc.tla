--------------------------------- MODULE Rtc ---------------------------------
(***************************************************************************)
(* The virtual real-time clocks of rtc_handler.c: one hardware clock at    *)
(* MAX_RTC_FREQ sets a flag per terminal; rtc_read of a program waits for  *)
(* its terminal's flag as many times as its frequency and the number of    *)
(* open terminals call for.  rtc_read runs with interrupts enabled: the    *)
(* clock and the scheduler come between any two of its steps, also between *)
(* the end of its busy wait and the reset of the flag.                     *)
(***************************************************************************)
EXTENDS Integers

CONSTANTS
  NumTerms,   \* NUM_TERM
  MaxFreq,    \* MAX_RTC_FREQ
  MinFreq     \* MIN_RTC_FREQ

ASSUME ConstantsAssumption ==
  /\ NumTerms \in Nat \ {0}
  /\ MinFreq \in Nat \ {0}
  /\ MaxFreq \in Nat
  /\ MinFreq <= MaxFreq

Terms == 0 .. NumTerms - 1
Freqs == MinFreq .. MaxFreq

VARIABLES
  rtc_interrupt_occurred,
  rtc_freq,
  open,            \* the terminals that have a process
  running_term,
  reader,          \* per terminal, where its program is in rtc_read
  heard            \* per terminal, interrupts since rtc_read was called

vars == << rtc_interrupt_occurred, rtc_freq, open, running_term, reader, heard >>

\* count is that of the call, i the loop counter; flag is how the call found the
\* flag of its terminal.
Readers == [at : {"away", "wait", "seen", "back"},
            count : 0 .. MaxFreq, i : 0 .. MaxFreq, flag : BOOLEAN]

TypeOK ==
  /\ rtc_interrupt_occurred \in [Terms -> BOOLEAN]
  /\ rtc_freq \in [Terms -> Freqs]
  /\ open \in SUBSET Terms
  /\ 0 \in open
  /\ running_term \in open
  /\ reader \in [Terms -> Readers]
  /\ heard \in [Terms -> 0 .. MaxFreq]
  /\ \A t \in Terms : reader[t].i <= reader[t].count

Away == [at |-> "away", count |-> 0, i |-> 0, flag |-> FALSE]

Init ==
  /\ rtc_interrupt_occurred = [t \in Terms |-> FALSE]
  /\ rtc_freq = [t \in Terms |-> MaxFreq]
  /\ open = {0}
  /\ running_term = 0
  /\ reader = [t \in Terms |-> Away]
  /\ heard = [t \in Terms |-> 0]

-----------------------------------------------------------------------------
\* heard stops counting at MaxFreq, which no read waits beyond.
Hear == [t \in Terms |-> IF reader[t].at # "away" /\ heard[t] < MaxFreq
                         THEN heard[t] + 1 ELSE heard[t]]

rtc_interrupt_handler_running ==             \* mutant: one terminal only
  /\ rtc_interrupt_occurred' = [rtc_interrupt_occurred EXCEPT ![running_term] = TRUE]
  /\ heard' = Hear
  /\ UNCHANGED << rtc_freq, open, running_term, reader >>

rtc_interrupt_handler ==
  /\ rtc_interrupt_occurred' = [t \in Terms |-> TRUE]
  /\ heard' = Hear
  /\ UNCHANGED << rtc_freq, open, running_term, reader >>

rtc_open ==
  /\ reader[running_term].at = "away"
  /\ rtc_freq' = [rtc_freq EXCEPT ![running_term] = MinFreq]
  /\ UNCHANGED << rtc_interrupt_occurred, open, running_term, reader, heard >>

\* rtc_write of any value; out of range it returns -1.
rtc_write_unchecked(freq) ==                 \* mutant: range not checked
  /\ reader[running_term].at = "away"
  /\ rtc_freq' = [rtc_freq EXCEPT ![running_term] = freq]
  /\ UNCHANGED << rtc_interrupt_occurred, open, running_term, reader, heard >>

rtc_write(freq) ==
  /\ reader[running_term].at = "away"
  /\ rtc_freq' = IF freq \in Freqs
                 THEN [rtc_freq EXCEPT ![running_term] = freq]
                 ELSE rtc_freq
  /\ UNCHANGED << rtc_interrupt_occurred, open, running_term, reader, heard >>

num_running == 1 + (IF 1 \in open THEN 1 ELSE 0) + (IF 2 \in open THEN 1 ELSE 0)

\* rtc_read: its count, its busy wait, the reset of the flag, its return.
BeginRead ==
  /\ reader[running_term].at = "away"
  /\ reader' = [reader EXCEPT ![running_term] =
       [at |-> "wait",
        count |-> (MaxFreq \div rtc_freq[running_term]) \div num_running,
        i |-> 0, flag |-> rtc_interrupt_occurred[running_term]]]
  /\ UNCHANGED << rtc_interrupt_occurred, rtc_freq, open, running_term, heard >>

See ==
  LET r == reader[running_term]
  IN /\ r.at = "wait"
     /\ r.i < r.count
     /\ rtc_interrupt_occurred[running_term]
     /\ reader' = [reader EXCEPT ![running_term].at = "seen"]
     /\ UNCHANGED << rtc_interrupt_occurred, rtc_freq, open, running_term, heard >>

Reset_kept ==                                \* mutant: flag not reset
  /\ reader[running_term].at = "seen"
  /\ reader' = [reader EXCEPT ![running_term].at = "wait",
                              ![running_term].i = @ + 1]
  /\ UNCHANGED << rtc_interrupt_occurred, rtc_freq, open, running_term, heard >>

Reset ==
  /\ reader[running_term].at = "seen"
  /\ rtc_interrupt_occurred' =
       [rtc_interrupt_occurred EXCEPT ![running_term] = FALSE]
  /\ reader' = [reader EXCEPT ![running_term].at = "wait",
                              ![running_term].i = @ + 1]
  /\ UNCHANGED << rtc_freq, open, running_term, heard >>

EndRead ==
  LET r == reader[running_term]
  IN /\ r.at = "wait"
     /\ r.i = r.count
     /\ reader' = [reader EXCEPT ![running_term].at = "back"]
     /\ UNCHANGED << rtc_interrupt_occurred, rtc_freq, open, running_term, heard >>

\* The program goes on after rtc_read.
GoOn ==
  /\ reader[running_term].at = "back"
  /\ reader' = [reader EXCEPT ![running_term] = Away]
  /\ heard' = [heard EXCEPT ![running_term] = 0]
  /\ UNCHANGED << rtc_interrupt_occurred, rtc_freq, open, running_term >>

\* launch_term gives a terminal its shell, schedule the processor to another.
OpenTerminal(t) ==
  /\ t \notin open
  /\ open' = open \cup {t}
  /\ running_term' = t
  /\ UNCHANGED << rtc_interrupt_occurred, rtc_freq, reader, heard >>

Schedule(t) ==
  /\ t \in open
  /\ running_term' = t
  /\ UNCHANGED << rtc_interrupt_occurred, rtc_freq, open, reader, heard >>

-----------------------------------------------------------------------------
ReadStep == See \/ Reset \/ EndRead
Programs == \/ rtc_open \/ BeginRead \/ GoOn
            \/ \E freq \in 0 .. MaxFreq + 1 : rtc_write(freq)

Next == \/ rtc_interrupt_handler
        \/ Programs
        \/ ReadStep
        \/ \E t \in Terms : OpenTerminal(t) \/ Schedule(t)

Spec == Init /\ [][Next]_vars

(***************************************************************************)
(* The clock ticks for ever and the scheduler comes round to every open    *)
(* terminal; the program it finds there goes on with its rtc_read, and may *)
(* lose the processor at any point, hence strong fairness.                 *)
(***************************************************************************)
Fairness ==
  /\ WF_vars(rtc_interrupt_handler)
  /\ \A t \in Terms : /\ SF_vars(running_term # t /\ Schedule(t))
                      /\ SF_vars(running_term = t /\ ReadStep)

FairSpec == Spec /\ Fairness

-----------------------------------------------------------------------------
(***************************************************************************)
(* Properties.                                                             *)
(***************************************************************************)
\* What rtc_read may have counted: the interrupts since the call, and one more
\* if the call found its flag set.
Due(t) == heard[t] + (IF reader[t].flag THEN 1 ELSE 0)

\* rtc_read counts each interrupt once: those since the call, and of those
\* before it the one that its flag remembers, if there is one (the flag is not
\* reset before the wait, rtc_handler.c:102-106; WaitsForOne).
CountsInterrupts ==
  \A t \in Terms : reader[t].at # "away" => reader[t].i <= Due(t)

\* "RTC read waits until the next interrupt occurs" (rtc_handler.c:84): at
\* whatever rate, an interrupt has occurred between the call and its return.
WaitsForOne ==
  \A t \in Terms : reader[t].at = "back" => heard[t] >= 1

\* No terminal's reading hides an interrupt from another: a program that waits
\* and has counted nothing yet sees its flag set once an interrupt has occurred.
NoneHidden ==
  \A t \in Terms :
    reader[t].at = "wait" /\ reader[t].i = 0 /\ heard[t] > 0
      => rtc_interrupt_occurred[t]

\* Every rtc_read returns.
ReadReturns == \A t \in Terms : reader[t].at = "wait" ~> reader[t].at = "back"

-----------------------------------------------------------------------------
\* What CountsInterrupts and NoneHidden rest on: a program between its busy wait
\* and its reset has its flag set still, nothing is heard for one that does not
\* read, and one that has counted all it may has its flag reset.
Hearing(t) ==
  LET r == reader[t]
  IN /\ r.at = "away" => heard[t] = 0
     /\ r.at = "seen" => rtc_interrupt_occurred[t] /\ r.i < r.count
     /\ r.at # "away" => \/ r.i < Due(t)
                         \/ /\ r.i = Due(t)
                            /\ ~rtc_interrupt_occurred[t] \/ heard[t] = MaxFreq
ReadInv == NoneHidden /\ \A t \in Terms : Hearing(t)
=============================================================================
