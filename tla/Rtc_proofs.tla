----------------------------- MODULE Rtc_proofs ------------------------------
(***************************************************************************)
(* Proofs about Rtc, for every number of terminals and every range of      *)
(* frequencies: the type invariant, that no interrupt is counted twice and *)
(* that no terminal's reading hides an interrupt from another.             *)
(***************************************************************************)
EXTENDS Rtc, TLAPS

\* A quotient of naturals is no larger than what is divided.
LEMMA DivBound ==
  ASSUME NEW a \in Nat, NEW b \in Nat \ {0}
  PROVE  a \div b \in 0 .. a
<1> DEFINE q == a \div b
<1>1. q \in Int /\ b * q <= a /\ a < b * q + b
  BY Z3
<1>2. q >= 0
  <2> SUFFICES ASSUME q <= -1 PROVE FALSE
    BY <1>1
  <2>1. b * q <= -b
    BY <1>1, Z3
  <2> QED
    BY <1>1, <2>1
<1>3. q <= a
  <2> SUFFICES ASSUME q >= a + 1 PROVE FALSE
    BY <1>1
  <2>1. b * q >= b * (a + 1)
    BY <1>1, Z3
  <2>2. b * (a + 1) >= a + 1
    BY Z3
  <2> QED
    BY <1>1, <2>1, <2>2
<1> QED
  BY <1>1, <1>2, <1>3

-----------------------------------------------------------------------------
(* Types.                                                                  *)

\* The count of rtc_read, two divisions of the highest frequency.
LEMMA CountInRange ==
  ASSUME TypeOK, ConstantsAssumption
  PROVE  (MaxFreq \div rtc_freq[running_term]) \div num_running \in 0 .. MaxFreq
<1> DEFINE freq == rtc_freq[running_term]
           quota == MaxFreq \div freq
<1>1. freq \in Nat \ {0} /\ MaxFreq \in Nat
  BY DEF TypeOK, ConstantsAssumption, Freqs, Terms
<1>2. num_running \in Nat \ {0}
  BY DEF num_running
<1>3. quota \in 0 .. MaxFreq
  BY <1>1, DivBound
<1>4. quota \div num_running \in 0 .. quota
  <2> HIDE DEF quota
  <2> QED BY <1>1, <1>2, <1>3, DivBound
<1> HIDE DEF quota
<1>5. quota \div num_running \in 0 .. MaxFreq
  BY <1>1, <1>3, <1>4
<1> QED
  BY <1>5 DEF quota

\* init_term establishes the types.
LEMMA InitTypes == ConstantsAssumption /\ Init => TypeOK
BY DEF ConstantsAssumption, Init, TypeOK, Terms, Freqs, Readers, Away

\* Every step keeps the types.
LEMMA NextTypes == ConstantsAssumption /\ TypeOK /\ [Next]_vars => TypeOK'
<1> SUFFICES ASSUME ConstantsAssumption, TypeOK, [Next]_vars PROVE TypeOK'
  OBVIOUS
<1> USE DEF ConstantsAssumption, TypeOK, Freqs, Readers
<1>0. running_term \in Terms /\ MaxFreq \in Nat
  OBVIOUS
<1>1. CASE rtc_interrupt_handler
  <2>1. Hear \in [Terms -> 0 .. MaxFreq]
    BY <1>0 DEF Hear
  <2> QED
    BY <1>1, <2>1 DEF rtc_interrupt_handler
<1>2. CASE rtc_open
  BY <1>2 DEF rtc_open
<1>3. ASSUME NEW freq \in 0 .. MaxFreq + 1, rtc_write(freq) PROVE TypeOK'
  BY <1>3 DEF rtc_write
<1>4. CASE BeginRead
  <2> DEFINE count == (MaxFreq \div rtc_freq[running_term]) \div num_running
  <2>1. count \in 0 .. MaxFreq
    BY CountInRange
  <2> HIDE DEF count
  <2>2. reader' = [reader EXCEPT ![running_term] =
                     [at |-> "wait", count |-> count, i |-> 0,
                      flag |-> rtc_interrupt_occurred[running_term]]]
    BY <1>4 DEF BeginRead, count
  <2>3. /\ reader' \in [Terms -> Readers]
        /\ \A t \in Terms : reader'[t].i <= reader'[t].count
    BY <1>0, <2>1, <2>2
  <2> QED
    BY <1>4, <2>3 DEF BeginRead
<1>5. CASE GoOn
  BY <1>0, <1>5 DEF GoOn, Away
<1>6. CASE See
  BY <1>0, <1>6 DEF See
<1>7. CASE Reset
  BY <1>0, <1>7 DEF Reset
<1>8. CASE EndRead
  BY <1>0, <1>8 DEF EndRead
<1>9. ASSUME NEW t \in Terms, OpenTerminal(t) PROVE TypeOK'
  BY <1>9 DEF OpenTerminal
<1>10. ASSUME NEW t \in Terms, Schedule(t) PROVE TypeOK'
  BY <1>10 DEF Schedule
<1>11. CASE UNCHANGED vars
  BY <1>11 DEF vars
<1> QED
  BY <1>1, <1>2, <1>3, <1>4, <1>5, <1>6, <1>7, <1>8, <1>9, <1>10, <1>11
  DEF Next, Programs, ReadStep

\* The table of frequencies, the flags and the reads keep their types.
THEOREM TypeCorrect == Spec => []TypeOK
<1>1. ConstantsAssumption
  BY ConstantsAssumption
<1>2. Init => TypeOK
  BY <1>1, InitTypes
<1>3. TypeOK /\ [Next]_vars => TypeOK'
  BY <1>1, NextTypes
<1> QED
  BY <1>2, <1>3, PTL DEF Spec

-----------------------------------------------------------------------------
(* The reads.                                                              *)

\* At boot nobody reads.
LEMMA InitReads == Init => ReadInv
BY DEF Init, ReadInv, NoneHidden, Hearing, Away

\* Every step keeps the invariant of the reads.
LEMMA NextReads == ConstantsAssumption /\ TypeOK /\ ReadInv /\ [Next]_vars => ReadInv'
<1> DEFINE Reads(t) ==
      /\ reader[t].at = "wait" /\ reader[t].i = 0 /\ heard[t] > 0
           => rtc_interrupt_occurred[t]
      /\ Hearing(t)
<1> SUFFICES ASSUME ConstantsAssumption, TypeOK, ReadInv, [Next]_vars,
                    NEW t \in Terms
             PROVE  Reads(t)'
  BY DEF ReadInv, NoneHidden
<1> DEFINE r == reader[t]
<1>1. /\ r \in Readers /\ r.i <= r.count
      /\ rtc_interrupt_occurred[t] \in BOOLEAN
      /\ heard[t] \in 0 .. MaxFreq
      /\ running_term \in Terms /\ MaxFreq \in Nat
  BY DEF TypeOK, ConstantsAssumption
<1>2. Reads(t)
  BY DEF ReadInv, NoneHidden
<1> USE DEF Readers, Hearing, Due
<1>3. CASE rtc_interrupt_handler
  <2>1. /\ rtc_interrupt_occurred'[t] = TRUE /\ reader' = reader
        /\ heard'[t] = IF r.at # "away" /\ heard[t] < MaxFreq
                       THEN heard[t] + 1 ELSE heard[t]
    BY <1>3 DEF rtc_interrupt_handler, Hear
  <2> QED
    BY <1>1, <1>2, <2>1
<1>4. CASE rtc_open
  BY <1>2, <1>4 DEF rtc_open
<1>5. ASSUME NEW freq \in 0 .. MaxFreq + 1, rtc_write(freq)
      PROVE  UNCHANGED << reader, heard, rtc_interrupt_occurred >>
  BY <1>5 DEF rtc_write
<1>6. CASE BeginRead
  <2>1. CASE t = running_term
    <3>1. /\ heard'[t] = 0 /\ reader'[t].at = "wait" /\ reader'[t].i = 0
          /\ reader'[t].flag = rtc_interrupt_occurred[t]
          /\ rtc_interrupt_occurred' = rtc_interrupt_occurred
      BY <1>2, <1>6, <2>1 DEF BeginRead, TypeOK
    <3> QED
      BY <1>1, <3>1
  <2>2. CASE t # running_term
    <3>1. reader'[t] = reader[t]
      BY <1>6, <2>2 DEF BeginRead, TypeOK
    <3> QED
      BY <1>2, <1>6, <3>1 DEF BeginRead
  <2> QED
    BY <2>1, <2>2
<1>7. CASE GoOn
  BY <1>1, <1>2, <1>7 DEF GoOn, TypeOK, Away
<1>8. CASE See
  BY <1>1, <1>2, <1>8 DEF See, TypeOK
<1>9. CASE Reset
  BY <1>1, <1>2, <1>9 DEF Reset, TypeOK
<1>10. CASE EndRead
  BY <1>1, <1>2, <1>10 DEF EndRead, TypeOK
<1>11. ASSUME NEW u \in Terms, OpenTerminal(u) \/ Schedule(u)
       PROVE  UNCHANGED << reader, heard, rtc_interrupt_occurred >>
  BY <1>11 DEF OpenTerminal, Schedule
<1>12. CASE UNCHANGED vars
  BY <1>2, <1>12 DEF vars
<1> QED
  BY <1>2, <1>3, <1>4, <1>5, <1>6, <1>7, <1>8, <1>9, <1>10, <1>11, <1>12
  DEF Next, Programs, ReadStep

\* The invariant of the reads bounds what they have counted.
LEMMA ReadsCounted == TypeOK /\ ReadInv => CountsInterrupts
<1> SUFFICES ASSUME TypeOK, ReadInv, NEW t \in Terms, reader[t].at # "away"
             PROVE  reader[t].i <= Due(t)
  BY DEF CountsInterrupts
<1>1. reader[t].i \in Int /\ Due(t) \in Int
  BY DEF TypeOK, Readers, Due
<1>2. reader[t].i < Due(t) \/ reader[t].i = Due(t)
  BY DEF ReadInv, Hearing
<1> QED
  BY <1>1, <1>2

\* The strengthening of the two properties of the reads is an invariant.
THEOREM ReadInvariant == Spec => [](TypeOK /\ ReadInv)
<1>1. ConstantsAssumption
  BY ConstantsAssumption
<1>2. Init => TypeOK /\ ReadInv
  BY <1>1, InitTypes, InitReads
<1>3. TypeOK /\ ReadInv /\ [Next]_vars => (TypeOK /\ ReadInv)'
  BY <1>1, NextTypes, NextReads
<1> QED
  BY <1>2, <1>3, PTL DEF Spec

\* No read counts an interrupt twice, whatever the clock and the scheduler do
\* between its steps.  The one before the call that a set flag remembers counts.
THEOREM InterruptsCounted == Spec => []CountsInterrupts
<1>1. TypeOK /\ ReadInv => CountsInterrupts
  BY ReadsCounted
<1> QED
  BY <1>1, ReadInvariant, PTL

\* No terminal's reset of its flag hides an interrupt from another terminal.
THEOREM InterruptsSeen == Spec => []NoneHidden
<1>1. ReadInv => NoneHidden
  BY DEF ReadInv
<1> QED
  BY <1>1, ReadInvariant, PTL
=============================================================================
