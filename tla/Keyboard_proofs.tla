--------------------------- MODULE Keyboard_proofs ---------------------------
(***************************************************************************)
(* Theorems about Keyboard, for every number of terminals, size of buffer, *)
(* alphabet and number of keys: the types, that a completed line is        *)
(* announced to its own terminal, and that the one buffer and the backups  *)
(* implement LineInput.  Then about KeyModes, which says what those keys    *)
(* mean: the modifier state follows the keys held, and each key does what   *)
(* they say.                                                               *)
(***************************************************************************)
EXTENDS Keyboard, KeyModes, SequenceTheorems, TLAPS

-----------------------------------------------------------------------------
(* Lemmas on lines.                                                        *)

\* A character typed at the end of a line.
LEMMA TypedFacts ==
  ASSUME NEW s \in Seq(Chars), NEW c \in Chars
  PROVE  /\ Append(s, c) \in Seq(Chars)
         /\ c # NEWLINE => (HasEnter(Append(s, c)) <=> HasEnter(s))
         /\ c = NEWLINE => HasEnter(Append(s, c))
<1>1. /\ Len(s) \in Nat
      /\ Append(s, c) \in Seq(Chars) /\ Len(Append(s, c)) = Len(s) + 1
      /\ \A i \in 1 .. Len(s) : Append(s, c)[i] = s[i]
      /\ Append(s, c)[Len(s) + 1] = c
  BY AppendProperties
<1>2. \A i : i \in 1 .. Len(s) + 1 <=> i \in 1 .. Len(s) \/ i = Len(s) + 1
  BY <1>1
<1>3. ASSUME c # NEWLINE
      PROVE  HasEnter(Append(s, c)) <=> HasEnter(s)
  <2>1. ASSUME HasEnter(Append(s, c)) PROVE HasEnter(s)
    BY <1>1, <1>2, <1>3, <2>1 DEF HasEnter
  <2>2. ASSUME HasEnter(s) PROVE HasEnter(Append(s, c))
    BY <1>1, <1>2, <2>2 DEF HasEnter
  <2>. QED
    BY <2>1, <2>2
<1>4. ASSUME c = NEWLINE
      PROVE  HasEnter(Append(s, c))
  BY <1>1, <1>2, <1>4 DEF HasEnter
<1>. QED
  BY <1>1, <1>3, <1>4

\* A line without its last character.
LEMMA ErasedFacts ==
  ASSUME NEW s \in Seq(Chars), s # << >>
  PROVE  LET r == SubSeq(s, 1, Len(s) - 1)
         IN /\ r \in Seq(Chars)
            /\ s[Len(s)] # NEWLINE => (HasEnter(r) <=> HasEnter(s))
<1> DEFINE r == SubSeq(s, 1, Len(s) - 1)
           k == Len(s)
<1>1. k \in Nat /\ k >= 1 /\ \A i \in 1 .. k : s[i] \in Chars
  BY EmptySeq
<1>2. 1 \in Int /\ k - 1 \in Int /\ \A i \in 1 .. k - 1 : s[i] \in Chars
  BY <1>1
<1>3. /\ r \in Seq(Chars) /\ Len(r) = k - 1
      /\ \A i \in 1 .. k - 1 : r[i] = s[i]
  <2>. HIDE DEF k
  <2>1. /\ SubSeq(s, 1, k - 1) \in Seq(Chars)
        /\ Len(SubSeq(s, 1, k - 1)) = IF 1 <= k - 1 THEN (k - 1) - 1 + 1 ELSE 0
        /\ \A i \in 1 .. (k - 1) - 1 + 1 : SubSeq(s, 1, k - 1)[i] = s[1 + i - 1]
    BY <1>2, SubSeqProperties
  <2>2. (k - 1) - 1 + 1 = k - 1 /\ \A i \in 1 .. k - 1 : 1 + i - 1 = i
    BY <1>1
  <2>3. r = SubSeq(s, 1, k - 1)
    BY DEF k
  <2>. HIDE DEF r
  <2>. QED
    BY <1>1, <2>1, <2>2, <2>3
<1>. HIDE DEF r
<1>4. \A i : i \in 1 .. k <=> i \in 1 .. k - 1 \/ i = k
  BY <1>1
<1>5. ASSUME s[k] # NEWLINE
      PROVE  HasEnter(r) <=> HasEnter(s)
  <2>. HIDE DEF k
  <2>1. ASSUME HasEnter(r) PROVE HasEnter(s)
    BY <1>3, <1>4, <2>1 DEF HasEnter, k
  <2>2. ASSUME HasEnter(s) PROVE HasEnter(r)
    BY <1>3, <1>4, <1>5, <2>2 DEF HasEnter, k
  <2>. QED
    BY <2>1, <2>2
<1>. QED
  BY <1>3, <1>5 DEF r

\* An empty line.
LEMMA EmptyFacts == << >> \in Seq(Chars) /\ ~HasEnter(<< >>)
BY DEF HasEnter

-----------------------------------------------------------------------------
(* The types.                                                              *)

\* One reader becomes r.
Becomes(t, r) == reader' = [reader EXCEPT ![t] = r]

LEMMA BecomesTyped ==
  ASSUME TypeOK, CopyDone, NEW t \in Terms, NEW r \in Readers, Len(r.buf) <= NBytes,
         r.at = "count" => Len(r.buf) = NBytes, Becomes(t, r)
  PROVE  /\ reader' \in [Terms -> Readers]
         /\ \A u \in Terms : Len(reader'[u].buf) <= NBytes
         /\ CopyDone'
         /\ reader'[t] = r
         /\ \A u \in Terms : u # t => reader'[u] = reader[u]
<1>1. reader \in [Terms -> Readers] /\ \A u \in Terms : Len(reader[u].buf) <= NBytes
  BY DEF TypeOK
<1>2. reader'[t] = r /\ \A u \in Terms : u # t => reader'[u] = reader[u]
  BY <1>1 DEF Becomes
<1>3. reader' \in [Terms -> Readers]
  BY <1>1 DEF Becomes
<1>4. CopyDone'
  BY <1>2 DEF CopyDone
<1>5. \A u \in Terms : Len(reader'[u].buf) <= NBytes
  BY <1>1, <1>2
<1>. QED
  BY <1>2, <1>3, <1>4, <1>5

\* Each byte copied is one of the line or was never set, and there is room.
LEMMA CopyTyped ==
  ASSUME TypeOK, CopyDone, NEW t \in Terms, Copy(t)
  PROVE  TypeOK' /\ CopyDone'
<1> DEFINE buf == reader[t].buf
           i   == Len(buf) + 1
           c   == IF i <= length_key THEN keyboard_buffer[i] ELSE Unset
<1>1. reader[t] \in Readers /\ buf \in Seq(Chars \cup {Unset}) /\ Len(buf) <= NBytes
      /\ reader \in [Terms -> Readers]
  BY DEF TypeOK, Readers
<1>2. UNCHANGED << keyboard_buffer, term_key_buf, has_enter, curr_term,
                   running_term, returned, keys >>
  BY DEF Copy
<1>3. Len(buf) \in Nat /\ i \in Nat /\ i >= 1
  BY <1>1
<1>4. c \in Chars \cup {Unset}
  <2>1. Len(keyboard_buffer) \in Nat
        /\ \A k \in 1 .. Len(keyboard_buffer) : keyboard_buffer[k] \in Chars
    BY DEF TypeOK
  <2>2. i <= Len(keyboard_buffer) => i \in 1 .. Len(keyboard_buffer)
    BY <1>3, <2>1
  <2>. HIDE DEF i
  <2>. QED
    BY <2>1, <2>2 DEF length_key
<1>5. /\ reader' \in [Terms -> Readers]
      /\ \A u \in Terms : Len(reader'[u].buf) <= NBytes
      /\ CopyDone'
  <2>1. CASE i <= NBytes
    <3> DEFINE r == [at |-> reader[t].at, buf |-> Append(buf, c)]
    <3>1. reader' = [reader EXCEPT ![t].buf = Append(@, c)]
      BY <2>1 DEF Copy
    <3>. HIDE DEF c
    <3>2. /\ Append(buf, c) \in Seq(Chars \cup {Unset}) /\ Len(Append(buf, c)) = i
      BY <1>1, <1>4, AppendProperties
    <3>3. r \in Readers
      BY <1>1, <3>2 DEF Readers
    <3>4. Becomes(t, r)
      <4>. HIDE DEF buf
      <4>1. reader[t] = [at |-> reader[t].at, buf |-> buf]
        BY <1>1 DEF Readers, buf
      <4>2. [reader[t] EXCEPT !.buf = Append(buf, c)] = r
        BY <4>1
      <4>3. reader' = [reader EXCEPT ![t] = [reader[t] EXCEPT !.buf = Append(buf, c)]]
        BY <1>1, <3>1 DEF buf
      <4>. HIDE DEF r
      <4>. QED
        BY <4>2, <4>3 DEF Becomes
    <3>5. Len(r.buf) <= NBytes /\ r.at # "count"
      BY <2>1, <3>2 DEF Copy
    <3>. HIDE DEF r
    <3>. QED
      BY <3>3, <3>4, <3>5, BecomesTyped
  <2>2. CASE ~(i <= NBytes)
    <3> DEFINE r == [at |-> "count", buf |-> buf]
    <3>1. reader' = [reader EXCEPT ![t].at = "count"]
      BY <2>2 DEF Copy
    <3>2. r \in Readers /\ Len(r.buf) = NBytes /\ Len(r.buf) <= NBytes
      <4>1. NBytes \in Nat
        BY ConstantsAssumption
      <4>2. Len(buf) = NBytes
        BY <1>1, <1>3, <2>2, <4>1
      <4>. QED
        BY <1>1, <4>1, <4>2 DEF Readers
    <3>3. Becomes(t, r)
      <4>. HIDE DEF buf
      <4>1. reader[t] = [at |-> reader[t].at, buf |-> buf]
        BY <1>1 DEF Readers, buf
      <4>2. [reader[t] EXCEPT !.at = "count"] = r
        BY <4>1
      <4>3. reader' = [reader EXCEPT ![t] = [reader[t] EXCEPT !.at = "count"]]
        BY <1>1, <3>1
      <4>. HIDE DEF r
      <4>. QED
        BY <4>2, <4>3 DEF Becomes
    <3>. HIDE DEF r
    <3>. QED
      BY <3>2, <3>3, BecomesTyped
  <2>. QED
    BY <2>1, <2>2
<1>6. /\ keyboard_buffer' \in Seq(Chars) /\ term_key_buf' \in [Terms -> Seq(Chars)]
      /\ has_enter' \in [Terms -> BOOLEAN]
      /\ curr_term' \in Terms /\ running_term' \in Terms
      /\ returned' \in [Terms -> Seq(Chars \cup {Unset})] /\ keys' \in 0 .. MaxKeys
  BY <1>2 DEF TypeOK
<1>. QED
  BY <1>5, <1>6 DEF TypeOK

\* A reader that goes on without copying.
LEMMA StepTyped ==
  ASSUME TypeOK, CopyDone, NEW t \in Terms, NEW at \in {"wait", "copy", "clear"},
         reader' = [reader EXCEPT ![t].at = at]
  PROVE  /\ reader' \in [Terms -> Readers]
         /\ \A u \in Terms : Len(reader'[u].buf) <= NBytes
         /\ CopyDone'
         /\ reader'[t].at = at /\ reader'[t].buf = reader[t].buf
         /\ \A u \in Terms : u # t => reader'[u] = reader[u]
<1>1. reader \in [Terms -> Readers] /\ reader[t] \in Readers
      /\ Len(reader[t].buf) <= NBytes
  BY DEF TypeOK
<1> DEFINE r == [reader[t] EXCEPT !.at = at]
<1>2. r \in Readers /\ r.at = at /\ r.buf = reader[t].buf
  BY <1>1 DEF Readers
<1>3. Becomes(t, r)
  BY <1>1 DEF Becomes
<1>. HIDE DEF r
<1>. QED
  BY <1>1, <1>2, <1>3, BecomesTyped

\* A program that ends, or returns from its read.
LEMMA EndedTyped ==
  ASSUME TypeOK, CopyDone, NEW t \in Terms, Ended(t)
  PROVE  /\ reader' \in [Terms -> Readers]
         /\ \A u \in Terms : Len(reader'[u].buf) <= NBytes
         /\ CopyDone'
         /\ reader'[t].at = "away" /\ reader'[t].buf = << >>
         /\ \A u \in Terms : u # t => reader'[u] = reader[u]
<1> DEFINE r == [at |-> "away", buf |-> << >>]
<1>1. r \in Readers /\ Len(r.buf) = 0 /\ r.at = "away" /\ r.buf = << >>
  BY DEF Readers
<1>2. Becomes(t, r)
  BY DEF Ended, Becomes
<1>3. NBytes \in Nat
  BY ConstantsAssumption
<1>. HIDE DEF r
<1>4. Len(r.buf) <= NBytes
  BY <1>1, <1>3
<1>. QED
  BY <1>1, <1>2, <1>4, BecomesTyped

\* A key uses up one of the keys left.
LEMMA KeyTyped ==
  ASSUME TypeOK, Key
  PROVE  keys' \in 0 .. MaxKeys
BY ConstantsAssumption DEF TypeOK, Key

\* Every step keeps the types.
LEMMA TypeNext == TypeOK /\ CopyDone /\ [Next]_vars => TypeOK' /\ CopyDone'
<1>1. SUFFICES ASSUME TypeOK, CopyDone, [Next]_vars PROVE TypeOK' /\ CopyDone'
  OBVIOUS
<1>2. /\ keyboard_buffer \in Seq(Chars) /\ term_key_buf \in [Terms -> Seq(Chars)]
      /\ has_enter \in [Terms -> BOOLEAN] /\ curr_term \in Terms
      /\ << >> \in Seq(Chars)
  BY <1>1, EmptyFacts DEF TypeOK
<1>3. CASE UNCHANGED vars
  BY <1>1, <1>3 DEF vars, TypeOK, CopyDone
<1>4. ASSUME NEW c \in Chars, Typed(c) \/ UNCHANGED keyboard_buffer
      PROVE  keyboard_buffer' \in Seq(Chars)
  BY <1>2, <1>4, TypedFacts DEF Typed
<1>5. ASSUME NEW c \in Letters, KeyLetter(c)
      PROVE  TypeOK' /\ CopyDone'
  <2>1. c \in Chars
    BY DEF Chars
  <2>2. keyboard_buffer' \in Seq(Chars)
    BY <1>4, <1>5, <2>1 DEF KeyLetter
  <2>3. keys' \in 0 .. MaxKeys
    BY <1>1, <1>5, KeyTyped DEF KeyLetter
  <2>. QED
    BY <1>1, <1>5, <2>2, <2>3 DEF KeyLetter, TypeOK, CopyDone
<1>6. CASE KeyTab
  <2>1. TAB_CHAR \in Chars
    BY DEF Chars
  <2>2. keyboard_buffer' \in Seq(Chars)
    BY <1>4, <1>6, <2>1 DEF KeyTab
  <2>3. keys' \in 0 .. MaxKeys
    BY <1>1, <1>6, KeyTyped DEF KeyTab
  <2>. QED
    BY <1>1, <1>6, <2>2, <2>3 DEF KeyTab, TypeOK, CopyDone
<1>7. CASE KeyEnter
  <2>1. NEWLINE \in Chars
    BY DEF Chars
  <2>2. keyboard_buffer' \in Seq(Chars)
    BY <1>4, <1>7, <2>1 DEF KeyEnter
  <2>3. keys' \in 0 .. MaxKeys
    BY <1>1, <1>7, KeyTyped DEF KeyEnter
  <2>4. has_enter' \in [Terms -> BOOLEAN]
    BY <1>2, <1>7 DEF KeyEnter
  <2>. QED
    BY <1>1, <1>7, <2>2, <2>3, <2>4 DEF KeyEnter, TypeOK, CopyDone
<1>8. CASE KeyBackspace
  <2>1. keyboard_buffer' \in Seq(Chars)
    BY <1>2, <1>8, ErasedFacts DEF KeyBackspace, length_key
  <2>2. keys' \in 0 .. MaxKeys
    BY <1>1, <1>8, KeyTyped DEF KeyBackspace
  <2>. QED
    BY <1>1, <1>8, <2>1, <2>2 DEF KeyBackspace, TypeOK, CopyDone
<1>9. CASE CtrlL
  <2>1. keys' \in 0 .. MaxKeys
    BY <1>1, <1>9, KeyTyped DEF CtrlL
  <2>. QED
    BY <1>1, <1>2, <1>9, <2>1 DEF CtrlL, TypeOK, CopyDone
<1>10. CASE CtrlC
  <2>1. keys' \in 0 .. MaxKeys
    BY <1>1, <1>10, KeyTyped DEF CtrlC
  <2>2. /\ reader' \in [Terms -> Readers]
        /\ \A u \in Terms : Len(reader'[u].buf) <= NBytes
        /\ CopyDone'
    BY <1>1, <1>2, <1>10, EndedTyped DEF CtrlC
  <2>. QED
    BY <1>1, <1>2, <1>10, <2>1, <2>2 DEF CtrlC, TypeOK
<1>11. ASSUME NEW t \in Terms, AltF(t)
       PROVE  TypeOK' /\ CopyDone'
  <2>1. keys' \in 0 .. MaxKeys
    BY <1>1, <1>11, KeyTyped DEF AltF
  <2>2. save_term_info \in [Terms -> Seq(Chars)]
    BY <1>2 DEF save_term_info
  <2>. QED
    BY <1>1, <1>11, <2>1, <2>2 DEF AltF, TypeOK, CopyDone
<1>12. ASSUME NEW t \in Terms, HaltProgram(t)
       PROVE  TypeOK' /\ CopyDone'
  <2>1. /\ reader' \in [Terms -> Readers]
        /\ \A u \in Terms : Len(reader'[u].buf) <= NBytes
        /\ CopyDone'
    BY <1>1, <1>12, EndedTyped DEF HaltProgram
  <2>2. keyboard_buffer' \in Seq(Chars) /\ term_key_buf' \in [Terms -> Seq(Chars)]
    BY <1>2, <1>12 DEF HaltProgram
  <2>. QED
    BY <1>1, <1>12, <2>1, <2>2 DEF HaltProgram, TypeOK
<1>13. ASSUME NEW t \in Terms, BeginRead(t)
       PROVE  TypeOK' /\ CopyDone'
  <2>1. /\ reader' \in [Terms -> Readers]
        /\ \A u \in Terms : Len(reader'[u].buf) <= NBytes
        /\ CopyDone'
    BY <1>1, <1>13, StepTyped DEF BeginRead, Step
  <2>. QED
    BY <1>1, <1>13, <2>1 DEF BeginRead, TypeOK
<1>14. ASSUME NEW t \in Terms, Wake(t)
       PROVE  TypeOK' /\ CopyDone'
  <2>1. /\ reader' \in [Terms -> Readers]
        /\ \A u \in Terms : Len(reader'[u].buf) <= NBytes
        /\ CopyDone'
    BY <1>1, <1>14, StepTyped DEF Wake, Step
  <2>2. has_enter' \in [Terms -> BOOLEAN]
    BY <1>2, <1>14 DEF Wake
  <2>. QED
    BY <1>1, <1>14, <2>1, <2>2 DEF Wake, TypeOK
<1>15. ASSUME NEW t \in Terms, Count(t)
       PROVE  TypeOK' /\ CopyDone'
  <2>1. /\ reader' \in [Terms -> Readers]
        /\ \A u \in Terms : Len(reader'[u].buf) <= NBytes
        /\ CopyDone'
    BY <1>1, <1>15, StepTyped DEF Count, Step
  <2>2. returned' \in [Terms -> Seq(Chars \cup {Unset})]
    <3> DEFINE buf == reader[t].buf
    <3>1. buf \in Seq(Chars \cup {Unset}) /\ Len(keyboard_buffer) \in Nat
      BY <1>1 DEF TypeOK, Readers
    <3>2. reader[t].at = "count"
      BY <1>15 DEF Count, Step
    <3>3. ASSUME NEW k \in Nat
          PROVE  SubSeq(buf, 1, k) \in Seq(Chars \cup {Unset}) \/ k > Len(buf)
      <4>1. CASE k <= Len(buf)
        <5>1. 1 \in Int /\ k \in Int /\ \A i \in 1 .. k : buf[i] \in Chars \cup {Unset}
          BY <3>1, <4>1
        <5>. QED
          BY <5>1, SubSeqProperties
      <4>. QED
        BY <3>1, <4>1
    <3>4. NBytes \in Nat /\ CopyDone
      BY <1>1, ConstantsAssumption
    <3>5. Len(buf) = NBytes
      BY <3>2, <3>4 DEF CopyDone
    <3> DEFINE got == IF length_key < NBytes THEN SubSeq(buf, 1, length_key) ELSE buf
    <3>6. got \in Seq(Chars \cup {Unset})
      <4>. HIDE DEF buf
      <4>. QED
        BY <3>1, <3>3, <3>4, <3>5 DEF length_key
    <3>7. returned \in [Terms -> Seq(Chars \cup {Unset})]
      BY <1>1 DEF TypeOK
    <3>8. returned' = [returned EXCEPT ![t] = got]
      BY <1>15 DEF Count
    <3>. HIDE DEF got
    <3>. QED
      BY <3>6, <3>7, <3>8
  <2>. QED
    BY <1>1, <1>15, <2>1, <2>2 DEF Count, TypeOK
<1>16. ASSUME NEW t \in Terms, Clear(t)
       PROVE  TypeOK' /\ CopyDone'
  <2>1. /\ reader' \in [Terms -> Readers]
        /\ \A u \in Terms : Len(reader'[u].buf) <= NBytes
        /\ CopyDone'
    BY <1>1, <1>16, EndedTyped DEF Clear
  <2>. QED
    BY <1>1, <1>2, <1>16, <2>1 DEF Clear, TypeOK
<1>17. ASSUME NEW t \in Terms, Schedule(t)
       PROVE  TypeOK' /\ CopyDone'
  BY <1>1, <1>17 DEF Schedule, TypeOK, CopyDone
<1>18. CASE Keys
  BY <1>5, <1>6, <1>7, <1>8, <1>9, <1>10, <1>11, <1>18 DEF Keys
<1>19. CASE Programs
  BY <1>1, <1>12, <1>13, <1>14, <1>15, <1>16, <1>19, CopyTyped DEF Programs, ReadStep
<1>. QED
  BY <1>1, <1>3, <1>17, <1>18, <1>19 DEF Next

\* The types hold in the initial state.
LEMMA TypeInit == Init => TypeOK /\ CopyDone
<1>1. SUFFICES ASSUME Init PROVE TypeOK /\ CopyDone
  OBVIOUS
<1>2. 0 \in Terms /\ MaxKeys \in 0 .. MaxKeys /\ NBytes \in Nat /\ NBytes >= 0
  BY ConstantsAssumption DEF Terms
<1>3. << >> \in Seq(Chars) /\ << >> \in Seq(Chars \cup {Unset}) /\ Len(<< >>) = 0
  OBVIOUS
<1> DEFINE r == [at |-> "away", buf |-> << >>]
<1>4. r \in Readers /\ Len(r.buf) <= NBytes /\ r.at = "away"
  BY <1>2, <1>3 DEF Readers
<1>5. reader = [t \in Terms |-> r]
  BY <1>1 DEF Init
<1>. HIDE DEF r
<1>6. reader \in [Terms -> Readers] /\ \A t \in Terms : reader[t] = r
  BY <1>4, <1>5
<1>7. CopyDone
  BY <1>4, <1>6 DEF CopyDone
<1>8. \A t \in Terms : Len(reader[t].buf) <= NBytes
  BY <1>4, <1>6
<1>. QED
  BY <1>1, <1>2, <1>3, <1>6, <1>7, <1>8 DEF Init, TypeOK

\* The types hold, whatever the hazards: the copy of a line stays within the
\* bytes the program asked for (terminal.c, the loop of terminal_read), and the
\* count is of bytes that are there.
THEOREM TypeCorrect == Spec => []TypeOK
<1>. QED
  BY TypeInit, TypeNext, PTL DEF Spec

-----------------------------------------------------------------------------
(***************************************************************************)
(* The line and has_enter, where only letters into a full buffer are       *)
(* allowed.                                                                *)
(***************************************************************************)
\* No key comes while a reader is past its wait.
LEMMA KeysWait ==
  ASSUME Hazards \subseteq {"overfull"}, Key
  PROVE  \A t \in Terms : ~PastWait(t)
BY DEF Key, MidRead, PastWait

\* Where no reader copies or goes on past its wait, nothing copied is held.
LEMMA CopiedQuiet ==
  ASSUME Copied, \A t \in Terms : ~PastWait(t)', UNCHANGED reader
  PROVE  Copied'
BY DEF Copied, PastWait

\* A key that edits the displayed line, and leaves the readers alone.
LEMMA EditAnnounced ==
  ASSUME LineInv, Hazards \subseteq {"overfull"}, Key,
         UNCHANGED << term_key_buf, curr_term, reader >>,
         \A t \in Terms : t # curr_term => has_enter'[t] = has_enter[t],
         has_enter'[curr_term] <=> HasEnter(keyboard_buffer')
  PROVE  Announced' /\ Copied'
<1>1. \A t \in Terms : ~PastWait(t) /\ ~PastWait(t)'
  BY KeysWait DEF PastWait
<1>2. Copied'
  BY <1>1, CopiedQuiet DEF LineInv
<1>3. curr_term \in Terms /\ Announced
  BY DEF LineInv, TypeOK
<1>4. Announced'
  BY <1>1, <1>3 DEF Announced
<1>. QED
  BY <1>2, <1>4

\* What holds of the displayed line between two reads.
LEMMA QuietLine ==
  ASSUME LineInv, \A t \in Terms : ~PastWait(t)
  PROVE  /\ curr_term \in Terms
         /\ HasEnter(keyboard_buffer) <=> has_enter[curr_term]
         /\ \A t \in Terms : t # curr_term => ~has_enter[t] /\ ~HasEnter(term_key_buf[t])
BY DEF LineInv, TypeOK, Announced

\* What a turn of the copy loop leaves behind.
LEMMA CopyFacts ==
  ASSUME TypeOK, CopyDone, NEW t \in Terms, Copy(t)
  PROVE  /\ UNCHANGED << keyboard_buffer, term_key_buf, has_enter, curr_term, returned >>
         /\ reader[t].at = "copy" /\ reader'[t].at \in {"copy", "count"}
         /\ \A u \in Terms : u # t => reader'[u] = reader[u]
         /\ \/ reader'[t].buf = reader[t].buf
            \/ LET i == Len(reader[t].buf) + 1
               IN reader'[t].buf = Append(reader[t].buf,
                    IF i <= length_key THEN keyboard_buffer[i] ELSE Unset)
BY DEF TypeOK, Readers, Copy

\* Every step keeps the displayed line announced.
LEMMA AnnouncedNext ==
  ASSUME LineInv, Hazards \subseteq {"overfull"}, [Next]_vars
  PROVE  Announced' /\ Copied'
<1>1. /\ TypeOK /\ CopyDone /\ Announced /\ Copied
      /\ keyboard_buffer \in Seq(Chars) /\ term_key_buf \in [Terms -> Seq(Chars)]
      /\ has_enter \in [Terms -> BOOLEAN] /\ curr_term \in Terms
      /\ reader \in [Terms -> Readers]
  BY DEF LineInv, TypeOK
<1>2. Key => \A t \in Terms : ~PastWait(t)
  BY KeysWait
<1>3. CASE UNCHANGED vars
  BY <1>1, <1>3 DEF vars, Announced, Copied, PastWait, length_key
<1>4. ASSUME NEW c \in Chars, c # NEWLINE, Key, Typed(c) \/ UNCHANGED keyboard_buffer,
             UNCHANGED << term_key_buf, has_enter, curr_term, reader >>
      PROVE  Announced' /\ Copied'
  <2>1. HasEnter(keyboard_buffer') <=> HasEnter(keyboard_buffer)
    <3>1. CASE UNCHANGED keyboard_buffer
      BY <3>1
    <3>2. CASE keyboard_buffer' = Append(keyboard_buffer, c)
      <4>1. HasEnter(Append(keyboard_buffer, c)) <=> HasEnter(keyboard_buffer)
        BY <1>1, <1>4, TypedFacts
      <4>. QED
        BY <3>2, <4>1
    <3>. QED
      BY <1>4, <3>1, <3>2 DEF Typed
  <2>2. has_enter'[curr_term] <=> HasEnter(keyboard_buffer')
    BY <1>2, <1>4, <2>1, QuietLine
  <2>. QED
    BY <1>4, <2>2, EditAnnounced
<1>5. ASSUME NEW c \in Letters, KeyLetter(c)
      PROVE  Announced' /\ Copied'
  BY <1>4, <1>5, LettersAssumption DEF KeyLetter, Chars
<1>6. CASE KeyTab
  BY <1>4, <1>6 DEF KeyTab, Chars, TAB_CHAR, NEWLINE
<1>7. CASE KeyEnter
  <2>1. Key /\ UNCHANGED << term_key_buf, curr_term, reader >>
    BY <1>7 DEF KeyEnter
  <2>2. \A t \in Terms : t # curr_term => has_enter'[t] = has_enter[t]
    BY <1>1, <1>7 DEF KeyEnter
  <2>3. NEWLINE \in Chars
    BY DEF Chars
  <2>4. has_enter'[curr_term] <=> HasEnter(keyboard_buffer')
    <3>1. CASE length_key = Size
      <4>1. UNCHANGED << keyboard_buffer, has_enter >>
        BY <1>7, <3>1 DEF KeyEnter
      <4>. QED
        BY <1>2, <2>1, <4>1, QuietLine
    <3>2. CASE length_key # Size
      <4>1. Typed(NEWLINE) /\ has_enter' = [has_enter EXCEPT ![curr_term] = TRUE]
        BY <1>7, <3>2 DEF KeyEnter
      <4>2. HasEnter(keyboard_buffer')
        BY <1>1, <2>3, <4>1, TypedFacts DEF Typed
      <4>3. has_enter'[curr_term]
        BY <1>1, <4>1
      <4>. QED
        BY <4>2, <4>3
    <3>. QED
      BY <3>1, <3>2
  <2>. QED
    BY <2>1, <2>2, <2>4, EditAnnounced
<1>8. CASE KeyBackspace
  <2>1. /\ Key /\ UNCHANGED << term_key_buf, has_enter, curr_term, reader >>
        /\ keyboard_buffer # << >>
        /\ keyboard_buffer[Len(keyboard_buffer)] # NEWLINE
        /\ keyboard_buffer' = SubSeq(keyboard_buffer, 1, Len(keyboard_buffer) - 1)
    BY <1>8 DEF KeyBackspace, length_key
  <2>2. HasEnter(keyboard_buffer') <=> HasEnter(keyboard_buffer)
    BY <1>1, <2>1, ErasedFacts
  <2>3. has_enter'[curr_term] <=> HasEnter(keyboard_buffer')
    BY <1>2, <2>1, <2>2, QuietLine
  <2>. QED
    BY <2>1, <2>3, EditAnnounced
<1>9. CASE CtrlL
  <2>1. /\ Key /\ UNCHANGED << term_key_buf, has_enter, curr_term, reader >>
        /\ ~has_enter[curr_term] /\ keyboard_buffer' = << >>
    BY <1>9 DEF CtrlL
  <2>2. has_enter'[curr_term] <=> HasEnter(keyboard_buffer')
    BY <2>1, EmptyFacts
  <2>. QED
    BY <2>1, <2>2, EditAnnounced
<1>10. CASE CtrlC
  <2>1. /\ Key /\ UNCHANGED << term_key_buf, has_enter, curr_term >>
        /\ ~has_enter[curr_term] /\ keyboard_buffer' = << >> /\ Ended(curr_term)
    BY <1>10 DEF CtrlC
  <2>2. /\ reader'[curr_term].at = "away" /\ reader'[curr_term].buf = << >>
        /\ \A u \in Terms : u # curr_term => reader'[u] = reader[u]
    BY <1>1, <2>1, EndedTyped
  <2>3. \A u \in Terms : ~PastWait(u) /\ ~PastWait(u)'
    BY <1>2, <2>1, <2>2 DEF PastWait
  <2>4. Copied'
    BY <1>1, <2>2, <2>3 DEF Copied, PastWait
  <2>5. Announced'
    BY <1>1, <2>1, <2>3, EmptyFacts DEF Announced
  <2>. QED
    BY <2>4, <2>5
<1>11. ASSUME NEW t \in Terms, AltF(t)
       PROVE  Announced' /\ Copied'
  <2>1. /\ Key /\ UNCHANGED << has_enter, reader >> /\ t # curr_term
        /\ ~has_enter[curr_term] /\ term_key_buf' = save_term_info
        /\ keyboard_buffer' = save_term_info[t] /\ curr_term' = t
    BY <1>11 DEF AltF
  <2>2. \A u \in Terms : ~PastWait(u) /\ ~PastWait(u)'
    BY <1>2, <2>1 DEF PastWait
  <2>3. Copied'
    BY <1>1, <2>1, <2>2, CopiedQuiet
  <2>4. /\ ~HasEnter(keyboard_buffer) /\ \A u \in Terms : ~has_enter[u]
        /\ \A u \in Terms : u # curr_term => ~HasEnter(term_key_buf[u])
    BY <2>1, <2>2, QuietLine
  <2>5. \A u \in Terms : save_term_info[u] = IF u = curr_term THEN keyboard_buffer
                                             ELSE term_key_buf[u]
    BY <1>1 DEF save_term_info
  <2>6. \A u \in Terms : ~HasEnter(save_term_info[u])
    BY <2>4, <2>5
  <2>7. Announced'
    BY <1>11, <2>1, <2>2, <2>4, <2>6 DEF Announced
  <2>. QED
    BY <2>3, <2>7
<1>12. ASSUME NEW t \in Terms, HaltProgram(t)
       PROVE  Announced' /\ Copied'
  <2>1. /\ UNCHANGED << has_enter, curr_term >> /\ reader[t].at = "away"
        /\ ~has_enter[t] /\ Ended(t)
    BY <1>12 DEF HaltProgram
  <2>2. /\ reader'[t].at = "away" /\ reader'[t].buf = << >>
        /\ \A u \in Terms : u # t => reader'[u] = reader[u]
    BY <1>1, <2>1, EndedTyped
  <2>3. ~PastWait(t) /\ \A u \in Terms : PastWait(u)' <=> PastWait(u)
    BY <2>1, <2>2 DEF PastWait
  <2>4. CASE t = curr_term
    <3>1. keyboard_buffer' = << >> /\ UNCHANGED term_key_buf
      BY <1>12, <2>4 DEF HaltProgram
    <3>2. \A u \in Terms : ~PastWait(u)
      BY <1>1, <2>3, <2>4 DEF Announced
    <3>3. Copied'
      BY <1>1, <2>2, <2>3, <3>2 DEF Copied, PastWait
    <3>4. Announced'
      BY <1>1, <2>1, <2>3, <2>4, <3>1, <3>2, EmptyFacts DEF Announced
    <3>. QED
      BY <3>3, <3>4
  <2>5. CASE t # curr_term
    <3>1. term_key_buf' = [term_key_buf EXCEPT ![t] = << >>] /\ UNCHANGED keyboard_buffer
      BY <1>12, <2>5 DEF HaltProgram
    <3>2. \A u \in Terms : HasEnter(term_key_buf'[u]) => HasEnter(term_key_buf[u])
      BY <1>1, <3>1, EmptyFacts
    <3>3. Copied'
      BY <1>1, <2>2, <3>1 DEF Copied, length_key
    <3>4. Announced'
      BY <1>1, <2>1, <2>3, <2>5, <3>1, <3>2 DEF Announced
    <3>. QED
      BY <3>3, <3>4
  <2>. QED
    BY <2>4, <2>5
<1>13. ASSUME NEW t \in Terms, BeginRead(t)
       PROVE  Announced' /\ Copied'
  <2>1. /\ UNCHANGED << keyboard_buffer, term_key_buf, has_enter, curr_term >>
        /\ reader[t].at = "away" /\ reader' = [reader EXCEPT ![t].at = "wait"]
    BY <1>13 DEF BeginRead, Step
  <2>2. /\ reader'[t].at = "wait" /\ reader'[t].buf = reader[t].buf
        /\ \A u \in Terms : u # t => reader'[u] = reader[u]
    BY <1>1, <2>1, StepTyped
  <2>3. \A u \in Terms : PastWait(u)' <=> PastWait(u)
    BY <2>1, <2>2 DEF PastWait
  <2>4. Copied'
    BY <1>1, <2>1, <2>2 DEF Copied, length_key
  <2>5. Announced'
    BY <1>1, <2>1, <2>3 DEF Announced
  <2>. QED
    BY <2>4, <2>5
<1>14. ASSUME NEW t \in Terms, Wake(t)
       PROVE  Announced' /\ Copied'
  <2>1. /\ UNCHANGED << keyboard_buffer, term_key_buf, curr_term >>
        /\ has_enter[t] /\ has_enter' = [has_enter EXCEPT ![t] = FALSE]
        /\ reader[t].at = "wait" /\ reader' = [reader EXCEPT ![t].at = "copy"]
    BY <1>14 DEF Wake, Step
  <2>2. /\ reader'[t].at = "copy" /\ reader'[t].buf = reader[t].buf
        /\ \A u \in Terms : u # t => reader'[u] = reader[u]
    BY <1>1, <2>1, StepTyped
  <2>3. t = curr_term
    BY <1>1, <2>1 DEF Announced
  <2>4. PastWait(t)' /\ \A u \in Terms : u # t => (PastWait(u)' <=> PastWait(u))
    BY <2>1, <2>2 DEF PastWait
  <2>5. reader[t].buf = << >> /\ Len(<< >>) = 0
    BY <1>1, <2>1 DEF Copied
  <2>6. Copied'
    BY <1>1, <2>1, <2>2, <2>5 DEF Copied, length_key
  <2>7. Announced'
    BY <1>1, <2>1, <2>3, <2>4 DEF Announced
  <2>. QED
    BY <2>6, <2>7
<1>16. ASSUME NEW t \in Terms, Count(t)
       PROVE  Announced' /\ Copied'
  <2>1. /\ UNCHANGED << keyboard_buffer, term_key_buf, has_enter, curr_term >>
        /\ reader[t].at = "count" /\ reader' = [reader EXCEPT ![t].at = "clear"]
    BY <1>16 DEF Count, Step
  <2>2. /\ reader'[t].at = "clear" /\ reader'[t].buf = reader[t].buf
        /\ \A u \in Terms : u # t => reader'[u] = reader[u]
    BY <1>1, <2>1, StepTyped
  <2>3. \A u \in Terms : PastWait(u)' <=> PastWait(u)
    BY <2>1, <2>2 DEF PastWait
  <2>4. Copied'
    BY <1>1, <2>1, <2>2 DEF Copied, length_key
  <2>5. Announced'
    BY <1>1, <2>1, <2>3 DEF Announced
  <2>. QED
    BY <2>4, <2>5
<1>17. ASSUME NEW t \in Terms, Clear(t)
       PROVE  Announced' /\ Copied'
  <2>1. /\ UNCHANGED << term_key_buf, has_enter, curr_term >>
        /\ reader[t].at = "clear" /\ Ended(t) /\ keyboard_buffer' = << >>
    BY <1>17 DEF Clear
  <2>2. /\ reader'[t].at = "away" /\ reader'[t].buf = << >>
        /\ \A u \in Terms : u # t => reader'[u] = reader[u]
    BY <1>1, <2>1, EndedTyped
  <2>3. PastWait(t) /\ t = curr_term /\ ~has_enter[t]
    BY <1>1, <2>1 DEF Announced, PastWait
  <2>4. \A u \in Terms : ~PastWait(u)'
    BY <1>1, <2>2, <2>3 DEF Announced, PastWait
  <2>5. Copied'
    BY <1>1, <2>2, <2>4 DEF Copied, PastWait
  <2>6. Announced'
    BY <1>1, <2>1, <2>3, <2>4, EmptyFacts DEF Announced
  <2>. QED
    BY <2>5, <2>6
<1>18. ASSUME NEW t \in Terms, Schedule(t)
       PROVE  Announced' /\ Copied'
  BY <1>1, <1>18 DEF Schedule, Announced, Copied, PastWait, length_key
<1>15. ASSUME NEW t \in Terms, Copy(t)
       PROVE  Announced' /\ Copied'
  <2> DEFINE buf == reader[t].buf
             i   == Len(buf) + 1
             c   == IF i <= length_key THEN keyboard_buffer[i] ELSE Unset
  <2>1. /\ UNCHANGED << keyboard_buffer, term_key_buf, has_enter, curr_term >>
        /\ reader[t].at = "copy" /\ reader'[t].at \in {"copy", "count"}
        /\ \A u \in Terms : u # t => reader'[u] = reader[u]
        /\ reader'[t].buf = buf \/ reader'[t].buf = Append(buf, c)
    BY <1>1, <1>15, CopyFacts
  <2>2. \A u \in Terms : PastWait(u)' <=> PastWait(u)
    BY <2>1 DEF PastWait
  <2>3. Announced'
    BY <1>1, <2>1, <2>2 DEF Announced
  <2>4. buf \in Seq(Chars \cup {Unset}) /\ Len(buf) \in Nat
    BY <1>1 DEF Readers
  <2>5. c \in Chars \cup {Unset}
    <3>1. Len(keyboard_buffer) \in Nat
          /\ \A k \in 1 .. Len(keyboard_buffer) : keyboard_buffer[k] \in Chars
      BY <1>1
    <3>2. i <= Len(keyboard_buffer) => i \in 1 .. Len(keyboard_buffer)
      BY <2>4, <3>1
    <3>. HIDE DEF i
    <3>. QED
      BY <3>1, <3>2 DEF length_key
  <2>6. \A k \in 1 .. Len(buf) :
          buf[k] = IF k <= length_key THEN keyboard_buffer[k] ELSE Unset
    BY <1>1, <2>1 DEF Copied
  <2>7. \A k \in 1 .. Len(reader'[t].buf) :
          reader'[t].buf[k] = IF k <= length_key THEN keyboard_buffer[k] ELSE Unset
    <3>1. CASE reader'[t].buf = buf
      <4>. HIDE DEF buf
      <4>. QED
        BY <2>6, <3>1
    <3>2. CASE reader'[t].buf = Append(buf, c)
      <4>1. i = Len(buf) + 1
        OBVIOUS
      <4>. HIDE DEF buf
      <4>2. /\ Len(Append(buf, c)) = Len(buf) + 1 /\ Append(buf, c)[Len(buf) + 1] = c
            /\ \A k \in 1 .. Len(buf) : Append(buf, c)[k] = buf[k]
        <5>. HIDE DEF c
        <5>. QED
          BY <2>4, <2>5, AppendProperties
      <4>3. \A k : k \in 1 .. Len(buf) + 1 <=> k \in 1 .. Len(buf) \/ k = i
        BY <2>4
      <4>4. c = IF i <= length_key THEN keyboard_buffer[i] ELSE Unset
        OBVIOUS
      <4>. HIDE DEF c, i
      <4>. QED
        BY <2>6, <3>2, <4>1, <4>2, <4>3, <4>4
    <3>. HIDE DEF buf, c
    <3>. QED
      BY <2>1, <3>1, <3>2
  <2>. HIDE DEF buf, i, c
  <2>8. ASSUME NEW u \in Terms, reader'[u].at \in {"copy", "count"},
               NEW k \in 1 .. Len(reader'[u].buf)
        PROVE  reader'[u].buf[k] =
                 IF k <= Len(keyboard_buffer) THEN keyboard_buffer[k] ELSE Unset
    <3>1. CASE u = t
      BY <2>7, <2>8, <3>1 DEF length_key
    <3>2. CASE u # t
      BY <1>1, <2>1, <2>8, <3>2 DEF Copied, length_key
    <3>. QED
      BY <3>1, <3>2
  <2>9. ASSUME NEW u \in Terms, reader'[u].at \in {"away", "wait"}
        PROVE  reader'[u].buf = << >>
    BY <1>1, <2>1, <2>9 DEF Copied
  <2>10. Copied'
    BY <2>1, <2>8, <2>9 DEF Copied, length_key
  <2>. QED
    BY <2>3, <2>10
<1>19. CASE Keys
  BY <1>5, <1>6, <1>7, <1>8, <1>9, <1>10, <1>11, <1>19 DEF Keys
<1>20. CASE Programs
  BY <1>12, <1>13, <1>14, <1>15, <1>16, <1>17, <1>20 DEF Programs, ReadStep
<1>. QED
  BY <1>3, <1>18, <1>19, <1>20 DEF Next

LEMMA LineInit == Init => LineInv
<1>1. SUFFICES ASSUME Init PROVE LineInv
  OBVIOUS
<1>2. 0 \in Terms
  BY ConstantsAssumption DEF Terms
<1>3. TypeOK /\ CopyDone
  BY <1>1, TypeInit
<1>4. /\ keyboard_buffer = << >> /\ curr_term = 0
      /\ \A t \in Terms : /\ term_key_buf[t] = << >> /\ ~has_enter[t]
                          /\ reader[t].at = "away" /\ reader[t].buf = << >>
  BY <1>1 DEF Init
<1>5. Announced
  BY <1>2, <1>4, EmptyFacts DEF Announced, PastWait
<1>6. Copied
  BY <1>4 DEF Copied
<1>. QED
  BY <1>3, <1>5, <1>6 DEF LineInv

LEMMA LineNext ==
  ASSUME Hazards \subseteq {"overfull"}
  PROVE  LineInv /\ [Next]_vars => LineInv'
<1>1. SUFFICES ASSUME LineInv, [Next]_vars PROVE LineInv'
  OBVIOUS
<1>2. TypeOK' /\ CopyDone'
  BY <1>1, TypeNext DEF LineInv
<1>. QED
  BY <1>1, <1>2, AnnouncedNext DEF LineInv

\* A line with its Enter stays the displayed one until its own reader has taken
\* it (keyboard.c sets has_enter of the displayed terminal, terminal.c clears
\* it), and what the reader has copied is the beginning of that line.
THEOREM LineInvariant ==
  ASSUME Hazards \subseteq {"overfull"}
  PROVE  Spec => []LineInv
<1>. QED
  BY LineInit, LineNext, PTL DEF Spec

\* The line of a terminal, while LineInv holds.
LEMMA LineFacts ==
  ASSUME LineInv, NEW t \in Terms
  PROVE  /\ t # curr_term => Line(t) = term_key_buf[t]
         /\ t = curr_term /\ reader[t].at = "clear" => Line(t) = << >>
         /\ t = curr_term /\ reader[t].at # "clear" => Line(t) = keyboard_buffer
         /\ Line(t) \in Seq(Chars)
<1>1. \A u \in Terms : reader[u].at = "clear" => u = curr_term
  BY DEF LineInv, Announced, PastWait
<1>2. /\ t # curr_term => Line(t) = term_key_buf[t]
      /\ t = curr_term /\ reader[t].at = "clear" => Line(t) = << >>
      /\ t = curr_term /\ reader[t].at # "clear" => Line(t) = keyboard_buffer
  BY <1>1 DEF Line
<1>. QED
  BY <1>2, EmptyFacts DEF LineInv, TypeOK

\* has_enter is set exactly for the terminals whose line holds an Enter: a read
\* that waits is woken by the Enter of its own terminal and by nothing else.
THEOREM EnterAnnouncedHolds ==
  ASSUME Hazards \subseteq {"overfull"}
  PROVE  Spec => []EnterAnnounced
<1>1. ASSUME LineInv PROVE EnterAnnounced
  <2>1. SUFFICES ASSUME NEW t \in Terms, ~PastWait(t)
                 PROVE  has_enter[t] <=> HasEnter(Line(t))
    BY DEF EnterAnnounced, PastWait, HasEnter
  <2>2. Announced
    BY <1>1 DEF LineInv
  <2>3. CASE t = curr_term
    <3>1. Line(t) = keyboard_buffer
      BY <1>1, <2>1, <2>3, LineFacts DEF PastWait
    <3>. QED
      BY <2>1, <2>2, <2>3, <3>1 DEF Announced
  <2>4. CASE t # curr_term
    <3>1. Line(t) = term_key_buf[t]
      BY <1>1, <2>4, LineFacts
    <3>. QED
      BY <2>2, <2>4, <3>1 DEF Announced
  <2>. QED
    BY <2>3, <2>4
<1>. QED
  BY <1>1, LineInvariant, PTL

-----------------------------------------------------------------------------
(***************************************************************************)
(* The shared buffer and the backups implement a line per terminal.        *)
(***************************************************************************)
AllLines == [t \in Terms |-> Line(t)]

\* One line changes, or none.
SetsLine(t, s) == AllLines' = [AllLines EXCEPT ![t] = s]

LEMMA SetsLineFacts ==
  ASSUME NEW t \in Terms, NEW s, Line(t)' = s,
         \A u \in Terms : u # t => Line(u)' = Line(u)
  PROVE  SetsLine(t, s)
BY DEF SetsLine, AllLines

LEMMA KeepsLinesFacts ==
  ASSUME \A t \in Terms : Line(t)' = Line(t)
  PROVE  AllLines' = AllLines
BY DEF AllLines

\* What the lines are after a step.
LEMMA LineFactsNext ==
  ASSUME LineInv', NEW t \in Terms
  PROVE  /\ t # curr_term' => Line(t)' = term_key_buf'[t]
         /\ t = curr_term' /\ reader'[t].at = "clear" => Line(t)' = << >>
         /\ t = curr_term' /\ reader'[t].at # "clear" => Line(t)' = keyboard_buffer'
<1>1. \A u \in Terms : reader'[u].at = "clear" => u = curr_term'
  BY DEF LineInv, Announced, PastWait
<1>. QED
  BY <1>1 DEF Line

\* The steps of the abstract specification, in terms of Line.
LEMMA TypesLine ==
  ASSUME NEW c \in Chars, curr_term \in Terms,
         SetsLine(curr_term, Append(Line(curr_term), c)),
         UNCHANGED << curr_term, returned >>
  PROVE  Lines!Next
<1>1. AllLines[curr_term] = Line(curr_term)
  BY DEF AllLines
<1>2. Lines!Type(c)
  BY <1>1 DEF Lines!Type, SetsLine, AllLines
<1>3. c \in Letters \cup {NEWLINE, TAB_CHAR}
  BY DEF Chars
<1>. QED
  BY <1>2, <1>3 DEF Lines!Next

LEMMA ErasesLine ==
  ASSUME Line(curr_term) # << >>, curr_term \in Terms,
         SetsLine(curr_term, SubSeq(Line(curr_term), 1, Len(Line(curr_term)) - 1)),
         UNCHANGED << curr_term, returned >>
  PROVE  Lines!Next
<1>1. AllLines[curr_term] = Line(curr_term)
  BY DEF AllLines
<1>2. Lines!Erase
  BY <1>1 DEF Lines!Erase, SetsLine, AllLines
<1>. QED
  BY <1>2 DEF Lines!Next

LEMMA ShowsTerminal ==
  ASSUME NEW t \in Terms, AllLines' = AllLines, curr_term' = t, UNCHANGED returned
  PROVE  Lines!Next
<1>1. Lines!Show(t)
  BY DEF Lines!Show, AllLines
<1>. QED
  BY <1>1 DEF Lines!Next, Lines!Terms, Terms

LEMMA DiscardsLine ==
  ASSUME NEW t \in Terms, SetsLine(t, << >>), UNCHANGED << curr_term, returned >>
  PROVE  Lines!Next
<1>1. Lines!Discard(t)
  BY DEF Lines!Discard, SetsLine, AllLines
<1>. QED
  BY <1>1 DEF Lines!Next, Lines!Terms, Terms

\* A reader takes the line of its terminal, which has an Enter.
LEMMA ReadsLine ==
  ASSUME NEW t \in Terms, SetsLine(t, << >>), UNCHANGED curr_term,
         HasEnter(Line(t)),
         returned' = [returned EXCEPT ![t] =
           SubSeq(Line(t), 1, IF Len(Line(t)) < NBytes THEN Len(Line(t)) ELSE NBytes)]
  PROVE  Lines!Next
<1>1. AllLines[t] = Line(t)
  BY DEF AllLines
<1>2. \E i \in 1 .. Len(Line(t)) : Line(t)[i] = NEWLINE
  BY DEF HasEnter
<1>3. Lines!Read(t)
  BY <1>1, <1>2 DEF Lines!Read, SetsLine, AllLines
<1>. QED
  BY <1>3 DEF Lines!Next, Lines!Terms, Terms

\* A key, or the end of a program by a key, acts on the displayed line only.
LEMMA EditLines ==
  ASSUME LineInv, LineInv', Hazards \subseteq {"overfull"}, Key,
         UNCHANGED << term_key_buf, curr_term >>, \A t \in Terms : ~PastWait(t)'
  PROVE  /\ curr_term \in Terms /\ Line(curr_term) = keyboard_buffer
         /\ SetsLine(curr_term, keyboard_buffer')
         /\ keyboard_buffer' = keyboard_buffer => AllLines' = AllLines
<1>1. \A t \in Terms : reader[t].at # "clear" /\ reader'[t].at # "clear"
  BY KeysWait DEF PastWait
<1>2. curr_term \in Terms
  BY DEF LineInv, TypeOK
<1>3. Line(curr_term) = keyboard_buffer /\ Line(curr_term)' = keyboard_buffer'
  BY <1>1, <1>2 DEF Line
<1>4. \A u \in Terms : u # curr_term => Line(u)' = Line(u)
  BY <1>1 DEF Line
<1>5. SetsLine(curr_term, keyboard_buffer')
  BY <1>2, <1>3, <1>4 DEF SetsLine, AllLines
<1>6. ASSUME keyboard_buffer' = keyboard_buffer PROVE AllLines' = AllLines
  <2>1. \A u \in Terms : Line(u)' = Line(u)
    BY <1>1, <1>6 DEF Line
  <2>. QED
    BY <2>1, KeepsLinesFacts
<1>. QED
  BY <1>2, <1>3, <1>5, <1>6

\* The bytes a reader counts are the beginning of the line.
LEMMA CountsLine ==
  ASSUME LineInv, NEW t \in Terms, reader[t].at = "count"
  PROVE  (IF length_key < NBytes THEN SubSeq(reader[t].buf, 1, length_key)
                                 ELSE reader[t].buf)
         = SubSeq(keyboard_buffer, 1, IF length_key < NBytes THEN length_key
                                                             ELSE NBytes)
<1> DEFINE buf == reader[t].buf
           n   == Len(keyboard_buffer)
           S   == Chars \cup {Unset}
<1>1. /\ buf \in Seq(S) /\ keyboard_buffer \in Seq(S) /\ n \in Nat
      /\ NBytes \in Nat /\ Len(buf) = NBytes
  BY ConstantsAssumption DEF LineInv, TypeOK, CopyDone, Readers
<1>2. \A i \in 1 .. Len(buf) : buf[i] = IF i <= n THEN keyboard_buffer[i] ELSE Unset
  BY DEF LineInv, Copied, length_key
<1>. HIDE DEF buf, S
<1>3. \A i \in 1 .. NBytes : buf[i] \in S
  BY <1>1
<1>4. \A i \in 1 .. n : keyboard_buffer[i] \in S
  BY <1>1
<1>. HIDE DEF n
<1>5. CASE n < NBytes
  <2>1. /\ SubSeq(buf, 1, n) \in Seq(S)
        /\ Len(SubSeq(buf, 1, n)) = IF 1 <= n THEN n - 1 + 1 ELSE 0
        /\ \A i \in 1 .. n - 1 + 1 : SubSeq(buf, 1, n)[i] = buf[1 + i - 1]
    <3>1. 1 \in Int /\ n \in Int /\ \A i \in 1 .. n : buf[i] \in S
      BY <1>1, <1>3, <1>5
    <3>. QED
      BY <3>1, SubSeqProperties
  <2>2. /\ SubSeq(keyboard_buffer, 1, n) \in Seq(S)
        /\ Len(SubSeq(keyboard_buffer, 1, n)) = IF 1 <= n THEN n - 1 + 1 ELSE 0
        /\ \A i \in 1 .. n - 1 + 1 :
             SubSeq(keyboard_buffer, 1, n)[i] = keyboard_buffer[1 + i - 1]
    <3>1. 1 \in Int /\ n \in Int /\ \A i \in 1 .. n : keyboard_buffer[i] \in S
      BY <1>1, <1>4
    <3>. QED
      BY <3>1, SubSeqProperties
  <2>3. n - 1 + 1 = n /\ \A i \in 1 .. n : 1 + i - 1 = i
    BY <1>1
  <2>4. \A i \in 1 .. n : i \in 1 .. Len(buf) /\ i <= n
    BY <1>1, <1>5
  <2>5. Len(SubSeq(buf, 1, n)) = n
    BY <1>1, <2>1
  <2>6. \A i \in 1 .. n : SubSeq(buf, 1, n)[i] = SubSeq(keyboard_buffer, 1, n)[i]
    BY <1>2, <2>1, <2>2, <2>3, <2>4
  <2>7. SubSeq(buf, 1, n) = SubSeq(keyboard_buffer, 1, n)
    BY <2>1, <2>2, <2>5, <2>6, SeqEqual
  <2>. QED
    BY <1>5, <2>7 DEF buf, n, length_key
<1>6. CASE ~(n < NBytes)
  <2>1. /\ SubSeq(keyboard_buffer, 1, NBytes) \in Seq(S)
        /\ Len(SubSeq(keyboard_buffer, 1, NBytes))
             = IF 1 <= NBytes THEN NBytes - 1 + 1 ELSE 0
        /\ \A i \in 1 .. NBytes - 1 + 1 :
             SubSeq(keyboard_buffer, 1, NBytes)[i] = keyboard_buffer[1 + i - 1]
    <3>1. 1 \in Int /\ NBytes \in Int /\ \A i \in 1 .. NBytes : keyboard_buffer[i] \in S
      BY <1>1, <1>4, <1>6
    <3>. QED
      BY <3>1, SubSeqProperties
  <2>2. NBytes - 1 + 1 = NBytes /\ \A i \in 1 .. NBytes : 1 + i - 1 = i
    BY <1>1
  <2>3. \A i \in 1 .. NBytes : i \in 1 .. Len(buf) /\ i <= n
    BY <1>1, <1>6
  <2>4. Len(SubSeq(keyboard_buffer, 1, NBytes)) = NBytes
    BY <1>1, <2>1
  <2>5. \A i \in 1 .. NBytes : buf[i] = SubSeq(keyboard_buffer, 1, NBytes)[i]
    BY <1>2, <2>1, <2>2, <2>3
  <2>6. buf = SubSeq(keyboard_buffer, 1, NBytes)
    BY <1>1, <2>1, <2>4, <2>5, SeqEqual
  <2>. QED
    BY <1>6, <2>6 DEF buf, n, length_key
<1>. QED
  BY <1>5, <1>6

\* A step that touches no line, buffer or count.
LEMMA SameLines ==
  ASSUME UNCHANGED << keyboard_buffer, term_key_buf, curr_term >>,
         \A t \in Terms : reader'[t].at = "clear" <=> reader[t].at = "clear"
  PROVE  AllLines' = AllLines
<1>1. \A t \in Terms : Line(t)' = Line(t)
  BY DEF Line
<1>. QED
  BY <1>1, KeepsLinesFacts

LEMMA InitLines == Init => Lines!Init
<1>1. SUFFICES ASSUME Init PROVE Lines!Init
  OBVIOUS
<1>2. \A t \in Terms : Line(t) = << >>
  BY <1>1 DEF Init, Line
<1>3. AllLines = [t \in Terms |-> << >>]
  BY <1>2 DEF AllLines
<1>. QED
  BY <1>1, <1>3 DEF Init, AllLines, Lines!Init, Lines!Terms, Terms

LEMMA NextLines ==
  ASSUME LineInv, LineInv', Hazards \subseteq {"overfull"}, Next
  PROVE  \/ Lines!Next
         \/ AllLines' = AllLines /\ UNCHANGED << curr_term, returned >>
<1> DEFINE Simulated == \/ Lines!Next
                        \/ AllLines' = AllLines /\ UNCHANGED << curr_term, returned >>
<1>. HIDE DEF Simulated
<1>. SUFFICES Simulated
  BY DEF Simulated
<1>1. /\ TypeOK /\ CopyDone /\ Announced /\ Copied
      /\ keyboard_buffer \in Seq(Chars) /\ term_key_buf \in [Terms -> Seq(Chars)]
      /\ has_enter \in [Terms -> BOOLEAN] /\ curr_term \in Terms
      /\ reader \in [Terms -> Readers]
  BY DEF LineInv, TypeOK
<1>2. ASSUME Key, UNCHANGED reader
      PROVE  \A t \in Terms : ~PastWait(t)'
  BY <1>2, KeysWait DEF PastWait
<1>3. ASSUME NEW c \in Chars, Key, Typed(c) \/ UNCHANGED keyboard_buffer,
             UNCHANGED << term_key_buf, curr_term, reader, returned >>
      PROVE  Simulated
  <2>1. /\ Line(curr_term) = keyboard_buffer
        /\ SetsLine(curr_term, keyboard_buffer')
        /\ keyboard_buffer' = keyboard_buffer => AllLines' = AllLines
    BY <1>2, <1>3, EditLines
  <2>2. CASE Typed(c)
    BY <1>1, <1>3, <2>1, <2>2, TypesLine DEF Typed, Simulated
  <2>3. CASE UNCHANGED keyboard_buffer
    BY <1>3, <2>1, <2>3 DEF Simulated
  <2>. QED
    BY <1>3, <2>2, <2>3
<1>4. CASE \E c \in Letters : KeyLetter(c)
  BY <1>3, <1>4 DEF KeyLetter, Chars
<1>5. CASE KeyTab
  BY <1>3, <1>5 DEF KeyTab, Chars
<1>6. CASE KeyEnter
  BY <1>3, <1>6 DEF KeyEnter, Chars
<1>7. CASE KeyBackspace
  <2>1. /\ Key /\ UNCHANGED << term_key_buf, curr_term, reader, returned >>
        /\ keyboard_buffer # << >>
        /\ keyboard_buffer' = SubSeq(keyboard_buffer, 1, Len(keyboard_buffer) - 1)
    BY <1>7 DEF KeyBackspace, length_key
  <2>2. Line(curr_term) = keyboard_buffer /\ SetsLine(curr_term, keyboard_buffer')
    BY <1>2, <2>1, EditLines
  <2>. QED
    BY <1>1, <2>1, <2>2, ErasesLine DEF Simulated
<1>8. CASE CtrlL
  <2>1. /\ Key /\ UNCHANGED << term_key_buf, curr_term, reader, returned >>
        /\ keyboard_buffer' = << >>
    BY <1>8 DEF CtrlL
  <2>2. SetsLine(curr_term, << >>)
    BY <1>2, <2>1, EditLines
  <2>. QED
    BY <1>1, <2>1, <2>2, DiscardsLine DEF Simulated
<1>9. CASE CtrlC
  <2>1. /\ Key /\ UNCHANGED << term_key_buf, curr_term, returned >>
        /\ keyboard_buffer' = << >> /\ Ended(curr_term)
    BY <1>9 DEF CtrlC
  <2>2. /\ reader'[curr_term].at = "away"
        /\ \A u \in Terms : u # curr_term => reader'[u] = reader[u]
    BY <1>1, <2>1, EndedTyped
  <2>3. \A t \in Terms : ~PastWait(t)'
    BY <2>1, <2>2, KeysWait DEF PastWait
  <2>4. SetsLine(curr_term, << >>)
    BY <2>1, <2>3, EditLines
  <2>. QED
    BY <1>1, <2>1, <2>4, DiscardsLine DEF Simulated
<1>10. ASSUME NEW t \in Terms, AltF(t)
       PROVE  Simulated
  <2>1. /\ Key /\ UNCHANGED << reader, returned >> /\ t # curr_term
        /\ term_key_buf' = save_term_info
        /\ keyboard_buffer' = save_term_info[t] /\ curr_term' = t
    BY <1>10 DEF AltF
  <2>2. \A u \in Terms : reader[u].at # "clear" /\ reader'[u].at # "clear"
    BY <2>1, KeysWait DEF PastWait
  <2>3. \A u \in Terms : save_term_info[u] = Line(u)
    BY <1>1, <2>2 DEF save_term_info, Line
  <2>4. \A u \in Terms : Line(u)' = save_term_info[u]
    BY <2>1, <2>2 DEF Line
  <2>5. AllLines' = AllLines
    BY <2>3, <2>4, KeepsLinesFacts
  <2>. QED
    BY <2>1, <2>5, ShowsTerminal DEF Simulated
<1>11. ASSUME NEW t \in Terms, HaltProgram(t)
       PROVE  Simulated
  <2>1. /\ UNCHANGED << curr_term, returned >> /\ reader[t].at = "away" /\ Ended(t)
    BY <1>11 DEF HaltProgram
  <2>2. /\ reader'[t].at = "away"
        /\ \A u \in Terms : u # t => reader'[u] = reader[u]
    BY <1>1, <2>1, EndedTyped
  <2>3. \A u \in Terms : reader'[u].at = "clear" <=> reader[u].at = "clear"
    BY <2>1, <2>2
  <2>4. Line(t)' = << >> /\ \A u \in Terms : u # t => Line(u)' = Line(u)
    <3>1. CASE t = curr_term
      <4>1. keyboard_buffer' = << >> /\ UNCHANGED term_key_buf
        BY <1>11, <3>1 DEF HaltProgram
      <4>. QED
        BY <2>1, <2>3, <3>1, <4>1 DEF Line
    <3>2. CASE t # curr_term
      <4>1. term_key_buf' = [term_key_buf EXCEPT ![t] = << >>] /\ UNCHANGED keyboard_buffer
        BY <1>11, <3>2 DEF HaltProgram
      <4>2. /\ term_key_buf'[t] = << >>
            /\ \A u \in Terms : u # t => term_key_buf'[u] = term_key_buf[u]
        BY <1>1, <4>1
      <4>. QED
        BY <2>1, <2>3, <3>2, <4>1, <4>2 DEF Line
    <3>. QED
      BY <3>1, <3>2
  <2>5. SetsLine(t, << >>)
    BY <2>4, SetsLineFacts
  <2>. QED
    BY <2>1, <2>5, DiscardsLine DEF Simulated
<1>12. ASSUME UNCHANGED << keyboard_buffer, term_key_buf, curr_term, returned >>,
              \A u \in Terms : reader'[u].at = "clear" <=> reader[u].at = "clear"
       PROVE  Simulated
  BY <1>12, SameLines DEF Simulated
<1>13. ASSUME NEW t \in Terms, BeginRead(t) \/ Wake(t)
       PROVE  Simulated
  <2>1. /\ UNCHANGED << keyboard_buffer, term_key_buf, curr_term, returned >>
        /\ reader[t].at \in {"away", "wait"}
    BY <1>13 DEF BeginRead, Wake, Step
  <2>2. /\ reader'[t].at \in {"wait", "copy"}
        /\ \A u \in Terms : u # t => reader'[u] = reader[u]
    BY <1>1, <1>13, StepTyped DEF BeginRead, Wake, Step
  <2>3. \A u \in Terms : reader'[u].at = "clear" <=> reader[u].at = "clear"
    BY <2>1, <2>2
  <2>. QED
    BY <1>12, <2>1, <2>3
<1>14. ASSUME NEW t \in Terms, Copy(t)
       PROVE  Simulated
  <2>1. /\ UNCHANGED << keyboard_buffer, term_key_buf, curr_term, returned >>
        /\ reader[t].at = "copy" /\ reader'[t].at \in {"copy", "count"}
        /\ \A u \in Terms : u # t => reader'[u] = reader[u]
    BY <1>1, <1>14, CopyFacts
  <2>2. \A u \in Terms : reader'[u].at = "clear" <=> reader[u].at = "clear"
    BY <2>1
  <2>. QED
    BY <1>12, <2>1, <2>2
<1>15. ASSUME NEW t \in Terms, Count(t)
       PROVE  Simulated
  <2>1. /\ UNCHANGED << keyboard_buffer, term_key_buf, curr_term >>
        /\ reader[t].at = "count" /\ reader' = [reader EXCEPT ![t].at = "clear"]
    BY <1>15 DEF Count, Step
  <2>2. /\ reader'[t].at = "clear"
        /\ \A u \in Terms : u # t => reader'[u] = reader[u]
    BY <1>1, <2>1, StepTyped
  <2>3. t = curr_term /\ HasEnter(keyboard_buffer)
    BY <1>1, <2>1 DEF Announced, PastWait
  <2>4. Line(t) = keyboard_buffer
    BY <2>1, <2>3, LineFacts
  <2>5. Line(t)' = << >>
    BY <2>1, <2>2, <2>3 DEF Line
  <2>6. \A u \in Terms : u # t => Line(u)' = Line(u)
    BY <2>1, <2>3 DEF Line
  <2>7. SetsLine(t, << >>)
    BY <2>5, <2>6, SetsLineFacts
  <2>8. returned' = [returned EXCEPT ![t] =
          SubSeq(Line(t), 1, IF Len(Line(t)) < NBytes THEN Len(Line(t)) ELSE NBytes)]
    BY <1>15, <2>1, <2>4, CountsLine DEF Count, length_key
  <2>. QED
    BY <2>1, <2>3, <2>4, <2>7, <2>8, ReadsLine DEF Simulated
<1>16. ASSUME NEW t \in Terms, Clear(t)
       PROVE  Simulated
  <2>1. /\ UNCHANGED << term_key_buf, curr_term, returned >>
        /\ reader[t].at = "clear" /\ Ended(t) /\ keyboard_buffer' = << >>
    BY <1>16 DEF Clear
  <2>2. t = curr_term
    BY <1>1, <2>1 DEF Announced, PastWait
  <2>3. Line(t) = << >> /\ Line(t)' = << >>
    BY <2>1, <2>2 DEF Line
  <2>4. \A u \in Terms : u # t => Line(u)' = Line(u)
    BY <2>1, <2>2 DEF Line
  <2>5. AllLines' = AllLines
    BY <2>3, <2>4, KeepsLinesFacts
  <2>. QED
    BY <2>1, <2>5 DEF Simulated
<1>17. ASSUME NEW t \in Terms, Schedule(t)
       PROVE  Simulated
  BY <1>12, <1>17 DEF Schedule
<1>18. CASE Keys
  BY <1>4, <1>5, <1>6, <1>7, <1>8, <1>9, <1>10, <1>18 DEF Keys
<1>19. CASE Programs
  BY <1>11, <1>13, <1>14, <1>15, <1>16, <1>19 DEF Programs, ReadStep
<1>. QED
  BY <1>17, <1>18, <1>19 DEF Next

\* The keys, the switches between terminals and terminal_read implement a line
\* for each terminal: what is typed stays in the line of the terminal where it
\* was typed until it is erased, discarded or read there, once and in order.
THEOREM LinesRefined ==
  ASSUME Hazards \subseteq {"overfull"}
  PROVE  Spec => RefinesLineInput
<1>1. Init => Lines!Init
  BY InitLines
<1>2. LineInv /\ LineInv' /\ [Next]_vars
        => [Lines!Next]_<< curr_term, AllLines, returned >>
  <2>1. SUFFICES ASSUME LineInv, LineInv', [Next]_vars
                 PROVE  \/ Lines!Next
                        \/ AllLines' = AllLines /\ UNCHANGED << curr_term, returned >>
    OBVIOUS
  <2>2. CASE Next
    BY <2>1, <2>2, NextLines
  <2>3. CASE UNCHANGED vars
    BY <2>1, <2>3, SameLines DEF vars
  <2>. QED
    BY <2>1, <2>2, <2>3
<1>. QED
  BY <1>1, <1>2, LineInvariant, PTL DEF RefinesLineInput, Lines!Spec, Spec, AllLines

-----------------------------------------------------------------------------
(* The meaning of keys.                                                    *)

\* The mode is 1 with a Shift, plus 2 with Caps Lock, case by case.
LEMMA ModeCases ==
  ASSUME ModeInv
  PROVE  /\ ShiftHeld /\ caps => key_mode = 3
         /\ ShiftHeld /\ ~caps => key_mode = 1
         /\ ~ShiftHeld /\ caps => key_mode = 2
         /\ ~ShiftHeld /\ ~caps => key_mode = 0
         /\ cap_on = caps
BY DEF ModeInv, ModeMatchesKeys

\* The cases make up the mode again, after a step.
LEMMA ModeIs ==
  ASSUME caps' \in BOOLEAN, cap_on' = caps',
         ShiftHeld' /\ caps' => key_mode' = 3,
         ShiftHeld' /\ ~caps' => key_mode' = 1,
         ~ShiftHeld' /\ caps' => key_mode' = 2,
         ~ShiftHeld' /\ ~caps' => key_mode' = 0
  PROVE  key_mode' = (IF ShiftHeld' THEN 1 ELSE 0) + (IF caps' THEN 2 ELSE 0)
OBVIOUS

\* A key goes down.
LEMMA PressMode ==
  ASSUME ModeInv, ModeHazards \cap {"twokeys", "capsrepeat"} = {},
         NEW k \in AllKeys, Press(k)
  PROVE  ModeInv'
<1>1. /\ caps \in BOOLEAN /\ combined \in BOOLEAN
      /\ alt_pressed <=> AltHeld
      /\ ctrl_pressed <=> CtrlHeld /\ ~combined
  BY DEF ModeInv, ModeMatchesKeys
<1>2. /\ held' = held \cup ({k} \ {"overrun"})
      /\ caps' = (caps # (k = "caps" /\ k \notin held))
      /\ combined' = (k \notin Ctrls /\ (combined \/ (k \in HotCtrl /\ CtrlHeld)))
      /\ process_char(k)
  BY DEF Press
<1>3. /\ \A twins \in {Shifts, Ctrls, Alts} : k \in twins => held \cap (twins \ {k}) = {}
      /\ k = "caps" => k \notin held
  BY DEF Press, Allowed
<1>4. caps' \in BOOLEAN /\ combined' \in BOOLEAN
  BY <1>1, <1>2
<1>5. \A twins \in {Shifts, Ctrls, Alts} : ~(twins \subseteq held')
  <2>1. ASSUME NEW twins \in {Shifts, Ctrls, Alts} PROVE ~(twins \subseteq held')
    <3>1. ~(twins \subseteq held)
      BY <2>1 DEF ModeInv
    <3>2. k \in twins => held \cap (twins \ {k}) = {}
      BY <1>3, <2>1
    <3>3. \E a, b \in twins : a # b
      BY <2>1 DEF Shifts, Ctrls, Alts
    <3>. QED
      BY <1>2, <3>1, <3>2, <3>3
  <2>. QED
    BY <2>1
<1>6. alt_pressed' <=> AltHeld'
  BY <1>1, <1>2 DEF process_char, AltHeld, Alts
<1>7. ctrl_pressed' <=> CtrlHeld' /\ ~combined'
  BY <1>1, <1>2 DEF process_char, HotCtrl, CtrlHeld, Ctrls
<1>8. cap_on' = caps' /\ key_mode' = (IF ShiftHeld THEN 1 ELSE 0)'
                                       + (IF caps THEN 2 ELSE 0)'
  <2>1. CASE k \in Shifts
    <3>1. /\ ShiftDown /\ UNCHANGED cap_on /\ ShiftHeld' /\ caps' = caps
      BY <1>1, <1>2, <2>1 DEF process_char, Shifts, Ctrls, Alts, ShiftHeld
    <3>2. /\ caps => key_mode' = 3
          /\ ~caps => key_mode' = 1
      BY <3>1, ModeCases DEF ShiftDown
    <3>. QED
      BY <1>1, <3>1, <3>2, ModeCases, ModeIs
  <2>2. CASE k = "caps"
    <3>1. CapsDown /\ (ShiftHeld' <=> ShiftHeld) /\ caps' = ~caps
      BY <1>1, <1>2, <1>3, <2>2 DEF process_char, Shifts, Ctrls, Alts, ShiftHeld
    <3>2. /\ ShiftHeld /\ caps => key_mode' = 1
          /\ ShiftHeld /\ ~caps => key_mode' = 3
          /\ ~ShiftHeld /\ caps => key_mode' = 0
          /\ ~ShiftHeld /\ ~caps => key_mode' = 2
      BY <3>1, ModeCases DEF CapsDown
    <3>3. cap_on' = caps'
      BY <3>1, ModeCases DEF CapsDown
    <3>. QED
      BY <1>1, <3>1, <3>2, <3>3, ModeIs
  <2>3. CASE k \notin Shifts /\ k # "caps"
    <3>1. UNCHANGED << key_mode, cap_on, caps >> /\ (ShiftHeld' <=> ShiftHeld)
      BY <1>1, <1>2, <2>3 DEF process_char, Shifts, Ctrls, Alts, ShiftHeld
    <3>. QED
      BY <1>1, <3>1, ModeCases, ModeIs
  <2>. QED
    BY <2>1, <2>2, <2>3
<1>. QED
  BY <1>4, <1>5, <1>6, <1>7, <1>8 DEF ModeInv, ModeMatchesKeys

\* A key comes up.
LEMMA ReleaseMode ==
  ASSUME ModeInv, NEW k \in AllKeys, Release(k)
  PROVE  ModeInv'
<1>1. /\ caps \in BOOLEAN /\ combined \in BOOLEAN /\ (\A twins \in {Shifts, Ctrls, Alts} : ~(twins \subseteq held))
      /\ alt_pressed <=> AltHeld
      /\ ctrl_pressed <=> CtrlHeld /\ ~combined
  BY DEF ModeInv, ModeMatchesKeys
<1>2. /\ k \in held /\ held' = held \ {k} /\ UNCHANGED << cap_on, caps >>
      /\ combined' = (combined /\ k \notin Ctrls)
      /\ ctrl_pressed' = (ctrl_pressed /\ k \notin Ctrls)
      /\ alt_pressed' = (alt_pressed /\ k \notin Alts)
      /\ IF k \in Shifts THEN ShiftUp ELSE UNCHANGED key_mode
  BY DEF Release
<1>3. cap_on' = caps' /\ key_mode' = (IF ShiftHeld THEN 1 ELSE 0)'
                                       + (IF caps THEN 2 ELSE 0)'
  <2>1. CASE k \in Shifts
    <3>1. ShiftUp /\ ~ShiftHeld' /\ ShiftHeld
      BY <1>1, <1>2, <2>1 DEF Shifts, ShiftHeld
    <3>2. /\ caps => key_mode' = 2
          /\ ~caps => key_mode' = 0
      BY <3>1, ModeCases DEF ShiftUp
    <3>. QED
      BY <1>1, <1>2, <3>1, <3>2, ModeCases, ModeIs
  <2>2. CASE k \notin Shifts
    <3>1. UNCHANGED key_mode /\ (ShiftHeld' <=> ShiftHeld)
      BY <1>2, <2>2 DEF Shifts, ShiftHeld
    <3>. QED
      BY <1>1, <1>2, <3>1, ModeCases, ModeIs
  <2>. QED
    BY <2>1, <2>2
<1>4. /\ \A twins \in {Shifts, Ctrls, Alts} : ~(twins \subseteq held')
      /\ alt_pressed' <=> AltHeld'
  <2>1. \A twins \in {Shifts, Ctrls, Alts} : ~(twins \subseteq held')
    BY <1>1, <1>2
  <2>2. alt_pressed' <=> AltHeld'
    BY <1>1, <1>2 DEF AltHeld, Alts
  <2>. QED
    BY <2>1, <2>2
<1>5. ctrl_pressed' <=> CtrlHeld' /\ ~combined'
  BY <1>1, <1>2 DEF CtrlHeld, Ctrls
<1>6. caps' \in BOOLEAN /\ combined' \in BOOLEAN
  BY <1>1, <1>2
<1>. QED
  BY <1>3, <1>4, <1>5, <1>6 DEF ModeInv, ModeMatchesKeys

LEMMA ModeInit == ModesInit => ModeInv
<1>1. SUFFICES ASSUME ModesInit PROVE ModeInv
  OBVIOUS
<1>2. ~ShiftHeld /\ (\A twins \in {Shifts, Ctrls, Alts} : ~(twins \subseteq held)) /\ ~caps /\ caps \in BOOLEAN
      /\ combined \in BOOLEAN
  BY <1>1 DEF ModesInit, ShiftHeld, Shifts, Ctrls, Alts
<1>3. key_mode = (IF ShiftHeld THEN 1 ELSE 0) + (IF caps THEN 2 ELSE 0)
  BY <1>1, <1>2 DEF ModesInit
<1>4. cap_on = caps
  BY <1>1 DEF ModesInit
<1>5. (alt_pressed <=> AltHeld) /\ (ctrl_pressed <=> CtrlHeld /\ ~combined)
  BY <1>1 DEF ModesInit, AltHeld, CtrlHeld
<1>. QED
  BY <1>2, <1>3, <1>4, <1>5 DEF ModeInv, ModeMatchesKeys

LEMMA ModeNext ==
  ASSUME ModeHazards \cap {"twokeys", "capsrepeat"} = {}
  PROVE  ModeInv /\ [ModesNext]_modes => ModeInv'
<1>1. SUFFICES ASSUME ModeInv, [ModesNext]_modes PROVE ModeInv'
  OBVIOUS
<1>2. CASE UNCHANGED modes
  BY <1>1, <1>2 DEF modes, kernel, user, ModeInv, ModeMatchesKeys, ShiftHeld,
                     CtrlHeld, AltHeld
<1>3. CASE ModesNext
  BY <1>1, <1>3, PressMode, ReleaseMode DEF ModesNext
<1>. QED
  BY <1>1, <1>2, <1>3

\* One Shift, Ctrl and Alt at a time and no repeat of Caps Lock: what keyboard.c remembers of
\* the modifiers is the keys that are held, after any presses and releases.
THEOREM ModeMatchesKeysHolds ==
  ASSUME ModeHazards \cap {"twokeys", "capsrepeat"} = {}
  PROVE  ModesSpec => []ModeMatchesKeys
<1>1. ModesInit => ModeInv
  BY ModeInit
<1>2. ModeInv => ModeMatchesKeys
  BY DEF ModeInv
<1>. QED
  BY <1>1, <1>2, ModeNext, PTL DEF ModesSpec
-----------------------------------------------------------------------------
(* What a key does.                                                        *)

\* The character of a key, with the modifiers as they are held.
LEMMA MapFollowsKeys ==
  ASSUME ModeInv, NEW k \in LetterKeys \cup {"digit", "backslash"},
         k = "backslash" => ~(caps /\ ShiftHeld)
  PROVE  scancode_map(key_mode, k)
           = IF k \in LetterKeys THEN IF ShiftHeld # caps THEN "upper" ELSE "lower"
             ELSE IF ShiftHeld THEN "shifted" ELSE "plain"
<1>1. /\ caps \in BOOLEAN /\ ShiftHeld \in BOOLEAN
  BY DEF ModeInv, ShiftHeld
<1>2. CASE k \in LetterKeys
  <2>1. scancode_map(key_mode, k) = IF key_mode \in {0, 3} THEN "lower" ELSE "upper"
    BY <1>2 DEF scancode_map, LetterKeys, HotCtrl
  <2>2. key_mode \in {0, 3} <=> ~(ShiftHeld # caps)
    BY <1>1, ModeCases
  <2>. QED
    BY <1>2, <2>1, <2>2
<1>3. CASE k = "digit"
  <2>1. scancode_map(key_mode, k) = IF key_mode \in {1, 3} THEN "shifted" ELSE "plain"
    BY <1>3 DEF scancode_map, LetterKeys, HotCtrl
  <2>2. key_mode \in {1, 3} <=> ShiftHeld
    BY <1>1, ModeCases
  <2>. QED
    BY <1>3, <2>1, <2>2 DEF LetterKeys, HotCtrl
<1>4. CASE k = "backslash"
  <2>1. scancode_map(key_mode, k) = IF key_mode = 1 THEN "shifted" ELSE "plain"
    BY <1>4 DEF scancode_map, LetterKeys, HotCtrl
  <2>2. key_mode = 1 <=> ShiftHeld
    BY <1>1, <1>4, ModeCases
  <2>. QED
    BY <1>4, <2>1, <2>2 DEF LetterKeys, HotCtrl
<1>. QED
  BY <1>2, <1>3, <1>4

LEMMA PressActs ==
  ASSUME ModeInv, ModeHazards = {}, NEW k \in AllKeys, Press(k)
  PROVE  pressed'.does = Meaning(pressed'.key)
<1>1. PICK does \in Does(k) : pressed' = [key |-> k, does |-> does]
  <2>1. process_char(k)
    BY DEF Press
  <2>2. \E does \in Does(k) : pressed' = [key |-> k, does |-> does]
    BY <2>1, Zenon DEF process_char
  <2>. QED
    BY <2>2
<1>2. pressed'.key = k /\ pressed'.does = does
  BY <1>1
<1>3. /\ k \in HotCtrl /\ CtrlHeld => ~combined
      /\ k = "backslash" => ~(caps /\ ShiftHeld)
      /\ k \notin {"nul", "overrun"}
  BY DEF Press, Allowed, ShiftHeld
<1>4. /\ alt_pressed <=> AltHeld
      /\ ctrl_pressed <=> CtrlHeld /\ ~combined
  BY DEF ModeInv, ModeMatchesKeys
<1>5. CASE k \in Modifiers
  BY <1>1, <1>2, <1>5 DEF Does, Meaning, Modifiers, LetterKeys, HotCtrl, Shifts,
                                       Ctrls, Alts
<1>6. CASE k = "F"
  <2>1. Does(k) = {IF alt_pressed THEN "launch" ELSE "nothing"}
    BY <1>6 DEF Does, Modifiers, Shifts, Ctrls, Alts
  <2>2. Meaning(k) = IF AltHeld THEN "launch" ELSE "nothing"
    BY <1>6 DEF Meaning, LetterKeys, HotCtrl
  <2>3. CASE AltHeld
    BY <1>1, <1>2, <1>4, <2>1, <2>2, <2>3
  <2>4. CASE ~AltHeld
    BY <1>1, <1>2, <1>4, <2>1, <2>2, <2>4
  <2>. QED
    BY <2>3, <2>4
<1>7. CASE k \in HotCtrl /\ CtrlHeld
  <2>1. ctrl_pressed
    BY <1>3, <1>4, <1>7
  <2>2. CASE k = "L"
    <3>1. Does(k) = {"clear"}
      BY <2>1, <2>2 DEF Does, Modifiers, Shifts, Ctrls, Alts
    <3>2. Meaning(k) = "clear"
      BY <1>7, <2>2 DEF Meaning, LetterKeys, HotCtrl
    <3>. QED
      BY <1>1, <1>2, <3>1, <3>2
  <2>3. CASE k = "C"
    <3>1. Does(k) = {"halt"}
      BY <2>1, <2>3 DEF Does, Modifiers, Shifts, Ctrls, Alts
    <3>2. Meaning(k) = "halt"
      BY <1>7, <2>3 DEF Meaning, LetterKeys, HotCtrl
    <3>. QED
      BY <1>1, <1>2, <3>1, <3>2
  <2>. QED
    BY <1>7, <2>2, <2>3 DEF HotCtrl
<1>8. CASE /\ k \in LetterKeys \cup {"digit", "backslash"}
           /\ ~(k \in HotCtrl /\ CtrlHeld)
  <2>1. does = scancode_map(key_mode, k)
    BY <1>1, <1>4, <1>8 DEF Does, Modifiers, LetterKeys, HotCtrl, Shifts,
                                       Ctrls, Alts
  <2>2. Meaning(k) = IF k \in LetterKeys THEN IF ShiftHeld # caps THEN "upper" ELSE "lower"
                     ELSE IF ShiftHeld THEN "shifted" ELSE "plain"
    BY <1>8 DEF Meaning, LetterKeys, HotCtrl
  <2>. QED
    BY <1>2, <1>3, <1>8, <2>1, <2>2, MapFollowsKeys
<1>. QED
  BY <1>3, <1>5, <1>6, <1>7, <1>8 DEF AllKeys, LetterKeys

\* Every hazard closed, a key does what the modifiers held with it say: the
\* letter's case, the shifted character, Ctrl+L, Ctrl+C and Alt with an F key.
THEOREM ActsAsHeldHolds ==
  ASSUME ModeHazards = {}
  PROVE  ModesSpec => ActsAsHeld
<1>1. ModeInv /\ [ModesNext]_modes
        => [pressed' # pressed /\ pressed' # Nothing
              => pressed'.does = Meaning(pressed'.key)]_modes
  <2>1. SUFFICES ASSUME ModeInv, ModesNext, pressed' # pressed, pressed' # Nothing
                 PROVE  pressed'.does = Meaning(pressed'.key)
    BY DEF modes
  <2>2. PICK k \in AllKeys : Press(k) \/ Release(k)
    BY <2>1 DEF ModesNext
  <2>3. ~Release(k)
    BY <2>1 DEF Release
  <2>. QED
    BY <2>1, <2>2, <2>3, PressActs
<1>2. ModeHazards \cap {"twokeys", "capsrepeat"} = {}
  OBVIOUS
<1>. QED
  BY <1>1, <1>2, ModeInit, ModeNext, PTL DEF ModesSpec, ActsAsHeld
=============================================================================
