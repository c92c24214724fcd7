------------------------------ MODULE Keyboard -------------------------------
(***************************************************************************)
(* Line input: keyboard.c (the keys that edit the line, the busy wait of   *)
(* read_buffer), terminal_read and the switch of terminal.c, and what      *)
(* halt_func does to the line.  There is one keyboard_buffer, of the       *)
(* displayed terminal; a switch copies it to the terminal's backup and the *)
(* backup of the new terminal into it.                                     *)
(*                                                                         *)
(* A buffer and its length are the sequence of its first length characters: *)
(* nothing reads the others.  One program reads in each terminal.  A key   *)
(* interrupt is one step (its handler runs under cli); terminal_read is one *)
(* step per byte, because it runs with interrupts enabled.                 *)
(***************************************************************************)
EXTENDS Integers, Sequences

CONSTANTS
  NumTerms,   \* NUM_TERM
  Size,       \* KEYBOARD_BUFFER_SIZE
  NBytes,     \* how many bytes the programs ask terminal_read for
  Letters,    \* the characters of letter keys
  MaxKeys,    \* bound: number of keys pressed
  Hazards     \* what this instance allows

(***************************************************************************)
(* "reading": keys while a terminal_read is past its wait.  "switch": a    *)
(* switch away from a terminal before a line completed there is read.      *)
(* "overfull": letters into a full buffer.  "erase": a Backspace over an   *)
(* Enter.  "discard": the end of a program, or Ctrl+L, with a completed    *)
(* line not read.                                                          *)
(***************************************************************************)
ASSUME ConstantsAssumption ==
  /\ NumTerms \in Nat \ {0}
  /\ Size \in Nat \ {0}
  /\ NBytes \in Nat
  /\ MaxKeys \in Nat
  /\ Hazards \subseteq {"reading", "switch", "overfull", "erase", "discard"}

Terms    == 0 .. NumTerms - 1
NEWLINE  == "enter"
TAB_CHAR == "tab"
Unset    == "unset"                  \* a byte of the reader's buffer never set
Chars    == Letters \cup {NEWLINE, TAB_CHAR}

\* The scancodes of letter keys give no newline.
ASSUME LettersAssumption == NEWLINE \notin Letters

VARIABLES
  keyboard_buffer,   \* with length_key
  term_key_buf,      \* the backups, with len_key_buf
  has_enter,
  curr_term, running_term,
  reader,            \* per terminal, where terminal_read is and its buffer
  returned,          \* per terminal, what the last terminal_read returned
  keys               \* keys left

vars == << keyboard_buffer, term_key_buf, has_enter, curr_term, running_term,
           reader, returned, keys >>

Readers == [at : {"away", "wait", "copy", "count", "clear"},
            buf : Seq(Chars \cup {Unset})]

TypeOK ==
  /\ keyboard_buffer \in Seq(Chars)
  /\ term_key_buf \in [Terms -> Seq(Chars)]
  /\ has_enter \in [Terms -> BOOLEAN]
  /\ curr_term \in Terms
  /\ running_term \in Terms
  /\ reader \in [Terms -> Readers]
  /\ \A t \in Terms : Len(reader[t].buf) <= NBytes
  /\ returned \in [Terms -> Seq(Chars \cup {Unset})]
  /\ keys \in 0 .. MaxKeys

\* init_term and init_keyboard.
Init ==
  /\ keyboard_buffer = << >>
  /\ term_key_buf = [t \in Terms |-> << >>]
  /\ has_enter = [t \in Terms |-> FALSE]
  /\ curr_term = 0 /\ running_term = 0
  /\ reader = [t \in Terms |-> [at |-> "away", buf |-> << >>]]
  /\ returned = [t \in Terms |-> << >>]
  /\ keys = MaxKeys

-----------------------------------------------------------------------------
(***************************************************************************)
(* The keys.                                                               *)
(***************************************************************************)
length_key == Len(keyboard_buffer)

MidRead == \E t \in Terms : reader[t].at \in {"copy", "count", "clear"}

Key == /\ keys > 0
       /\ keys' = keys - 1
       /\ MidRead => "reading" \in Hazards

Typed(c) == keyboard_buffer' = Append(keyboard_buffer, c)

\* process_char, default case: no letter takes the last place, which a Tab or
\* an Enter may.
KeyLetter(c) ==
  /\ Key
  /\ length_key < Size \/ "overfull" \in Hazards
  /\ IF length_key = Size - 1 THEN UNCHANGED keyboard_buffer ELSE Typed(c)
  /\ UNCHANGED << term_key_buf, has_enter, curr_term, running_term, reader,
                  returned >>

KeyTab ==
  /\ Key
  /\ IF length_key = Size THEN UNCHANGED keyboard_buffer ELSE Typed(TAB_CHAR)
  /\ UNCHANGED << term_key_buf, has_enter, curr_term, running_term, reader,
                  returned >>

KeyEnter_running ==                            \* mutant: wakes the running one
  /\ Key
  /\ IF length_key = Size THEN UNCHANGED << keyboard_buffer, has_enter >>
     ELSE /\ has_enter' = [has_enter EXCEPT ![running_term] = TRUE]
          /\ Typed(NEWLINE)
  /\ UNCHANGED << term_key_buf, curr_term, running_term, reader, returned >>

\* The handle_enter of a buffer that is not full.
KeyEnter ==
  /\ Key
  /\ IF length_key = Size THEN UNCHANGED << keyboard_buffer, has_enter >>
     ELSE /\ has_enter' = [has_enter EXCEPT ![curr_term] = TRUE]
          /\ Typed(NEWLINE)
  /\ UNCHANGED << term_key_buf, curr_term, running_term, reader, returned >>

\* handle_backspace; has_enter stays set when the Enter itself is erased.  What
\* it does on the screen, its test of current_location included, is in Screen.
KeyBackspace ==
  /\ Key
  /\ keyboard_buffer # << >>
  /\ keyboard_buffer[length_key] = NEWLINE => "erase" \in Hazards
  /\ keyboard_buffer' = SubSeq(keyboard_buffer, 1, length_key - 1)
  /\ UNCHANGED << term_key_buf, has_enter, curr_term, running_term, reader,
                  returned >>

\* Ctrl+L clears the screen and the line.
CtrlL ==
  /\ Key
  /\ has_enter[curr_term] => "discard" \in Hazards
  /\ keyboard_buffer' = << >>
  /\ UNCHANGED << term_key_buf, has_enter, curr_term, running_term, reader,
                  returned >>

-----------------------------------------------------------------------------
(***************************************************************************)
(* switch_terminal: save_term_info of the old, restore_term_info of the    *)
(* new terminal.                                                           *)
(***************************************************************************)
save_term_info_lost == term_key_buf            \* mutant: the line is not saved
save_term_info == [term_key_buf EXCEPT ![curr_term] = keyboard_buffer]

AltF(t) ==
  /\ t # curr_term
  /\ Key
  /\ has_enter[curr_term] => "switch" \in Hazards
  /\ term_key_buf' = save_term_info
  /\ keyboard_buffer' = save_term_info[t]
  /\ curr_term' = t
  /\ UNCHANGED << has_enter, running_term, reader, returned >>

(***************************************************************************)
(* halt_func: the line of the terminal is discarded, has_enter is not; the *)
(* parent, a shell, goes on.  A program that ends itself is not reading;   *)
(* Ctrl+C ends the one of the displayed terminal wherever it is.           *)
(***************************************************************************)
Ended(t) == reader' = [reader EXCEPT ![t] = [at |-> "away", buf |-> << >>]]

HaltProgram(t) ==
  /\ t = running_term
  /\ reader[t].at = "away"
  /\ has_enter[t] => "discard" \in Hazards
  /\ IF t = curr_term
     THEN keyboard_buffer' = << >> /\ UNCHANGED term_key_buf
     ELSE /\ term_key_buf' = [term_key_buf EXCEPT ![t] = << >>]
          /\ UNCHANGED keyboard_buffer
  /\ Ended(t)
  /\ UNCHANGED << has_enter, curr_term, running_term, returned, keys >>

CtrlC ==
  /\ Key
  /\ has_enter[curr_term] => "discard" \in Hazards
  /\ keyboard_buffer' = << >>
  /\ running_term' = curr_term
  /\ Ended(curr_term)
  /\ UNCHANGED << term_key_buf, has_enter, curr_term, returned >>

-----------------------------------------------------------------------------
(***************************************************************************)
(* terminal_read of the program of terminal t.                             *)
(***************************************************************************)
Step(t, from, to) ==
  /\ t = running_term
  /\ reader[t].at = from
  /\ reader' = [reader EXCEPT ![t].at = to]

BeginRead(t) ==
  /\ Step(t, "away", "wait")
  /\ UNCHANGED << keyboard_buffer, term_key_buf, has_enter, curr_term,
                  running_term, returned, keys >>

\* read_buffer: the busy wait ends.
Wake_displayed(t) ==                           \* mutant: waits on curr_term
  /\ has_enter[curr_term]
  /\ Step(t, "wait", "copy")
  /\ has_enter' = [has_enter EXCEPT ![curr_term] = FALSE]
  /\ UNCHANGED << keyboard_buffer, term_key_buf, curr_term, running_term,
                  returned, keys >>

Wake(t) ==
  /\ has_enter[t]
  /\ Step(t, "wait", "copy")
  /\ has_enter' = [has_enter EXCEPT ![t] = FALSE]
  /\ UNCHANGED << keyboard_buffer, term_key_buf, curr_term, running_term,
                  returned, keys >>

\* One turn of the copy loop, or its end.
Copy_beyond(t) ==                              \* mutant: one byte too many
  /\ t = running_term
  /\ reader[t].at = "copy"
  /\ LET i == Len(reader[t].buf) + 1
     IN IF i <= NBytes + 1
        THEN reader' = [reader EXCEPT ![t].buf =
               Append(@, IF i <= length_key THEN keyboard_buffer[i] ELSE Unset)]
        ELSE reader' = [reader EXCEPT ![t].at = "count"]
  /\ UNCHANGED << keyboard_buffer, term_key_buf, has_enter, curr_term,
                  running_term, returned, keys >>

Copy(t) ==
  /\ t = running_term
  /\ reader[t].at = "copy"
  /\ LET i == Len(reader[t].buf) + 1
     IN IF i <= NBytes
        THEN reader' = [reader EXCEPT ![t].buf =
               Append(@, IF i <= length_key THEN keyboard_buffer[i] ELSE Unset)]
        ELSE reader' = [reader EXCEPT ![t].at = "count"]
  /\ UNCHANGED << keyboard_buffer, term_key_buf, has_enter, curr_term,
                  running_term, returned, keys >>

\* The number of bytes comes from length_key as it is by then.
Count(t) ==
  /\ Step(t, "count", "clear")
  /\ returned' = [returned EXCEPT ![t] =
       IF length_key < NBytes THEN SubSeq(reader[t].buf, 1, length_key)
                              ELSE reader[t].buf]
  /\ UNCHANGED << keyboard_buffer, term_key_buf, has_enter, curr_term,
                  running_term, keys >>

\* clear_keyboard_buffer, and the return to the program.
Clear(t) ==
  /\ t = running_term
  /\ reader[t].at = "clear"
  /\ keyboard_buffer' = << >>
  /\ Ended(t)
  /\ UNCHANGED << term_key_buf, has_enter, curr_term, running_term, returned,
                  keys >>

ReadStep(t) == Wake(t) \/ Copy(t) \/ Count(t) \/ Clear(t)

\* schedule: another terminal's program gets the processor.
Schedule(t) ==
  /\ t # running_term
  /\ running_term' = t
  /\ UNCHANGED << keyboard_buffer, term_key_buf, has_enter, curr_term, reader,
                  returned, keys >>

-----------------------------------------------------------------------------
Keys == \/ \E c \in Letters : KeyLetter(c)
        \/ KeyTab \/ KeyEnter \/ KeyBackspace \/ CtrlL \/ CtrlC
        \/ \E t \in Terms : AltF(t)

Programs == \E t \in Terms : BeginRead(t) \/ HaltProgram(t) \/ ReadStep(t)

Next == Keys \/ Programs \/ \E t \in Terms : Schedule(t)

Spec == Init /\ [][Next]_vars

(***************************************************************************)
(* The timer gives every terminal the processor again and again (module    *)
(* Processes), and a program that has it goes on with its terminal_read:   *)
(* it may lose the processor at any point, hence strong fairness.          *)
(***************************************************************************)
Fairness == \A t \in Terms : SF_vars(Schedule(t)) /\ SF_vars(ReadStep(t))

FairSpec == Spec /\ Fairness

-----------------------------------------------------------------------------
(***************************************************************************)
(* Properties.                                                             *)
(***************************************************************************)
\* What is typed in a terminal and not yet read, wherever it is kept: a reader
\* takes the line when it counts it, though the buffer is cleared later.
Line(t) ==
  IF \E u \in Terms : reader[u].at = "clear" /\ t = curr_term THEN << >>
  ELSE IF t = curr_term THEN keyboard_buffer ELSE term_key_buf[t]

\* The one shared buffer and the backups act as a line per terminal: nothing
\* typed is lost, doubled or moved to another terminal by switches, reads and
\* the scheduling between them.
Lines == INSTANCE LineInput WITH
           Enter <- NEWLINE, Tab <- TAB_CHAR, shown <- curr_term,
           line <- [t \in Terms |-> Line(t)]
RefinesLineInput == Lines!Spec

\* A completed line is announced: has_enter is set exactly for the terminals
\* whose line holds an Enter (keyboard.c sets one, terminal.c moves the other).
EnterAnnounced ==
  \A t \in Terms :
    reader[t].at \notin {"copy", "count", "clear"} =>
      (has_enter[t] <=> \E i \in 1 .. Len(Line(t)) : Line(t)[i] = NEWLINE)

-----------------------------------------------------------------------------
(***************************************************************************)
(* The invariant that these two rest on, where the hazards but "overfull"  *)
(* are closed.  A line with its Enter stays the displayed one until it is  *)
(* read, so there is one reader at most past its wait, and it reads the    *)
(* displayed line, which nobody changes meanwhile.                         *)
(***************************************************************************)
HasEnter(s) == \E i \in 1 .. Len(s) : s[i] = NEWLINE

PastWait(t) == reader[t].at \in {"copy", "count", "clear"}

\* The displayed line is announced until its reader goes on; no other has an
\* Enter.
Announced ==
  /\ \A t \in Terms : has_enter[t] \/ PastWait(t) => t = curr_term
  /\ HasEnter(keyboard_buffer) <=> has_enter[curr_term] \/ PastWait(curr_term)
  /\ PastWait(curr_term) => ~has_enter[curr_term]
  /\ \A t \in Terms : t # curr_term => ~HasEnter(term_key_buf[t])

\* What a reader has copied is the beginning of the line.
Copied ==
  \A t \in Terms :
    LET buf == reader[t].buf
    IN /\ reader[t].at \in {"away", "wait"} => buf = << >>
       /\ reader[t].at \in {"copy", "count"} =>
            \A i \in 1 .. Len(buf) :
              buf[i] = IF i <= length_key THEN keyboard_buffer[i] ELSE Unset

\* A reader that counts has copied as many bytes as asked for.
CopyDone == \A t \in Terms : reader[t].at = "count" => Len(reader[t].buf) = NBytes

LineInv == TypeOK /\ CopyDone /\ Announced /\ Copied

-----------------------------------------------------------------------------
\* length_key stays within keyboard_buffer: the code returns "if the buffer is
\* full" (keyboard.c:206, 266, 296).
LengthWithinBuffer == length_key <= Size

\* A read that is waiting when Enter is pressed in its terminal returns.
ReadReturns ==
  \A t \in Terms :
    reader[t].at = "wait" /\ has_enter[t] ~> reader[t].at = "away"

=============================================================================
