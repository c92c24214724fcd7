----------------------------- MODULE UserPrograms -----------------------------
(***************************************************************************)
(* From a command line to what its program prints: the loop of the shell    *)
(* (ece391shell.c), the parsing of the command by execute_func, getargs,    *)
(* and grep (ece391grep.c) over the files of the directory.                 *)
(*                                                                         *)
(* The shell's buf is never cleared: behind the NUL of a command lie the    *)
(* rests of earlier and longer ones.  So do, in grep's data, the rests of   *)
(* earlier reads.  Arrays start at 0; Junk is a byte nothing has set.       *)
(***************************************************************************)
EXTENDS Integers, Sequences, FiniteSets, SequencesExt

CONSTANTS
  Bytes,       \* the values of a byte
  BufLen,      \* bound: bytes of the shell's buf
  MaxParsed,   \* MAX_PARSED, bytes of execute's parsed_command
  BufSize,     \* BUFSIZE of grep; its data has one byte more
  Worlds,      \* of command lines and the directories they may find
  Executables, \* the names of the executable files, each a grep
  MaxLines,    \* bound: number of command lines
  Hazards      \* what this instance allows

NUL   == "NUL"
NL    == "NL"
Space == " "
Junk  == "junk"
exit  == << "e" >>
Dot   == "."                \* a name that begins with a dot

(***************************************************************************)
(* In a world: lines, without their newline, and directories.  "noarg":     *)
(* a command without an argument.  "leading": a line that begins with a      *)
(* space.  "full": a command of MAX_PARSED characters.  "longline": a file   *)
(* with a line that does not fit into grep's data.  "binary": one with NULs. *)
(***************************************************************************)
ASSUME ConstantsAssumption ==
  /\ BufLen \in Nat /\ MaxParsed \in Nat /\ BufSize \in Nat \ {0}
  /\ MaxLines \in Nat
  /\ {NUL, NL, Space, Junk} \subseteq Bytes
  /\ Hazards \subseteq {"noarg", "leading", "full", "longline", "binary", "garbage"}

\* Lines are typed, so they have no NUL, and are shorter than the shell's buf.
\* No executable of the image has a name longer than parsed_command.
ASSUME WorldsAssumption ==
  /\ \A w \in DOMAIN Worlds :
       /\ Worlds[w].lines \subseteq Seq(Bytes \ {NUL, NL, Junk})
       /\ \A line \in Worlds[w].lines : Len(line) + 1 < BufLen
       /\ Worlds[w].dirs \subseteq Seq([name : Bytes, text : Seq(Bytes)])
  /\ \A e \in Executables : Len(e) <= MaxParsed /\ e # << >>

VARIABLES
  world,
  pc,
  buf,                               \* the shell's
  typed, outcome,                    \* the last line, and what became of it
  lines,                             \* command lines left
  arg,                               \* of the program's PCB
  dir, file,                         \* the directory, and the entry grep is at
  data, last, cnt, pos, line_start,  \* do_one_file
  printed                            \* by grep, per line: file and text

shell == << world, buf, typed, outcome, lines, arg >>
one_file == << data, last, cnt, pos, line_start >>
vars == << pc, shell, dir, file, one_file, printed >>

\* Texts this instance allows.
Fit(t) ==
  /\ NUL \in Range(t) => "binary" \in Hazards
  /\ (\E k \in 1 .. Len(t) + 1 - BufSize : \A j \in k .. k + BufSize - 1 : t[j] # NL)
       => "longline" \in Hazards

Init ==
  /\ world \in DOMAIN Worlds
  /\ pc = "prompt"
  /\ buf = [k \in 0 .. BufLen - 1 |-> Junk]
  /\ typed = << >> /\ outcome = "none"
  /\ lines = MaxLines
  /\ arg = << >>
  /\ dir \in {d \in Worlds[world].dirs : \A k \in DOMAIN d : Fit(d[k].text)}
  /\ file = 1
  /\ data \in {[k \in 0 .. BufSize |-> b] : b \in {Junk} \cup {NL : h \in Hazards \cap {"garbage"}}}
  /\ last = 0 /\ cnt = 0 /\ pos = 0 /\ line_start = 0
  /\ printed = << >>

-----------------------------------------------------------------------------
(***************************************************************************)
(* Arrays and strings.                                                     *)
(***************************************************************************)
\* The first place of array a, from k on, that is in stops, or its end.
Find(a, k, stops) ==
  LET end == Cardinality(DOMAIN a)
      at  == {j \in k .. end - 1 : a[j] \in stops}
  IN IF at = {} THEN end ELSE CHOOSE j \in at : \A l \in at : j <= l

\* The bytes of a from k to before l, as a sequence.
Cut(a, k, l) == [j \in 1 .. l - k |-> a[k + j - 1]]
Str(a, k)    == Cut(a, k, Find(a, k, {NUL}))

\* The lines of a text: where each starts, and what it is.
Starts(t) == {k \in DOMAIN t : k = 1 \/ t[k - 1] = NL}
LineAt(t, k) ==
  SubSeq(t, k, k - 1 + Cardinality({l \in k .. Len(t) :
                                      \A j \in k .. l : t[j] # NL}))

\* What a line consists of: its words.
Word(line, n) ==
  LET first == {k \in DOMAIN line :
                  line[k] # Space /\ (k = 1 \/ line[k - 1] = Space)}
      nth == {k \in first : Cardinality({j \in first : j <= k}) = n}
      end(k) == {l \in k .. Len(line) : \A j \in k .. l : line[j] # Space}
  IN IF nth = {} THEN << >>
     ELSE LET k == CHOOSE k \in nth : TRUE
          IN SubSeq(line, k, k + Cardinality(end(k)) - 1)

-----------------------------------------------------------------------------
(***************************************************************************)
(* The shell, up to its execute.                                           *)
(***************************************************************************)
Plain(line) ==
  /\ Word(line, 1) \in Executables /\ Word(line, 2) = << >> => "noarg" \in Hazards
  /\ line # << >> /\ Head(line) = Space => "leading" \in Hazards
  /\ Len(Word(line, 1)) = MaxParsed => "full" \in Hazards

\* terminal_read of the line; its newline becomes the NUL.
ReadLine ==
  /\ pc = "prompt" /\ lines > 0
  /\ lines' = lines - 1
  /\ \E line \in Worlds[world].lines :
       /\ Plain(line)
       /\ typed' = line
       /\ buf' = IF line = exit THEN [k \in DOMAIN buf |-> Junk]
                 ELSE [k \in DOMAIN buf |-> IF k < Len(line) THEN line[k + 1]
                                            ELSE IF k = Len(line) THEN NUL
                                            ELSE buf[k]]
       /\ pc' = IF line \in {<< >>, exit} THEN "prompt" ELSE "execute"
  /\ outcome' = "none"
  /\ UNCHANGED << world, arg, dir, file, one_file, printed >>

-----------------------------------------------------------------------------
(***************************************************************************)
(* execute_func: the first word into parsed_command, the next into argument. *)
(***************************************************************************)
NonSpace == {buf[k] : k \in DOMAIN buf} \ {Space}
Lead == Find(buf, 0, NonSpace)
Stop == Find(buf, Lead, {Space, NUL})

\* The loop that fills up starts at Stop, not at the length of the word.
parsed_command_unfilled ==                   \* mutant: no NUL behind the name
  LET lead == Lead
      stop == Stop
  IN [k \in 0 .. MaxParsed - 1 |-> IF k < stop - lead THEN buf[lead + k] ELSE Junk]
parsed_command ==
  LET lead == Lead
      stop == Stop
  IN [k \in 0 .. MaxParsed - 1 |-> IF k < stop - lead THEN buf[lead + k]
                                   ELSE IF k >= stop THEN NUL ELSE Junk]

\* Without room for its NUL the name goes on behind parsed_command.
name == LET s == Str(parsed_command, 0)
        IN IF Len(s) = MaxParsed THEN Append(s, Junk) ELSE s

\* Behind a command that ends the line this starts behind its NUL.
argument ==
  LET start == Find(buf, Stop + 1, NonSpace)
  IN Cut(buf, start, Find(buf, start, {Space, NUL}))

Execute ==
  /\ pc = "execute"
  /\ IF Stop - Lead <= MaxParsed /\ name \in Executables
     THEN /\ arg' = argument
          /\ pc' = "main"
          /\ UNCHANGED outcome
     ELSE /\ outcome' = "no such command"
          /\ pc' = "prompt"
          /\ UNCHANGED arg
  /\ UNCHANGED << world, buf, typed, lines, dir, file, one_file, printed >>
-----------------------------------------------------------------------------
(***************************************************************************)
(* grep.                                                                   *)
(***************************************************************************)
\* main: getargs fails without an argument.
Main ==
  /\ pc = "main"
  /\ IF arg = << >>
     THEN /\ outcome' = "terminated abnormally"
          /\ pc' = "prompt"
          /\ UNCHANGED << file, printed >>
     ELSE /\ file' = 1
          /\ printed' = << >>
          /\ pc' = "dir"
          /\ UNCHANGED outcome
  /\ UNCHANGED << world, buf, typed, lines, arg, dir, one_file >>

\* The next entry of the directory, and the start of do_one_file.
NextEntry ==
  /\ pc = "dir"
  /\ IF file > Len(dir)
     THEN outcome' = "done" /\ pc' = "prompt" /\ UNCHANGED << file, last, pos >>
     ELSE /\ IF dir[file].name = Dot THEN file' = file + 1 /\ UNCHANGED pc
             ELSE pc' = "read" /\ UNCHANGED file
          /\ last' = 0 /\ pos' = 0
          /\ UNCHANGED outcome
  /\ UNCHANGED << world, buf, typed, lines, arg, dir, data, cnt, line_start,
                  printed >>

text == dir[file].text

Read ==
  /\ pc = "read"
  /\ LET room == BufSize - last
         rest == Len(text) - pos
         n == IF room < rest THEN room ELSE rest
     IN /\ data' = [k \in DOMAIN data |-> IF k \in last .. last + n - 1
                                          THEN text[pos + k - last + 1] ELSE data[k]]
        /\ cnt' = n
        /\ last' = last + n
        /\ pos' = pos + n
  /\ line_start' = 0
  /\ pc' = "lines"
  /\ UNCHANGED << shell, dir, file, printed >>

line_end == LET e == Find(data, line_start, {NL}) IN IF e > last THEN last ELSE e
Ended == [data EXCEPT ![line_end] = NUL]

Carry_whole ==                           \* mutant: last is not fixed
  /\ pc = "lines"
  /\ data[line_end] # NL /\ cnt # 0 /\ line_start # 0
  /\ LET n == Find(Ended, line_start, {NUL}) - line_start
     IN data' = [k \in DOMAIN data |-> IF k <= n THEN Ended[line_start + k]
                                       ELSE Ended[k]]
  /\ UNCHANGED last
  /\ pc' = "read"
  /\ UNCHANGED << shell, dir, file, cnt, pos, line_start, printed >>

\* A line that is not complete moves to the front, up to the first NUL.
Carry ==
  /\ pc = "lines"
  /\ data[line_end] # NL /\ cnt # 0 /\ line_start # 0
  /\ LET n == Find(Ended, line_start, {NUL}) - line_start
     IN data' = [k \in DOMAIN data |-> IF k <= n THEN Ended[line_start + k]
                                       ELSE Ended[k]]
  /\ last' = last - line_start
  /\ pc' = "read"
  /\ UNCHANGED << shell, dir, file, cnt, pos, line_start, printed >>

\* strncmp of the string at place k with the argument.
Matches(k) == \A j \in 1 .. Len(arg) : k + j - 1 <= BufSize /\ Ended[k + j - 1] = arg[j]

Search_again ==                 \* mutant: does not stop at the end
  /\ pc = "lines"
  /\ data[line_end] = NL \/ cnt = 0 \/ line_start = 0
  /\ printed' = IF \E k \in line_start .. line_end - 1 : Matches(k)
                THEN Append(printed, << file, Str(Ended, line_start) >>)
                ELSE printed
  /\ data' = Ended
  /\ line_start' = line_end + 1
  /\ IF line_end + 1 < last THEN UNCHANGED << last, pc, file >>
     ELSE /\ last' = 0
          /\ pc' = "read"
          /\ UNCHANGED file
  /\ UNCHANGED << shell, dir, cnt, pos >>

Search ==
  /\ pc = "lines"
  /\ data[line_end] = NL \/ cnt = 0 \/ line_start = 0
  /\ printed' = IF \E k \in line_start .. line_end - 1 : Matches(k)
                THEN Append(printed, << file, Str(Ended, line_start) >>)
                ELSE printed
  /\ data' = Ended
  /\ line_start' = line_end + 1
  /\ IF line_end + 1 < last THEN UNCHANGED << last, pc, file >>
     ELSE /\ last' = 0
          /\ pc' = IF cnt = 0 THEN "dir" ELSE "read"
          /\ file' = IF cnt = 0 THEN file + 1 ELSE file
  /\ UNCHANGED << shell, dir, cnt, pos >>

Idle == pc = "prompt" /\ lines = 0 /\ UNCHANGED vars

Program == Execute \/ Main \/ NextEntry \/ Read \/ Carry \/ Search
Next == ReadLine \/ Program \/ Idle

\* A program that does not wait for a key goes on; nobody has to type.
Spec == Init /\ [][Next]_vars /\ WF_vars(Program)

-----------------------------------------------------------------------------
(***************************************************************************)
(* Properties.                                                             *)
(***************************************************************************)
\* The program that runs is the one whose name the line begins with, getargs
\* gives it the second word of the line or nothing, and only a name of no
\* program is not found, whatever lines were typed before.
CommandTyped ==
  /\ pc = "main" => /\ Word(typed, 1) \in Executables
                    /\ arg = Word(typed, 2)
  /\ outcome = "no such command" => Word(typed, 1) \notin Executables

Occurs(s, word) ==
  \E k \in 0 .. Len(s) - Len(word) : SubSeq(s, k + 1, k + Len(word)) = word
\* What is found in file k, in the lines that start at most at each place.
FoundTo(k) ==
  LET t == dir[k].text
      upto[p \in 0 .. Len(t)] ==
        IF p = 0 THEN << >>
        ELSE IF p \in Starts(t) /\ Occurs(LineAt(t, p), arg)
        THEN Append(upto[p - 1], << k, LineAt(t, p) >>)
        ELSE upto[p - 1]
  IN upto

Found(k) == IF dir[k].name = Dot THEN << >> ELSE FoundTo(k)[Len(dir[k].text)]

\* What is found in the first so many files.
AllFound ==
  LET all[k \in 0 .. Len(dir)] == IF k = 0 THEN << >> ELSE all[k - 1] \o Found(k)
  IN all

\* grep prints the lines that contain its argument, whole, in order and once,
\* wherever a read of the file ends.
GrepPrints == outcome = "done" => printed = AllFound[Len(dir)]

\* Every command comes to its end.
CommandEnds == pc = "execute" ~> pc = "prompt"
=============================================================================
