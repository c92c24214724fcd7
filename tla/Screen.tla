------------------------------- MODULE Screen --------------------------------
(***************************************************************************)
(* The output of the terminals: putc and putc_term of lib.c, the echo of   *)
(* keyboard.c, terminal_write and the switch of terminal.c, and the screen *)
(* that vidmap gives a program (module Paging).  The displayed terminal    *)
(* has its screen in the page VIDEO and its cursor in current_location,    *)
(* the others in their vid_backup and cursor_location.                     *)
(*                                                                         *)
(* Locations are in bytes, two for each place of the screen.  Every action *)
(* is a handler that runs with interrupts off: write_func holds them off   *)
(* for terminal_write, the keyboard handler for the echo.  What a read     *)
(* returns is in Keyboard; here it empties the line.                       *)
(***************************************************************************)
EXTENDS Paging, Sequences, SequencesExt

CONSTANTS
  NUM_ROWS, NUM_COLS,
  TabLen,     \* places a tab takes, 4 in the code
  Size,       \* KEYBOARD_BUFFER_SIZE
  Chars,      \* the characters that are neither of the following
  Blank,      \* a space, or the NULL_KEY a scroll leaves
  Newline, Tab,
  Texts,      \* what programs write at a time
  MaxOutputs, \* the bound on the outputs of a behaviour
  Hazards     \* what this instance allows

(***************************************************************************)
(* "tab": a program writes a tab right of column NUM_ROWS - TabLen.        *)
(* "tabkey": the Tab key goes through the middle of the screen.            *)
(* "bgvidmap": a program of a background terminal calls vidmap.            *)
(* "ctrlc": Ctrl+C in a terminal of drawer while another terminal runs.    *)
(* "enter": Backspace over an Enter that no read has taken.                *)
(* "overfull": letters into a full buffer, past its end (Keyboard).        *)
(***************************************************************************)
ASSUME ConstantsAssumption ==
  /\ NUM_ROWS \in Nat \ {0} /\ NUM_COLS \in Nat \ {0}
  /\ TabLen \in 1 .. NUM_COLS
  /\ Size \in Nat \ {0} /\ MaxOutputs \in Nat
  /\ Blank \notin Chars /\ Newline \notin Chars /\ Tab \notin Chars
  /\ Newline # Tab /\ Blank \notin {Newline, Tab}
  /\ \A text \in Texts : text \in Seq(Chars \cup {Newline, Tab})
  /\ Hazards \subseteq {"tab", "tabkey", "bgvidmap", "ctrlc", "enter", "overfull"}

\* What 25 rows, 80 columns, tabs of 4 and lines of 128 satisfy: a screen is
\* not narrow, and a line fits above the last row.
ASSUME ScreenAssumption ==
  /\ NUM_ROWS <= NUM_COLS
  /\ Size * TabLen <= (NUM_ROWS - 1) * NUM_COLS
  /\ NUM_ROWS > 2 \/ TabLen = 1

Terms      == 0 .. NumTerms - 1
Cells      == 0 .. NUM_ROWS * NUM_COLS - 1
ScreenSize == 2 * NUM_ROWS * NUM_COLS
VideoPages == {VIDEO} \cup {vid_backup(t) : t \in Terms}

VARIABLES
  memory,            \* the display and the backups
  current_location, cursor_location,
  line,              \* per terminal, its keyboard_buffer up to its length
  curr_term, running_term,
  open,              \* the terminals that have a process
  maps,              \* the page directory and table
  drawer,            \* the terminals a program of which has called vidmap
  outputs            \* the outputs so far: keys, writes and drawings

vars == << memory, current_location, cursor_location, line, curr_term,
           running_term, open, maps, drawer, outputs >>

Locations == {2 * cell : cell \in Cells}

TypeOK ==
  /\ memory \in [VideoPages -> [Cells -> Chars \cup {Blank}]]
  /\ current_location \in Locations
  /\ cursor_location \in [Terms -> Locations]
  /\ line \in [Terms -> Seq(Chars \cup {Newline, Tab})]
  /\ curr_term \in Terms
  /\ running_term \in open
  /\ open \in SUBSET Terms
  /\ maps \in PageMaps
  /\ drawer \in SUBSET Terms
  /\ outputs \in 0 .. MaxOutputs

Init ==
  /\ memory = [page \in VideoPages |-> [cell \in Cells |-> Blank]]
  /\ current_location = 0
  /\ cursor_location = [t \in Terms |-> 0]
  /\ line = [t \in Terms |-> << >>]
  /\ curr_term = 0 /\ running_term = 0
  /\ open = {0}
  /\ maps = remap(set_up_PD_PT, Program, 2)
  /\ drawer = {}
  /\ outputs = 0

-----------------------------------------------------------------------------
(***************************************************************************)
(* A screen that is written on: its characters and the location.           *)
(***************************************************************************)
Displayed == [cells |-> memory[VIDEO], location |-> current_location]
Backup(t) == [cells |-> memory[vid_backup(t)], location |-> cursor_location[t]]

\* scroll and scroll_term: the rows move up, the last one is cleared.
scroll(cells) ==
  [cell \in Cells |-> IF cell < (NUM_ROWS - 1) * NUM_COLS
                      THEN cells[cell + NUM_COLS] ELSE Blank]

\* putc of lib.c, and putc_term of a terminal's backup.  A character in the
\* last place of the screen scrolls first, and so does a line feed below.
putc_unscrolled(scr, c) ==                       \* mutant: no scroll at '\n'
  LET x == (scr.location % (2 * NUM_COLS)) \div 2
      y == scr.location \div (2 * NUM_COLS)
      full == x = NUM_COLS - 1 /\ y = NUM_ROWS - 1
      cells1 == IF full THEN scroll(scr.cells) ELSE scr.cells
      y1 == IF full THEN y - 1 ELSE y
      At(cells, px, py) ==
        LET row == py + px \div NUM_COLS
        IN [cells |-> cells, location |->
              2 * ((px % NUM_COLS)
                   + NUM_COLS * (IF row < 0 THEN row ELSE row % NUM_ROWS))]
  IN CASE c = Newline -> At(cells1, 0, y1 + 1)
       [] c = Tab     -> At(cells1, x + TabLen, y1)
       [] OTHER       -> At([cells1 EXCEPT ![NUM_COLS * y1 + x] = c], x + 1, y1)

putc(scr, c) ==
  LET x == (scr.location % (2 * NUM_COLS)) \div 2
      y == scr.location \div (2 * NUM_COLS)
      full   == x = NUM_COLS - 1 /\ y = NUM_ROWS - 1
      cells1 == IF full THEN scroll(scr.cells) ELSE scr.cells
      y1     == IF full THEN y - 1 ELSE y
      scrolls == \/ c = Newline /\ y1 = NUM_ROWS - 1
                 \/ c = Tab /\ x >= NUM_ROWS - TabLen
      cells2 == IF scrolls THEN scroll(cells1) ELSE cells1
      y2     == IF scrolls THEN y1 - 1 ELSE y1
      At(cells, px, py) ==
        LET row == py + px \div NUM_COLS
        IN [cells |-> cells, location |->
              2 * ((px % NUM_COLS)
                   + NUM_COLS * (IF row < 0 THEN row ELSE row % NUM_ROWS))]
  IN CASE c = Newline -> At(cells2, 0, y2 + 1)
       [] c = Tab     -> At(cells2, x + TabLen, y2)
       [] OTHER       -> At([cells2 EXCEPT ![NUM_COLS * y2 + x] = c], x + 1, y2)

\* handle_scroll: the location goes to the beginning of the last row.
handle_scroll(scr) == [cells |-> scroll(scr.cells),
                       location |-> 2 * (NUM_ROWS - 1) * NUM_COLS]

handle_enter_past(scr) ==                        \* mutant: scrolls a row late
  LET cur_y == scr.location \div (2 * NUM_COLS)
  IN IF cur_y = NUM_ROWS
     THEN handle_scroll(scr)
     ELSE [scr EXCEPT !.location = 2 * (cur_y + 1) * NUM_COLS]

handle_enter(scr) ==
  LET cur_y == scr.location \div (2 * NUM_COLS)
  IN IF cur_y + 1 = NUM_ROWS
     THEN handle_scroll(scr)
     ELSE [scr EXCEPT !.location = 2 * (cur_y + 1) * NUM_COLS]

\* One turn of the loop of handle_tab, which also scrolls where the location
\* is NUM_ROWS * NUM_COLS, halfway down the screen.
TabStep(scr) ==
  LET at   == IF scr.location = NUM_ROWS * NUM_COLS THEN handle_scroll(scr) ELSE scr
      next == [cells |-> [at.cells EXCEPT ![at.location \div 2] = Blank],
               location |-> at.location + 2]
  IN IF next.location = ScreenSize THEN handle_scroll(next) ELSE next

handle_tab(scr) ==
  LET after[k \in 0 .. TabLen] == IF k = 0 THEN scr ELSE TabStep(after[k - 1])
  IN after[TabLen]

SetDisplayed(scr) == /\ memory' = [memory EXCEPT ![VIDEO] = scr.cells]
                     /\ current_location' = scr.location

-----------------------------------------------------------------------------
(***************************************************************************)
(* The echo of the keys, on the displayed terminal.                        *)
(***************************************************************************)
Output == outputs < MaxOutputs /\ outputs' = outputs + 1

Key == /\ Output
       /\ UNCHANGED << cursor_location, curr_term, running_term, open, maps, drawer >>

SetLine(new) == line' = [line EXCEPT ![curr_term] = new]

KeyLetter(c) ==
  /\ Len(line[curr_term]) # Size - 1
  /\ Len(line[curr_term]) < Size \/ "overfull" \in Hazards
  /\ SetLine(Append(line[curr_term], c))
  /\ SetDisplayed(putc(Displayed, c))
  /\ Key

KeyEnter == /\ Len(line[curr_term]) < Size
            /\ SetLine(Append(line[curr_term], Newline))
            /\ SetDisplayed(handle_enter(Displayed))
            /\ Key

KeyTab ==
  /\ Len(line[curr_term]) < Size
  /\ \/ current_location > NUM_ROWS * NUM_COLS
     \/ current_location + 2 * TabLen <= NUM_ROWS * NUM_COLS
     \/ "tabkey" \in Hazards
  /\ SetLine(Append(line[curr_term], Tab))
  /\ SetDisplayed(handle_tab(Displayed))
  /\ Key

(***************************************************************************)
(* The part of handle_backspace for an Enter.  It goes back a row if the   *)
(* character before is an Enter too, and otherwise, byte by byte, to where *)
(* that character is on the display, and behind it.  The bytes at odd      *)
(* locations are attributes, which are no character's; below VIDEO no page *)
(* is present: there, at -1, the kernel faults.  With nothing before the   *)
(* Enter, the byte looked for is whatever lies before keyboard_buffer.     *)
(***************************************************************************)
BackOverEnter ==
  LET typed  == line[curr_term]
      before == typed[Len(typed) - 1]
      places == {l \in 0 .. current_location :
                   l % 2 = 0 /\ memory[VIDEO][l \div 2] = before}
  IN IF Len(typed) = 1
     THEN current_location' \in {-1} \cup 2 .. current_location + 2
     ELSE current_location' = IF before = Newline THEN current_location - 2 * NUM_COLS
                              ELSE IF places = {} THEN -1 ELSE Max(places) + 2

\* handle_backspace
KeyBackspace ==
  /\ current_location # 0
  /\ line[curr_term] # << >>
  /\ Last(line[curr_term]) = Newline => "enter" \in Hazards
  /\ SetLine(Front(line[curr_term]))
  /\ CASE Last(line[curr_term]) = Tab ->
            /\ current_location' = current_location - 2 * TabLen
            /\ UNCHANGED memory
       [] Last(line[curr_term]) = Newline ->
            BackOverEnter /\ UNCHANGED memory
       [] OTHER ->
            /\ current_location' = current_location - 2
            /\ memory' = [memory EXCEPT ![VIDEO][current_location' \div 2] = Blank]
  /\ Key

\* Ctrl+L, clear
CtrlL == /\ SetLine(<< >>)
         /\ SetDisplayed([cells |-> [cell \in Cells |-> Blank], location |-> 0])
         /\ Key

-----------------------------------------------------------------------------
(***************************************************************************)
(* Programs.                                                               *)
(***************************************************************************)
\* The screen after so many characters of a text.
Drawn(scr, text) ==
  LET after[k \in 0 .. Len(text)] ==
        IF k = 0 THEN scr ELSE putc(after[k - 1], text[k])
  IN after

\* A tab of the text is written at a column where putc does not scroll.
TabsFit(scr, text) ==
  \A k \in 1 .. Len(text) : text[k] = Tab =>
    (Drawn(scr, text)[k - 1].location % (2 * NUM_COLS)) \div 2 < NUM_ROWS - TabLen

terminal_write(text) ==
  /\ LET scr == IF running_term = curr_term THEN Displayed ELSE Backup(running_term)
         written == Drawn(scr, text)[Len(text)]
     IN /\ TabsFit(scr, text) \/ "tab" \in Hazards
        /\ IF running_term = curr_term
           THEN SetDisplayed(written) /\ UNCHANGED cursor_location
           ELSE /\ memory' = [memory EXCEPT ![vid_backup(running_term)] = written.cells]
                /\ cursor_location' =
                     [cursor_location EXCEPT ![running_term] = written.location]
                /\ UNCHANGED current_location
  /\ Output
  /\ UNCHANGED << line, curr_term, running_term, open, maps, drawer >>

vidmap_func ==
  /\ running_term = curr_term \/ "bgvidmap" \in Hazards
  /\ maps' = remap_vid(maps, UserVideo, VIDEO)
  /\ drawer' = drawer \cup {running_term}
  /\ UNCHANGED << memory, current_location, cursor_location, line, curr_term,
                  running_term, open, outputs >>

\* A program that has called vidmap writes at 132MB.
Draw(cell, c) ==
  LET page == Translate(maps, UserVideo, 0, TRUE)
  IN /\ running_term \in drawer
     /\ memory' = [memory EXCEPT ![page][cell] = c]
     /\ Output
     /\ UNCHANGED << current_location, cursor_location, line, curr_term,
                     running_term, open, maps, drawer >>

\* terminal_read takes the one buffer, which is that of the displayed terminal.
\* When it may (has_enter) is in Keyboard; here it may at any time.
terminal_read ==
  /\ SetLine(<< >>)
  /\ UNCHANGED << memory, current_location, cursor_location, curr_term,
                  running_term, open, maps, drawer, outputs >>

\* halt_func of a program that ends itself discards the line of its terminal;
\* Ctrl+C ends the program of the displayed one, whose parent goes on with
\* the pages as they are, but for its own at 128MB.
halt_func ==
  /\ line' = [line EXCEPT ![running_term] = << >>]
  /\ UNCHANGED << memory, current_location, cursor_location, curr_term,
                  running_term, open, maps, drawer, outputs >>

CtrlC ==
  /\ running_term = curr_term \/ curr_term \notin drawer \/ "ctrlc" \in Hazards
  /\ SetLine(<< >>)
  /\ running_term' = curr_term
  /\ maps' = remap(maps, Program, 2 + curr_term)
  /\ UNCHANGED << memory, current_location, cursor_location, curr_term, open,
                  drawer, outputs >>

-----------------------------------------------------------------------------
\* The page that 132MB shows while terminal shown is displayed and t runs.
OwnVideo_display(pm, t, shown) ==                \* mutant: never the backup
  remap_vid(pm, UserVideo, VIDEO)
OwnVideo(pm, t, shown) ==
  IF t = shown THEN remap_vid(pm, UserVideo, VIDEO)
               ELSE remap_vid(pm, UserVideo, vid_backup(t))

\* launch_term: save_term_info, restore_term_info, and the page of the running
\* program, or the first shell of the terminal.
launch_term(t) ==
  /\ t # curr_term
  /\ LET saved == [memory EXCEPT ![vid_backup(curr_term)] = memory[VIDEO]]
     IN memory' = [saved EXCEPT ![VIDEO] = saved[vid_backup(t)]]
  /\ cursor_location' = [cursor_location EXCEPT ![curr_term] = current_location]
  /\ current_location' = cursor_location[t]
  /\ curr_term' = t
  /\ IF t \in open
     THEN /\ maps' = OwnVideo(maps, running_term, t)
          /\ UNCHANGED << running_term, open >>
     ELSE /\ open' = open \cup {t}
          /\ running_term' = t
          /\ maps' = remap(maps, Program, 2 + t)
  /\ UNCHANGED << line, drawer, outputs >>

\* schedule; the process of terminal t stands for its program's region.
schedule(t) ==
  /\ t \in open \ {running_term}
  /\ running_term' = t
  /\ maps' = remap(OwnVideo(maps, t, curr_term), Program, 2 + t)
  /\ UNCHANGED << memory, current_location, cursor_location, line, curr_term,
                  open, drawer, outputs >>

-----------------------------------------------------------------------------
Keys == \/ KeyEnter \/ KeyTab \/ KeyBackspace \/ CtrlL \/ CtrlC
        \/ \E c \in Chars : KeyLetter(c)

Programs == \/ vidmap_func \/ terminal_read \/ halt_func
            \/ \E text \in Texts : terminal_write(text)
            \/ \E cell \in Cells, c \in Chars : Draw(cell, c)

\* The model stops where a Backspace over an Enter has left the screen.
Next == /\ current_location \in Locations
        /\ Keys \/ Programs \/ \E t \in Terms : launch_term(t) \/ schedule(t)

Spec == Init /\ [][Next]_vars

-----------------------------------------------------------------------------
(***************************************************************************)
(* Properties.                                                             *)
(***************************************************************************)
\* Where the screen of terminal t is kept.
Own(t) == IF t = curr_term THEN VIDEO ELSE vid_backup(t)

\* Of the 4KB pages, a program whose terminal has vidmap reaches one, and it is
\* the screen of its own terminal, wherever that is kept at the moment
\* (vidmap_func, schedule and launch_term write the one table entry).
ReachesOwnScreen ==
  running_term \in drawer =>
    UserPages(maps) = {Own(running_term)}

\* What ReachesOwnScreen rests on.  Programs see no table but the one at 132MB,
\* and no page in it but the first (remap, remap_vid), which is theirs.
PagesInv ==
  /\ maps \in PageMaps
  /\ curr_term \in open /\ running_term \in open
  /\ open \subseteq Terms /\ drawer \subseteq open
  /\ \A r \in Entries \ {UserVideo} :
       maps.directory[r].us => ~maps.directory[r].p \/ maps.directory[r].ps
  /\ \A i \in Entries \ {0} : ~maps.table[i].us
  /\ running_term \in drawer =>
       /\ maps.directory[UserVideo] =
            [p |-> TRUE, us |-> TRUE, ps |-> FALSE, page_base_addr |-> 0]
       /\ maps.table[0] = [p |-> TRUE, us |-> TRUE, page_base_addr |-> Own(running_term)]

ScreenOf(t) == IF t = curr_term THEN Displayed ELSE Backup(t)

\* The console that a screen stands for.
Con(scr) ==
  [screen |-> [pl \in (0 .. NUM_ROWS - 1) \X (0 .. NUM_COLS - 1) |->
                 scr.cells[pl[1] * NUM_COLS + pl[2]]],
   cursor |-> [row |-> scr.location \div (2 * NUM_COLS),
               col |-> (scr.location % (2 * NUM_COLS)) \div 2]]

consoles == [t \in Terms |-> Con(ScreenOf(t))]

\* The display, the backups and their copies at a switch act as one console
\* per terminal: nothing that is written, echoed or drawn is lost or comes out
\* on the screen of another terminal, and putc, the echo and the background
\* writes lay text out alike.
Screens == INSTANCE Consoles WITH
  Rows <- NUM_ROWS, Cols <- NUM_COLS, shown <- curr_term, console <- consoles
RefinesConsoles == Screens!Spec
=============================================================================
