------------------------------ MODULE Consoles -------------------------------
(***************************************************************************)
(* What the terminals promise about output: each has a screen and a cursor *)
(* of its own, a program writes and draws on the screen of its terminal    *)
(* whether or not it is displayed, and the keys are echoed on the          *)
(* displayed one.                                                          *)
(***************************************************************************)
EXTENDS Integers, Sequences

CONSTANTS Terms, Rows, Cols, Chars, Blank, Newline, Tab, TabLen, Texts

VARIABLES
  shown,     \* the terminal that is displayed
  console    \* per terminal, its screen, the character of each place of each
             \* row, and its cursor, the row and column of the next character

Places == (0 .. Rows - 1) \X (0 .. Cols - 1)

Cleared == [screen |-> [pl \in Places |-> Blank], cursor |-> [row |-> 0, col |-> 0]]

Init == /\ shown = 0
        /\ console = [t \in Terms |-> Cleared]

\* The cursor goes to a new line; below the last row everything moves up.
NewLine(con) ==
  IF con.cursor.row < Rows - 1
  THEN [con EXCEPT !.cursor = [row |-> @.row + 1, col |-> 0]]
  ELSE [screen |-> [pl \in Places |->
                      IF pl[1] = Rows - 1 THEN Blank
                                          ELSE con.screen[<< pl[1] + 1, pl[2] >>]],
        cursor |-> [row |-> Rows - 1, col |-> 0]]

\* The cursor moves over n places, to a new line after the last of a row.
Forward(con, n) == IF con.cursor.col + n < Cols
                   THEN [con EXCEPT !.cursor.col = @ + n]
                   ELSE NewLine(con)

Put(con, c) ==
  CASE c = Newline -> NewLine(con)
    [] c = Tab -> Forward(con, TabLen)
    [] OTHER -> Forward([con EXCEPT !.screen[<< con.cursor.row, con.cursor.col >>] = c],
                        1)

PutAll(con, text) ==
  LET after[k \in 0 .. Len(text)] ==
        IF k = 0 THEN con ELSE Put(after[k - 1], text[k])
  IN after[Len(text)]

Become(t, con) == console' = [console EXCEPT ![t] = con] /\ UNCHANGED shown

Write(t) == \E text \in Texts : Become(t, PutAll(console[t], text))

\* The echo of a character, a new line, or a tab as so many blanks.
Echo == \E text \in {<< c >> : c \in Chars \cup {Newline}}
                      \cup {[i \in 1 .. TabLen |-> Blank]} :
          Become(shown, PutAll(console[shown], text))

\* Back over one character, which is blanked, or over the blanks of a tab.
Erase ==
  \E n \in {1, TabLen} :
    LET con  == console[shown]
        at   == con.cursor.row * Cols + con.cursor.col - n
        back == [row |-> at \div Cols, col |-> at % Cols]
        over == [con EXCEPT !.cursor = back]
    IN /\ at >= 0
       /\ \/ Become(shown, over)
          \/ Become(shown, [over EXCEPT !.screen[<< back.row, back.col >>] = Blank])

Clear == Become(shown, Cleared)

Draw(t) == \E pl \in Places, c \in Chars :
             Become(t, [console[t] EXCEPT !.screen[pl] = c])

Show(t) == shown' = t /\ UNCHANGED console

Next == \/ Echo \/ Erase \/ Clear
        \/ \E t \in Terms : Write(t) \/ Draw(t) \/ Show(t)

Spec == Init /\ [][Next]_<< shown, console >>
=============================================================================
