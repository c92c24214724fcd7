---------------------------- MODULE Screen_proofs ----------------------------
(***************************************************************************)
(* Proofs about Screen and Paging, for screens of every size that          *)
(* ScreenAssumption admits and every number of terminals.                  *)
(*                                                                         *)
(* A program that has called vidmap reaches the screen of its own terminal *)
(* and no other page of the table: the vidmap from a background terminal   *)
(* and the Ctrl+C over a terminal that has the page mapped are ruled out.  *)
(*                                                                         *)
(* Every screen is a screen and the cursor on one of its cells: a tab      *)
(* written past the columns that putc takes for rows, a Backspace over an  *)
(* Enter and letters past the end of the buffer are ruled out.  Backspace  *)
(* steps back over what the line holds after its last Enter, so the        *)
(* invariant says that this has its room before the location (LineFits).   *)
(*                                                                         *)
(* The screens are the consoles of Consoles, step by step, when all the    *)
(* hazards are ruled out.                                                  *)
(***************************************************************************)
EXTENDS Screen, TLAPS, FiniteSetTheorems, SequenceTheorems, WellFoundedInduction

-----------------------------------------------------------------------------
(* Paging.                                                                 *)

\* The pages of the screens and the regions of programs are entries.
LEMMA EntriesUsed ==
  /\ 0 \in Entries /\ Program \in Entries /\ UserVideo \in Entries
  /\ 0 \in Nat /\ Program # UserVideo
  /\ VIDEO \in Nat /\ \A t \in Terms : vid_backup(t) \in Nat
BY PagingAssumption DEF Entries, VIDEO, vid_backup, Terms

\* Whatever remap and remap_vid map, there is a directory and a table after.
LEMMA RemapTypes ==
  ASSUME NEW pm \in PageMaps, NEW region \in Entries, NEW physical \in Nat
  PROVE  /\ remap(pm, region, physical) \in PageMaps
         /\ remap_vid(pm, region, physical) \in PageMaps
<1>1. 0 \in Entries
  BY EntriesUsed
<1> QED
  BY <1>1 DEF remap, remap_vid, PageMaps, PDEs, PTEs

\* What is seen of a table whose region and first page alone are a program's.
LEMMA OnePage ==
  ASSUME NEW pm \in PageMaps, NEW physical \in Nat,
         \A r \in Entries \ {UserVideo} :
           pm.directory[r].us => ~pm.directory[r].p \/ pm.directory[r].ps,
         \A i \in Entries \ {0} : ~pm.table[i].us,
         pm.directory[UserVideo] =
           [p |-> TRUE, us |-> TRUE, ps |-> FALSE, page_base_addr |-> 0],
         pm.table[0] = [p |-> TRUE, us |-> TRUE, page_base_addr |-> physical]
  PROVE  UserPages(pm) = {physical}
<1>1. /\ 0 \in Entries /\ UserVideo \in Entries
      /\ physical # Fault
  BY EntriesUsed DEF Fault
<1>2. Translate(pm, UserVideo, 0, TRUE) = physical
  BY DEF Translate
<1>3. ASSUME NEW r \in Entries, NEW i \in Entries, r # UserVideo \/ i # 0
      PROVE  Translate(pm, r, i, TRUE) = Fault
  BY <1>3 DEF Translate
<1>4. ASSUME NEW page \in UserPages(pm) PROVE page = physical
  <2>1. PICK r \in Entries, i \in Entries : page = Translate(pm, r, i, TRUE)
    <3>1. PICK at \in Entries \X Entries : page = Translate(pm, at[1], at[2], TRUE)
      BY DEF UserPages
    <3> QED
      BY <3>1
  <2>2. page # Fault
    BY DEF UserPages
  <2> QED
    BY <1>2, <1>3, <2>1, <2>2
<1>5. physical \in UserPages(pm)
  <2> DEFINE at == << UserVideo, 0 >>
  <2>1. /\ at \in Entries \X Entries
        /\ Translate(pm, at[1], at[2], TRUE) = physical
    BY <1>1, <1>2
  <2> HIDE DEF at
  <2> QED
    BY <1>1, <2>1 DEF UserPages
<1> QED
  BY <1>4, <1>5

-----------------------------------------------------------------------------
(* The pages that the handlers map.                                        *)

\* init_paging and the first program leave nothing but it to programs.
LEMMA InitPages == Init => PagesInv
<1> SUFFICES ASSUME Init PROVE PagesInv
  OBVIOUS
<1>1. set_up_PD_PT \in PageMaps
  BY PagingAssumption DEF set_up_PD_PT, PageMaps, PDEs, PTEs, Entries
<1>2. maps \in PageMaps
  BY <1>1, EntriesUsed, RemapTypes DEF Init
<1>3. \A r \in Entries \ {UserVideo} :
        maps.directory[r].us => ~maps.directory[r].p \/ maps.directory[r].ps
  BY <1>1, EntriesUsed DEF Init, remap, set_up_PD_PT, PageMaps
<1>4. \A i \in Entries \ {0} : ~maps.table[i].us
  BY <1>1, EntriesUsed DEF Init, remap, set_up_PD_PT, PageMaps
<1> QED
  BY <1>2, <1>3, <1>4, PagingAssumption DEF Init, PagesInv, Terms

\* What holds of the pages when the program of terminal t runs and shown is
\* displayed, if t has vidmap.
Mapped(pm, t, shown, dr) ==
  /\ pm \in PageMaps
  /\ \A r \in Entries \ {UserVideo} :
       pm.directory[r].us => ~pm.directory[r].p \/ pm.directory[r].ps
  /\ \A i \in Entries \ {0} : ~pm.table[i].us
  /\ t \in dr =>
       /\ pm.directory[UserVideo] =
            [p |-> TRUE, us |-> TRUE, ps |-> FALSE, page_base_addr |-> 0]
       /\ pm.table[0] = [p |-> TRUE, us |-> TRUE,
                         page_base_addr |-> IF t = shown THEN VIDEO ELSE vid_backup(t)]

\* remap_vid of the display or of a backup maps it, and nothing else.
LEMMA MapsVideo ==
  ASSUME NEW pm, NEW t, NEW u \in Terms, NEW shown, NEW sh, NEW dr,
         Mapped(pm, t, shown, {})
  PROVE  Mapped(OwnVideo(pm, u, sh), u, sh, dr)
<1> DEFINE page == IF u = sh THEN VIDEO ELSE vid_backup(u)
<1>1. OwnVideo(pm, u, sh) = remap_vid(pm, UserVideo, page)
  BY DEF OwnVideo
<1>2. page \in Nat /\ pm \in PageMaps
  BY EntriesUsed DEF Mapped
<1>3. remap_vid(pm, UserVideo, page) \in PageMaps
  BY <1>2, EntriesUsed, RemapTypes
<1> HIDE DEF page
<1>4. /\ \A r \in Entries \ {UserVideo} :
           remap_vid(pm, UserVideo, page).directory[r] = pm.directory[r]
      /\ \A i \in Entries \ {0} :
           remap_vid(pm, UserVideo, page).table[i] = pm.table[i]
      /\ remap_vid(pm, UserVideo, page).directory[UserVideo] =
           [p |-> TRUE, us |-> TRUE, ps |-> FALSE, page_base_addr |-> 0]
      /\ remap_vid(pm, UserVideo, page).table[0] =
           [p |-> TRUE, us |-> TRUE, page_base_addr |-> page]
  BY <1>2, EntriesUsed DEF remap_vid, PageMaps
<1> QED
  BY <1>1, <1>3, <1>4 DEF Mapped, page

\* remap of the program's region leaves the screens as they are.
LEMMA MapsProgram ==
  ASSUME NEW pm, NEW t, NEW shown, NEW dr, NEW physical \in Nat,
         Mapped(pm, t, shown, dr)
  PROVE  Mapped(remap(pm, Program, physical), t, shown, dr)
<1>1. pm \in PageMaps
  BY DEF Mapped
<1>2. remap(pm, Program, physical) \in PageMaps
  BY <1>1, EntriesUsed, RemapTypes
<1>3. /\ \A r \in Entries \ {Program} :
           remap(pm, Program, physical).directory[r] = pm.directory[r]
      /\ remap(pm, Program, physical).directory[Program].ps
      /\ remap(pm, Program, physical).table = pm.table
  BY <1>1, EntriesUsed DEF remap, PageMaps
<1> QED
  BY <1>2, <1>3, EntriesUsed DEF Mapped

-----------------------------------------------------------------------------
(* The steps.                                                              *)

\* PagesInv without the terminals.
LEMMA PagesMapped ==
  PagesInv <=> /\ curr_term \in open /\ running_term \in open
               /\ open \subseteq Terms /\ drawer \subseteq open
               /\ Mapped(maps, running_term, curr_term, drawer)
BY DEF PagesInv, Mapped, Own

\* Every handler leaves the pages to the terminal that runs: those that map a
\* screen map its own, and those that do not leave the same terminal running,
\* or one that has no vidmap.
LEMMA NextPages ==
  ASSUME "bgvidmap" \notin Hazards, "ctrlc" \notin Hazards, PagesInv, [Next]_vars
  PROVE  PagesInv'
<1>1. /\ curr_term \in open /\ running_term \in open
      /\ open \subseteq Terms /\ drawer \subseteq open
      /\ Mapped(maps, running_term, curr_term, drawer)
  BY PagesMapped
<1>2. SUFFICES /\ curr_term' \in open' /\ running_term' \in open'
               /\ open' \subseteq Terms /\ drawer' \subseteq open'
               /\ Mapped(maps', running_term', curr_term', drawer')
  BY DEF PagesInv, Mapped, Own
<1>3. Mapped(maps, running_term, curr_term, {})
  BY <1>1 DEF Mapped
<1>4. \A t \in Terms : 2 + t \in Nat
  BY DEF Terms
<1>5. CASE UNCHANGED << curr_term, running_term, open, maps, drawer >>
  BY <1>1, <1>5
<1>6. CASE CtrlC
  <2>1. /\ UNCHANGED << curr_term, open, drawer >>
        /\ running_term' = curr_term
        /\ maps' = remap(maps, Program, 2 + curr_term)
        /\ running_term = curr_term \/ curr_term \notin drawer
    BY <1>6 DEF CtrlC
  <2>2. Mapped(maps, curr_term, curr_term, drawer)
    BY <1>1, <2>1 DEF Mapped
  <2>3. Mapped(maps', curr_term, curr_term, drawer)
    BY <1>1, <1>4, <2>1, <2>2, MapsProgram
  <2> QED
    BY <1>1, <2>1, <2>3
<1>7. CASE vidmap_func
  <2>1. /\ UNCHANGED << curr_term, running_term, open >>
        /\ running_term = curr_term
        /\ drawer' = drawer \cup {running_term}
        /\ maps' = OwnVideo(maps, running_term, curr_term)
    BY <1>7 DEF vidmap_func, OwnVideo
  <2>2. Mapped(maps', running_term, curr_term, drawer')
    BY <1>1, <1>3, <2>1, MapsVideo
  <2> QED
    BY <1>1, <2>1, <2>2
<1>8. ASSUME NEW t \in Terms, launch_term(t)
      PROVE  /\ curr_term' \in open' /\ running_term' \in open'
             /\ open' \subseteq Terms /\ drawer' \subseteq open'
             /\ Mapped(maps', running_term', curr_term', drawer')
  <2>1. curr_term' = t /\ drawer' = drawer
    BY <1>8 DEF launch_term
  <2>2. CASE t \in open
    <3>1. /\ UNCHANGED << running_term, open >>
          /\ maps' = OwnVideo(maps, running_term, t)
      BY <1>8, <2>2 DEF launch_term
    <3>2. Mapped(maps', running_term, t, drawer)
      BY <1>1, <1>3, <3>1, MapsVideo
    <3> QED
      BY <1>1, <2>1, <2>2, <3>1, <3>2
  <2>3. CASE t \notin open
    <3>1. /\ open' = open \cup {t} /\ running_term' = t
          /\ maps' = remap(maps, Program, 2 + t)
      BY <1>8, <2>3 DEF launch_term
    <3>2. Mapped(maps, t, t, drawer)
      BY <1>1, <2>3 DEF Mapped
    <3>3. Mapped(maps', t, t, drawer)
      BY <1>4, <3>1, <3>2, MapsProgram
    <3> QED
      BY <1>1, <2>1, <3>1, <3>3
  <2> QED
    BY <2>2, <2>3
<1>9. ASSUME NEW t \in Terms, schedule(t)
      PROVE  /\ curr_term' \in open' /\ running_term' \in open'
             /\ open' \subseteq Terms /\ drawer' \subseteq open'
             /\ Mapped(maps', running_term', curr_term', drawer')
  <2>1. /\ UNCHANGED << curr_term, open, drawer >>
        /\ t \in open /\ running_term' = t
        /\ maps' = remap(OwnVideo(maps, t, curr_term), Program, 2 + t)
    BY <1>9 DEF schedule
  <2>2. Mapped(OwnVideo(maps, t, curr_term), t, curr_term, drawer)
    BY <1>3, MapsVideo
  <2>3. Mapped(maps', t, curr_term, drawer)
    BY <1>4, <2>1, <2>2, MapsProgram
  <2> QED
    BY <1>1, <2>1, <2>3
<1>10. CASE Keys
  <2>1. CASE CtrlC
    BY <1>6, <2>1
  <2>2. CASE ~CtrlC
    <3>1. UNCHANGED << curr_term, running_term, open, maps, drawer >>
      BY <1>10, <2>2
      DEF Keys, KeyEnter, KeyTab, KeyBackspace, CtrlL, KeyLetter, Key
    <3> QED
      BY <1>5, <3>1
  <2> QED
    BY <2>1, <2>2
<1>11. CASE Programs
  <2>1. CASE vidmap_func
    BY <1>7, <2>1
  <2>2. CASE ~vidmap_func
    <3>1. UNCHANGED << curr_term, running_term, open, maps, drawer >>
      BY <1>11, <2>2 DEF Programs, terminal_read, halt_func, terminal_write, Draw
    <3> QED
      BY <1>5, <3>1
  <2> QED
    BY <2>1, <2>2
<1>12. CASE UNCHANGED vars
  BY <1>5, <1>12 DEF vars
<1> QED
  BY <1>8, <1>9, <1>10, <1>11, <1>12 DEF Next

\* The pages a program reaches are its own screen, from the invariant.
LEMMA PagesReached == PagesInv => ReachesOwnScreen
<1> SUFFICES ASSUME PagesInv, running_term \in drawer
             PROVE  UserPages(maps) = {Own(running_term)}
  BY DEF ReachesOwnScreen
<1>1. running_term \in Terms /\ Own(running_term) \in Nat
  BY EntriesUsed DEF PagesInv, Own
<1> QED
  BY <1>1, OnePage DEF PagesInv

\* However the terminals are switched and scheduled, a program whose terminal
\* has vidmap reaches the screen of that terminal and no other page.
THEOREM OwnScreenOnly ==
  ASSUME "bgvidmap" \notin Hazards, "ctrlc" \notin Hazards
  PROVE  Spec => []ReachesOwnScreen
<1>1. Init => PagesInv
  BY InitPages
<1>2. PagesInv /\ [Next]_vars => PagesInv'
  BY NextPages
<1>3. PagesInv => ReachesOwnScreen
  BY PagesReached
<1> QED
  BY <1>1, <1>2, <1>3, PTL DEF Spec

-----------------------------------------------------------------------------
(* Places and locations.                                                   *)

\* More rows take no less room.
LEMMA MoreRows ==
  ASSUME NEW m \in Nat, NEW n \in Nat, NEW w \in Nat, m <= n
  PROVE  /\ m * w \in Nat /\ n * w \in Nat
         /\ m * w <= n * w
         /\ m < n => m * w + w <= n * w
BY Z3

\* Quotient and remainder are what they are called.
LEMMA Division ==
  ASSUME NEW w \in Nat \ {0}, NEW r \in Nat, NEW c \in 0 .. w - 1
  PROVE  (r * w + c) \div w = r /\ (r * w + c) % w = c
BY Z3

LEMMA Parts ==
  ASSUME NEW w \in Nat \ {0}, NEW n \in Nat
  PROVE  /\ n \div w \in Nat /\ n % w \in 0 .. w - 1
         /\ n = (n \div w) * w + (n % w)
<1>1. n % w \in 0 .. w - 1
  BY Z3
<1>2. n \div w \in Nat
  BY Z3
<1>3. n = w * (n \div w) + (n % w)
  BY Z3
<1>4. w * (n \div w) = (n \div w) * w
  BY <1>2, Z3
<1> QED
  BY <1>1, <1>2, <1>3, <1>4, Zenon

-----------------------------------------------------------------------------
(* Induction, on the numbers up to n.                                      *)

\* A set of naturals that is not empty has a least element.
LEMMA LeastElement ==
  ASSUME NEW T \in SUBSET Nat, T # {}
  PROVE  \E m \in T : \A n \in T : m <= n
<1>1. PICK m \in T : \A n \in T : ~ << n, m >> \in OpToRel(<, Nat)
  BY NatLessThanWellFounded, WFMin, Zenon
<1>2. \A n \in T : ~(n < m)
  BY <1>1 DEF OpToRel
<1> QED
  BY <1>2

\* What holds of 0 and of each number after one of which it holds.
LEMMA Along ==
  ASSUME NEW n \in Nat, NEW S, 0 \in S, \A k \in 1 .. n : k - 1 \in S => k \in S
  PROVE  \A k \in 0 .. n : k \in S
<1> DEFINE T == {k \in 0 .. n : k \notin S}
<1>1. T = {}
  <2>1. SUFFICES ASSUME T # {} PROVE FALSE
    OBVIOUS
  <2>2. T \in SUBSET Nat
    OBVIOUS
  <2> HIDE DEF T
  <2>3. PICK m \in T : \A k \in T : m <= k
    BY <2>1, <2>2, LeastElement
  <2> USE DEF T
  <2>4. m \in 1 .. n /\ m - 1 \in 0 .. n /\ m - 1 \notin T
    BY <2>3
  <2> QED
    BY <2>4
<1> QED
  BY <1>1

\* A function that is defined from its value before.
Follows(f, n, T, b, step) ==
  /\ f \in [0 .. n -> T]
  /\ f[0] = b
  /\ \A k \in 1 .. n : f[k] = step[<< f[k - 1], k >>]

LEMMA Recursion ==
  ASSUME NEW n \in Nat, NEW T, NEW b \in T, NEW step \in [T \X (1 .. n) -> T]
  PROVE  \E f : Follows(f, n, T, b, step)
<1> DEFINE S == {m \in 0 .. n : \E f : Follows(f, m, T, b, step)}
<1>1. 0 \in S
  <2> DEFINE f == [k \in 0 .. 0 |-> b]
  <2>1. f \in [0 .. 0 -> T] /\ f[0] = b /\ \A k \in 1 .. 0 : FALSE
    OBVIOUS
  <2> HIDE DEF f
  <2>2. Follows(f, 0, T, b, step)
    BY <2>1 DEF Follows
  <2> QED
    BY <2>2
<1>2. ASSUME NEW m \in 1 .. n, m - 1 \in S PROVE m \in S
  <2>1. PICK f : Follows(f, m - 1, T, b, step)
    BY <1>2
  <2>2. /\ f \in [0 .. m - 1 -> T] /\ f[0] = b
        /\ \A k \in 1 .. m - 1 : f[k] = step[<< f[k - 1], k >>]
    BY <2>1 DEF Follows
  <2> DEFINE last == step[<< f[m - 1], m >>]
             g == [k \in 0 .. m |-> IF k = m THEN last ELSE f[k]]
  <2>3. last \in T
    BY <1>2, <2>2
  <2> HIDE DEF last
  <2>4. g \in [0 .. m -> T]
    BY <2>2, <2>3
  <2>5. g[0] = b /\ g[m] = last /\ \A k \in 0 .. m - 1 : g[k] = f[k]
    BY <2>2
  <2> HIDE DEF g
  <2>6. ASSUME NEW k \in 1 .. m PROVE g[k] = step[<< g[k - 1], k >>]
    <3>1. CASE k = m
      BY <2>5, <3>1 DEF last
    <3>2. CASE k # m
      <4>1. k \in 1 .. m - 1 /\ k \in 0 .. m - 1 /\ k - 1 \in 0 .. m - 1
        BY <3>2
      <4> QED
        BY <2>2, <2>5, <4>1
    <3> QED
      BY <3>1, <3>2
  <2>7. Follows(g, m, T, b, step)
    BY <2>4, <2>5, <2>6 DEF Follows
  <2> QED
    BY <2>7
<1> HIDE DEF S
<1>3. n \in S
  BY <1>1, <1>2, Along
<1> QED
  BY <1>3 DEF S

-----------------------------------------------------------------------------
(* Places of the screen and locations.                                     *)

Ys == 0 .. NUM_ROWS - 1
Xs == 0 .. NUM_COLS - 1
Spot(y, x) == y * NUM_COLS + x
Loc(y, x)  == 2 * Spot(y, x)

\* The size of a screen.
LEMMA Sizes ==
  /\ NUM_ROWS \in Nat /\ NUM_COLS \in Nat \ {0} /\ TabLen \in Nat \ {0}
  /\ Size \in Nat \ {0} /\ TabLen <= NUM_COLS
  /\ NUM_ROWS >= 2 /\ NUM_ROWS <= NUM_COLS
  /\ Size * TabLen <= (NUM_ROWS - 1) * NUM_COLS
<1>1. /\ NUM_ROWS \in Nat \ {0} /\ NUM_COLS \in Nat \ {0} /\ TabLen \in Nat \ {0}
      /\ Size \in Nat \ {0} /\ TabLen <= NUM_COLS /\ NUM_ROWS <= NUM_COLS
      /\ Size * TabLen <= (NUM_ROWS - 1) * NUM_COLS
  BY ConstantsAssumption, ScreenAssumption
<1>2. Size * TabLen >= 1
  BY <1>1, MoreRows
<1>3. NUM_ROWS # 1
  BY <1>1, <1>2
<1> QED
  BY <1>1, <1>3

\* A row and a column make a place, below it is the place of the next row.
LEMMA SpotPlace ==
  ASSUME NEW y \in Ys, NEW x \in Xs
  PROVE  /\ Spot(y, x) \in Cells /\ Spot(y, x) \in Nat /\ Loc(y, x) \in Locations
         /\ y < NUM_ROWS - 1 <=> Spot(y, x) < (NUM_ROWS - 1) * NUM_COLS
         /\ Spot(y + 1, x) = Spot(y, x) + NUM_COLS
         /\ Spot(y, x) = NUM_COLS * y + x
         /\ Loc(y, x) = 2 * (x + NUM_COLS * y)
         /\ y < NUM_ROWS - 1 => y + 1 \in Ys
<1>1. NUM_ROWS \in Nat /\ NUM_COLS \in Nat \ {0} /\ NUM_ROWS >= 2
  BY Sizes
<1>2. y \in Nat /\ x \in Nat /\ x < NUM_COLS /\ y < NUM_ROWS /\ y <= NUM_ROWS - 1
  BY <1>1 DEF Ys, Xs
<1>3. /\ y * NUM_COLS \in Nat /\ NUM_ROWS * NUM_COLS \in Nat
      /\ (NUM_ROWS - 1) * NUM_COLS \in Nat
      /\ y * NUM_COLS + NUM_COLS <= NUM_ROWS * NUM_COLS
      /\ y * NUM_COLS <= (NUM_ROWS - 1) * NUM_COLS
      /\ y < NUM_ROWS - 1 => y * NUM_COLS + NUM_COLS <= (NUM_ROWS - 1) * NUM_COLS
  <2>1. NUM_ROWS - 1 \in Nat
    BY <1>1
  <2> QED
    BY <1>1, <1>2, <2>1, MoreRows
<1>4. NUM_COLS * y = y * NUM_COLS /\ (y + 1) * NUM_COLS = y * NUM_COLS + NUM_COLS
  BY <1>1, <1>2, Z3
<1>5. Spot(y, x) \in Cells /\ Spot(y, x) \in Nat
  BY <1>1, <1>2, <1>3 DEF Spot, Cells
<1>6. y < NUM_ROWS - 1 <=> Spot(y, x) < (NUM_ROWS - 1) * NUM_COLS
  <2>1. y < NUM_ROWS - 1 \/ y = NUM_ROWS - 1
    BY <1>1, <1>2
  <2> QED
    BY <1>1, <1>2, <1>3, <2>1 DEF Spot
<1>7. Spot(y + 1, x) = Spot(y, x) + NUM_COLS
  BY <1>1, <1>2, <1>3, <1>4 DEF Spot
<1>8. /\ Spot(y, x) = NUM_COLS * y + x
      /\ Loc(y, x) = 2 * (x + NUM_COLS * y)
  BY <1>1, <1>2, <1>3, <1>4 DEF Spot, Loc
<1>9. Loc(y, x) \in Locations
  BY <1>5 DEF Locations, Loc
<1>10. y < NUM_ROWS - 1 => y + 1 \in Ys
  BY <1>1, <1>2 DEF Ys
<1> QED
  BY <1>5, <1>6, <1>7, <1>8, <1>9, <1>10

\* Row and column are found again from the place and from the location.
LEMMA SpotFound ==
  ASSUME NEW y \in Ys, NEW x \in Xs
  PROVE  /\ Spot(y, x) \div NUM_COLS = y /\ Spot(y, x) % NUM_COLS = x
         /\ Loc(y, x) \div (2 * NUM_COLS) = y
         /\ (Loc(y, x) % (2 * NUM_COLS)) \div 2 = x
         /\ Loc(y, x) \div 2 = Spot(y, x)
<1>1. /\ NUM_COLS \in Nat \ {0} /\ y \in Nat /\ x \in Nat /\ x \in 0 .. NUM_COLS - 1
  BY Sizes DEF Ys, Xs
<1>2. Spot(y, x) \div NUM_COLS = y /\ Spot(y, x) % NUM_COLS = x
  BY <1>1, Division DEF Spot
<1>3. /\ 2 * NUM_COLS \in Nat \ {0} /\ 2 * x \in 0 .. 2 * NUM_COLS - 1
      /\ Loc(y, x) = y * (2 * NUM_COLS) + 2 * x
  <2>1. y * (2 * NUM_COLS) = 2 * (y * NUM_COLS) /\ y * NUM_COLS \in Nat
    BY <1>1, Z3
  <2> QED
    BY <1>1, <2>1 DEF Loc, Spot
<1>4. Loc(y, x) \div (2 * NUM_COLS) = y /\ Loc(y, x) % (2 * NUM_COLS) = 2 * x
  <2> DEFINE w == 2 * NUM_COLS
             z == 2 * x
  <2>1. w \in Nat \ {0} /\ y \in Nat /\ z \in 0 .. w - 1 /\ Loc(y, x) = y * w + z
    BY <1>1, <1>3
  <2> HIDE DEF w, z
  <2>2. (y * w + z) \div w = y /\ (y * w + z) % w = z
    BY <2>1, Division
  <2>3. Loc(y, x) \div w = y /\ Loc(y, x) % w = z
    BY <2>1, <2>2
  <2> QED
    BY <2>3 DEF w, z
<1>5. \A m \in Nat : (2 * m) \div 2 = m
  OBVIOUS
<1>6. Spot(y, x) \in Nat
  BY SpotPlace
<1> QED
  BY <1>1, <1>2, <1>4, <1>5, <1>6 DEF Loc

\* Every place and every location has a row and a column.
LEMMA SpotOf ==
  /\ \A cell \in Cells : \E y \in Ys, x \in Xs : cell = Spot(y, x)
  /\ \A l \in Locations : \E y \in Ys, x \in Xs : l = Loc(y, x)
<1>1. NUM_ROWS \in Nat /\ NUM_COLS \in Nat \ {0} /\ NUM_ROWS >= 2
  BY Sizes
<1>2. ASSUME NEW cell \in Cells PROVE \E y \in Ys, x \in Xs : cell = Spot(y, x)
  <2> DEFINE y == cell \div NUM_COLS
             x == cell % NUM_COLS
  <2>1. NUM_ROWS * NUM_COLS \in Nat /\ cell \in Nat /\ cell < NUM_ROWS * NUM_COLS
    <3>1. NUM_ROWS * NUM_COLS \in Nat
      BY <1>1, MoreRows
    <3> QED
      BY <3>1 DEF Cells
  <2>2. y \in Nat /\ x \in 0 .. NUM_COLS - 1 /\ cell = y * NUM_COLS + x
    BY <1>1, <2>1, Parts
  <2> HIDE DEF y, x
  <2>3. y < NUM_ROWS
    <3>1. NUM_ROWS <= y => NUM_ROWS * NUM_COLS <= y * NUM_COLS /\ y * NUM_COLS \in Nat
      BY <1>1, <2>2, MoreRows
    <3> QED
      BY <1>1, <2>1, <2>2, <3>1
  <2>4. y \in Ys /\ x \in Xs /\ cell = Spot(y, x)
    BY <1>1, <2>2, <2>3 DEF Ys, Xs, Spot
  <2> QED
    BY <2>4
<1> QED
  BY <1>2 DEF Locations, Loc


-----------------------------------------------------------------------------
(* A screen by rows and columns.                                           *)

CellSets == [Cells -> Chars \cup {Blank}]
ScreenSet == [cells : CellSets, location : Locations]

Page(cells, y, x) == [cells |-> cells, location |-> Loc(y, x)]
Marked(cells, y, x, c) == [cells EXCEPT ![Spot(y, x)] = c]
NextLine(cells, y) == IF y < NUM_ROWS - 1 THEN Page(cells, y + 1, 0)
                      ELSE Page(scroll(cells), NUM_ROWS - 1, 0)
After(cells, y, x) == IF x < NUM_COLS - 1 THEN Page(cells, y, x + 1)
                      ELSE NextLine(cells, y)

LEMMA PageOf ==
  /\ \A scr \in ScreenSet : \E y \in Ys, x \in Xs : scr = Page(scr.cells, y, x)
  /\ \A cells \in CellSets, y \in Ys, x \in Xs : Page(cells, y, x) \in ScreenSet
<1>1. ASSUME NEW scr \in ScreenSet
      PROVE  \E y \in Ys, x \in Xs : scr = Page(scr.cells, y, x)
  <2>1. PICK y \in Ys, x \in Xs : scr.location = Loc(y, x)
    BY SpotOf DEF ScreenSet
  <2>2. scr = Page(scr.cells, y, x)
    BY <2>1 DEF ScreenSet, Page
  <2> QED
    BY <2>2
<1>2. ASSUME NEW cells \in CellSets, NEW y \in Ys, NEW x \in Xs
      PROVE  Page(cells, y, x) \in ScreenSet
  BY SpotPlace DEF Page, ScreenSet
<1> QED
  BY <1>1, <1>2

\* The first and the last row and column.
LEMMA Corners ==
  /\ 0 \in Ys /\ NUM_ROWS - 1 \in Ys /\ NUM_ROWS - 2 \in Ys
  /\ 0 \in Xs /\ NUM_COLS - 1 \in Xs
  /\ (NUM_ROWS - 2) + 1 = NUM_ROWS - 1 /\ NUM_ROWS - 2 < NUM_ROWS - 1
  /\ NUM_ROWS - 2 # NUM_ROWS - 1 /\ (NUM_ROWS - 1) - 1 = NUM_ROWS - 2
  /\ (NUM_COLS - 1) + 1 = NUM_COLS
  /\ ~(NUM_ROWS - 1 < NUM_ROWS - 1) /\ ~(NUM_COLS - 1 < NUM_COLS - 1)
  /\ \A y \in Ys : y \in Int /\ 0 <= y /\ y <= NUM_ROWS - 1
                   /\ (y # NUM_ROWS - 1 => y + 1 \in Ys /\ y < NUM_ROWS - 1)
  /\ \A x \in Xs : x \in Int /\ 0 <= x /\ x <= NUM_COLS - 1
                   /\ (x # NUM_COLS - 1 => x + 1 \in Xs /\ x < NUM_COLS - 1)
<1>1. NUM_ROWS \in Int /\ NUM_COLS \in Int /\ NUM_ROWS >= 2 /\ NUM_COLS >= 1
  BY Sizes
<1> QED
  BY <1>1 DEF Ys, Xs

\* Scrolling and writing leave characters on the screen.
LEMMA CellTypes ==
  ASSUME NEW cells \in CellSets
  PROVE  /\ scroll(cells) \in CellSets
         /\ \A y \in Ys, x \in Xs : \A c \in Chars \cup {Blank} :
              Marked(cells, y, x, c) \in CellSets
<1>1. ASSUME NEW cell \in Cells
      PROVE  scroll(cells)[cell] \in Chars \cup {Blank}
  <2>1. PICK y \in Ys, x \in Xs : cell = Spot(y, x)
    BY SpotOf
  <2>2. CASE y < NUM_ROWS - 1
    <3>1. y + 1 \in Ys /\ Spot(y, x) + NUM_COLS = Spot(y + 1, x)
      BY <2>2, SpotPlace
    <3>2. cell + NUM_COLS \in Cells
      BY <2>1, <3>1, SpotPlace
    <3> QED
      BY <3>2 DEF scroll, CellSets
  <2>3. CASE ~(y < NUM_ROWS - 1)
    <3>1. ~(cell < (NUM_ROWS - 1) * NUM_COLS)
      BY <2>1, <2>3, SpotPlace
    <3> QED
      BY <3>1 DEF scroll
  <2> QED
    BY <2>2, <2>3
<1>2. scroll(cells) \in CellSets
  BY <1>1 DEF scroll, CellSets
<1> QED
  BY <1>2 DEF Marked, CellSets

LEMMA AfterTyped ==
  ASSUME NEW cells \in CellSets, NEW y \in Ys, NEW x \in Xs
  PROVE  After(cells, y, x) \in ScreenSet /\ NextLine(cells, y) \in ScreenSet
<1>1. NextLine(cells, y) \in ScreenSet
  <2>1. CASE y < NUM_ROWS - 1
    <3>1. y + 1 \in Ys /\ 0 \in Xs
      BY <2>1, Corners
    <3> QED
      BY <2>1, <3>1, PageOf DEF NextLine
  <2>2. CASE ~(y < NUM_ROWS - 1)
    BY <2>2, CellTypes, Corners, PageOf DEF NextLine
  <2> QED
    BY <2>1, <2>2
<1>2. CASE x < NUM_COLS - 1
  <2>1. x + 1 \in Xs
    BY <1>2, Corners
  <2> QED
    BY <1>1, <1>2, <2>1, PageOf DEF After
<1>3. CASE ~(x < NUM_COLS - 1)
  BY <1>1, <1>3 DEF After
<1> QED
  BY <1>2, <1>3

\* The remainders that putc takes.
LEMMA Remainders ==
  /\ \A y \in Ys : y % NUM_ROWS = y /\ ~(y < 0)
  /\ \A x \in Xs : x % NUM_COLS = x /\ x \div NUM_COLS = 0
  /\ NUM_COLS % NUM_COLS = 0 /\ NUM_COLS \div NUM_COLS = 1
<1>1. NUM_ROWS \in Nat \ {0} /\ NUM_COLS \in Nat \ {0}
  BY Sizes
<1>2. \A w \in Nat \ {0} : \A n \in 0 .. w - 1 : n \div w = 0 /\ n % w = n
  <2>1. ASSUME NEW w \in Nat \ {0}, NEW n \in 0 .. w - 1 PROVE n \div w = 0 /\ n % w = n
    <3>1. 0 * w + n = n
      OBVIOUS
    <3>2. \A r \in Nat : (r * w + n) \div w = r /\ (r * w + n) % w = n
      BY Division
    <3> QED
      BY <3>1, <3>2
  <2> QED
    BY <2>1
<1>3. NUM_COLS % NUM_COLS = 0 /\ NUM_COLS \div NUM_COLS = 1
  <2>1. 0 \in 0 .. NUM_COLS - 1 /\ 1 * NUM_COLS + 0 = NUM_COLS
    BY <1>1
  <2>2. (1 * NUM_COLS + 0) \div NUM_COLS = 1 /\ (1 * NUM_COLS + 0) % NUM_COLS = 0
    BY <1>1, <2>1, Division
  <2> QED
    BY <2>1, <2>2
<1> QED
  BY <1>1, <1>2, <1>3 DEF Ys, Xs

\* Where putc goes from a place: At of the code.
PutAt(cells, px, py) ==
  LET row == py + px \div NUM_COLS
  IN [cells |-> cells, location |->
        2 * ((px % NUM_COLS)
             + NUM_COLS * (IF row < 0 THEN row ELSE row % NUM_ROWS))]

LEMMA PutAtIs ==
  ASSUME NEW cells, NEW py \in Ys
  PROVE  /\ \A px \in Xs : PutAt(cells, px, py) = Page(cells, py, px)
         /\ py < NUM_ROWS - 1 => PutAt(cells, NUM_COLS, py) = Page(cells, py + 1, 0)
<1>1. ASSUME NEW px \in Xs PROVE PutAt(cells, px, py) = Page(cells, py, px)
  <2>1. /\ px \div NUM_COLS = 0 /\ px % NUM_COLS = px
        /\ py % NUM_ROWS = py /\ ~(py < 0)
    BY Remainders, Zenon
  <2>2. py + 0 = py
    BY Corners
  <2>3. Loc(py, px) = 2 * (px + NUM_COLS * py)
    BY SpotPlace
  <2> QED
    BY <2>1, <2>2, <2>3, Zenon DEF PutAt, Page
<1>2. ASSUME py < NUM_ROWS - 1 PROVE PutAt(cells, NUM_COLS, py) = Page(cells, py + 1, 0)
  <2>1. py + 1 \in Ys
    BY <1>2, Corners
  <2>2. /\ NUM_COLS \div NUM_COLS = 1 /\ NUM_COLS % NUM_COLS = 0
        /\ (py + 1) % NUM_ROWS = py + 1 /\ ~(py + 1 < 0)
    BY <2>1, Remainders, Zenon
  <2>3. Loc(py + 1, 0) = 2 * (0 + NUM_COLS * (py + 1))
    BY <2>1, Corners, SpotPlace
  <2> QED
    BY <2>2, <2>3, Zenon DEF PutAt, Page
<1> QED
  BY <1>1, <1>2

\* putc, with row and column given: the screen that it has scrolled when it was
\* in the last place, and what each kind of character does then.
Lifted(cells, y, x) ==
  IF x = NUM_COLS - 1 /\ y = NUM_ROWS - 1 THEN scroll(cells) ELSE cells
LiftedRow(y, x) ==
  IF x = NUM_COLS - 1 /\ y = NUM_ROWS - 1 THEN y - 1 ELSE y

LEMMA PutcIs ==
  ASSUME NEW cells, NEW y \in Ys, NEW x \in Xs, NEW c
  PROVE  LET before == Lifted(cells, y, x)
             row    == LiftedRow(y, x)
             result == putc(Page(cells, y, x), c)
         IN /\ c = Newline =>
                 result = IF row = NUM_ROWS - 1 THEN PutAt(scroll(before), 0, (row - 1) + 1)
                                                ELSE PutAt(before, 0, row + 1)
            /\ c = Tab /\ ~(x >= NUM_ROWS - TabLen) =>
                 result = PutAt(before, x + TabLen, row)
            /\ c # Newline /\ c # Tab =>
                 result = PutAt([before EXCEPT ![NUM_COLS * row + x] = c], x + 1, row)
<1> DEFINE before == Lifted(cells, y, x)
           row    == LiftedRow(y, x)
           scrolls == \/ c = Newline /\ row = NUM_ROWS - 1
                      \/ c = Tab /\ x >= NUM_ROWS - TabLen
           cells2 == IF scrolls THEN scroll(before) ELSE before
           y2     == IF scrolls THEN row - 1 ELSE row
           result == putc(Page(cells, y, x), c)
<1>1. /\ Page(cells, y, x).cells = cells
      /\ (Page(cells, y, x).location % (2 * NUM_COLS)) \div 2 = x
      /\ Page(cells, y, x).location \div (2 * NUM_COLS) = y
  BY SpotFound DEF Page
<1>2. result = CASE c = Newline -> PutAt(cells2, 0, y2 + 1)
                 [] c = Tab     -> PutAt(cells2, x + TabLen, y2)
                 [] OTHER -> PutAt([cells2 EXCEPT ![NUM_COLS * y2 + x] = c], x + 1, y2)
  BY <1>1, Zenon DEF putc, PutAt, Lifted, LiftedRow
<1>3. Newline # Tab
  BY ConstantsAssumption
<1> HIDE DEF result, before, row
<1>4. c = Newline => result = PutAt(cells2, 0, y2 + 1)
  BY <1>2, <1>3
<1>5. c = Tab => result = PutAt(cells2, x + TabLen, y2)
  BY <1>2, <1>3
<1>6. c # Newline /\ c # Tab =>
        result = PutAt([cells2 EXCEPT ![NUM_COLS * y2 + x] = c], x + 1, y2)
  BY <1>2
<1>7. /\ c = Newline =>
           result = IF row = NUM_ROWS - 1 THEN PutAt(scroll(before), 0, (row - 1) + 1)
                                          ELSE PutAt(before, 0, row + 1)
      /\ c = Tab /\ ~(x >= NUM_ROWS - TabLen) => result = PutAt(before, x + TabLen, row)
      /\ c # Newline /\ c # Tab =>
           result = PutAt([before EXCEPT ![NUM_COLS * row + x] = c], x + 1, row)
  BY <1>3, <1>4, <1>5, <1>6
<1> QED
  BY <1>7 DEF result, before, row


\* The character that the last place gets is scrolled with the others.
LEMMA ScrollMarked ==
  ASSUME NEW cells \in CellSets, NEW c \in Chars \cup {Blank}
  PROVE  scroll(Marked(cells, NUM_ROWS - 1, NUM_COLS - 1, c))
           = Marked(scroll(cells), NUM_ROWS - 2, NUM_COLS - 1, c)
<1> DEFINE last == Spot(NUM_ROWS - 1, NUM_COLS - 1)
           above == Spot(NUM_ROWS - 2, NUM_COLS - 1)
           rest == (NUM_ROWS - 1) * NUM_COLS
<1>1. /\ last \in Cells /\ above \in Cells /\ last \in Int /\ above \in Int
      /\ above + NUM_COLS = last /\ above < rest /\ NUM_COLS \in Int
  <2>1. /\ NUM_ROWS - 1 \in Ys /\ NUM_ROWS - 2 \in Ys /\ NUM_COLS - 1 \in Xs
        /\ (NUM_ROWS - 2) + 1 = NUM_ROWS - 1 /\ NUM_ROWS - 2 < NUM_ROWS - 1
        /\ NUM_COLS \in Int
    <3>1. NUM_COLS \in Int
      BY Sizes
    <3> QED
      BY <3>1, Corners, Zenon
  <2>2. Spot((NUM_ROWS - 2) + 1, NUM_COLS - 1) = above + NUM_COLS
    BY <2>1, SpotPlace
  <2>3. /\ last \in Cells /\ last \in Nat /\ above \in Cells /\ above \in Nat
        /\ above < rest
    BY <2>1, SpotPlace, Zenon
  <2> HIDE DEF last, above, rest
  <2>4. above + NUM_COLS = last
    BY <2>1, <2>2, Zenon DEF last, above
  <2> QED
    BY <2>1, <2>3, <2>4
<1>2. ASSUME NEW cell \in Cells
      PROVE  scroll(Marked(cells, NUM_ROWS - 1, NUM_COLS - 1, c))[cell]
               = Marked(scroll(cells), NUM_ROWS - 2, NUM_COLS - 1, c)[cell]
  <2> DEFINE marked == Marked(cells, NUM_ROWS - 1, NUM_COLS - 1, c)
  <2>1. /\ marked[last] = c
        /\ \A other \in Cells : other # last => marked[other] = cells[other]
    BY <1>1 DEF Marked, CellSets
  <2>2. Marked(scroll(cells), NUM_ROWS - 2, NUM_COLS - 1, c)[cell]
          = IF cell = above THEN c ELSE scroll(cells)[cell]
    BY <1>1 DEF Marked, scroll
  <2> HIDE DEF marked, last, above, rest
  <2>3. CASE cell < rest
    <3>1. scroll(marked)[cell] = marked[cell + NUM_COLS]
      BY <2>3 DEF scroll, rest
    <3>2. scroll(cells)[cell] = cells[cell + NUM_COLS]
      BY <2>3 DEF scroll, rest
    <3>3. cell + NUM_COLS \in Cells
      <4>1. PICK y \in Ys, x \in Xs : cell = Spot(y, x)
        BY SpotOf
      <4>2. y < NUM_ROWS - 1
        BY <2>3, <4>1, SpotPlace DEF rest
      <4>3. y + 1 \in Ys /\ Spot(y + 1, x) = cell + NUM_COLS
        BY <4>1, <4>2, SpotPlace
      <4> QED
        BY <4>3, SpotPlace
    <3>4. cell + NUM_COLS = last <=> cell = above
      <4>1. cell \in Int
        BY Sizes DEF Cells
      <4> QED
        BY <1>1, <4>1
    <3> QED
      BY <2>1, <2>2, <3>1, <3>2, <3>3, <3>4 DEF marked
  <2>4. CASE ~(cell < rest)
    <3>1. scroll(marked)[cell] = Blank /\ scroll(cells)[cell] = Blank
      BY <2>4 DEF scroll, rest
    <3>2. cell # above
      BY <1>1, <2>4
    <3> QED
      BY <2>2, <3>1, <3>2 DEF marked
  <2> QED
    BY <2>3, <2>4
<1>3. /\ scroll(Marked(cells, NUM_ROWS - 1, NUM_COLS - 1, c)) \in CellSets
      /\ Marked(scroll(cells), NUM_ROWS - 2, NUM_COLS - 1, c) \in CellSets
  BY CellTypes, Corners
<1> DEFINE f == scroll(Marked(cells, NUM_ROWS - 1, NUM_COLS - 1, c))
           g == Marked(scroll(cells), NUM_ROWS - 2, NUM_COLS - 1, c)
<1> HIDE DEF f, g
<1>4. f \in CellSets /\ g \in CellSets /\ \A cell \in Cells : f[cell] = g[cell]
  BY <1>2, <1>3 DEF f, g
<1>5. f = g
  BY <1>4 DEF CellSets
<1> QED
  BY <1>5 DEF f, g

\* A character is written and the location moves on.  In the last place the
\* screen scrolls before, which comes to the same.
LEMMA PutcChar ==
  ASSUME NEW cells \in CellSets, NEW y \in Ys, NEW x \in Xs, NEW c \in Chars
  PROVE  putc(Page(cells, y, x), c) = After(Marked(cells, y, x, c), y, x)
<1> DEFINE before == Lifted(cells, y, x)
           row    == LiftedRow(y, x)
<1>1. c # Newline /\ c # Tab
  BY ConstantsAssumption
<1>2. putc(Page(cells, y, x), c)
        = PutAt([before EXCEPT ![NUM_COLS * row + x] = c], x + 1, row)
  BY <1>1, PutcIs, Zenon
<1>3. CASE x = NUM_COLS - 1 /\ y = NUM_ROWS - 1
  <2>1. before = scroll(cells) /\ row = NUM_ROWS - 2
    BY <1>3, Corners, Zenon DEF Lifted, LiftedRow
  <2>2. NUM_COLS * (NUM_ROWS - 2) + (NUM_COLS - 1) = Spot(NUM_ROWS - 2, NUM_COLS - 1)
    <3>1. NUM_ROWS - 2 \in Ys /\ NUM_COLS - 1 \in Xs
      BY Corners, Zenon
    <3>2. \A u \in Ys, v \in Xs : Spot(u, v) = NUM_COLS * u + v
      BY SpotPlace, Zenon
    <3> QED
      BY <3>1, <3>2, Zenon
  <2>3. putc(Page(cells, y, x), c)
          = PutAt(Marked(scroll(cells), NUM_ROWS - 2, NUM_COLS - 1, c), NUM_COLS,
                  NUM_ROWS - 2)
    BY <1>2, <1>3, <2>1, <2>2, Corners, Zenon DEF Marked
  <2>4. putc(Page(cells, y, x), c)
          = Page(Marked(scroll(cells), NUM_ROWS - 2, NUM_COLS - 1, c), NUM_ROWS - 1, 0)
    <3> DEFINE marked == Marked(scroll(cells), NUM_ROWS - 2, NUM_COLS - 1, c)
    <3> HIDE DEF marked
    <3>1. PutAt(marked, NUM_COLS, NUM_ROWS - 2) = Page(marked, (NUM_ROWS - 2) + 1, 0)
      BY Corners, PutAtIs, Zenon
    <3>2. (NUM_ROWS - 2) + 1 = NUM_ROWS - 1
      BY Corners, Zenon
    <3> QED
      BY <2>3, <3>1, <3>2, Zenon DEF marked
  <2>5. After(Marked(cells, y, x, c), y, x)
          = Page(scroll(Marked(cells, NUM_ROWS - 1, NUM_COLS - 1, c)), NUM_ROWS - 1, 0)
    BY <1>3, Corners, Zenon DEF After, NextLine
  <2>6. c \in Chars \cup {Blank}
    OBVIOUS
  <2> QED
    BY <2>4, <2>5, <2>6, ScrollMarked, Zenon
<1>4. CASE ~(x = NUM_COLS - 1 /\ y = NUM_ROWS - 1)
  <2>1. before = cells /\ row = y
    BY <1>4, Zenon DEF Lifted, LiftedRow
  <2>2. NUM_COLS * y + x = Spot(y, x)
    BY SpotPlace, Zenon
  <2>3. putc(Page(cells, y, x), c) = PutAt(Marked(cells, y, x, c), x + 1, y)
    BY <1>2, <2>1, <2>2, Zenon DEF Marked
  <2>4. CASE x # NUM_COLS - 1
    <3>1. x + 1 \in Xs /\ x < NUM_COLS - 1
      BY <2>4, Corners, Zenon
    <3> QED
      BY <2>3, <3>1, PutAtIs, Zenon DEF After
  <2>5. CASE x = NUM_COLS - 1
    <3>1. x + 1 = NUM_COLS /\ y < NUM_ROWS - 1 /\ ~(x < NUM_COLS - 1)
      BY <1>4, <2>5, Corners, Zenon
    <3> QED
      BY <2>3, <3>1, PutAtIs, Zenon DEF After, NextLine
  <2> QED
    BY <2>4, <2>5
<1> QED
  BY <1>3, <1>4

\* A line feed goes to the next row; in the last row the screen scrolls, once,
\* also from its last place.
LEMMA PutcNewline ==
  ASSUME NEW cells, NEW y \in Ys, NEW x \in Xs
  PROVE  putc(Page(cells, y, x), Newline) = NextLine(cells, y)
<1> DEFINE before == Lifted(cells, y, x)
           row    == LiftedRow(y, x)
<1>1. 0 \in Xs
  BY Corners
<1>2. putc(Page(cells, y, x), Newline)
        = IF row = NUM_ROWS - 1 THEN PutAt(scroll(before), 0, (row - 1) + 1)
                                ELSE PutAt(before, 0, row + 1)
  BY PutcIs, Zenon
<1>3. CASE y = NUM_ROWS - 1
  <2>1. putc(Page(cells, y, x), Newline) = PutAt(scroll(cells), 0, NUM_ROWS - 1)
    <3>1. CASE x = NUM_COLS - 1
      <4>1. before = scroll(cells) /\ row = NUM_ROWS - 2
        BY <1>3, <3>1, Corners, Zenon DEF Lifted, LiftedRow
      <4> HIDE DEF before, row
      <4> QED
        BY <1>2, <4>1, Corners, Zenon
    <3>2. CASE x # NUM_COLS - 1
      <4>1. before = cells /\ row = NUM_ROWS - 1
        BY <1>3, <3>2, Zenon DEF Lifted, LiftedRow
      <4>2. ((NUM_ROWS - 1) - 1) + 1 = NUM_ROWS - 1
        BY Corners, Zenon
      <4> HIDE DEF before, row
      <4> QED
        BY <1>2, <4>1, <4>2, Zenon
    <3> QED
      BY <3>1, <3>2
  <2>2. PutAt(scroll(cells), 0, y) = Page(scroll(cells), y, 0)
    BY <1>1, PutAtIs, Zenon
  <2>3. ~(y < NUM_ROWS - 1)
    BY <1>3, Corners, Zenon
  <2> QED
    BY <1>3, <2>1, <2>2, <2>3, Zenon DEF NextLine
<1>4. CASE y # NUM_ROWS - 1
  <2>1. before = cells /\ row = y
    BY <1>4, Zenon DEF Lifted, LiftedRow
  <2>2. y + 1 \in Ys /\ y < NUM_ROWS - 1
    BY <1>4, Corners, Zenon
  <2>3. PutAt(cells, 0, y + 1) = Page(cells, y + 1, 0)
    BY <1>1, <2>2, PutAtIs, Zenon
  <2> HIDE DEF before, row
  <2> QED
    BY <1>2, <1>4, <2>1, <2>2, <2>3, Zenon DEF NextLine
<1> QED
  BY <1>3, <1>4

\* A tab that does not scroll stays in its row.
LEMMA PutcTab ==
  ASSUME NEW cells, NEW y \in Ys, NEW x \in Xs, x < NUM_ROWS - TabLen
  PROVE  /\ putc(Page(cells, y, x), Tab) = Page(cells, y, x + TabLen)
         /\ x + TabLen \in Xs /\ x + TabLen < NUM_COLS
<1>1. Newline # Tab
  BY ConstantsAssumption
<1>2. /\ x # NUM_COLS - 1 /\ ~(x >= NUM_ROWS - TabLen)
      /\ x + TabLen \in Xs /\ x + TabLen < NUM_COLS
  <2>1. /\ NUM_ROWS \in Int /\ NUM_COLS \in Int /\ TabLen \in Int /\ TabLen >= 1
        /\ NUM_ROWS <= NUM_COLS
    BY Sizes
  <2> QED
    BY <2>1 DEF Xs
<1>3. Lifted(cells, y, x) = cells /\ LiftedRow(y, x) = y
  BY <1>2, Zenon DEF Lifted, LiftedRow
<1>4. putc(Page(cells, y, x), Tab) = PutAt(cells, x + TabLen, y)
  <2>1. ~(x >= NUM_ROWS - TabLen) =>
          putc(Page(cells, y, x), Tab)
            = PutAt(Lifted(cells, y, x), x + TabLen, LiftedRow(y, x))
    BY PutcIs
  <2> QED
    BY <1>2, <1>3, <2>1, Zenon
<1>5. PutAt(cells, x + TabLen, y) = Page(cells, y, x + TabLen)
  BY <1>2, PutAtIs, Zenon
<1> QED
  BY <1>2, <1>4, <1>5


-----------------------------------------------------------------------------
(* The echo of Tab and Enter.                                              *)

\* The next location is the next place, or the beginning of the next row.
LEMMA NextSpot ==
  ASSUME NEW y \in Ys, NEW x \in Xs
  PROVE  /\ x < NUM_COLS - 1 => /\ Loc(y, x) + 2 = Loc(y, x + 1)
                                 /\ Loc(y, x) + 2 # ScreenSize
         /\ x = NUM_COLS - 1 => Loc(y, x) + 2 = Loc(y + 1, 0)
         /\ x = NUM_COLS - 1 /\ y < NUM_ROWS - 1 => Loc(y, x) + 2 # ScreenSize
         /\ x = NUM_COLS - 1 /\ y = NUM_ROWS - 1 => Loc(y, x) + 2 = ScreenSize
         /\ Loc(NUM_ROWS - 1, 0) = 2 * (NUM_ROWS - 1) * NUM_COLS
<1>1. /\ NUM_ROWS \in Nat /\ NUM_COLS \in Nat /\ NUM_ROWS >= 1
      /\ y \in Nat /\ x \in Nat /\ x <= NUM_COLS - 1 /\ y <= NUM_ROWS - 1
  <2>1. NUM_ROWS \in Nat /\ NUM_COLS \in Nat /\ NUM_ROWS >= 2
    BY Sizes
  <2> QED
    BY <2>1 DEF Ys, Xs
<1> DEFINE a == y * NUM_COLS
           b == NUM_ROWS * NUM_COLS
           d == (NUM_ROWS - 1) * NUM_COLS
<1>2. /\ a \in Nat /\ b \in Nat /\ d \in Nat
      /\ (y + 1) * NUM_COLS = a + NUM_COLS
      /\ b = d + NUM_COLS /\ a <= d
      /\ y < NUM_ROWS - 1 => a + NUM_COLS <= d
  <2>1. NUM_ROWS - 1 \in Nat /\ y <= NUM_ROWS - 1 /\ (NUM_ROWS - 1) + 1 = NUM_ROWS
    BY <1>1
  <2>2. \A n \in Nat : /\ (n + 1) * NUM_COLS = n * NUM_COLS + NUM_COLS
                         /\ n * NUM_COLS \in Nat
    BY <1>1, Z3
  <2>3. a <= d /\ (y < NUM_ROWS - 1 => a + NUM_COLS <= d)
    BY <1>1, <2>1, MoreRows
  <2>4. /\ a \in Nat /\ d \in Nat /\ (y + 1) * NUM_COLS = a + NUM_COLS
        /\ ((NUM_ROWS - 1) + 1) * NUM_COLS = d + NUM_COLS
    BY <1>1, <2>1, <2>2, Zenon
  <2>5. b = d + NUM_COLS
    BY <2>1, <2>4, Zenon
  <2> HIDE DEF a, b, d
  <2> QED
    BY <1>1, <2>3, <2>4, <2>5
<1>3. /\ Loc(y, x) = 2 * (a + x) /\ Loc(y, x + 1) = 2 * (a + (x + 1))
      /\ Loc(y + 1, 0) = 2 * ((y + 1) * NUM_COLS + 0)
      /\ Loc(NUM_ROWS - 1, 0) = 2 * (d + 0)
  BY DEF Loc, Spot
<1>4. ScreenSize = 2 * b /\ 2 * (NUM_ROWS - 1) * NUM_COLS = 2 * d
  BY <1>1, Z3 DEF ScreenSize
<1> HIDE DEF a, b, d
<1> QED
  BY <1>1, <1>2, <1>3, <1>4

\* A blank is written and the location moves on; after the last place the
\* screen scrolls.
LEMMA BlankIs ==
  ASSUME NEW cells \in CellSets, NEW y \in Ys, NEW x \in Xs, NEW scr,
         scr = Page(cells, y, x)
  PROVE  LET next == [cells |-> [scr.cells EXCEPT ![scr.location \div 2] = Blank],
                      location |-> scr.location + 2]
         IN (IF next.location = ScreenSize THEN handle_scroll(next) ELSE next)
              = After(Marked(cells, y, x, Blank), y, x)
<1> DEFINE marked == Marked(cells, y, x, Blank)
           next == [cells |-> marked, location |-> Loc(y, x) + 2]
           result == IF Loc(y, x) + 2 = ScreenSize THEN handle_scroll(next) ELSE next
<1>1. /\ scr.location = Loc(y, x) /\ scr.cells = cells
      /\ Loc(y, x) \div 2 = Spot(y, x)
  BY SpotFound DEF Page
<1> HIDE DEF marked
<1>2. result = After(marked, y, x)
  <2>1. CASE x < NUM_COLS - 1
    BY <2>1, NextSpot DEF After, Page
  <2>2. CASE x = NUM_COLS - 1 /\ y < NUM_ROWS - 1
    <3>1. ~(x < NUM_COLS - 1)
      BY <2>2, Corners, Zenon
    <3> QED
      BY <2>2, <3>1, NextSpot, Zenon DEF After, NextLine, Page
  <2>3. CASE x = NUM_COLS - 1 /\ y = NUM_ROWS - 1
    <3>1. ~(x < NUM_COLS - 1) /\ ~(y < NUM_ROWS - 1)
      BY <2>3, Corners, Zenon
    <3>2. After(marked, y, x) = Page(scroll(marked), NUM_ROWS - 1, 0)
      BY <3>1, Zenon DEF After, NextLine
    <3>3. handle_scroll(next) = Page(scroll(marked), NUM_ROWS - 1, 0)
      BY NextSpot DEF handle_scroll, Page
    <3> QED
      BY <2>3, <3>2, <3>3, NextSpot, Zenon
  <2> QED
    BY <2>1, <2>2, <2>3, Corners, Zenon
<1> QED
  BY <1>1, <1>2 DEF marked, Marked

\* One turn of handle_tab is a blank and the next place; halfway down the screen
\* the blank goes into the last row.
LEMMA TabStepIs ==
  ASSUME NEW cells \in CellSets, NEW y \in Ys, NEW x \in Xs
  PROVE  TabStep(Page(cells, y, x)) =
           IF Loc(y, x) = NUM_ROWS * NUM_COLS
           THEN After(Marked(scroll(cells), NUM_ROWS - 1, 0, Blank), NUM_ROWS - 1, 0)
           ELSE After(Marked(cells, y, x, Blank), y, x)
<1>1. Page(cells, y, x).location = Loc(y, x)
  BY DEF Page
<1>2. CASE Loc(y, x) = NUM_ROWS * NUM_COLS
  <2>1. handle_scroll(Page(cells, y, x)) = Page(scroll(cells), NUM_ROWS - 1, 0)
    BY NextSpot DEF handle_scroll, Page
  <2>2. scroll(cells) \in CellSets /\ NUM_ROWS - 1 \in Ys /\ 0 \in Xs
    BY CellTypes, Corners
  <2> DEFINE scr == Page(scroll(cells), NUM_ROWS - 1, 0)
             next == [cells |-> [scr.cells EXCEPT ![scr.location \div 2] = Blank],
                      location |-> scr.location + 2]
  <2>3. TabStep(Page(cells, y, x))
          = IF next.location = ScreenSize THEN handle_scroll(next) ELSE next
    BY <1>1, <1>2, <2>1, Zenon DEF TabStep
  <2>4. (IF next.location = ScreenSize THEN handle_scroll(next) ELSE next)
          = After(Marked(scroll(cells), NUM_ROWS - 1, 0, Blank), NUM_ROWS - 1, 0)
    BY <2>2, BlankIs
  <2> QED
    BY <1>2, <2>3, <2>4, Zenon
<1>3. CASE Loc(y, x) # NUM_ROWS * NUM_COLS
  <2> DEFINE scr == Page(cells, y, x)
             next == [cells |-> [scr.cells EXCEPT ![scr.location \div 2] = Blank],
                      location |-> scr.location + 2]
  <2>1. TabStep(Page(cells, y, x))
          = IF next.location = ScreenSize THEN handle_scroll(next) ELSE next
    BY <1>1, <1>3, Zenon DEF TabStep
  <2>2. (IF next.location = ScreenSize THEN handle_scroll(next) ELSE next)
          = After(Marked(cells, y, x, Blank), y, x)
    BY BlankIs, Zenon
  <2> QED
    BY <1>3, <2>1, <2>2, Zenon
<1> QED
  BY <1>2, <1>3

\* Enter goes to the next line.
LEMMA EnterIs ==
  ASSUME NEW cells \in CellSets, NEW y \in Ys, NEW x \in Xs
  PROVE  handle_enter(Page(cells, y, x)) = NextLine(cells, y)
<1>1. /\ Page(cells, y, x).location \div (2 * NUM_COLS) = y
      /\ Page(cells, y, x).cells = cells
  BY SpotFound DEF Page
<1>2. y + 1 = NUM_ROWS <=> ~(y < NUM_ROWS - 1)
  <2>1. NUM_ROWS \in Int
    BY Sizes
  <2> QED
    BY <2>1 DEF Ys
<1>3. Loc(y + 1, 0) = 2 * (y + 1) * NUM_COLS
  <2>1. NUM_COLS \in Nat /\ y \in Nat
    <3>1. NUM_COLS \in Nat
      BY Sizes
    <3> QED
      BY <3>1 DEF Ys
  <2>2. 2 * (y + 1) * NUM_COLS = 2 * ((y + 1) * NUM_COLS) /\ (y + 1) * NUM_COLS \in Nat
    BY <2>1, Z3
  <2> QED
    BY <2>2 DEF Loc, Spot
<1>4. CASE y < NUM_ROWS - 1
  BY <1>1, <1>2, <1>3, <1>4 DEF handle_enter, NextLine, Page
<1>5. CASE ~(y < NUM_ROWS - 1)
  <2>1. handle_enter(Page(cells, y, x)) = handle_scroll(Page(cells, y, x))
    BY <1>1, <1>2, <1>5, Zenon DEF handle_enter
  <2>2. handle_scroll(Page(cells, y, x)) = Page(scroll(cells), NUM_ROWS - 1, 0)
    BY <1>1, NextSpot DEF handle_scroll, Page
  <2> QED
    BY <1>5, <2>1, <2>2, Zenon DEF NextLine
<1> QED
  BY <1>4, <1>5

\* The location goes forward n places, or to the last row.
Ahead(l, n, m) == m \in Int /\ (m >= 2 * (NUM_ROWS - 1) * NUM_COLS \/ m >= l + 2 * n)

LEMMA AfterAhead ==
  ASSUME NEW cells, NEW y \in Ys, NEW x \in Xs
  PROVE  /\ Ahead(Loc(y, x), 1, After(cells, y, x).location)
         /\ Ahead(Loc(y, x), 0, NextLine(cells, y).location)
<1>1. /\ Loc(y, x) \in Int /\ Loc(NUM_ROWS - 1, 0) \in Int
      /\ 2 * (NUM_ROWS - 1) * NUM_COLS \in Int
  <2>1. NUM_ROWS - 1 \in Ys /\ 0 \in Xs
    BY Corners
  <2>2. Spot(y, x) \in Nat /\ Spot(NUM_ROWS - 1, 0) \in Nat
    BY <2>1, SpotPlace
  <2>3. Loc(y, x) \in Int /\ Loc(NUM_ROWS - 1, 0) \in Int
    BY <2>2 DEF Loc
  <2> QED
    BY <2>3, NextSpot, Zenon
<1>2. CASE y < NUM_ROWS - 1
  <2>1. NextLine(cells, y).location = Loc(y + 1, 0) /\ y + 1 \in Ys /\ 0 \in Xs
    BY <1>2, Corners DEF NextLine, Page
  <2>2. Loc(y + 1, 0) \in Int /\ Loc(y + 1, 0) >= Loc(y, x) + 2
    <3>1. NUM_COLS \in Nat /\ y \in Nat /\ x \in Nat /\ x <= NUM_COLS - 1
      <4>1. NUM_COLS \in Nat /\ NUM_ROWS \in Int
        BY Sizes
      <4> QED
        BY <4>1 DEF Ys, Xs
    <3>2. y * NUM_COLS \in Nat /\ (y + 1) * NUM_COLS = y * NUM_COLS + NUM_COLS
      BY <3>1, Z3
    <3> QED
      BY <3>1, <3>2 DEF Loc, Spot
  <2>3. \/ After(cells, y, x).location = Loc(y, x) + 2
        \/ After(cells, y, x).location = Loc(y + 1, 0)
    <3>1. CASE x < NUM_COLS - 1
      BY <3>1, NextSpot DEF After, Page
    <3>2. CASE ~(x < NUM_COLS - 1)
      BY <2>1, <3>2 DEF After
    <3> QED
      BY <3>1, <3>2
  <2> QED
    BY <1>1, <2>1, <2>2, <2>3 DEF Ahead
<1>3. CASE ~(y < NUM_ROWS - 1)
  <2>1. NextLine(cells, y).location = 2 * (NUM_ROWS - 1) * NUM_COLS
    BY <1>3, NextSpot DEF NextLine, Page
  <2>2. \/ After(cells, y, x).location = Loc(y, x) + 2
        \/ After(cells, y, x).location = 2 * (NUM_ROWS - 1) * NUM_COLS
    <3>1. CASE x < NUM_COLS - 1
      BY <3>1, NextSpot DEF After, Page
    <3>2. CASE ~(x < NUM_COLS - 1)
      BY <2>1, <3>2 DEF After
    <3> QED
      BY <3>1, <3>2
  <2> QED
    BY <1>1, <2>1, <2>2 DEF Ahead
<1> QED
  BY <1>2, <1>3

\* The steps of handle_tab leave a screen, and go forward.
LEMMA TabStepTyped ==
  ASSUME NEW scr \in ScreenSet
  PROVE  TabStep(scr) \in ScreenSet /\ Ahead(scr.location, 1, TabStep(scr).location)
<1>1. PICK y \in Ys, x \in Xs : scr = Page(scr.cells, y, x)
  BY PageOf
<1> DEFINE cells == scr.cells
<1>2. cells \in CellSets /\ scr.location = Loc(y, x)
  <2>1. cells \in CellSets
    BY DEF ScreenSet
  <2>2. Page(cells, y, x).location = Loc(y, x)
    BY DEF Page
  <2> QED
    BY <1>1, <2>1, <2>2, Zenon
<1> HIDE DEF cells
<1>3. scr = Page(cells, y, x)
  BY <1>1 DEF cells
<1>4. /\ Marked(cells, y, x, Blank) \in CellSets /\ scroll(cells) \in CellSets
      /\ Marked(scroll(cells), NUM_ROWS - 1, 0, Blank) \in CellSets
  <2>1. Blank \in Chars \cup {Blank}
    OBVIOUS
  <2>2. scroll(cells) \in CellSets
    BY <1>2, CellTypes
  <2> QED
    BY <1>2, <2>1, <2>2, CellTypes, Corners, Zenon
<1>5. CASE Loc(y, x) = NUM_ROWS * NUM_COLS
  <2> DEFINE marked == Marked(scroll(cells), NUM_ROWS - 1, 0, Blank)
  <2>1. TabStep(scr) = After(marked, NUM_ROWS - 1, 0)
    BY <1>2, <1>3, <1>5, TabStepIs, Zenon
  <2>2. /\ After(marked, NUM_ROWS - 1, 0) \in ScreenSet
        /\ Ahead(Loc(NUM_ROWS - 1, 0), 1, After(marked, NUM_ROWS - 1, 0).location)
    BY <1>4, AfterTyped, AfterAhead, Corners, Zenon
  <2>3. /\ Loc(NUM_ROWS - 1, 0) = 2 * (NUM_ROWS - 1) * NUM_COLS
        /\ Loc(NUM_ROWS - 1, 0) \in Int
    <3>1. Spot(NUM_ROWS - 1, 0) \in Nat
      BY Corners, SpotPlace, Zenon
    <3>2. Loc(NUM_ROWS - 1, 0) \in Int
      BY <3>1 DEF Loc
    <3> QED
      BY <3>2, NextSpot, Zenon
  <2> HIDE DEF marked
  <2>4. Ahead(scr.location, 1, After(marked, NUM_ROWS - 1, 0).location)
    BY <2>2, <2>3 DEF Ahead
  <2> QED
    BY <2>1, <2>2, <2>4, Zenon
<1>6. CASE Loc(y, x) # NUM_ROWS * NUM_COLS
  <2>1. TabStep(scr) = After(Marked(cells, y, x, Blank), y, x)
    BY <1>2, <1>3, <1>6, TabStepIs, Zenon
  <2> QED
    BY <1>2, <1>4, <2>1, AfterTyped, AfterAhead, Zenon
<1> QED
  BY <1>5, <1>6


-----------------------------------------------------------------------------
(* A text is written character by character.                               *)

\* Wherever the location has got to, putc leaves characters and a number.
Drawings == [cells : CellSets, location : Int]

LEMMA PutcTyped ==
  ASSUME NEW scr \in Drawings, NEW c \in Chars \cup {Newline, Tab}
  PROVE  putc(scr, c) \in Drawings
<1> DEFINE x == (scr.location % (2 * NUM_COLS)) \div 2
           y == scr.location \div (2 * NUM_COLS)
           full   == x = NUM_COLS - 1 /\ y = NUM_ROWS - 1
           cells1 == IF full THEN scroll(scr.cells) ELSE scr.cells
           y1     == IF full THEN y - 1 ELSE y
           scrolls == \/ c = Newline /\ y1 = NUM_ROWS - 1
                      \/ c = Tab /\ x >= NUM_ROWS - TabLen
           cells2 == IF scrolls THEN scroll(cells1) ELSE cells1
           y2     == IF scrolls THEN y1 - 1 ELSE y1
<1>1. /\ NUM_ROWS \in Nat \ {0} /\ NUM_COLS \in Nat \ {0} /\ TabLen \in Int
      /\ 2 * NUM_COLS \in Nat \ {0}
  BY Sizes
<1>2. scr.location \in Int /\ scr.cells \in CellSets
  BY DEF Drawings
<1>3. x \in Int /\ y \in Int
  <2>1. \A n \in Int, w \in Nat \ {0} : n % w \in Int /\ n \div w \in Int
    BY Z3
  <2> QED
    BY <1>1, <1>2, <2>1
<1> HIDE DEF x, y
<1>4. y2 \in Int
  BY <1>3
<1>5. cells2 \in CellSets
  BY <1>2, CellTypes
<1> HIDE DEF y2, cells2
<1>6. ASSUME NEW cells \in CellSets, NEW px \in Int, NEW py \in Int
      PROVE  PutAt(cells, px, py) \in Drawings
  <2> DEFINE row == py + px \div NUM_COLS
             r2 == IF row < 0 THEN row ELSE row % NUM_ROWS
  <2>1. \A n \in Int, w \in Nat \ {0} : n % w \in Int /\ n \div w \in Int
    BY Z3
  <2>2. row \in Int /\ px % NUM_COLS \in Int
    BY <1>1, <2>1
  <2> HIDE DEF row
  <2>3. r2 \in Int
    BY <1>1, <2>1, <2>2
  <2> HIDE DEF r2
  <2>4. NUM_COLS * r2 \in Int
    BY <1>1, <2>3, Z3
  <2>5. 2 * ((px % NUM_COLS) + NUM_COLS * r2) \in Int
    BY <2>2, <2>4
  <2> QED
    BY <2>5 DEF PutAt, Drawings, row, r2
<1>7. putc(scr, c) = CASE c = Newline -> PutAt(cells2, 0, y2 + 1)
                       [] c = Tab     -> PutAt(cells2, x + TabLen, y2)
                       [] OTHER -> PutAt([cells2 EXCEPT ![NUM_COLS * y2 + x] = c], x + 1, y2)
  BY Zenon DEF putc, PutAt, x, y, y2, cells2
<1>8. Newline # Tab
  BY ConstantsAssumption
<1>9. CASE c = Newline
  <2>1. putc(scr, c) = PutAt(cells2, 0, y2 + 1)
    BY <1>7, <1>8, <1>9
  <2>2. y2 + 1 \in Int /\ 0 \in Int
    BY <1>4
  <2> QED
    BY <1>5, <1>6, <2>1, <2>2, Zenon
<1>10. CASE c = Tab
  <2>1. putc(scr, c) = PutAt(cells2, x + TabLen, y2)
    BY <1>7, <1>8, <1>10
  <2>2. x + TabLen \in Int
    BY <1>1, <1>3
  <2> QED
    BY <1>4, <1>5, <1>6, <2>1, <2>2, Zenon
<1>11. CASE c # Newline /\ c # Tab
  <2>1. putc(scr, c) = PutAt([cells2 EXCEPT ![NUM_COLS * y2 + x] = c], x + 1, y2)
    BY <1>7, <1>11
  <2>2. x + 1 \in Int /\ c \in Chars
    BY <1>3, <1>11
  <2>3. [cells2 EXCEPT ![NUM_COLS * y2 + x] = c] \in CellSets
    BY <1>5, <2>2 DEF CellSets
  <2> QED
    BY <1>4, <1>6, <2>1, <2>2, <2>3, Zenon
<1> QED
  BY <1>9, <1>10, <1>11

\* The function that terminal_write goes along.
LEMMA DrawnIs ==
  ASSUME NEW scr \in ScreenSet, NEW text \in Seq(Chars \cup {Newline, Tab})
  PROVE  /\ DOMAIN Drawn(scr, text) = 0 .. Len(text)
         /\ Drawn(scr, text)[0] = scr
         /\ \A k \in 1 .. Len(text) :
              Drawn(scr, text)[k] = putc(Drawn(scr, text)[k - 1], text[k])
<1> DEFINE n == Len(text)
           step == [p \in Drawings \X (1 .. n) |-> putc(p[1], text[p[2]])]
<1>1. n \in Nat /\ \A k \in 1 .. n : text[k] \in Chars \cup {Newline, Tab}
  OBVIOUS
<1> HIDE DEF n
<1>2. scr \in Drawings
  <2>1. Locations \subseteq Int
    <3>1. \A cell \in Cells : cell \in Int
      BY DEF Cells
    <3> QED
      BY <3>1 DEF Locations
  <2> QED
    BY <2>1 DEF ScreenSet, Drawings
<1>3. step \in [Drawings \X (1 .. n) -> Drawings]
  <2>1. ASSUME NEW p \in Drawings \X (1 .. n) PROVE putc(p[1], text[p[2]]) \in Drawings
    <3>1. p[1] \in Drawings /\ text[p[2]] \in Chars \cup {Newline, Tab}
      BY <1>1
    <3> QED
      BY <3>1, PutcTyped, Zenon
  <2> QED
    BY <2>1
<1>4. PICK f \in [0 .. n -> Drawings] :
        f[0] = scr /\ \A k \in 1 .. n : f[k] = step[<< f[k - 1], k >>]
  <2> HIDE DEF step
  <2>1. \E f : Follows(f, n, Drawings, scr, step)
    BY <1>1, <1>2, <1>3, Recursion
  <2> QED
    BY <2>1 DEF Follows
<1>5. \A k \in 1 .. n : f[k] = putc(f[k - 1], text[k])
  <2>1. ASSUME NEW k \in 1 .. n PROVE f[k] = putc(f[k - 1], text[k])
    <3>1. k - 1 \in 0 .. n
      BY <1>1
    <3>2. << f[k - 1], k >> \in Drawings \X (1 .. n)
      BY <1>4, <3>1
    <3> QED
      BY <1>4, <3>2
  <2> QED
    BY <2>1
<1>6. f = [k \in 0 .. n |-> IF k = 0 THEN scr ELSE putc(f[k - 1], text[k])]
  <2>1. \A k \in 0 .. n : k = 0 \/ k \in 1 .. n
    BY <1>1
  <2>2. \A k \in 0 .. n : f[k] = IF k = 0 THEN scr ELSE putc(f[k - 1], text[k])
    BY <1>4, <1>5, <2>1
  <2> QED
    BY <1>4, <2>2
<1> DEFINE g == Drawn(scr, text)
<1>7. g = [k \in 0 .. n |-> IF k = 0 THEN scr ELSE putc(g[k - 1], text[k])]
  BY <1>6, Zenon DEF Drawn, n
<1> HIDE DEF g
<1>8. DOMAIN g = 0 .. n /\ g[0] = scr /\ \A k \in 1 .. n : g[k] = putc(g[k - 1], text[k])
  <2>1. 0 \in 0 .. n /\ \A k \in 1 .. n : k \in 0 .. n /\ k # 0
    BY <1>1
  <2> QED
    BY <1>7, <2>1, Zenon
<1> QED
  BY <1>8 DEF g, n

\* The screens that handle_tab goes through.
LEMMA TabAlong ==
  ASSUME NEW scr \in ScreenSet
  PROVE  \E f \in [0 .. TabLen -> ScreenSet] :
           /\ f[0] = scr /\ \A k \in 1 .. TabLen : f[k] = TabStep(f[k - 1])
           /\ handle_tab(scr) = f[TabLen]
<1> DEFINE step == [p \in ScreenSet \X (1 .. TabLen) |-> TabStep(p[1])]
<1>1. TabLen \in Nat /\ TabLen \in 1 .. TabLen /\ TabLen \in 0 .. TabLen
  BY Sizes
<1>2. step \in [ScreenSet \X (1 .. TabLen) -> ScreenSet]
  <2>1. ASSUME NEW p \in ScreenSet \X (1 .. TabLen) PROVE TabStep(p[1]) \in ScreenSet
    BY TabStepTyped
  <2> QED
    BY <2>1
<1>3. PICK f \in [0 .. TabLen -> ScreenSet] :
        f[0] = scr /\ \A k \in 1 .. TabLen : f[k] = step[<< f[k - 1], k >>]
  <2> HIDE DEF step
  <2>1. \E f : Follows(f, TabLen, ScreenSet, scr, step)
    BY <1>1, <1>2, Recursion
  <2> QED
    BY <2>1 DEF Follows
<1>4. \A k \in 1 .. TabLen : f[k] = TabStep(f[k - 1])
  <2>1. ASSUME NEW k \in 1 .. TabLen PROVE f[k] = TabStep(f[k - 1])
    <3>1. k - 1 \in 0 .. TabLen
      BY <1>1
    <3>2. << f[k - 1], k >> \in ScreenSet \X (1 .. TabLen)
      BY <1>3, <3>1
    <3> QED
      BY <1>3, <3>2
  <2> QED
    BY <2>1
<1>5. f = [k \in 0 .. TabLen |-> IF k = 0 THEN scr ELSE TabStep(f[k - 1])]
  <2>1. \A k \in 0 .. TabLen : k = 0 \/ k \in 1 .. TabLen
    BY <1>1
  <2>2. \A k \in 0 .. TabLen : f[k] = IF k = 0 THEN scr ELSE TabStep(f[k - 1])
    BY <1>3, <1>4, <2>1
  <2> QED
    BY <1>3, <2>2
<1> DEFINE chosen == CHOOSE g : g = [k \in 0 .. TabLen |->
                                       IF k = 0 THEN scr ELSE TabStep(g[k - 1])]
<1>6. handle_tab(scr) = chosen[TabLen]
  BY Zenon DEF handle_tab
<1>7. chosen = [k \in 0 .. TabLen |-> IF k = 0 THEN scr ELSE TabStep(chosen[k - 1])]
  BY <1>5, Zenon
<1> HIDE DEF chosen
<1>8. chosen[0] = scr /\ \A k \in 1 .. TabLen : chosen[k] = TabStep(chosen[k - 1])
  <2>1. 0 \in 0 .. TabLen /\ \A k \in 1 .. TabLen : k \in 0 .. TabLen /\ k # 0
    BY <1>1
  <2> QED
    BY <1>7, <2>1, Zenon
<1>9. \A k \in 0 .. TabLen : chosen[k] \in ScreenSet
  <2> DEFINE S == {k \in 0 .. TabLen : chosen[k] \in ScreenSet}
  <2>1. 0 \in S
    BY <1>1, <1>8
  <2>2. \A k \in 1 .. TabLen : k - 1 \in S => k \in S
    BY <1>1, <1>8, TabStepTyped
  <2> HIDE DEF S
  <2>3. \A k \in 0 .. TabLen : k \in S
    BY <1>1, <2>1, <2>2, Along
  <2> QED
    BY <2>3 DEF S
<1>10. chosen \in [0 .. TabLen -> ScreenSet]
  <2>1. \E h : chosen = [k \in 0 .. TabLen |-> h[k]]
    <3> DEFINE h == [k \in 0 .. TabLen |-> IF k = 0 THEN scr ELSE TabStep(chosen[k - 1])]
    <3>1. chosen = h
      BY <1>7, Zenon
    <3> HIDE DEF h
    <3>2. h = [k \in 0 .. TabLen |-> h[k]]
      BY Zenon DEF h
    <3> QED
      BY <3>1, <3>2
  <2> QED
    BY <1>9, <2>1
<1> QED
  BY <1>6, <1>8, <1>10


-----------------------------------------------------------------------------
(* The places that a line takes.                                           *)

Typed == Seq(Chars \cup {Tab})
TabsOf(s) == {k \in 1 .. Len(s) : s[k] = Tab}
Width(s) == Len(s) + (TabLen - 1) * Cardinality(TabsOf(s))
WidthOf(c) == IF c = Tab THEN TabLen ELSE 1

LEMMA TabsCounted ==
  ASSUME NEW s \in Typed
  PROVE  /\ Len(s) \in Nat /\ IsFiniteSet(TabsOf(s))
         /\ Cardinality(TabsOf(s)) \in 0 .. Len(s)
<1>1. Len(s) \in Nat
  BY DEF Typed
<1>2. IsFiniteSet(1 .. Len(s)) /\ Cardinality(1 .. Len(s)) = Len(s)
  <2> DEFINE n == Len(s)
  <2>1. n \in Nat
    BY <1>1
  <2> HIDE DEF n
  <2>2. 1 \in Int /\ n \in Int
    BY <2>1
  <2>3. /\ IsFiniteSet(1 .. n)
        /\ Cardinality(1 .. n) = IF 1 > n THEN 0 ELSE (n - 1) + 1
    BY <2>2, FS_Interval, Zenon
  <2>4. IsFiniteSet(1 .. n) /\ Cardinality(1 .. n) = n
    BY <2>1, <2>3
  <2> QED
    BY <2>4 DEF n
<1>3. TabsOf(s) \in SUBSET (1 .. Len(s))
  BY DEF TabsOf
<1>4. /\ IsFiniteSet(TabsOf(s))
      /\ Cardinality(TabsOf(s)) <= Cardinality(1 .. Len(s))
  BY <1>2, <1>3, FS_Subset, Zenon
<1>5. Cardinality(TabsOf(s)) \in Nat
  BY <1>4, FS_CardinalityType, Zenon
<1> QED
  BY <1>1, <1>2, <1>4, <1>5

\* A line takes at most a tab for each of its characters.
LEMMA WidthBound ==
  ASSUME NEW s \in Typed
  PROVE  Width(s) \in Nat /\ Width(s) <= Len(s) * TabLen /\ Len(s) * TabLen \in Nat
<1> DEFINE n == Len(s)
           m == Cardinality(TabsOf(s))
<1>1. n \in Nat /\ m \in Nat /\ m <= n /\ TabLen \in Nat /\ TabLen >= 1
  <2>1. TabLen \in Nat \ {0}
    BY Sizes, Zenon
  <2> QED
    BY <2>1, TabsCounted
<1>2. /\ m * (TabLen - 1) \in Nat /\ n * (TabLen - 1) \in Nat
      /\ m * (TabLen - 1) <= n * (TabLen - 1)
  <2>1. TabLen - 1 \in Nat
    BY <1>1
  <2> QED
    BY <1>1, <2>1, MoreRows
<1> HIDE DEF n, m
<1>3. n * TabLen = n + n * (TabLen - 1) /\ (TabLen - 1) * m = m * (TabLen - 1)
  <2>1. \A i \in Nat, j \in Nat, k \in Nat : k * (j + 1) = k + k * j /\ j * i = i * j
    BY Z3
  <2>2. TabLen - 1 \in Nat /\ (TabLen - 1) + 1 = TabLen
    BY <1>1
  <2>3. /\ n * ((TabLen - 1) + 1) = n + n * (TabLen - 1)
        /\ (TabLen - 1) * m = m * (TabLen - 1)
    BY <1>1, <2>1, <2>2
  <2> QED
    BY <2>2, <2>3, Zenon
<1>4. Width(s) = n + m * (TabLen - 1)
  BY <1>3 DEF Width, n, m
<1>5. Width(s) \in Nat /\ Width(s) <= n * TabLen /\ n * TabLen \in Nat
  BY <1>1, <1>2, <1>3, <1>4
<1> QED
  BY <1>5 DEF n

\* A character more is its width more.
LEMMA WidthAppend ==
  ASSUME NEW s \in Typed, NEW c \in Chars \cup {Tab}
  PROVE  /\ Append(s, c) \in Typed /\ Len(Append(s, c)) = Len(s) + 1
         /\ Width(Append(s, c)) = Width(s) + WidthOf(c)
<1> DEFINE t == Append(s, c)
           n == Len(s)
           m == Cardinality(TabsOf(s))
<1>1. /\ t \in Seq(Chars \cup {Tab}) /\ Len(t) = Len(s) + 1 /\ t[Len(s) + 1] = c
      /\ \A i \in 1 .. Len(s) : t[i] = s[i]
  <2>1. s \in Seq(Chars \cup {Tab})
    BY DEF Typed
  <2> QED
    BY <2>1, AppendProperties
<1>2. n \in Nat /\ m \in Nat /\ IsFiniteSet(TabsOf(s)) /\ TabLen \in Int
  <2>1. TabLen \in Nat \ {0}
    BY Sizes, Zenon
  <2> QED
    BY <2>1, TabsCounted
<1> HIDE DEF t
<1>3. CASE c = Tab
  <2>1. TabsOf(t) = TabsOf(s) \cup {n + 1}
    BY <1>1, <1>2, <1>3 DEF TabsOf
  <2>2. n + 1 \notin TabsOf(s)
    BY <1>2 DEF TabsOf
  <2>3. Cardinality(TabsOf(s) \cup {n + 1}) = m + 1
    BY <1>2, <2>2, FS_AddElement
  <2>4. Cardinality(TabsOf(t)) = m + 1
    BY <2>1, <2>3, Zenon
  <2> HIDE DEF n, m
  <2>5. (TabLen - 1) * (m + 1) = (TabLen - 1) * m + (TabLen - 1)
        /\ (TabLen - 1) * m \in Int
    BY <1>2, Z3
  <2>6. Width(t) = (n + 1) + (TabLen - 1) * (m + 1) /\ Width(s) = n + (TabLen - 1) * m
    BY <1>1, <2>4 DEF Width, n, m
  <2>7. Width(t) = Width(s) + TabLen
    BY <1>2, <2>5, <2>6
  <2> QED
    BY <1>1, <1>3, <2>7 DEF Typed, WidthOf, t, n
<1>4. CASE c # Tab
  <2>1. TabsOf(t) = TabsOf(s)
    BY <1>1, <1>2, <1>4 DEF TabsOf
  <2> HIDE DEF n, m
  <2>2. (TabLen - 1) * m \in Int
    BY <1>2, Z3
  <2>3. Width(t) = (n + 1) + (TabLen - 1) * m /\ Width(s) = n + (TabLen - 1) * m
    BY <1>1, <2>1 DEF Width, n, m
  <2>4. Width(t) = Width(s) + 1
    BY <1>2, <2>2, <2>3
  <2> QED
    BY <1>1, <1>4, <2>4 DEF Typed, WidthOf, t, n
<1> QED
  BY <1>3, <1>4

\* Backspace takes the width of the last character off.
LEMMA WidthFront ==
  ASSUME NEW s \in Typed, s # << >>
  PROVE  /\ Front(s) \in Typed /\ Last(s) \in Chars \cup {Tab}
         /\ Len(s) = Len(Front(s)) + 1
         /\ Width(s) = Width(Front(s)) + WidthOf(Last(s))
<1>1. s \in Seq(Chars \cup {Tab})
  BY DEF Typed
<1>2. PICK f \in Seq(Chars \cup {Tab}), e \in Chars \cup {Tab} : s = Append(f, e)
  BY <1>1, SequenceEmptyOrAppend
<1>3. /\ Len(s) = Len(f) + 1 /\ s[Len(f) + 1] = e /\ \A i \in 1 .. Len(f) : s[i] = f[i]
      /\ Len(f) \in Nat
  BY <1>2, AppendProperties
<1>4. Last(s) = e
  BY <1>3 DEF Last
<1>5. Front(s) = f
  <2> DEFINE n == Len(f)
             g == SubSeq(s, 1, n)
  <2>1. \A i \in 1 .. n : s[i] \in Chars \cup {Tab}
    BY <1>2, <1>3
  <2>2. n \in Int /\ 1 \in Int
    BY <1>3
  <2>3. /\ g \in Seq(Chars \cup {Tab}) /\ Len(g) = IF 1 <= n THEN (n - 1) + 1 ELSE 0
        /\ \A i \in 1 .. (n - 1) + 1 : g[i] = s[(1 + i) - 1]
    BY <2>1, <2>2, SubSeqProperties
  <2> HIDE DEF g
  <2>4. Len(g) = n /\ \A i \in 1 .. n : g[i] = s[i]
    BY <1>3, <2>3
  <2>5. \A i \in 1 .. Len(g) : g[i] = f[i]
    BY <1>3, <2>4
  <2>6. g = f
    BY <1>2, <2>3, <2>4, <2>5, SeqEqual
  <2>7. Len(s) - 1 = n
    BY <1>3
  <2> QED
    BY <2>6, <2>7, Zenon DEF Front, g
<1>6. f \in Typed
  BY <1>2 DEF Typed
<1>7. Width(Append(f, e)) = Width(f) + WidthOf(e)
  BY <1>2, <1>6, WidthAppend
<1> QED
  BY <1>2, <1>3, <1>4, <1>5, <1>6, <1>7, Zenon

LEMMA WidthEmpty == << >> \in Typed /\ Len(<< >>) = 0 /\ Width(<< >>) = 0
<1>1. << >> \in Typed /\ Len(<< >>) = 0
  BY DEF Typed
<1>2. Width(<< >>) \in Nat /\ Width(<< >>) <= 0 * TabLen
  BY <1>1, WidthBound
<1>3. TabLen \in Nat \ {0}
  BY Sizes, Zenon
<1> QED
  BY <1>1, <1>2, <1>3


-----------------------------------------------------------------------------
(* What the handlers write is a screen.                                    *)

\* putc of a character, or of a tab at a column where it does not scroll.
LEMMA PutcScreen ==
  ASSUME NEW scr \in ScreenSet, NEW c \in Chars \cup {Newline, Tab},
         c = Tab => (scr.location % (2 * NUM_COLS)) \div 2 < NUM_ROWS - TabLen
  PROVE  /\ putc(scr, c) \in ScreenSet
         /\ Ahead(scr.location, 0, putc(scr, c).location)
         /\ c \in Chars => Ahead(scr.location, 1, putc(scr, c).location)
<1>1. PICK y \in Ys, x \in Xs : scr = Page(scr.cells, y, x)
  BY PageOf
<1> DEFINE cells == scr.cells
<1>2. cells \in CellSets /\ scr.location = Loc(y, x)
  <2>1. cells \in CellSets
    BY DEF ScreenSet
  <2>2. Page(cells, y, x).location = Loc(y, x)
    BY DEF Page
  <2> QED
    BY <1>1, <2>1, <2>2, Zenon
<1> HIDE DEF cells
<1>3. scr = Page(cells, y, x)
  BY <1>1 DEF cells
<1>4. CASE c \in Chars
  <2>1. putc(scr, c) = After(Marked(cells, y, x, c), y, x)
    BY <1>2, <1>3, <1>4, PutcChar, Zenon
  <2>2. c \in Chars \cup {Blank}
    BY <1>4
  <2>3. Marked(cells, y, x, c) \in CellSets
    BY <1>2, <2>2, CellTypes, Zenon
  <2>4. putc(scr, c) \in ScreenSet /\ Ahead(scr.location, 1, putc(scr, c).location)
    BY <1>2, <2>1, <2>3, AfterTyped, AfterAhead, Zenon
  <2>5. scr.location \in Int
    <3>1. Spot(y, x) \in Nat
      BY SpotPlace
    <3> QED
      BY <1>2, <3>1 DEF Loc
  <2>6. Ahead(scr.location, 0, putc(scr, c).location)
    BY <2>4, <2>5 DEF Ahead
  <2> QED
    BY <2>4, <2>6
<1>5. CASE c = Newline
  <2>1. putc(scr, c) = NextLine(cells, y)
    BY <1>2, <1>3, <1>5, PutcNewline, Zenon
  <2>2. c \notin Chars
    BY <1>5, ConstantsAssumption
  <2> QED
    BY <1>2, <2>1, <2>2, AfterTyped, AfterAhead, Zenon
<1>6. CASE c = Tab
  <2>1. x < NUM_ROWS - TabLen
    <3>1. (Loc(y, x) % (2 * NUM_COLS)) \div 2 = x
      BY SpotFound
    <3> QED
      BY <1>2, <1>6, <3>1, Zenon
  <2>2. putc(scr, c) = Page(cells, y, x + TabLen) /\ x + TabLen \in Xs
    BY <1>3, <1>6, <2>1, PutcTab, Zenon
  <2>3. c \notin Chars
    BY <1>6, ConstantsAssumption
  <2>4. Page(cells, y, x + TabLen).location = Loc(y, x + TabLen)
    BY DEF Page
  <2>5. Loc(y, x + TabLen) \in Int /\ Loc(y, x + TabLen) >= Loc(y, x) + 2 * 0
    <3>1. /\ Spot(y, x) \in Nat /\ Spot(y, x + TabLen) \in Nat
      BY <2>2, SpotPlace
    <3>2. TabLen \in Nat \ {0} /\ NUM_COLS \in Nat \ {0}
      BY Sizes, Zenon
    <3>3. x \in Int /\ y \in Int
      BY Corners
    <3>4. y * NUM_COLS \in Int
      BY <3>2, <3>3, Z3
    <3> QED
      BY <3>1, <3>2, <3>3, <3>4 DEF Loc, Spot
  <2>6. Ahead(Loc(y, x), 0, Loc(y, x + TabLen))
    BY <2>5 DEF Ahead
  <2>7. putc(scr, c) \in ScreenSet
    <3>1. Page(cells, y, x + TabLen) \in ScreenSet
      BY <1>2, <2>2, PageOf, Zenon
    <3> QED
      BY <2>2, <3>1, Zenon
  <2> QED
    BY <1>2, <2>2, <2>3, <2>4, <2>6, <2>7, Zenon
<1> QED
  BY <1>4, <1>5, <1>6

\* Forward and forward again.
LEMMA AheadAgain ==
  ASSUME NEW l \in Int, NEW n \in Int, NEW m, NEW i \in Int, NEW p,
         Ahead(l, n, m), Ahead(m, i, p), i >= 0
  PROVE  Ahead(l, n + i, p)
<1>1. 2 * (NUM_ROWS - 1) * NUM_COLS \in Int
  <2>1. NUM_ROWS \in Int /\ NUM_COLS \in Int
    BY Sizes
  <2> QED
    BY <2>1, Z3
<1> QED
  BY <1>1 DEF Ahead

\* Every screen that a text whose tabs fit goes through.
LEMMA DrawnScreens ==
  ASSUME NEW scr \in ScreenSet, NEW text \in Seq(Chars \cup {Newline, Tab}),
         TabsFit(scr, text)
  PROVE  \A k \in 0 .. Len(text) :
           /\ Drawn(scr, text)[k] \in ScreenSet
           /\ Ahead(scr.location, 0, Drawn(scr, text)[k].location)
<1> DEFINE n == Len(text)
           f == Drawn(scr, text)
           S == {k \in 0 .. n : f[k] \in ScreenSet /\ Ahead(scr.location, 0, f[k].location)}
<1>1. n \in Nat /\ \A k \in 1 .. n : text[k] \in Chars \cup {Newline, Tab}
  OBVIOUS
<1>2. f[0] = scr /\ \A k \in 1 .. n : f[k] = putc(f[k - 1], text[k])
  BY DrawnIs, Zenon
<1>3. \A k \in 1 .. n : text[k] = Tab =>
        (f[k - 1].location % (2 * NUM_COLS)) \div 2 < NUM_ROWS - TabLen
  BY Zenon DEF TabsFit
<1>4. scr.location \in Int
  <2>1. scr.location \in Locations
    BY DEF ScreenSet
  <2> QED
    BY <2>1 DEF Locations, Cells
<1> HIDE DEF n, f
<1>5. 0 \in S
  <2>1. Ahead(scr.location, 0, scr.location)
    BY <1>4 DEF Ahead
  <2> QED
    BY <1>1, <1>2, <2>1
<1>6. ASSUME NEW k \in 1 .. n, k - 1 \in S PROVE k \in S
  <2>1. f[k - 1] \in ScreenSet /\ Ahead(scr.location, 0, f[k - 1].location)
    BY <1>6
  <2>2. /\ putc(f[k - 1], text[k]) \in ScreenSet
        /\ Ahead(f[k - 1].location, 0, putc(f[k - 1], text[k]).location)
    BY <1>1, <1>3, <2>1, PutcScreen, Zenon
  <2>3. Ahead(scr.location, 0 + 0, putc(f[k - 1], text[k]).location)
    BY <1>4, <2>1, <2>2, AheadAgain
  <2>4. 0 + 0 = 0 /\ k \in 0 .. n
    BY <1>1
  <2> QED
    BY <1>2, <2>2, <2>3, <2>4
<1> HIDE DEF S
<1>7. \A k \in 0 .. n : k \in S
  BY <1>1, <1>5, <1>6, Along
<1> QED
  BY <1>7 DEF S, n, f

\* The blanks of handle_tab.
LEMMA TabScreen ==
  ASSUME NEW scr \in ScreenSet
  PROVE  handle_tab(scr) \in ScreenSet
         /\ Ahead(scr.location, TabLen, handle_tab(scr).location)
<1>1. PICK f \in [0 .. TabLen -> ScreenSet] :
        /\ f[0] = scr /\ \A k \in 1 .. TabLen : f[k] = TabStep(f[k - 1])
        /\ handle_tab(scr) = f[TabLen]
  BY TabAlong
<1>2. TabLen \in Nat /\ TabLen \in 0 .. TabLen
  BY Sizes
<1>3. scr.location \in Int
  <2>1. scr.location \in Locations
    BY DEF ScreenSet
  <2> QED
    BY <2>1 DEF Locations, Cells
<1> DEFINE S == {k \in 0 .. TabLen : Ahead(scr.location, k, f[k].location)}
<1>4. 0 \in S
  <2>1. Ahead(scr.location, 0, scr.location)
    BY <1>3 DEF Ahead
  <2> QED
    BY <1>1, <1>2, <2>1
<1>5. ASSUME NEW k \in 1 .. TabLen, k - 1 \in S PROVE k \in S
  <2>1. /\ k - 1 \in 0 .. TabLen /\ Ahead(scr.location, k - 1, f[k - 1].location)
        /\ k \in 0 .. TabLen /\ k - 1 \in Int /\ (k - 1) + 1 = k
    BY <1>5
  <2>2. Ahead(f[k - 1].location, 1, f[k].location)
    BY <1>1, <2>1, TabStepTyped
  <2>3. Ahead(scr.location, (k - 1) + 1, f[k].location)
    BY <1>3, <2>1, <2>2, AheadAgain
  <2> QED
    BY <2>1, <2>3, Zenon
<1> HIDE DEF S
<1>6. TabLen \in S
  BY <1>2, <1>4, <1>5, Along
<1> QED
  BY <1>1, <1>2, <1>6 DEF S

\* Where a line that takes n places more still has room.
LEMMA Room ==
  ASSUME NEW s \in Typed, NEW t \in Typed, Len(t) <= Size, NEW n \in Nat,
         Width(t) <= Width(s) + n, NEW l \in Int, 2 * Width(s) <= l,
         NEW m, Ahead(l, n, m)
  PROVE  2 * Width(t) <= m
<1>1. /\ NUM_ROWS \in Nat /\ NUM_COLS \in Nat /\ TabLen \in Nat /\ Size \in Nat
      /\ Size * TabLen <= (NUM_ROWS - 1) * NUM_COLS /\ NUM_ROWS >= 2
  BY Sizes
<1>2. /\ Width(s) \in Nat /\ Width(t) \in Nat
      /\ Width(t) <= Len(t) * TabLen /\ Len(t) * TabLen \in Nat /\ Len(t) \in Nat
  BY WidthBound, TabsCounted
<1>3. Len(t) * TabLen <= Size * TabLen /\ Size * TabLen \in Nat
  BY <1>1, <1>2, MoreRows
<1>4. /\ 2 * (NUM_ROWS - 1) * NUM_COLS = 2 * ((NUM_ROWS - 1) * NUM_COLS)
      /\ (NUM_ROWS - 1) * NUM_COLS \in Int
  BY <1>1, Z3
<1> DEFINE w == Width(t)
           a == Len(t) * TabLen
           b == Size * TabLen
           d == (NUM_ROWS - 1) * NUM_COLS
           e == 2 * (NUM_ROWS - 1) * NUM_COLS
<1>5. /\ w \in Nat /\ a \in Nat /\ b \in Nat /\ d \in Int /\ w <= a /\ a <= b /\ b <= d
      /\ e = 2 * d
  BY <1>1, <1>2, <1>3, <1>4
<1>6. m \in Int /\ (m >= e \/ m >= l + 2 * n)
  BY DEF Ahead
<1>7. w <= Width(s) + n
  OBVIOUS
<1> HIDE DEF w, a, b, d, e
<1>8. 2 * w <= m
  BY <1>2, <1>5, <1>6, <1>7
<1> QED
  BY <1>8 DEF w


-----------------------------------------------------------------------------
(* The part of a line that Backspace may go back over.                     *)

Lines == Seq(Chars \cup {Newline, Tab})

\* What a line holds after its last Enter.
EndsIn(s, rest) ==
  /\ Len(rest) <= Len(s)
  /\ \A k \in 1 .. Len(rest) : rest[k] = s[(Len(s) - Len(rest)) + k]
  /\ Len(rest) < Len(s) => s[Len(s) - Len(rest)] = Newline

\* It has its room before the location l.
Fits(s, l) == /\ Len(s) <= Size
              /\ \E rest \in Typed : EndsIn(s, rest) /\ 2 * Width(rest) <= l

LEMMA FitsEmpty ==
  ASSUME NEW l \in Nat
  PROVE  << >> \in Lines /\ Fits(<< >>, l)
<1>1. << >> \in Typed /\ Len(<< >>) = 0 /\ 2 * Width(<< >>) = 0
  BY WidthEmpty
<1>2. EndsIn(<< >>, << >>)
  BY <1>1 DEF EndsIn
<1>3. 0 <= Size /\ 0 <= l
  BY Sizes
<1> QED
  BY <1>1, <1>2, <1>3 DEF Fits, Lines

\* A character, or a tab, is typed.
LEMMA FitsAppend ==
  ASSUME NEW s \in Lines, NEW l \in Int, Fits(s, l), Len(s) < Size,
         NEW c \in Chars \cup {Tab}, NEW m, Ahead(l, WidthOf(c), m)
  PROVE  Append(s, c) \in Lines /\ Fits(Append(s, c), m)
<1>1. PICK rest \in Typed : EndsIn(s, rest) /\ 2 * Width(rest) <= l
  BY DEF Fits
<1> DEFINE t == Append(s, c)
           after == Append(rest, c)
<1>2. /\ s \in Seq(Chars \cup {Newline, Tab}) /\ rest \in Seq(Chars \cup {Tab})
      /\ c \in Chars \cup {Newline, Tab}
  BY DEF Lines, Typed
<1>3. /\ t \in Seq(Chars \cup {Newline, Tab}) /\ Len(t) = Len(s) + 1 /\ t[Len(s) + 1] = c
      /\ \A i \in 1 .. Len(s) : t[i] = s[i]
      /\ Len(s) \in Nat /\ Len(rest) \in Nat
      /\ Len(after) = Len(rest) + 1 /\ after[Len(rest) + 1] = c
      /\ \A i \in 1 .. Len(rest) : after[i] = rest[i]
  BY <1>2, AppendProperties
<1>4. after \in Typed /\ Width(after) = Width(rest) + WidthOf(c)
  BY WidthAppend
<1>5. /\ Len(t) <= Size /\ Len(after) <= Size /\ Size \in Nat
  BY <1>1, <1>3, Sizes DEF EndsIn
<1> HIDE DEF t, after
<1>6. EndsIn(t, after)
  <2>1. /\ Len(rest) <= Len(s)
        /\ \A k \in 1 .. Len(rest) : rest[k] = s[(Len(s) - Len(rest)) + k]
        /\ Len(rest) < Len(s) => s[Len(s) - Len(rest)] = Newline
    BY <1>1 DEF EndsIn
  <2>2. Len(after) <= Len(t)
    BY <1>3, <2>1
  <2> DEFINE d == Len(s) - Len(rest)
  <2>5. /\ d \in Nat /\ Len(t) - Len(after) = d /\ Len(s) = d + Len(rest)
        /\ \A k \in 1 .. Len(rest) : rest[k] = s[d + k]
        /\ Len(rest) < Len(s) => s[d] = Newline
    BY <1>3, <2>1
  <2> HIDE DEF d
  <2>3. ASSUME NEW k \in 1 .. Len(after) PROVE after[k] = t[(Len(t) - Len(after)) + k]
    <3>1. after[k] = t[d + k]
      <4>1. CASE k = Len(rest) + 1
        <5>1. d + k = Len(s) + 1
          BY <1>3, <2>5, <4>1
        <5> QED
          BY <1>3, <4>1, <5>1, Zenon
      <4>2. CASE k # Len(rest) + 1
        <5>1. k \in 1 .. Len(rest) /\ d + k \in 1 .. Len(s)
          BY <1>3, <2>5, <4>2
        <5> QED
          BY <1>3, <2>5, <5>1, Zenon
      <4> QED
        BY <4>1, <4>2
    <3> QED
      BY <2>5, <3>1, Zenon
  <2>4. Len(after) < Len(t) => t[Len(t) - Len(after)] = Newline
    <3>1. ASSUME Len(after) < Len(t) PROVE Len(rest) < Len(s) /\ d \in 1 .. Len(s)
      BY <1>3, <2>5, <3>1
    <3> QED
      BY <1>3, <2>5, <3>1, Zenon
  <2> QED
    BY <2>2, <2>3, <2>4 DEF EndsIn
<1>7. 2 * Width(after) <= m
  <2>1. WidthOf(c) \in Nat
    BY Sizes DEF WidthOf
  <2>2. Width(rest) \in Nat
    BY WidthBound
  <2>3. Width(after) <= Width(rest) + WidthOf(c)
    BY <1>4, <2>1, <2>2
  <2> QED
    BY <1>1, <1>4, <1>5, <2>1, <2>3, Room
<1> QED
  BY <1>3, <1>4, <1>5, <1>6, <1>7 DEF Fits, Lines, t

\* An Enter is: nothing is behind it.
LEMMA FitsEnter ==
  ASSUME NEW s \in Lines, Len(s) < Size, NEW m \in Nat
  PROVE  Append(s, Newline) \in Lines /\ Fits(Append(s, Newline), m)
<1> DEFINE t == Append(s, Newline)
<1>1. s \in Seq(Chars \cup {Newline, Tab}) /\ Newline \in Chars \cup {Newline, Tab}
  BY DEF Lines
<1>2. /\ t \in Seq(Chars \cup {Newline, Tab}) /\ Len(t) = Len(s) + 1
      /\ t[Len(s) + 1] = Newline /\ Len(s) \in Nat
  BY <1>1, AppendProperties
<1> HIDE DEF t
<1>3. << >> \in Typed /\ Len(<< >>) = 0 /\ 2 * Width(<< >>) = 0
  BY WidthEmpty
<1>4. EndsIn(t, << >>)
  BY <1>2, <1>3 DEF EndsIn
<1>5. Len(t) <= Size
  BY <1>2, Sizes
<1> QED
  BY <1>2, <1>3, <1>4, <1>5 DEF Fits, Lines, t

\* A program writes behind it.
LEMMA FitsAhead ==
  ASSUME NEW s \in Lines, NEW l \in Int, Fits(s, l), NEW m, Ahead(l, 0, m)
  PROVE  Fits(s, m)
<1>1. PICK rest \in Typed : EndsIn(s, rest) /\ 2 * Width(rest) <= l
  BY DEF Fits
<1>2. Len(s) \in Nat
  BY DEF Lines
<1>3. Len(rest) <= Size /\ Len(s) <= Size
  BY <1>1, <1>2, TabsCounted, Sizes DEF Fits, EndsIn
<1>4. Width(rest) <= Width(rest) + 0
  BY WidthBound
<1>5. 2 * Width(rest) <= m
  BY <1>1, <1>3, <1>4, Room
<1> QED
  BY <1>1, <1>3, <1>5 DEF Fits

LEMMA FrontIs ==
  ASSUME NEW S, NEW s \in Seq(S), s # << >>
  PROVE  /\ Front(s) \in Seq(S) /\ Len(Front(s)) = Len(s) - 1
         /\ \A i \in 1 .. Len(s) - 1 : Front(s)[i] = s[i]
<1> DEFINE n == Len(s) - 1
           g == SubSeq(s, 1, n)
<1>1. Len(s) \in Nat /\ Len(s) > 0 /\ n \in Nat
  OBVIOUS
<1>2. \A i \in 1 .. n : s[i] \in S
  BY <1>1
<1>3. /\ g \in Seq(S) /\ Len(g) = IF 1 <= n THEN (n - 1) + 1 ELSE 0
      /\ \A i \in 1 .. (n - 1) + 1 : g[i] = s[(1 + i) - 1]
  BY <1>1, <1>2, SubSeqProperties
<1> HIDE DEF g, n
<1>4. Len(g) = n /\ \A i \in 1 .. n : g[i] = s[i]
  BY <1>1, <1>3
<1>5. Front(s) = g
  BY DEF Front, g, n
<1> QED
  BY <1>3, <1>4, <1>5, Zenon DEF n

\* Backspace takes the last character, if it is no Enter.
LEMMA FitsFront ==
  ASSUME NEW s \in Lines, NEW l \in Nat, Fits(s, l), s # << >>, Last(s) # Newline
  PROVE  LET w == WidthOf(Last(s))
         IN /\ Front(s) \in Lines /\ w \in Nat /\ 2 * w <= l
            /\ Fits(Front(s), l - 2 * w)
<1>1. PICK rest \in Typed : EndsIn(s, rest) /\ 2 * Width(rest) <= l
  BY DEF Fits
<1>2. /\ Len(s) \in Nat /\ Len(s) > 0 /\ Last(s) = s[Len(s)] /\ Len(rest) \in Nat
  BY DEF Lines, Last, Typed
<1>3. rest # << >> /\ Len(rest) > 0
  <2>1. Len(rest) = 0 => s[Len(s)] = Newline
    BY <1>1, <1>2 DEF EndsIn
  <2>2. Len(rest) # 0
    BY <1>2, <2>1
  <2> QED
    BY <1>2, <2>2, WidthEmpty
<1>4. /\ Front(rest) \in Typed /\ Last(rest) \in Chars \cup {Tab}
      /\ Len(rest) = Len(Front(rest)) + 1
      /\ Width(rest) = Width(Front(rest)) + WidthOf(Last(rest))
  BY <1>3, WidthFront
<1>5. Last(rest) = Last(s)
  BY <1>1, <1>2, <1>3 DEF Last, EndsIn
<1>6. /\ Front(s) \in Lines /\ Len(Front(s)) = Len(s) - 1
      /\ \A i \in 1 .. Len(s) - 1 : Front(s)[i] = s[i]
      /\ \A i \in 1 .. Len(rest) - 1 : Front(rest)[i] = rest[i]
  BY <1>3, FrontIs DEF Lines, Typed
<1>7. WidthOf(Last(s)) \in Nat /\ Width(Front(rest)) \in Nat
  BY <1>4, WidthBound, Sizes DEF WidthOf
<1> DEFINE w == WidthOf(Last(s))
           v == Width(Front(rest))
<1>8. 2 * w <= l /\ 2 * v <= l - 2 * w
  <2>1. w \in Nat /\ v \in Nat /\ 2 * (v + w) <= l
    BY <1>1, <1>4, <1>5, <1>7
  <2> HIDE DEF w, v
  <2> QED
    BY <2>1
<1>9. EndsIn(Front(s), Front(rest))
  <2> DEFINE g == Front(s)
             h == Front(rest)
  <2>1. /\ Len(rest) <= Len(s)
        /\ \A k \in 1 .. Len(rest) : rest[k] = s[(Len(s) - Len(rest)) + k]
        /\ Len(rest) < Len(s) => s[Len(s) - Len(rest)] = Newline
    BY <1>1 DEF EndsIn
  <2>2. /\ Len(g) = Len(s) - 1 /\ Len(h) = Len(rest) - 1
        /\ \A i \in 1 .. Len(s) - 1 : g[i] = s[i]
        /\ \A i \in 1 .. Len(rest) - 1 : h[i] = rest[i]
    BY <1>2, <1>4, <1>6
  <2> HIDE DEF g, h
  <2>3. Len(h) <= Len(g)
    BY <1>2, <2>1, <2>2
  <2> DEFINE d == Len(s) - Len(rest)
  <2>7. /\ d \in Nat /\ Len(g) - Len(h) = d /\ Len(s) = d + Len(rest)
        /\ \A k \in 1 .. Len(rest) : rest[k] = s[d + k]
        /\ Len(rest) < Len(s) => s[d] = Newline
    BY <1>2, <2>1, <2>2
  <2> HIDE DEF d
  <2>4. ASSUME NEW k \in 1 .. Len(h) PROVE h[k] = g[(Len(g) - Len(h)) + k]
    <3>1. /\ k \in 1 .. Len(rest) - 1 /\ k \in 1 .. Len(rest)
          /\ d + k \in 1 .. Len(s) - 1
      BY <1>2, <2>2, <2>7
    <3>2. h[k] = rest[k] /\ rest[k] = s[d + k] /\ g[d + k] = s[d + k]
      BY <2>2, <2>7, <3>1, Zenon
    <3> QED
      BY <2>7, <3>2, Zenon
  <2>5. Len(h) < Len(g) => g[Len(g) - Len(h)] = Newline
    <3>1. ASSUME Len(h) < Len(g) PROVE Len(rest) < Len(s) /\ d \in 1 .. Len(s) - 1
      BY <1>2, <1>3, <2>2, <2>7, <3>1
    <3> QED
      BY <2>2, <2>7, <3>1, Zenon
  <2>6. EndsIn(g, h)
    BY <2>3, <2>4, <2>5 DEF EndsIn
  <2> QED
    BY <2>6 DEF g, h
<1>10. Len(Front(s)) <= Size
  BY <1>2, <1>6, Sizes DEF Fits
<1> QED
  BY <1>4, <1>6, <1>7, <1>8, <1>9, <1>10 DEF Fits


-----------------------------------------------------------------------------
(* The types, and the room that Backspace goes back over.                  *)

\* The location in the screen of terminal t.
LocationOf(t) == IF t = curr_term THEN current_location ELSE cursor_location[t]

\* Before the location of each terminal there is room for the characters that
\* Backspace may erase, those after the last Enter: they end at the location
\* and, as a line is shorter than the screen above the last row, a scroll
\* leaves them room too.
LineFits == \A t \in Terms : Fits(line[t], LocationOf(t))

ScreenInv == TypeOK /\ curr_term \in open /\ LineFits

\* The pages of the screens are different pages.
LEMMA ScreenPages ==
  /\ VIDEO \in VideoPages
  /\ \A t \in Terms : vid_backup(t) \in VideoPages /\ vid_backup(t) # VIDEO
  /\ \A t \in Terms, u \in Terms : vid_backup(t) = vid_backup(u) => t = u
BY PagingAssumption DEF VideoPages, VIDEO, vid_backup, Terms

LEMMA LocationInt ==
  /\ Locations \subseteq Nat
  /\ \A scr \in ScreenSet : scr.location \in Nat
<1>1. \A cell \in Cells : cell \in Nat
  BY DEF Cells
<1>2. \A l \in Locations : l \in Nat
  BY <1>1 DEF Locations
<1> QED
  BY <1>2 DEF ScreenSet

\* What is kept of each terminal is a screen.
LEMMA KeptScreens ==
  ASSUME TypeOK
  PROVE  /\ Displayed \in ScreenSet /\ Displayed.location = current_location
         /\ \A t \in Terms : Backup(t) \in ScreenSet
                             /\ Backup(t).location = cursor_location[t]
         /\ curr_term \in Terms /\ running_term \in Terms /\ open \subseteq Terms
         /\ \A t \in Terms : LocationOf(t) \in Nat /\ line[t] \in Lines
<1>1. /\ memory \in [VideoPages -> CellSets]
      /\ current_location \in Locations /\ cursor_location \in [Terms -> Locations]
      /\ curr_term \in Terms /\ running_term \in open /\ open \in SUBSET Terms
      /\ line \in [Terms -> Lines]
  BY DEF TypeOK, CellSets, Lines
<1>2. Displayed \in ScreenSet /\ Displayed.location = current_location
  BY <1>1, ScreenPages DEF Displayed, ScreenSet
<1>3. \A t \in Terms : /\ Backup(t) \in ScreenSet
                       /\ Backup(t).location = cursor_location[t]
  BY <1>1, ScreenPages DEF Backup, ScreenSet
<1>4. \A t \in Terms : LocationOf(t) \in Nat
  BY <1>1, LocationInt DEF LocationOf
<1> QED
  BY <1>1, <1>2, <1>3, <1>4

\* Something is written on the display.
LEMMA OnDisplay ==
  ASSUME TypeOK, NEW scr \in ScreenSet, SetDisplayed(scr)
  PROVE  /\ memory' \in [VideoPages -> [Cells -> Chars \cup {Blank}]]
         /\ current_location' \in Locations /\ current_location' = scr.location
<1>1. memory \in [VideoPages -> CellSets] /\ scr.cells \in CellSets
  BY DEF TypeOK, CellSets, ScreenSet
<1>2. /\ memory' = [memory EXCEPT ![VIDEO] = scr.cells]
      /\ current_location' = scr.location
  BY DEF SetDisplayed
<1>3. memory' \in [VideoPages -> CellSets]
  BY <1>1, <1>2, ScreenPages
<1> QED
  BY <1>2, <1>3 DEF ScreenSet, CellSets

\* A key whose line still has room before the new location.
LEMMA KeyKeeps ==
  ASSUME ScreenInv, NEW scr \in ScreenSet, NEW new \in Lines,
         SetDisplayed(scr), SetLine(new), Key, Fits(new, scr.location)
  PROVE  ScreenInv'
<1>1. TypeOK /\ curr_term \in open /\ LineFits
  BY DEF ScreenInv
<1>2. /\ memory' \in [VideoPages -> [Cells -> Chars \cup {Blank}]]
      /\ current_location' \in Locations /\ current_location' = scr.location
  BY <1>1, OnDisplay
<1>3. /\ UNCHANGED << cursor_location, curr_term, running_term, open, maps, drawer >>
      /\ outputs < MaxOutputs /\ outputs' = outputs + 1
  BY DEF Key, Output
<1>4. /\ line \in [Terms -> Lines] /\ line' = [line EXCEPT ![curr_term] = new]
      /\ curr_term \in Terms
  BY <1>1 DEF SetLine, TypeOK, Lines
<1>5. line' \in [Terms -> Lines]
  BY <1>4
<1>6. outputs' \in 0 .. MaxOutputs
  BY <1>1, <1>3, ConstantsAssumption DEF TypeOK
<1>7. TypeOK'
  BY <1>1, <1>2, <1>3, <1>5, <1>6 DEF TypeOK, Lines
<1>8. LineFits'
  <2>1. ASSUME NEW t \in Terms
        PROVE  Fits(line'[t], LocationOf(t)')
    <3>1. CASE t = curr_term
      BY <1>2, <1>3, <1>4, <3>1 DEF LocationOf
    <3>2. CASE t # curr_term
      <4>1. line'[t] = line[t] /\ LocationOf(t)' = LocationOf(t)
        BY <1>3, <1>4, <3>2 DEF LocationOf
      <4>2. Fits(line[t], LocationOf(t))
        BY <1>1 DEF LineFits
      <4> QED
        BY <4>1, <4>2, Zenon
    <3> QED
      BY <3>1, <3>2
  <2> QED
    BY <2>1, Zenon DEF LineFits, Fits, EndsIn, Typed, Width, TabsOf, LocationOf
<1> QED
  BY <1>1, <1>3, <1>7, <1>8 DEF ScreenInv

\* What the keys write.
LEMMA LetterWrites ==
  ASSUME ScreenInv, "overfull" \notin Hazards, NEW c \in Chars, KeyLetter(c)
  PROVE  /\ putc(Displayed, c) \in ScreenSet /\ SetDisplayed(putc(Displayed, c))
         /\ ScreenInv'
<1> DEFINE old == line[curr_term]
           new == Append(old, c)
           scr == putc(Displayed, c)
<1>1. /\ TypeOK /\ LineFits /\ Len(old) < Size /\ SetLine(new)
      /\ SetDisplayed(scr) /\ Key
  BY DEF ScreenInv, KeyLetter
<1>2. /\ Displayed \in ScreenSet /\ Displayed.location = current_location
      /\ curr_term \in Terms /\ old \in Lines /\ current_location \in Int
      /\ Fits(old, current_location)
  BY <1>1, KeptScreens, LocationInt DEF LineFits, LocationOf
<1>3. c # Tab /\ c \in Chars \cup {Newline, Tab} /\ c \in Chars \cup {Tab}
  BY ConstantsAssumption
<1>4. scr \in ScreenSet /\ Ahead(current_location, 1, scr.location)
  BY <1>2, <1>3, PutcScreen
<1>5. WidthOf(c) = 1
  BY <1>3 DEF WidthOf
<1>6. new \in Lines /\ Fits(new, scr.location)
  <2> HIDE DEF old, scr
  <2> QED
    BY <1>1, <1>2, <1>3, <1>4, <1>5, FitsAppend
<1> HIDE DEF new, old, scr
<1>7. ScreenInv'
  BY <1>1, <1>4, <1>6, KeyKeeps
<1> QED
  BY <1>1, <1>4, <1>7 DEF scr

LEMMA TabWrites ==
  ASSUME ScreenInv, KeyTab
  PROVE  ScreenInv'
<1> DEFINE old == line[curr_term]
           new == Append(old, Tab)
           scr == handle_tab(Displayed)
<1>1. /\ TypeOK /\ LineFits /\ Len(old) < Size /\ SetLine(new)
      /\ SetDisplayed(scr) /\ Key
  BY DEF ScreenInv, KeyTab
<1>2. /\ Displayed \in ScreenSet /\ Displayed.location = current_location
      /\ curr_term \in Terms /\ old \in Lines /\ current_location \in Int
      /\ Fits(old, current_location)
  BY <1>1, KeptScreens, LocationInt DEF LineFits, LocationOf
<1>3. scr \in ScreenSet /\ Ahead(current_location, TabLen, scr.location)
  BY <1>2, TabScreen
<1>4. WidthOf(Tab) = TabLen
  BY DEF WidthOf
<1>5. new \in Lines /\ Fits(new, scr.location)
  <2> HIDE DEF old, scr
  <2> QED
    BY <1>1, <1>2, <1>3, <1>4, FitsAppend
<1> HIDE DEF new, old, scr
<1> QED
  BY <1>1, <1>3, <1>5, KeyKeeps

LEMMA EnterWrites ==
  ASSUME ScreenInv, KeyEnter
  PROVE  handle_enter(Displayed) \in ScreenSet /\ ScreenInv'
<1>1. /\ Displayed \in ScreenSet /\ line[curr_term] \in Lines
  BY KeptScreens DEF ScreenInv
<1>2. handle_enter(Displayed) \in ScreenSet
  <2>1. PICK y \in Ys, x \in Xs : Displayed = Page(Displayed.cells, y, x)
    BY <1>1, PageOf
  <2>2. Displayed.cells \in CellSets
    BY <1>1 DEF ScreenSet
  <2> DEFINE cells == Displayed.cells
  <2> HIDE DEF cells
  <2>3. cells \in CellSets /\ Displayed = Page(cells, y, x)
    BY <2>1, <2>2 DEF cells
  <2>4. handle_enter(Displayed) = NextLine(cells, y)
    BY <2>3, EnterIs, Zenon
  <2> QED
    BY <2>3, <2>4, AfterTyped, Zenon
<1>3. /\ SetDisplayed(handle_enter(Displayed)) /\ Len(line[curr_term]) < Size
      /\ SetLine(Append(line[curr_term], Newline)) /\ Key
  BY DEF KeyEnter
<1>4. /\ Append(line[curr_term], Newline) \in Lines
      /\ Fits(Append(line[curr_term], Newline), handle_enter(Displayed).location)
  BY <1>1, <1>2, <1>3, FitsEnter, LocationInt
<1> QED
  BY <1>2, <1>3, <1>4, KeyKeeps

Erased == [cells |-> [cell \in Cells |-> Blank], location |-> 0]

LEMMA ErasedIs == Erased \in ScreenSet /\ Erased = Page(Erased.cells, 0, 0)
<1>1. Loc(0, 0) = 0
  <2>1. NUM_COLS \in Int
    BY Sizes
  <2> QED
    BY <2>1 DEF Loc, Spot
<1>2. [cell \in Cells |-> Blank] \in CellSets
  BY DEF CellSets
<1>3. Erased = Page(Erased.cells, 0, 0)
  BY <1>1 DEF Erased, Page
<1> QED
  BY <1>2, <1>3, PageOf, Corners DEF Erased

LEMMA ClearWrites ==
  ASSUME ScreenInv, CtrlL
  PROVE  SetDisplayed(Erased) /\ ScreenInv'
<1>1. SetDisplayed(Erased) /\ SetLine(<< >>) /\ Key
  BY DEF CtrlL, Erased
<1>2. << >> \in Lines /\ Fits(<< >>, Erased.location)
  BY FitsEmpty, ErasedIs, LocationInt
<1> QED
  BY <1>1, <1>2, ErasedIs, KeyKeeps

\* Backspace goes back over the last character and blanks it, or over the
\* blanks of a tab.
Back(n) == current_location - 2 * n
BackCells(c) == IF c = Tab THEN memory[VIDEO]
                ELSE [memory[VIDEO] EXCEPT ![Back(1) \div 2] = Blank]

LEMMA BackspaceWrites ==
  ASSUME ScreenInv, "enter" \notin Hazards, KeyBackspace
  PROVE  LET c   == Last(line[curr_term])
             scr == [cells |-> BackCells(c), location |-> Back(WidthOf(c))]
         IN /\ scr \in ScreenSet /\ SetDisplayed(scr)
            /\ ScreenInv'
<1> DEFINE old == line[curr_term]
           new == Front(old)
           c == Last(old)
           scr == [cells |-> BackCells(c), location |-> Back(WidthOf(c))]
<1>1. /\ TypeOK /\ LineFits /\ old # << >> /\ c # Newline /\ SetLine(new) /\ Key
  BY DEF ScreenInv, KeyBackspace
<1>2. /\ Displayed \in ScreenSet /\ current_location \in Locations
      /\ curr_term \in Terms /\ old \in Lines /\ current_location \in Nat
      /\ Fits(old, current_location)
  BY <1>1, KeptScreens, LocationInt DEF TypeOK, LineFits, LocationOf
<1>3. /\ new \in Lines /\ WidthOf(c) \in Nat /\ 2 * WidthOf(c) <= current_location
      /\ Fits(new, Back(WidthOf(c)))
  BY <1>1, <1>2, FitsFront DEF Back
<1>5. Back(WidthOf(c)) \in Locations
  <2> DEFINE w == WidthOf(c)
  <2>1. w \in Nat /\ 2 * w <= current_location
    BY <1>3
  <2> HIDE DEF w
  <2>3. PICK cell \in Cells : current_location = 2 * cell
    BY <1>2 DEF Locations
  <2>4. NUM_ROWS * NUM_COLS \in Int
    <3>1. NUM_ROWS \in Int /\ NUM_COLS \in Int
      BY Sizes
    <3> QED
      BY <3>1, Z3
  <2>5. cell - w \in Cells /\ current_location - 2 * w = 2 * (cell - w)
    BY <2>1, <2>3, <2>4 DEF Cells
  <2>6. current_location - 2 * w \in Locations
    BY <2>5 DEF Locations
  <2> QED
    BY <2>6 DEF w, Back
<1>6. BackCells(c) \in CellSets
  <2>1. memory[VIDEO] \in CellSets
    BY <1>1, ScreenPages DEF TypeOK, CellSets
  <2> QED
    BY <2>1 DEF BackCells, CellSets
<1>7. scr \in ScreenSet
  BY <1>5, <1>6 DEF ScreenSet
<1>8. SetDisplayed(scr)
  <2>1. memory \in [VideoPages -> CellSets] /\ VIDEO \in VideoPages
    BY <1>1, ScreenPages DEF TypeOK, CellSets
  <2>2. scr.cells = BackCells(c) /\ scr.location = Back(WidthOf(c))
    OBVIOUS
  <2> HIDE DEF scr
  <2>3. CASE c = Tab
    <3>1. current_location' = current_location - 2 * TabLen /\ memory' = memory
      BY <2>3, ConstantsAssumption DEF KeyBackspace
    <3>2. BackCells(c) = memory[VIDEO] /\ Back(WidthOf(c)) = current_location - 2 * TabLen
      BY <2>3 DEF BackCells, Back, WidthOf
    <3>3. memory = [memory EXCEPT ![VIDEO] = memory[VIDEO]]
      BY <2>1
    <3> QED
      BY <2>2, <3>1, <3>2, <3>3 DEF SetDisplayed
  <2>4. CASE c # Tab
    <3>1. /\ current_location' = current_location - 2
          /\ memory' = [memory EXCEPT ![VIDEO][current_location' \div 2] = Blank]
      BY <1>1, <2>4 DEF KeyBackspace
    <3>2. Back(1) = current_location - 2 /\ WidthOf(c) = 1
      BY <1>2, <2>4 DEF Back, WidthOf
    <3>3. BackCells(c) = [memory[VIDEO] EXCEPT ![(current_location - 2) \div 2] = Blank]
      BY <2>4, <3>2 DEF BackCells
    <3>4. memory' = [memory EXCEPT ![VIDEO] =
                       [memory[VIDEO] EXCEPT ![(current_location - 2) \div 2] = Blank]]
      BY <2>1, <3>1
    <3> QED
      BY <2>2, <3>1, <3>2, <3>3, <3>4 DEF SetDisplayed
  <2> QED
    BY <2>3, <2>4
<1>9. Fits(new, scr.location)
  BY <1>3
<1>10. ScreenInv'
  <2> HIDE DEF new, scr
  <2> QED
    BY <1>1, <1>3, <1>7, <1>8, <1>9, KeyKeeps
<1> QED
  BY <1>7, <1>8, <1>10


\* A handler that writes on no screen and leaves the lines, or ends one.
LEMMA QuietKeeps ==
  ASSUME ScreenInv, UNCHANGED << memory, current_location, cursor_location, curr_term >>,
         \/ line' = line
         \/ \E t \in Terms : line' = [line EXCEPT ![t] = << >>],
         running_term' \in open', open' \in SUBSET Terms, open \subseteq open',
         maps' \in PageMaps, drawer' \in SUBSET Terms, outputs' \in 0 .. MaxOutputs
  PROVE  ScreenInv'
<1>1. TypeOK /\ curr_term \in open /\ LineFits /\ line \in [Terms -> Lines]
  BY DEF ScreenInv, TypeOK, Lines
<1>2. line' \in [Terms -> Lines]
  <2>1. << >> \in Lines
    BY DEF Lines
  <2> QED
    BY <1>1, <2>1
<1>3. TypeOK'
  BY <1>1, <1>2 DEF TypeOK, Lines
<1>4. LineFits'
  <2>1. ASSUME NEW t \in Terms
        PROVE  Fits(line'[t], LocationOf(t)')
    <3>1. LocationOf(t)' = LocationOf(t) /\ LocationOf(t) \in Nat
      BY <1>1, KeptScreens DEF LocationOf
    <3>2. Fits(line[t], LocationOf(t))
      BY <1>1 DEF LineFits
    <3>3. line'[t] = line[t] \/ line'[t] = << >>
      BY <1>1
    <3>4. Fits(<< >>, LocationOf(t))
      BY <3>1, FitsEmpty
    <3> QED
      BY <3>1, <3>2, <3>3, <3>4, Zenon
  <2> QED
    BY <2>1, Zenon DEF LineFits, Fits, EndsIn, Typed, Width, TabsOf, LocationOf
<1> QED
  BY <1>1, <1>3, <1>4 DEF ScreenInv

\* terminal_write, of a text whose tabs fit, to the display or to a backup.
LEMMA WriteKeeps ==
  ASSUME ScreenInv, "tab" \notin Hazards, NEW text \in Texts, terminal_write(text)
  PROVE  LET scr == IF running_term = curr_term THEN Displayed ELSE Backup(running_term)
             written == Drawn(scr, text)[Len(text)]
         IN /\ scr \in ScreenSet /\ TabsFit(scr, text) /\ written \in ScreenSet
            /\ ScreenInv'
<1> DEFINE scr == IF running_term = curr_term THEN Displayed ELSE Backup(running_term)
           written == Drawn(scr, text)[Len(text)]
<1>1. /\ TypeOK /\ curr_term \in open /\ LineFits /\ TabsFit(scr, text)
      /\ outputs < MaxOutputs /\ outputs' = outputs + 1
      /\ UNCHANGED << line, curr_term, running_term, open, maps, drawer >>
  BY DEF ScreenInv, terminal_write, Output
<1>2. /\ scr \in ScreenSet /\ running_term \in Terms /\ curr_term \in Terms
      /\ scr.location = LocationOf(running_term)
      /\ LocationOf(running_term) \in Nat /\ line[running_term] \in Lines
  BY <1>1, KeptScreens DEF LocationOf
<1>3. text \in Seq(Chars \cup {Newline, Tab}) /\ Len(text) \in 0 .. Len(text)
  <2>1. text \in Seq(Chars \cup {Newline, Tab})
    BY ConstantsAssumption
  <2> QED
    BY <2>1
<1>4. /\ written \in ScreenSet
      /\ Ahead(LocationOf(running_term), 0, written.location)
  <2> HIDE DEF scr
  <2> QED
    BY <1>1, <1>2, <1>3, DrawnScreens
<1>5. Fits(line[running_term], written.location)
  <2> HIDE DEF written
  <2>1. Fits(line[running_term], LocationOf(running_term))
    BY <1>1, <1>2 DEF LineFits
  <2>2. LocationOf(running_term) \in Int
    BY <1>2
  <2> QED
    BY <1>2, <1>4, <2>1, <2>2, FitsAhead
<1>6. /\ memory \in [VideoPages -> CellSets] /\ current_location \in Locations
      /\ cursor_location \in [Terms -> Locations]
      /\ written.cells \in CellSets /\ written.location \in Locations
  BY <1>1, <1>4 DEF TypeOK, CellSets, ScreenSet
<1>7. curr_term' \in open' /\ outputs' \in 0 .. MaxOutputs
  BY <1>1, ConstantsAssumption DEF TypeOK
<1>8. CASE running_term = curr_term
  <2>1. SetDisplayed(written) /\ UNCHANGED cursor_location
    BY <1>8 DEF terminal_write
  <2> HIDE DEF written
  <2>2. /\ memory' \in [VideoPages -> [Cells -> Chars \cup {Blank}]]
        /\ current_location' \in Locations /\ current_location' = written.location
    BY <1>1, <1>4, <2>1, OnDisplay
  <2>3. TypeOK'
    BY <1>1, <1>7, <2>1, <2>2 DEF TypeOK
  <2>4. ASSUME NEW t \in Terms
        PROVE  Fits(line'[t], LocationOf(t)')
    <3>1. line'[t] = line[t] /\ Fits(line[t], LocationOf(t))
      BY <1>1 DEF LineFits
    <3>2. LocationOf(t)' = IF t = running_term THEN written.location ELSE LocationOf(t)
      BY <1>1, <1>8, <2>1, <2>2 DEF LocationOf
    <3> QED
      BY <1>5, <3>1, <3>2, Zenon
  <2>5. LineFits'
    BY <2>4, Zenon DEF LineFits, Fits, EndsIn, Typed, Width, TabsOf, LocationOf
  <2> QED
    BY <1>1, <1>2, <1>4, <1>7, <2>3, <2>5 DEF ScreenInv, written
<1>9. CASE running_term # curr_term
  <2>1. /\ memory' = [memory EXCEPT ![vid_backup(running_term)] = written.cells]
        /\ cursor_location' =
             [cursor_location EXCEPT ![running_term] = written.location]
        /\ UNCHANGED current_location
    BY <1>9 DEF terminal_write
  <2> HIDE DEF written
  <2>2. /\ memory' \in [VideoPages -> CellSets]
        /\ cursor_location' \in [Terms -> Locations]
    BY <1>2, <1>6, <2>1, ScreenPages
  <2>4. TypeOK'
    BY <1>1, <1>7, <2>1, <2>2 DEF TypeOK, CellSets
  <2>5. ASSUME NEW t \in Terms
        PROVE  Fits(line'[t], LocationOf(t)')
    <3>1. line'[t] = line[t] /\ Fits(line[t], LocationOf(t))
      BY <1>1 DEF LineFits
    <3>2. LocationOf(t)' = IF t = running_term THEN written.location ELSE LocationOf(t)
      BY <1>1, <1>2, <1>6, <1>9, <2>1 DEF LocationOf
    <3> QED
      BY <1>5, <3>1, <3>2, Zenon
  <2>6. LineFits'
    BY <2>5, Zenon DEF LineFits, Fits, EndsIn, Typed, Width, TabsOf, LocationOf
  <2> QED
    BY <1>1, <1>2, <1>4, <1>7, <2>4, <2>6 DEF ScreenInv, written
<1> QED
  BY <1>1, <1>2, <1>4, <1>8, <1>9

\* A program that draws changes characters only.
LEMMA DrawKeeps ==
  ASSUME ScreenInv, NEW cell \in Cells, NEW c \in Chars, Draw(cell, c)
  PROVE  ScreenInv'
<1>1. TypeOK /\ curr_term \in open /\ LineFits
  BY DEF ScreenInv
<1> DEFINE page == Translate(maps, UserVideo, 0, TRUE)
<1>2. /\ memory' = [memory EXCEPT ![page][cell] = c]
      /\ outputs < MaxOutputs /\ outputs' = outputs + 1
      /\ UNCHANGED << current_location, cursor_location, line, curr_term,
                      running_term, open, maps, drawer >>
  BY DEF Draw, Output
<1> HIDE DEF page
<1>3. memory' \in [VideoPages -> CellSets]
  <2>1. memory \in [VideoPages -> CellSets]
    BY <1>1 DEF TypeOK, CellSets
  <2>2. CASE page \in VideoPages
    <3>1. [memory[page] EXCEPT ![cell] = c] \in CellSets
      BY <2>1, <2>2 DEF CellSets
    <3>2. memory' = [memory EXCEPT ![page] = [memory[page] EXCEPT ![cell] = c]]
      BY <1>2
    <3> QED
      BY <2>1, <3>1, <3>2
  <2>3. CASE page \notin VideoPages
    BY <1>2, <2>1, <2>3
  <2> QED
    BY <2>2, <2>3
<1>4. outputs' \in 0 .. MaxOutputs
  BY <1>1, <1>2, ConstantsAssumption DEF TypeOK
<1>5. TypeOK'
  BY <1>1, <1>2, <1>3, <1>4 DEF TypeOK, CellSets
<1>6. LineFits'
  BY <1>1, <1>2, Zenon DEF LineFits, Fits, EndsIn, Typed, Width, TabsOf, LocationOf
<1> QED
  BY <1>1, <1>2, <1>5, <1>6 DEF ScreenInv

\* The pages of the regions that the handlers map have the right type.
LEMMA MapTypes ==
  ASSUME NEW pm \in PageMaps, NEW t \in Terms, NEW s
  PROVE  /\ OwnVideo(pm, t, s) \in PageMaps /\ remap(pm, Program, 2 + t) \in PageMaps
         /\ remap(OwnVideo(pm, t, s), Program, 2 + t) \in PageMaps
         /\ remap_vid(pm, UserVideo, VIDEO) \in PageMaps
<1>1. 2 + t \in Nat
  BY DEF Terms
<1>2. OwnVideo(pm, t, s) \in PageMaps
  BY EntriesUsed, RemapTypes DEF OwnVideo
<1> QED
  BY <1>1, <1>2, EntriesUsed, RemapTypes

\* The switch copies screens and locations together.
LEMMA LaunchKeeps ==
  ASSUME ScreenInv, NEW t \in Terms, launch_term(t)
  PROVE  /\ ScreenInv'
         /\ \A u \in Terms : ScreenOf(u)' = ScreenOf(u)
<1>1. /\ TypeOK /\ curr_term \in open /\ LineFits /\ t # curr_term
      /\ cursor_location' = [cursor_location EXCEPT ![curr_term] = current_location]
      /\ current_location' = cursor_location[t]
      /\ curr_term' = t
      /\ UNCHANGED << line, drawer, outputs >>
  BY DEF ScreenInv, launch_term
<1> DEFINE saved == [memory EXCEPT ![vid_backup(curr_term)] = memory[VIDEO]]
<1>2. memory' = [saved EXCEPT ![VIDEO] = saved[vid_backup(t)]]
  BY Zenon DEF launch_term
<1>3. /\ memory \in [VideoPages -> CellSets] /\ current_location \in Locations
      /\ cursor_location \in [Terms -> Locations] /\ curr_term \in Terms
      /\ running_term \in open /\ open \in SUBSET Terms /\ maps \in PageMaps
      /\ running_term \in Terms
  BY <1>1 DEF TypeOK, CellSets
<1>4. /\ saved \in [VideoPages -> CellSets]
      /\ saved[vid_backup(curr_term)] = memory[VIDEO]
      /\ \A u \in Terms \ {curr_term} : saved[vid_backup(u)] = memory[vid_backup(u)]
  BY <1>3, ScreenPages
<1> HIDE DEF saved
<1>5. /\ memory' \in [VideoPages -> CellSets]
      /\ memory'[VIDEO] = memory[vid_backup(t)]
      /\ memory'[vid_backup(curr_term)] = memory[VIDEO]
      /\ \A u \in Terms \ {curr_term} : memory'[vid_backup(u)] = memory[vid_backup(u)]
  BY <1>1, <1>2, <1>3, <1>4, ScreenPages
<1>6. /\ current_location' \in Locations /\ cursor_location' \in [Terms -> Locations]
  BY <1>1, <1>3
<1>7. running_term' \in open' /\ open' \in SUBSET Terms /\ maps' \in PageMaps
      /\ t \in open'
  <2>1. CASE t \in open
    BY <1>3, <2>1, MapTypes DEF launch_term
  <2>2. CASE t \notin open
    BY <1>3, <2>2, MapTypes DEF launch_term
  <2> QED
    BY <2>1, <2>2
<1>8. TypeOK'
  BY <1>1, <1>5, <1>6, <1>7 DEF TypeOK, CellSets
<1>9. ASSUME NEW u \in Terms PROVE LocationOf(u)' = LocationOf(u)
  BY <1>1, <1>3 DEF LocationOf
<1>10. LineFits'
  <2>1. ASSUME NEW u \in Terms
        PROVE  Fits(line'[u], LocationOf(u)')
    BY <1>1, <1>9, Zenon DEF LineFits
  <2> QED
    BY <2>1, Zenon DEF LineFits, Fits, EndsIn, Typed, Width, TabsOf, LocationOf
<1>11. ASSUME NEW u \in Terms PROVE ScreenOf(u)' = ScreenOf(u)
  <2>1. CASE u = t
    BY <1>1, <1>5, <2>1 DEF ScreenOf, Displayed, Backup
  <2>2. CASE u = curr_term
    BY <1>1, <1>3, <1>5, <2>2 DEF ScreenOf, Displayed, Backup
  <2>3. CASE u # t /\ u # curr_term
    BY <1>1, <1>3, <1>5, <2>3 DEF ScreenOf, Backup
  <2> QED
    BY <2>1, <2>2, <2>3
<1> QED
  BY <1>1, <1>7, <1>8, <1>10, <1>11 DEF ScreenInv

\* Every handler.
LEMMA NextScreens ==
  ASSUME ScreenInv, "tab" \notin Hazards, "enter" \notin Hazards,
         "overfull" \notin Hazards, [Next]_vars
  PROVE  ScreenInv'
<1>1. /\ TypeOK /\ curr_term \in open /\ running_term \in open /\ open \in SUBSET Terms
      /\ maps \in PageMaps /\ drawer \in SUBSET Terms /\ outputs \in 0 .. MaxOutputs
      /\ curr_term \in Terms /\ running_term \in Terms
  BY DEF ScreenInv, TypeOK
<1>2. CASE Keys
  <2>1. CASE CtrlC
    <3>1. /\ UNCHANGED << memory, current_location, cursor_location, curr_term, open,
                          drawer, outputs >>
          /\ running_term' = curr_term
          /\ maps' = remap(maps, Program, 2 + curr_term)
          /\ line' = [line EXCEPT ![curr_term] = << >>]
      BY <2>1 DEF CtrlC, SetLine
    <3>2. maps' \in PageMaps
      BY <1>1, <3>1, MapTypes
    <3> QED
      BY <1>1, <3>1, <3>2, QuietKeeps
  <2> QED
    BY <1>2, <2>1, EnterWrites, TabWrites, BackspaceWrites, ClearWrites, LetterWrites
    DEF Keys
<1>3. CASE Programs
  <2>1. CASE vidmap_func
    <3>1. /\ UNCHANGED << memory, current_location, cursor_location, line, curr_term,
                          running_term, open, outputs >>
          /\ drawer' \in SUBSET Terms /\ maps' \in PageMaps
      BY <1>1, <2>1, MapTypes DEF vidmap_func
    <3> QED
      BY <1>1, <3>1, QuietKeeps
  <2>2. CASE halt_func
    <3>1. /\ UNCHANGED << memory, current_location, cursor_location, curr_term,
                          running_term, open, maps, drawer, outputs >>
          /\ line' = [line EXCEPT ![running_term] = << >>]
      BY <2>2 DEF halt_func
    <3> QED
      BY <1>1, <3>1, QuietKeeps
  <2>3. CASE terminal_read
    <3>1. /\ UNCHANGED << memory, current_location, cursor_location, curr_term,
                          running_term, open, maps, drawer, outputs >>
          /\ line' = [line EXCEPT ![curr_term] = << >>]
      BY <2>3 DEF terminal_read, SetLine
    <3> QED
      BY <1>1, <3>1, QuietKeeps
  <2> QED
    BY <1>3, <2>1, <2>2, <2>3, WriteKeeps, DrawKeeps DEF Programs
<1>4. ASSUME NEW t \in Terms, schedule(t) PROVE ScreenInv'
  <2>1. /\ UNCHANGED << memory, current_location, cursor_location, line, curr_term,
                        open, drawer, outputs >>
        /\ t \in open /\ running_term' = t
        /\ maps' = remap(OwnVideo(maps, t, curr_term), Program, 2 + t)
    BY <1>4 DEF schedule
  <2>2. maps' \in PageMaps
    BY <1>1, <2>1, MapTypes
  <2> QED
    BY <1>1, <2>1, <2>2, QuietKeeps
<1>5. CASE UNCHANGED vars
  BY <1>1, <1>5, QuietKeeps DEF vars
<1> QED
  BY <1>2, <1>3, <1>4, <1>5, LaunchKeeps DEF Next

LEMMA InitScreens == Init => ScreenInv
<1> SUFFICES ASSUME Init PROVE ScreenInv
  OBVIOUS
<1>1. 0 \in Locations
  <2>1. Loc(0, 0) = 0 /\ Loc(0, 0) \in Locations
    <3>1. Loc(0, 0) = 0
      <4>1. NUM_COLS \in Int
        BY Sizes
      <4> QED
        BY <4>1 DEF Loc, Spot
    <3> QED
      BY <3>1, Corners, SpotPlace
  <2> QED
    BY <2>1, Zenon
<1>2. 0 \in Terms
  BY PagingAssumption DEF Terms
<1>3. maps \in PageMaps
  BY InitPages DEF PagesInv
<1>4. TypeOK
  BY <1>1, <1>2, <1>3, ConstantsAssumption DEF Init, TypeOK
<1>5. LineFits
  <2>1. ASSUME NEW t \in Terms
        PROVE  Fits(line[t], LocationOf(t))
    <3>1. line[t] = << >> /\ LocationOf(t) = 0
      BY DEF Init, LocationOf
    <3>2. Fits(<< >>, 0)
      BY FitsEmpty
    <3> QED
      BY <3>1, <3>2, Zenon
  <2> QED
    BY <2>1 DEF LineFits
<1>6. curr_term \in open
  BY DEF Init
<1> QED
  BY <1>4, <1>5, <1>6 DEF ScreenInv

\* The locations and the characters of every screen stay within it, the echo and
\* Backspace included, as long as programs write their tabs where putc does not
\* scroll, no Backspace comes before an Enter is read (with one, the location may
\* leave the screen) and no letter goes past the end of the buffer.
THEOREM ScreenTypes ==
  ASSUME "tab" \notin Hazards, "enter" \notin Hazards, "overfull" \notin Hazards
  PROVE  Spec => []TypeOK
<1>1. Init => ScreenInv
  BY InitScreens
<1>2. ScreenInv /\ [Next]_vars => ScreenInv'
  BY NextScreens
<1>3. ScreenInv => TypeOK
  BY DEF ScreenInv
<1> QED
  BY <1>1, <1>2, <1>3, PTL DEF Spec


-----------------------------------------------------------------------------
(* A screen as the console it stands for.                                  *)

Grid(cells) == [pl \in Ys \X Xs |-> cells[Spot(pl[1], pl[2])]]
At(y, x)    == [row |-> y, col |-> x]

LEMMA ConOf ==
  ASSUME NEW cells, NEW y \in Ys, NEW x \in Xs
  PROVE  /\ Con(Page(cells, y, x)) = [screen |-> Grid(cells), cursor |-> At(y, x)]
         /\ Con(Page(cells, y, x)).screen = Grid(cells)
         /\ Con(Page(cells, y, x)).cursor = At(y, x)
         /\ At(y, x).row = y /\ At(y, x).col = x
<1>1. Con(Page(cells, y, x)).screen = Grid(cells)
  BY DEF Con, Page, Grid, Spot, Ys, Xs
<1> QED
  BY <1>1, SpotFound DEF Con, Page, At

\* The place of a row and column.
LEMMA GridAt ==
  ASSUME NEW cells, NEW y \in Ys, NEW x \in Xs
  PROVE  Grid(cells)[<< y, x >>] = cells[Spot(y, x)]
BY DEF Grid

\* A scroll moves every row up.
LEMMA GridScroll ==
  ASSUME NEW cells
  PROVE  Grid(scroll(cells)) =
           [pl \in Ys \X Xs |-> IF pl[1] = NUM_ROWS - 1 THEN Blank
                                ELSE Grid(cells)[<< pl[1] + 1, pl[2] >>]]
<1>1. ASSUME NEW y \in Ys, NEW x \in Xs
      PROVE  scroll(cells)[Spot(y, x)]
               = IF y = NUM_ROWS - 1 THEN Blank ELSE Grid(cells)[<< y + 1, x >>]
  <2>1. CASE y = NUM_ROWS - 1
    <3>1. ~(y < NUM_ROWS - 1)
      BY <2>1, Corners, Zenon
    <3>2. Spot(y, x) \in Cells /\ ~(Spot(y, x) < (NUM_ROWS - 1) * NUM_COLS)
      BY <3>1, SpotPlace, Zenon
    <3> QED
      BY <2>1, <3>2 DEF scroll
  <2>2. CASE y # NUM_ROWS - 1
    <3>1. y + 1 \in Ys /\ y < NUM_ROWS - 1
      BY <2>2, Corners, Zenon
    <3>2. /\ Spot(y, x) \in Cells /\ Spot(y, x) < (NUM_ROWS - 1) * NUM_COLS
          /\ Spot(y + 1, x) = Spot(y, x) + NUM_COLS
      BY <3>1, SpotPlace, Zenon
    <3>3. scroll(cells)[Spot(y, x)] = cells[Spot(y + 1, x)]
      BY <3>2, Zenon DEF scroll
    <3> QED
      BY <2>2, <3>1, <3>3, GridAt, Zenon
  <2> QED
    BY <2>1, <2>2
<1>2. ASSUME NEW pl \in Ys \X Xs
      PROVE  scroll(cells)[Spot(pl[1], pl[2])]
               = IF pl[1] = NUM_ROWS - 1 THEN Blank
                 ELSE Grid(cells)[<< pl[1] + 1, pl[2] >>]
  <2>1. pl[1] \in Ys /\ pl[2] \in Xs
    OBVIOUS
  <2> QED
    BY <2>1, <1>1, Zenon
<1> QED
  BY <1>2, Zenon DEF Grid

\* A character in its place is one in its row and column.
LEMMA GridMarked ==
  ASSUME NEW cells \in CellSets, NEW y \in Ys, NEW x \in Xs, NEW c
  PROVE  Grid(Marked(cells, y, x, c)) = [Grid(cells) EXCEPT ![<< y, x >>] = c]
<1>1. ASSUME NEW pl \in Ys \X Xs
      PROVE  Marked(cells, y, x, c)[Spot(pl[1], pl[2])]
               = IF pl = << y, x >> THEN c ELSE cells[Spot(pl[1], pl[2])]
  <2>1. pl[1] \in Ys /\ pl[2] \in Xs /\ pl = << pl[1], pl[2] >>
    OBVIOUS
  <2>2. Spot(pl[1], pl[2]) \in Cells
    BY <2>1, SpotPlace, Zenon
  <2>3. Marked(cells, y, x, c)[Spot(pl[1], pl[2])]
          = IF Spot(pl[1], pl[2]) = Spot(y, x) THEN c ELSE cells[Spot(pl[1], pl[2])]
    BY <2>2 DEF Marked, CellSets
  <2>4. Spot(pl[1], pl[2]) = Spot(y, x) => pl[1] = y /\ pl[2] = x
    <3>1. /\ Spot(pl[1], pl[2]) \div NUM_COLS = pl[1]
          /\ Spot(pl[1], pl[2]) % NUM_COLS = pl[2]
          /\ Spot(y, x) \div NUM_COLS = y /\ Spot(y, x) % NUM_COLS = x
      BY <2>1, SpotFound, Zenon
    <3> QED
      BY <3>1, Zenon
  <2>5. Spot(pl[1], pl[2]) = Spot(y, x) <=> pl = << y, x >>
    BY <2>1, <2>4
  <2> QED
    BY <2>3, <2>5, Zenon
<1> DEFINE g == Grid(cells)
           h == Grid(Marked(cells, y, x, c))
<1>2. h = [pl \in Ys \X Xs |-> IF pl = << y, x >> THEN c ELSE cells[Spot(pl[1], pl[2])]]
  BY <1>1, Zenon DEF Grid
<1>3. g = [pl \in Ys \X Xs |-> cells[Spot(pl[1], pl[2])]]
  BY DEF Grid
<1> HIDE DEF g, h
<1> DEFINE p == << y, x >>
<1>4. [g EXCEPT ![p] = c]
        = [pl \in Ys \X Xs |-> IF pl = p THEN c ELSE cells[Spot(pl[1], pl[2])]]
  BY <1>3
<1> QED
  BY <1>2, <1>4, Zenon DEF g, h

LEMMA ConNewLine ==
  ASSUME NEW cells \in CellSets, NEW y \in Ys, NEW x \in Xs
  PROVE  Con(NextLine(cells, y)) = Screens!NewLine(Con(Page(cells, y, x)))
<1> DEFINE con == Con(Page(cells, y, x))
<1>1. /\ con = [screen |-> Grid(cells), cursor |-> At(y, x)]
      /\ con.screen = Grid(cells) /\ con.cursor = At(y, x)
      /\ con.cursor.row = y
  <2>1. /\ con = [screen |-> Grid(cells), cursor |-> At(y, x)]
        /\ con.screen = Grid(cells) /\ con.cursor = At(y, x)
        /\ At(y, x).row = y
    BY ConOf
  <2> QED
    BY <2>1, Zenon
<1> HIDE DEF con
<1>2. CASE y < NUM_ROWS - 1
  <2>1. Con(NextLine(cells, y)) = [screen |-> Grid(cells), cursor |-> At(y + 1, 0)]
    <3>1. y + 1 \in Ys /\ 0 \in Xs
      BY <1>2, Corners
    <3> QED
      BY <1>2, <3>1, ConOf DEF NextLine
  <2>2. Screens!NewLine(con) = [screen |-> Grid(cells), cursor |-> At(y + 1, 0)]
    BY <1>1, <1>2 DEF Screens!NewLine, At
  <2> QED
    BY <2>1, <2>2, Zenon DEF con
<1>3. CASE ~(y < NUM_ROWS - 1)
  <2>1. Con(NextLine(cells, y))
          = [screen |-> Grid(scroll(cells)), cursor |-> At(NUM_ROWS - 1, 0)]
    <3>1. NUM_ROWS - 1 \in Ys /\ 0 \in Xs
      BY Corners
    <3> QED
      BY <1>3, <3>1, ConOf DEF NextLine
  <2>2. Screens!Places = Ys \X Xs
    BY DEF Screens!Places, Ys, Xs
  <2>3. Screens!NewLine(con)
          = [screen |-> [pl \in Screens!Places |->
                           IF pl[1] = NUM_ROWS - 1 THEN Blank
                           ELSE Grid(cells)[<< pl[1] + 1, pl[2] >>]],
             cursor |-> At(NUM_ROWS - 1, 0)]
    BY <1>1, <1>3, Zenon DEF Screens!NewLine, At
  <2> QED
    BY <2>1, <2>2, <2>3, GridScroll, Zenon DEF con
<1> QED
  BY <1>2, <1>3

\* The next place is a step forward.
LEMMA ConForward ==
  ASSUME NEW cells \in CellSets, NEW y \in Ys, NEW x \in Xs
  PROVE  Con(After(cells, y, x)) = Screens!Forward(Con(Page(cells, y, x)), 1)
<1> DEFINE con == Con(Page(cells, y, x))
<1>1. /\ con = [screen |-> Grid(cells), cursor |-> At(y, x)]
      /\ con.cursor = At(y, x) /\ At(y, x).col = x
  BY ConOf
<1>2. x \in Int /\ NUM_COLS \in Int
  BY Corners, Sizes
<1> HIDE DEF con
<1>3. CASE x < NUM_COLS - 1
  <2>1. x + 1 \in Xs /\ con.cursor.col + 1 < NUM_COLS
    BY <1>1, <1>2, <1>3, Corners
  <2>2. Con(After(cells, y, x)) = [screen |-> Grid(cells), cursor |-> At(y, x + 1)]
    BY <1>3, <2>1, ConOf DEF After
  <2>3. [con EXCEPT !.cursor.col = @ + 1]
          = [screen |-> Grid(cells), cursor |-> At(y, x + 1)]
    BY <1>1 DEF At
  <2> QED
    BY <2>1, <2>2, <2>3, Zenon DEF Screens!Forward, con
<1>4. CASE ~(x < NUM_COLS - 1)
  <2>1. ~(con.cursor.col + 1 < NUM_COLS)
    BY <1>1, <1>2, <1>4
  <2>2. Con(After(cells, y, x)) = Screens!NewLine(con)
    BY <1>4, ConNewLine DEF After, con
  <2> QED
    BY <2>1, <2>2, Zenon DEF Screens!Forward, con
<1> QED
  BY <1>3, <1>4

\* A character that is written.
LEMMA ConWritten ==
  ASSUME NEW cells \in CellSets, NEW y \in Ys, NEW x \in Xs, NEW c \in Chars \cup {Blank}
  PROVE  Con(After(Marked(cells, y, x, c), y, x))
           = Screens!Put(Con(Page(cells, y, x)), c)
<1> DEFINE con == Con(Page(cells, y, x))
           marked == Marked(cells, y, x, c)
<1>1. /\ con = [screen |-> Grid(cells), cursor |-> At(y, x)]
      /\ con.cursor = At(y, x) /\ At(y, x).row = y /\ At(y, x).col = x
  BY ConOf
<1>2. c # Newline /\ c # Tab
  BY ConstantsAssumption
<1>3. marked \in CellSets
  BY CellTypes
<1> HIDE DEF con, marked
<1>4. con.cursor.row = y /\ con.cursor.col = x
  BY <1>1, Zenon
<1>5. Con(Page(marked, y, x))
        = [con EXCEPT !.screen[<< con.cursor.row, con.cursor.col >>] = c]
  <2>1. Con(Page(marked, y, x)) = [screen |-> Grid(marked), cursor |-> At(y, x)]
    BY ConOf
  <2>2. Grid(marked) = [Grid(cells) EXCEPT ![<< y, x >>] = c]
    BY GridMarked DEF marked
  <2> DEFINE p == << y, x >>
  <2>3. << con.cursor.row, con.cursor.col >> = p
    BY <1>4
  <2> HIDE DEF p
  <2>4. [con EXCEPT !.screen[p] = c]
          = [screen |-> [Grid(cells) EXCEPT ![p] = c], cursor |-> At(y, x)]
    BY <1>1
  <2>5. Grid(marked) = [Grid(cells) EXCEPT ![p] = c]
    BY <2>2 DEF p
  <2> QED
    BY <2>1, <2>3, <2>4, <2>5, Zenon
<1>6. Screens!Put(con, c)
        = Screens!Forward([con EXCEPT !.screen[<< con.cursor.row, con.cursor.col >>] = c],
                          1)
  BY <1>2 DEF Screens!Put
<1>7. Con(After(marked, y, x)) = Screens!Forward(Con(Page(marked, y, x)), 1)
  BY <1>3, ConForward
<1> QED
  BY <1>5, <1>6, <1>7, Zenon DEF con, marked

\* putc of a character or line feed, and of a tab at a column where it does not
\* scroll.
LEMMA ConPut ==
  ASSUME NEW scr \in ScreenSet, NEW c \in Chars \cup {Newline, Tab},
         c = Tab => (scr.location % (2 * NUM_COLS)) \div 2 < NUM_ROWS - TabLen
  PROVE  Con(putc(scr, c)) = Screens!Put(Con(scr), c)
<1>1. PICK y \in Ys, x \in Xs : scr = Page(scr.cells, y, x)
  BY PageOf
<1> DEFINE cells == scr.cells
<1>2. cells \in CellSets /\ scr.location = Loc(y, x)
  <2>1. cells \in CellSets
    BY DEF ScreenSet
  <2>2. Page(cells, y, x).location = Loc(y, x)
    BY DEF Page
  <2> QED
    BY <1>1, <2>1, <2>2, Zenon
<1> HIDE DEF cells
<1>3. scr = Page(cells, y, x)
  BY <1>1 DEF cells
<1>4. CASE c \in Chars
  <2>1. putc(scr, c) = After(Marked(cells, y, x, c), y, x)
    BY <1>2, <1>3, <1>4, PutcChar, Zenon
  <2>2. c \in Chars \cup {Blank}
    BY <1>4
  <2>3. Con(After(Marked(cells, y, x, c), y, x)) = Screens!Put(Con(Page(cells, y, x)), c)
    BY <1>2, <2>2, ConWritten
  <2> QED
    BY <1>3, <2>1, <2>3, Zenon
<1>5. CASE c = Newline
  <2>1. putc(scr, c) = NextLine(cells, y)
    BY <1>2, <1>3, <1>5, PutcNewline, Zenon
  <2>2. Con(NextLine(cells, y)) = Screens!NewLine(Con(Page(cells, y, x)))
    BY <1>2, ConNewLine
  <2>3. Screens!Put(Con(scr), c) = Screens!NewLine(Con(scr))
    BY <1>5, ConstantsAssumption DEF Screens!Put
  <2> QED
    BY <1>3, <2>1, <2>2, <2>3, Zenon
<1>6. CASE c = Tab
  <2>1. x < NUM_ROWS - TabLen
    <3>1. (Loc(y, x) % (2 * NUM_COLS)) \div 2 = x
      BY SpotFound
    <3> QED
      BY <1>2, <1>6, <3>1, Zenon
  <2>2. /\ putc(scr, c) = Page(cells, y, x + TabLen) /\ x + TabLen \in Xs
        /\ x + TabLen < NUM_COLS
    BY <1>3, <1>6, <2>1, PutcTab, Zenon
  <2> DEFINE con == Con(scr)
  <2>3. Screens!Put(con, c) = Screens!Forward(con, TabLen)
    BY <1>6, ConstantsAssumption DEF Screens!Put
  <2>4. /\ con = [screen |-> Grid(cells), cursor |-> At(y, x)]
        /\ con.cursor = At(y, x) /\ At(y, x).col = x
    BY <1>3, ConOf
  <2>5. Con(Page(cells, y, x + TabLen))
          = [screen |-> Grid(cells), cursor |-> At(y, x + TabLen)]
    BY <2>2, ConOf
  <2> HIDE DEF con
  <2>6. [con EXCEPT !.cursor.col = @ + TabLen]
          = [screen |-> Grid(cells), cursor |-> At(y, x + TabLen)]
    BY <2>4 DEF At
  <2>7. con.cursor.col + TabLen < NUM_COLS
    BY <2>2, <2>4, Zenon
  <2>8. Screens!Forward(con, TabLen) = [con EXCEPT !.cursor.col = @ + TabLen]
    BY <2>7, Zenon DEF Screens!Forward
  <2> QED
    BY <2>2, <2>3, <2>5, <2>6, <2>8, Zenon DEF con
<1> QED
  BY <1>4, <1>5, <1>6

\* A turn of handle_tab that does not begin halfway down the screen.
LEMMA ConTabStep ==
  ASSUME NEW scr \in ScreenSet, scr.location # NUM_ROWS * NUM_COLS
  PROVE  Con(TabStep(scr)) = Screens!Put(Con(scr), Blank)
<1>1. PICK y \in Ys, x \in Xs : scr = Page(scr.cells, y, x)
  BY PageOf
<1> DEFINE cells == scr.cells
<1>2. cells \in CellSets /\ scr.location = Loc(y, x)
  <2>1. cells \in CellSets
    BY DEF ScreenSet
  <2>2. Page(cells, y, x).location = Loc(y, x)
    BY DEF Page
  <2> QED
    BY <1>1, <2>1, <2>2, Zenon
<1> HIDE DEF cells
<1>3. scr = Page(cells, y, x)
  BY <1>1 DEF cells
<1>4. TabStep(scr) = After(Marked(cells, y, x, Blank), y, x)
  BY <1>2, <1>3, TabStepIs, Zenon
<1>5. Blank \in Chars \cup {Blank}
  OBVIOUS
<1>6. Con(After(Marked(cells, y, x, Blank), y, x))
        = Screens!Put(Con(Page(cells, y, x)), Blank)
  BY <1>2, <1>5, ConWritten
<1> QED
  BY <1>3, <1>4, <1>6, Zenon


-----------------------------------------------------------------------------
(* Texts.                                                                  *)

\* A function that puts one character after another ends as PutAll does.
LEMMA PutAllIs ==
  ASSUME NEW con, NEW text, Len(text) \in Nat, NEW g,
         DOMAIN g = 0 .. Len(text), g = [k \in 0 .. Len(text) |-> g[k]], g[0] = con,
         \A k \in 1 .. Len(text) : g[k] = Screens!Put(g[k - 1], text[k])
  PROVE  Screens!PutAll(con, text) = g[Len(text)]
<1> DEFINE n == Len(text)
<1> HIDE DEF n
<1>1. n \in Nat /\ \A k \in 1 .. n : g[k] = Screens!Put(g[k - 1], text[k])
  BY DEF n
<1>2. g = [k \in 0 .. n |-> IF k = 0 THEN con ELSE Screens!Put(g[k - 1], text[k])]
  <2>1. \A k \in 0 .. n : k = 0 \/ k \in 1 .. n
    BY <1>1
  <2>2. \A k \in 0 .. n :
          g[k] = IF k = 0 THEN con ELSE Screens!Put(g[k - 1], text[k])
    BY <1>1, <2>1, Zenon
  <2>3. g = [k \in 0 .. n |-> g[k]]
    BY DEF n
  <2> QED
    BY <2>2, <2>3, Zenon
<1> DEFINE h == CHOOSE f : f = [k \in 0 .. n |->
                                  IF k = 0 THEN con ELSE Screens!Put(f[k - 1], text[k])]
<1>3. Screens!PutAll(con, text) = h[n]
  BY Zenon DEF Screens!PutAll, n
<1>4. h = [k \in 0 .. n |-> IF k = 0 THEN con ELSE Screens!Put(h[k - 1], text[k])]
  BY <1>2, Zenon
<1> HIDE DEF h
<1>5. h[0] = con /\ \A k \in 1 .. n : h[k] = Screens!Put(h[k - 1], text[k])
  <2>1. 0 \in 0 .. n /\ \A k \in 1 .. n : k \in 0 .. n /\ k # 0
    BY <1>1
  <2> QED
    BY <1>4, <2>1, Zenon
<1> DEFINE S == {k \in 0 .. n : h[k] = g[k]}
<1>6. 0 \in S
  BY <1>1, <1>5
<1>7. ASSUME NEW k \in 1 .. n, k - 1 \in S PROVE k \in S
  <2>1. h[k - 1] = g[k - 1] /\ k \in 0 .. n
    BY <1>1, <1>7
  <2>2. h[k] = Screens!Put(h[k - 1], text[k]) /\ g[k] = Screens!Put(g[k - 1], text[k])
    BY <1>1, <1>5, Zenon
  <2> QED
    BY <2>1, <2>2, Zenon
<1> HIDE DEF S
<1>8. \A k \in 0 .. n : k \in S
  BY <1>1, <1>6, <1>7, Along
<1>9. n \in 0 .. n
  BY <1>1
<1>10. h[n] = g[n]
  BY <1>8, <1>9, Zenon DEF S
<1> QED
  BY <1>3, <1>10, Zenon DEF n

\* A text whose tabs fit.
LEMMA ConDrawn ==
  ASSUME NEW scr \in ScreenSet, NEW text \in Seq(Chars \cup {Newline, Tab}),
         TabsFit(scr, text)
  PROVE  Con(Drawn(scr, text)[Len(text)]) = Screens!PutAll(Con(scr), text)
<1> DEFINE n == Len(text)
           f == Drawn(scr, text)
           g == [k \in 0 .. n |-> Con(f[k])]
<1>1. n \in Nat /\ \A k \in 1 .. n : text[k] \in Chars \cup {Newline, Tab}
  OBVIOUS
<1>2. f[0] = scr /\ \A k \in 1 .. n : f[k] = putc(f[k - 1], text[k])
  BY DrawnIs, Zenon
<1>3. \A k \in 1 .. n : text[k] = Tab =>
        (f[k - 1].location % (2 * NUM_COLS)) \div 2 < NUM_ROWS - TabLen
  BY Zenon DEF TabsFit
<1>4. \A k \in 0 .. n : f[k] \in ScreenSet
  BY DrawnScreens, Zenon
<1> HIDE DEF n, f
<1>5. 0 \in 0 .. n /\ n \in 0 .. n /\ \A k \in 1 .. n : k \in 0 .. n /\ k - 1 \in 0 .. n
  BY <1>1
<1>6. /\ DOMAIN g = 0 .. n /\ g[0] = Con(scr) /\ g[n] = Con(f[n])
      /\ \A k \in 1 .. n : g[k] = Con(f[k]) /\ g[k - 1] = Con(f[k - 1])
  BY <1>2, <1>5
<1>7. g = [k \in 0 .. n |-> g[k]]
  BY <1>6
<1> HIDE DEF g
<1>8. ASSUME NEW k \in 1 .. n PROVE g[k] = Screens!Put(g[k - 1], text[k])
  <2>1. Con(putc(f[k - 1], text[k])) = Screens!Put(Con(f[k - 1]), text[k])
    BY <1>1, <1>3, <1>4, <1>5, ConPut, Zenon
  <2> QED
    BY <1>2, <1>6, <2>1, Zenon
<1>9. Screens!PutAll(Con(scr), text) = g[n]
  BY <1>1, <1>6, <1>7, <1>8, PutAllIs DEF n
<1> QED
  BY <1>6, <1>9, Zenon DEF n, f

\* A turn of handle_tab goes two bytes on, or less far.
LEMMA TabStepNear ==
  ASSUME NEW scr \in ScreenSet, scr.location # NUM_ROWS * NUM_COLS
  PROVE  TabStep(scr).location <= scr.location + 2
<1>1. PICK y \in Ys, x \in Xs : scr = Page(scr.cells, y, x)
  BY PageOf
<1> DEFINE cells == scr.cells
           marked == Marked(cells, y, x, Blank)
<1>2. cells \in CellSets /\ scr.location = Loc(y, x)
  <2>1. cells \in CellSets
    BY DEF ScreenSet
  <2>2. Page(cells, y, x).location = Loc(y, x)
    BY DEF Page
  <2> QED
    BY <1>1, <2>1, <2>2, Zenon
<1> HIDE DEF cells
<1>3. scr = Page(cells, y, x)
  BY <1>1 DEF cells
<1>4. TabStep(scr) = After(marked, y, x)
  BY <1>2, <1>3, TabStepIs, Zenon
<1>5. Loc(y, x) \in Int
  BY <1>2, LocationInt
<1> HIDE DEF marked
<1>6. After(marked, y, x).location <= Loc(y, x) + 2
  <2>1. CASE x < NUM_COLS - 1
    BY <1>5, <2>1, NextSpot DEF After, Page
  <2>2. CASE x = NUM_COLS - 1 /\ y < NUM_ROWS - 1
    <3>1. ~(x < NUM_COLS - 1)
      BY <2>2, Corners, Zenon
    <3>2. After(marked, y, x).location = Loc(y + 1, 0)
      BY <2>2, <3>1 DEF After, NextLine, Page
    <3>3. Loc(y + 1, 0) = Loc(y, x) + 2
      BY <2>2, NextSpot, Zenon
    <3> QED
      BY <1>5, <3>2, <3>3
  <2>3. CASE x = NUM_COLS - 1 /\ y = NUM_ROWS - 1
    <3>1. ~(x < NUM_COLS - 1) /\ ~(y < NUM_ROWS - 1)
      BY <2>3, Corners, Zenon
    <3>2. After(marked, y, x).location = Loc(NUM_ROWS - 1, 0)
      BY <3>1 DEF After, NextLine, Page
    <3>3. Loc(NUM_ROWS - 1, 0) <= Loc(NUM_ROWS - 1, NUM_COLS - 1)
      <4>1. Loc(NUM_ROWS - 1, 0) = 2 * ((NUM_ROWS - 1) * NUM_COLS + 0)
            /\ Loc(NUM_ROWS - 1, NUM_COLS - 1)
                 = 2 * ((NUM_ROWS - 1) * NUM_COLS + (NUM_COLS - 1))
        BY DEF Loc, Spot
      <4>2. NUM_ROWS \in Int /\ NUM_COLS \in Int /\ NUM_COLS >= 1
        BY Sizes
      <4>3. (NUM_ROWS - 1) * NUM_COLS \in Int
        BY <4>2, Z3
      <4> QED
        BY <4>1, <4>2, <4>3
    <3>4. Loc(NUM_ROWS - 1, 0) \in Int
      BY Corners, SpotPlace, LocationInt
    <3> QED
      BY <1>5, <2>3, <3>2, <3>3, <3>4
  <2> QED
    BY <2>1, <2>2, <2>3, Corners, Zenon
<1> QED
  BY <1>2, <1>4, <1>6, Zenon

\* The tab key, where it does not go through the middle of the screen.
TabClear(scr) == \/ scr.location > NUM_ROWS * NUM_COLS
                 \/ scr.location + 2 * TabLen <= NUM_ROWS * NUM_COLS

LEMMA ConTab ==
  ASSUME NEW scr \in ScreenSet, TabClear(scr)
  PROVE  Con(handle_tab(scr))
           = Screens!PutAll(Con(scr), [i \in 1 .. TabLen |-> Blank])
<1>1. PICK f \in [0 .. TabLen -> ScreenSet] :
        /\ f[0] = scr /\ \A k \in 1 .. TabLen : f[k] = TabStep(f[k - 1])
        /\ handle_tab(scr) = f[TabLen]
  BY TabAlong
<1> DEFINE half == NUM_ROWS * NUM_COLS
           last == 2 * (NUM_ROWS - 1) * NUM_COLS
<1>2. /\ TabLen \in Nat /\ TabLen >= 1 /\ half \in Int /\ last \in Int
      /\ NUM_ROWS > 2 => last > half
      /\ NUM_ROWS > 2 \/ TabLen = 1
  <2>1. /\ NUM_ROWS \in Nat /\ NUM_COLS \in Nat /\ NUM_COLS >= 1
        /\ TabLen \in Nat /\ TabLen >= 1 /\ NUM_ROWS >= 2
    BY Sizes
  <2>2. half \in Int /\ last \in Int
    BY <2>1, Z3
  <2>3. NUM_ROWS > 2 => last > half
    <3>1. ASSUME NUM_ROWS > 2 PROVE last > half
      <4>1. NUM_ROWS - 2 \in Nat /\ 0 \in Nat /\ 0 < NUM_ROWS - 2
        BY <2>1, <3>1
      <4>2. (NUM_ROWS - 2) * NUM_COLS >= 0 * NUM_COLS + NUM_COLS
            /\ (NUM_ROWS - 2) * NUM_COLS \in Nat
        BY <2>1, <4>1, MoreRows
      <4>3. last = half + (NUM_ROWS - 2) * NUM_COLS
        BY <2>1, Z3
      <4> QED
        BY <2>1, <2>2, <4>2, <4>3
    <3> QED
      BY <3>1
  <2> QED
    BY <2>1, <2>2, <2>3, ScreenAssumption
<1>3. \A k \in 0 .. TabLen : f[k].location \in Int
  BY <1>1, LocationInt
<1>4. ASSUME NEW k \in 1 .. TabLen, f[k - 1].location # half
      PROVE  /\ f[k].location <= f[k - 1].location + 2
             /\ f[k].location >= last \/ f[k].location >= f[k - 1].location + 2
  <2>1. k - 1 \in 0 .. TabLen /\ k \in 0 .. TabLen
    BY <1>2
  <2>2. f[k - 1] \in ScreenSet /\ f[k] = TabStep(f[k - 1])
    BY <1>1, <2>1
  <2>3. TabStep(f[k - 1]).location <= f[k - 1].location + 2
    BY <1>4, <2>2, TabStepNear
  <2>4. Ahead(f[k - 1].location, 1, TabStep(f[k - 1]).location)
    BY <2>2, TabStepTyped
  <2> QED
    BY <2>2, <2>3, <2>4 DEF Ahead
<1> HIDE DEF half, last
<1>5. \A k \in 1 .. TabLen : f[k - 1].location # half
  <2>1. CASE scr.location + 2 * TabLen <= half
    <3> DEFINE S == {k \in 0 .. TabLen : f[k].location <= scr.location + 2 * k}
    <3>1. scr.location \in Int
      BY <1>1, <1>2, <1>3
    <3>2. 0 \in S
      BY <1>1, <1>2, <3>1
    <3>3. ASSUME NEW k \in 1 .. TabLen, k - 1 \in S PROVE k \in S
      <4>1. k - 1 \in 0 .. TabLen /\ f[k - 1].location <= scr.location + 2 * (k - 1)
            /\ k \in 0 .. TabLen /\ k <= TabLen /\ k \in Int
        BY <1>2, <3>3
      <4>2. f[k - 1].location \in Int /\ f[k].location \in Int
        BY <1>3, <4>1
      <4>3. f[k - 1].location # half
        BY <1>2, <2>1, <3>1, <4>1, <4>2
      <4>4. f[k].location <= f[k - 1].location + 2
        BY <1>4, <4>3
      <4>5. f[k].location <= scr.location + 2 * k
        BY <3>1, <4>1, <4>2, <4>4
      <4> QED
        BY <4>1, <4>5
    <3> HIDE DEF S
    <3>4. \A k \in 0 .. TabLen : k \in S
      BY <1>2, <3>2, <3>3, Along
    <3>5. ASSUME NEW k \in 1 .. TabLen PROVE f[k - 1].location # half
      <4>1. k - 1 \in 0 .. TabLen /\ k <= TabLen /\ k \in Int
        BY <1>2
      <4>2. f[k - 1].location <= scr.location + 2 * (k - 1) /\ f[k - 1].location \in Int
        BY <1>3, <3>4, <4>1 DEF S
      <4> QED
        BY <1>2, <2>1, <3>1, <4>1, <4>2
    <3> QED
      BY <3>5
  <2>2. CASE scr.location > half /\ TabLen = 1
    <3>1. \A k \in 1 .. TabLen : k - 1 = 0
      BY <2>2
    <3>2. scr.location # half
      BY <1>1, <1>2, <1>3, <2>2
    <3> QED
      BY <1>1, <3>1, <3>2
  <2>3. CASE scr.location > half /\ NUM_ROWS > 2
    <3> DEFINE S == {k \in 0 .. TabLen : f[k].location > half}
    <3>1. 0 \in S
      BY <1>1, <1>2, <2>3
    <3>2. ASSUME NEW k \in 1 .. TabLen, k - 1 \in S PROVE k \in S
      <4>1. k - 1 \in 0 .. TabLen /\ f[k - 1].location > half /\ k \in 0 .. TabLen
        BY <1>2, <3>2
      <4>2. f[k - 1].location \in Int /\ f[k].location \in Int
        BY <1>3, <4>1
      <4>3. f[k - 1].location # half
        BY <1>2, <4>1, <4>2
      <4>4. f[k].location >= last \/ f[k].location >= f[k - 1].location + 2
        BY <1>4, <4>3
      <4>5. f[k].location > half
        BY <1>2, <2>3, <4>1, <4>2, <4>4
      <4> QED
        BY <4>1, <4>5
    <3> HIDE DEF S
    <3>3. \A k \in 0 .. TabLen : k \in S
      BY <1>2, <3>1, <3>2, Along
    <3>4. ASSUME NEW k \in 1 .. TabLen PROVE f[k - 1].location # half
      <4>1. k - 1 \in 0 .. TabLen
        BY <1>2
      <4>2. f[k - 1].location > half /\ f[k - 1].location \in Int
        BY <1>3, <3>3, <4>1 DEF S
      <4> QED
        BY <1>2, <4>2
    <3> QED
      BY <3>4
  <2> QED
    BY <1>2, <2>1, <2>2, <2>3 DEF TabClear, half
<1> DEFINE text == [i \in 1 .. TabLen |-> Blank]
           g == [k \in 0 .. TabLen |-> Con(f[k])]
<1>6. Len(text) = TabLen /\ \A k \in 1 .. TabLen : text[k] = Blank
  BY <1>2
<1>7. /\ 0 \in 0 .. TabLen /\ TabLen \in 0 .. TabLen
      /\ \A k \in 1 .. TabLen : k \in 0 .. TabLen /\ k - 1 \in 0 .. TabLen
  BY <1>2
<1>8. /\ DOMAIN g = 0 .. TabLen /\ g[0] = Con(scr) /\ g[TabLen] = Con(f[TabLen])
      /\ \A k \in 1 .. TabLen : g[k] = Con(f[k]) /\ g[k - 1] = Con(f[k - 1])
  BY <1>1, <1>7
<1>9. g = [k \in 0 .. TabLen |-> g[k]]
  BY <1>8
<1> HIDE DEF g, text
<1>10. ASSUME NEW k \in 1 .. TabLen PROVE g[k] = Screens!Put(g[k - 1], text[k])
  <2>1. f[k - 1] \in ScreenSet /\ f[k - 1].location # NUM_ROWS * NUM_COLS
    BY <1>1, <1>5, <1>7 DEF half
  <2>2. Con(TabStep(f[k - 1])) = Screens!Put(Con(f[k - 1]), Blank)
    BY <2>1, ConTabStep
  <2>3. f[k] = TabStep(f[k - 1])
    BY <1>1
  <2> QED
    BY <1>6, <1>8, <2>2, <2>3, Zenon
<1>11. Screens!PutAll(Con(scr), text) = g[TabLen]
  <2>1. /\ Len(text) \in Nat
        /\ DOMAIN g = 0 .. Len(text) /\ g = [k \in 0 .. Len(text) |-> g[k]]
        /\ g[0] = Con(scr)
        /\ \A k \in 1 .. Len(text) : g[k] = Screens!Put(g[k - 1], text[k])
    BY <1>2, <1>6, <1>8, <1>9, <1>10, Zenon
  <2>2. Screens!PutAll(Con(scr), text) = g[Len(text)]
    BY <2>1, PutAllIs
  <2> QED
    BY <1>6, <2>2, Zenon
<1> QED
  BY <1>1, <1>8, <1>11, Zenon DEF text


-----------------------------------------------------------------------------
(* The steps of the consoles.                                              *)

\* One screen becomes another.
LEMMA Becomes ==
  ASSUME NEW t \in Terms, NEW scr, UNCHANGED curr_term,
         \A u \in Terms : ScreenOf(u)' = IF u = t THEN scr ELSE ScreenOf(u)
  PROVE  Screens!Become(t, Con(scr))
<1>1. consoles' = [u \in Terms |-> Con(ScreenOf(u)')]
  BY Zenon DEF consoles, Con
<1>2. \A u \in Terms : Con(ScreenOf(u)') = IF u = t THEN Con(scr) ELSE Con(ScreenOf(u))
  BY Zenon
<1>3. consoles' = [u \in Terms |-> IF u = t THEN Con(scr) ELSE Con(ScreenOf(u))]
  BY <1>1, <1>2, Zenon
<1>4. consoles = [u \in Terms |-> Con(ScreenOf(u))]
  BY DEF consoles
<1> DEFINE con == Con(scr)
<1> HIDE DEF con
<1>5. consoles' = [consoles EXCEPT ![t] = con]
  BY <1>3, <1>4 DEF con
<1> QED
  BY <1>5 DEF Screens!Become, con

\* No screen changes.
LEMMA SameConsoles ==
  ASSUME \A u \in Terms : ScreenOf(u)' = ScreenOf(u)
  PROVE  consoles' = consoles
<1>1. consoles' = [u \in Terms |-> Con(ScreenOf(u)')]
  BY Zenon DEF consoles, Con
<1>2. \A u \in Terms : Con(ScreenOf(u)') = Con(ScreenOf(u))
  BY Zenon
<1> QED
  BY <1>1, <1>2, Zenon DEF consoles

\* What is written on the display is the console of its terminal.
LEMMA DisplayBecomes ==
  ASSUME TypeOK, NEW scr \in ScreenSet, SetDisplayed(scr),
         UNCHANGED << cursor_location, curr_term >>
  PROVE  Screens!Become(curr_term, Con(scr))
<1>1. /\ curr_term \in Terms /\ memory \in [VideoPages -> CellSets]
      /\ scr = [cells |-> scr.cells, location |-> scr.location]
  BY DEF TypeOK, CellSets, ScreenSet
<1>2. /\ memory' = [memory EXCEPT ![VIDEO] = scr.cells]
      /\ current_location' = scr.location
  BY DEF SetDisplayed
<1>3. /\ memory'[VIDEO] = scr.cells
      /\ \A u \in Terms : memory'[vid_backup(u)] = memory[vid_backup(u)]
  BY <1>1, <1>2, ScreenPages
<1>4. ASSUME NEW u \in Terms
      PROVE  ScreenOf(u)' = IF u = curr_term THEN scr ELSE ScreenOf(u)
  <2>1. CASE u = curr_term
    BY <1>1, <1>2, <1>3, <2>1 DEF ScreenOf, Displayed
  <2>2. CASE u # curr_term
    BY <1>3, <2>2 DEF ScreenOf, Backup
  <2> QED
    BY <2>1, <2>2
<1> QED
  BY <1>1, <1>4, Becomes

\* One character put is a text of one.
LEMMA PutOne ==
  ASSUME NEW con, NEW c
  PROVE  Screens!PutAll(con, << c >>) = Screens!Put(con, c)
<1> DEFINE g == [k \in 0 .. 1 |-> IF k = 0 THEN con ELSE Screens!Put(con, c)]
           text == << c >>
<1>1. Len(text) = 1 /\ text[1] = c /\ 1 \in Nat
  OBVIOUS
<1>2. /\ DOMAIN g = 0 .. 1 /\ g = [k \in 0 .. 1 |-> g[k]] /\ g[0] = con
      /\ g[1] = Screens!Put(con, c)
  OBVIOUS
<1> HIDE DEF g, text
<1>3. \A k \in 1 .. 1 : g[k] = Screens!Put(g[k - 1], text[k])
  <2>1. \A k \in 1 .. 1 : k = 1 /\ k - 1 = 0
    OBVIOUS
  <2> QED
    BY <1>1, <1>2, <2>1, Zenon
<1>4. /\ Len(text) \in Nat /\ DOMAIN g = 0 .. Len(text)
      /\ g = [k \in 0 .. Len(text) |-> g[k]]
      /\ \A k \in 1 .. Len(text) : g[k] = Screens!Put(g[k - 1], text[k])
  BY <1>1, <1>2, <1>3, Zenon
<1>5. Screens!PutAll(con, text) = g[Len(text)]
  BY <1>2, <1>4, PutAllIs
<1> QED
  BY <1>1, <1>2, <1>5, Zenon DEF text

\* The console of the terminal that is displayed.
LEMMA ConsoleOf ==
  ASSUME TypeOK
  PROVE  /\ consoles[curr_term] = Con(Displayed) /\ Displayed \in ScreenSet
         /\ \A t \in Terms : consoles[t] = Con(ScreenOf(t)) /\ ScreenOf(t) \in ScreenSet
BY KeptScreens DEF consoles, ScreenOf

-----------------------------------------------------------------------------
(* The keys.                                                               *)

LEMMA LetterEchoes ==
  ASSUME ScreenInv, "overfull" \notin Hazards, NEW c \in Chars, KeyLetter(c)
  PROVE  Screens!Echo
<1>1. /\ putc(Displayed, c) \in ScreenSet /\ SetDisplayed(putc(Displayed, c))
      /\ UNCHANGED << cursor_location, curr_term >> /\ TypeOK
  BY LetterWrites DEF KeyLetter, Key, ScreenInv
<1>2. Screens!Become(curr_term, Con(putc(Displayed, c)))
  BY <1>1, DisplayBecomes
<1>3. Con(putc(Displayed, c)) = Screens!Put(Con(Displayed), c)
  <2>1. c # Tab /\ c \in Chars \cup {Newline, Tab}
    BY ConstantsAssumption
  <2> QED
    BY <1>1, <2>1, ConsoleOf, ConPut
<1>4. Screens!Become(curr_term, Screens!PutAll(consoles[curr_term], << c >>))
  BY <1>1, <1>2, <1>3, ConsoleOf, PutOne, Zenon
<1>5. << c >> \in {<< d >> : d \in Chars \cup {Newline}}
  OBVIOUS
<1> QED
  BY <1>4, <1>5, Zenon DEF Screens!Echo

LEMMA EnterEchoes ==
  ASSUME ScreenInv, KeyEnter
  PROVE  Screens!Echo
<1>1. /\ handle_enter(Displayed) \in ScreenSet /\ SetDisplayed(handle_enter(Displayed))
      /\ UNCHANGED << cursor_location, curr_term >> /\ TypeOK
  BY EnterWrites DEF KeyEnter, Key, ScreenInv
<1>2. Screens!Become(curr_term, Con(handle_enter(Displayed)))
  BY <1>1, DisplayBecomes
<1>3. Con(handle_enter(Displayed)) = Screens!Put(Con(Displayed), Newline)
  <2>1. Displayed \in ScreenSet
    BY <1>1, ConsoleOf
  <2>2. PICK y \in Ys, x \in Xs : Displayed = Page(Displayed.cells, y, x)
    BY <2>1, PageOf
  <2> DEFINE cells == Displayed.cells
  <2>3. cells \in CellSets
    BY <2>1 DEF ScreenSet
  <2> HIDE DEF cells
  <2>4. Displayed = Page(cells, y, x)
    BY <2>2 DEF cells
  <2>5. handle_enter(Displayed) = NextLine(cells, y)
    BY <2>3, <2>4, EnterIs, Zenon
  <2>6. Con(NextLine(cells, y)) = Screens!NewLine(Con(Page(cells, y, x)))
    BY <2>3, ConNewLine
  <2>7. Screens!Put(Con(Displayed), Newline) = Screens!NewLine(Con(Displayed))
    BY ConstantsAssumption DEF Screens!Put
  <2> QED
    BY <2>4, <2>5, <2>6, <2>7, Zenon
<1>4. Screens!Become(curr_term, Screens!PutAll(consoles[curr_term], << Newline >>))
  BY <1>1, <1>2, <1>3, ConsoleOf, PutOne, Zenon
<1>5. << Newline >> \in {<< d >> : d \in Chars \cup {Newline}}
  OBVIOUS
<1> QED
  BY <1>4, <1>5, Zenon DEF Screens!Echo

LEMMA TabEchoes ==
  ASSUME ScreenInv, "tabkey" \notin Hazards, KeyTab
  PROVE  Screens!Echo
<1>1. /\ SetDisplayed(handle_tab(Displayed)) /\ TabClear(Displayed)
      /\ UNCHANGED << cursor_location, curr_term >> /\ TypeOK
  BY DEF KeyTab, Key, ScreenInv, TabClear, Displayed
<1>2. Displayed \in ScreenSet
  BY <1>1, ConsoleOf
<1>3. handle_tab(Displayed) \in ScreenSet
  BY <1>2, TabScreen
<1>4. Screens!Become(curr_term, Con(handle_tab(Displayed)))
  BY <1>1, <1>3, DisplayBecomes
<1> DEFINE text == [i \in 1 .. TabLen |-> Blank]
<1>5. Con(handle_tab(Displayed)) = Screens!PutAll(Con(Displayed), text)
  BY <1>1, <1>2, ConTab
<1>6. text \in {text}
  OBVIOUS
<1> HIDE DEF text
<1>7. Screens!Become(curr_term, Screens!PutAll(consoles[curr_term], text))
  BY <1>1, <1>4, <1>5, ConsoleOf, Zenon
<1> QED
  BY <1>6, <1>7, Zenon DEF Screens!Echo, text

\* A screen that is erased is a console that is cleared.
LEMMA ErasedConsole == Con(Erased) = Screens!Cleared
<1>1. Con(Erased) = [screen |-> Grid(Erased.cells), cursor |-> At(0, 0)]
  BY ErasedIs, ConOf, Corners
<1>2. Grid(Erased.cells) = [pl \in Ys \X Xs |-> Blank]
  <2>1. ASSUME NEW pl \in Ys \X Xs PROVE Erased.cells[Spot(pl[1], pl[2])] = Blank
    <3>1. Spot(pl[1], pl[2]) \in Cells
      BY SpotPlace
    <3> QED
      BY <3>1 DEF Erased
  <2> QED
    BY <2>1, Zenon DEF Grid
<1> QED
  BY <1>1, <1>2 DEF Screens!Cleared, Screens!Places, Ys, Xs, At

LEMMA ClearClears ==
  ASSUME ScreenInv, CtrlL
  PROVE  Screens!Clear
<1>1. /\ SetDisplayed(Erased) /\ Erased \in ScreenSet
      /\ UNCHANGED << cursor_location, curr_term >> /\ TypeOK
  BY ClearWrites, ErasedIs DEF CtrlL, Key, ScreenInv
<1>2. Screens!Become(curr_term, Con(Erased))
  BY <1>1, DisplayBecomes
<1>3. Con(Erased) = Screens!Cleared
  BY ErasedConsole
<1> QED
  BY <1>2, <1>3, Zenon DEF Screens!Clear


\* The place n before.
LEMMA PlaceBefore ==
  ASSUME NEW y \in Ys, NEW x \in Xs, NEW n \in Nat, Loc(y, x) - 2 * n \in Locations
  PROVE  \E y2 \in Ys, x2 \in Xs :
           /\ Loc(y, x) - 2 * n = Loc(y2, x2)
           /\ y * NUM_COLS + x - n = Spot(y2, x2)
           /\ y * NUM_COLS + x - n >= 0
           /\ (y * NUM_COLS + x - n) \div NUM_COLS = y2
           /\ (y * NUM_COLS + x - n) % NUM_COLS = x2
<1>1. PICK y2 \in Ys, x2 \in Xs : Loc(y, x) - 2 * n = Loc(y2, x2)
  BY SpotOf
<1>2. Spot(y, x) \in Nat /\ Spot(y2, x2) \in Nat /\ x \in Int
  BY SpotPlace, Corners
<1>3. Spot(y, x) = y * NUM_COLS + x /\ y * NUM_COLS \in Int
  <2>1. y \in Int /\ NUM_COLS \in Int
    BY Corners, Sizes
  <2>2. y * NUM_COLS \in Int
    BY <2>1, Z3
  <2> QED
    BY <2>2 DEF Spot
<1>4. y * NUM_COLS + x - n = Spot(y2, x2)
  <2> DEFINE a == y * NUM_COLS
             s == Spot(y2, x2)
             p == Spot(y, x)
  <2>1. a \in Int /\ s \in Nat /\ p = a + x /\ 2 * p - 2 * n = 2 * s /\ p \in Nat
    BY <1>1, <1>2, <1>3 DEF Loc
  <2> HIDE DEF a, s, p
  <2>2. a + x - n = s
    BY <1>2, <2>1
  <2> QED
    BY <2>2 DEF a, s
<1> DEFINE at == y * NUM_COLS + x - n
<1>5. at = Spot(y2, x2)
  BY <1>4
<1> HIDE DEF at
<1>6. at >= 0 /\ at \div NUM_COLS = y2 /\ at % NUM_COLS = x2
  BY <1>2, <1>5, SpotFound
<1> QED
  BY <1>1, <1>5, <1>6 DEF at

LEMMA BackspaceErases ==
  ASSUME ScreenInv, "enter" \notin Hazards, KeyBackspace
  PROVE  Screens!Erase
<1> DEFINE c   == Last(line[curr_term])
           n   == WidthOf(c)
           scr == [cells |-> BackCells(c), location |-> Back(n)]
           con == Con(Displayed)
           at  == con.cursor.row * NUM_COLS + con.cursor.col - n
           back == [row |-> at \div NUM_COLS, col |-> at % NUM_COLS]
<1>1. /\ scr \in ScreenSet /\ SetDisplayed(scr)
      /\ UNCHANGED << cursor_location, curr_term >> /\ TypeOK
  BY BackspaceWrites DEF KeyBackspace, Key, ScreenInv
<1>2. Screens!Become(curr_term, Con(scr))
  <2> HIDE DEF scr
  <2> QED
    BY <1>1, DisplayBecomes
<1>3. n \in {1, TabLen} /\ n \in Nat
  <2>1. TabLen \in Nat
    BY Sizes
  <2> QED
    BY <2>1 DEF WidthOf
<1> HIDE DEF c
<1>4. Displayed \in ScreenSet
  BY <1>1, ConsoleOf
<1>5. PICK y \in Ys, x \in Xs : Displayed = Page(Displayed.cells, y, x)
  BY <1>4, PageOf
<1> DEFINE cells == memory[VIDEO]
<1>6. /\ cells \in CellSets /\ Displayed = Page(cells, y, x)
      /\ current_location = Loc(y, x)
  <2>1. Displayed.cells = cells /\ Displayed.location = current_location
    BY DEF Displayed
  <2>2. cells \in CellSets
    BY <1>4, <2>1 DEF ScreenSet
  <2>3. Displayed.location = Loc(y, x)
    <3>1. Page(Displayed.cells, y, x).location = Loc(y, x)
      BY DEF Page
    <3> QED
      BY <1>5, <3>1, Zenon
  <2> HIDE DEF cells
  <2> QED
    BY <1>5, <2>1, <2>2, <2>3, Zenon
<1>7. /\ con = [screen |-> Grid(cells), cursor |-> At(y, x)]
      /\ con.cursor.row = y /\ con.cursor.col = x
  <2> HIDE DEF cells
  <2>1. /\ Con(Page(cells, y, x)) = [screen |-> Grid(cells), cursor |-> At(y, x)]
        /\ Con(Page(cells, y, x)).cursor = At(y, x)
        /\ At(y, x).row = y /\ At(y, x).col = x
    BY ConOf
  <2> QED
    BY <1>6, <2>1, Zenon
<1>8. Loc(y, x) - 2 * n \in Locations /\ Back(n) = Loc(y, x) - 2 * n
  <2>1. Back(n) \in Locations
    BY <1>1 DEF ScreenSet
  <2> HIDE DEF n
  <2> QED
    BY <1>6, <2>1 DEF Back
<1>9. PICK y2 \in Ys, x2 \in Xs :
        /\ Loc(y, x) - 2 * n = Loc(y2, x2)
        /\ y * NUM_COLS + x - n = Spot(y2, x2)
        /\ y * NUM_COLS + x - n >= 0
        /\ (y * NUM_COLS + x - n) \div NUM_COLS = y2
        /\ (y * NUM_COLS + x - n) % NUM_COLS = x2
  <2> HIDE DEF n
  <2> QED
    BY <1>3, <1>8, PlaceBefore
<1>10. at >= 0 /\ back = At(y2, x2)
  <2>1. at = y * NUM_COLS + x - n
    BY <1>7, Zenon
  <2> HIDE DEF at
  <2>2. at >= 0 /\ at \div NUM_COLS = y2 /\ at % NUM_COLS = x2
    BY <1>9, <2>1, Zenon
  <2> QED
    BY <2>2, Zenon DEF At
<1>11. scr = Page(BackCells(c), y2, x2)
  BY <1>8, <1>9 DEF Page
<1>12. Con(scr) = [screen |-> Grid(BackCells(c)), cursor |-> At(y2, x2)]
  <2> HIDE DEF scr
  <2> QED
    BY <1>11, ConOf
<1>13. consoles[curr_term] = con
  BY <1>1, ConsoleOf
<1> HIDE DEF con, n, scr
<1>14. CASE c = Tab
  <2>1. Grid(BackCells(c)) = Grid(cells)
    BY <1>14 DEF BackCells
  <2> HIDE DEF at, cells
  <2>2. Con(scr) = [con EXCEPT !.cursor = back]
    <3> HIDE DEF back
    <3> QED
      BY <1>7, <1>10, <1>12, <2>1
  <2>3. Screens!Become(curr_term, [con EXCEPT !.cursor = back])
    <3> HIDE DEF back
    <3> QED
      BY <1>2, <2>2, Zenon
  <2> QED
    BY <1>3, <1>10, <1>13, <2>3, Zenon DEF Screens!Erase, at
<1>15. CASE c # Tab
  <2> DEFINE p == << y2, x2 >>
  <2>1. n = 1
    BY <1>15 DEF n, WidthOf
  <2>2. BackCells(c) = Marked(cells, y2, x2, Blank)
    <3>1. Back(1) \div 2 = Spot(y2, x2)
      BY <1>8, <1>9, <2>1, SpotFound
    <3> QED
      BY <1>15, <3>1, Zenon DEF BackCells, Marked
  <2>3. Grid(BackCells(c)) = [Grid(cells) EXCEPT ![p] = Blank]
    BY <1>6, <2>2, GridMarked
  <2>4. << back.row, back.col >> = p
    <3> HIDE DEF back
    <3> QED
      BY <1>10 DEF At
  <2> HIDE DEF at, p, cells, back
  <2> DEFINE over == [con EXCEPT !.cursor = back]
  <2>5. Con(scr) = [over EXCEPT !.screen[p] = Blank]
    <3> DEFINE g == Grid(cells)
               spot == At(y, x)
               blanked == Grid(BackCells(c))
    <3>1. /\ con = [screen |-> g, cursor |-> spot]
          /\ blanked = [g EXCEPT ![p] = Blank]
          /\ Con(scr) = [screen |-> blanked, cursor |-> back]
      BY <1>7, <1>10, <1>12, <2>3, Zenon
    <3> HIDE DEF g, spot, blanked
    <3>2. over = [screen |-> g, cursor |-> back]
      BY <3>1
    <3> HIDE DEF over
    <3>3. [over EXCEPT !.screen[p] = Blank]
            = [screen |-> [g EXCEPT ![p] = Blank], cursor |-> back]
      BY <3>2
    <3> QED
      BY <3>1, <3>3, Zenon
  <2> HIDE DEF over
  <2>6. Con(scr) = [over EXCEPT !.screen[<< back.row, back.col >>] = Blank]
    BY <2>4, <2>5, Zenon
  <2>7. Screens!Become(curr_term, [over EXCEPT !.screen[<< back.row, back.col >>] = Blank])
    BY <1>2, <2>6, Zenon
  <2> QED
    BY <1>3, <1>10, <1>13, <2>7, Zenon DEF Screens!Erase, at, back, over
<1> QED
  BY <1>14, <1>15

-----------------------------------------------------------------------------
(* Programs and switches.                                                  *)

LEMMA WriteWrites ==
  ASSUME ScreenInv, "tab" \notin Hazards, NEW text \in Texts, terminal_write(text)
  PROVE  Screens!Write(running_term)
<1> DEFINE scr == IF running_term = curr_term THEN Displayed ELSE Backup(running_term)
           written == Drawn(scr, text)[Len(text)]
<1>1. /\ scr \in ScreenSet /\ TabsFit(scr, text) /\ written \in ScreenSet
      /\ TypeOK /\ UNCHANGED curr_term
      /\ text \in Seq(Chars \cup {Newline, Tab})
  <2>1. scr \in ScreenSet /\ TabsFit(scr, text) /\ written \in ScreenSet
    BY WriteKeeps, Zenon
  <2>2. TypeOK /\ UNCHANGED curr_term
    BY DEF ScreenInv, terminal_write
  <2> QED
    BY <2>1, <2>2, ConstantsAssumption, Zenon
<1>2. /\ running_term \in Terms /\ scr = ScreenOf(running_term)
  BY <1>1, KeptScreens DEF ScreenOf
<1>3. Screens!Become(running_term, Con(written))
  <2>1. CASE running_term = curr_term
    <3>1. SetDisplayed(written) /\ UNCHANGED cursor_location
      BY <2>1 DEF terminal_write
    <3> HIDE DEF written
    <3>2. Screens!Become(curr_term, Con(written))
      BY <1>1, <3>1, DisplayBecomes
    <3> QED
      BY <2>1, <3>2, Zenon
  <2>2. CASE running_term # curr_term
    <3>1. /\ memory' = [memory EXCEPT ![vid_backup(running_term)] = written.cells]
          /\ cursor_location' =
               [cursor_location EXCEPT ![running_term] = written.location]
          /\ UNCHANGED current_location
      BY <2>2 DEF terminal_write
    <3> HIDE DEF written, scr
    <3>2. /\ memory \in [VideoPages -> CellSets]
          /\ cursor_location \in [Terms -> Locations]
          /\ written = [cells |-> written.cells, location |-> written.location]
      BY <1>1 DEF TypeOK, CellSets, ScreenSet
    <3>3. /\ memory'[VIDEO] = memory[VIDEO]
          /\ memory'[vid_backup(running_term)] = written.cells
          /\ \A u \in Terms \ {running_term} :
               memory'[vid_backup(u)] = memory[vid_backup(u)]
          /\ cursor_location'[running_term] = written.location
          /\ \A u \in Terms \ {running_term} : cursor_location'[u] = cursor_location[u]
      BY <1>2, <3>1, <3>2, ScreenPages
    <3>4. ASSUME NEW u \in Terms
          PROVE  ScreenOf(u)' = IF u = running_term THEN written ELSE ScreenOf(u)
      <4>1. CASE u = running_term
        BY <1>1, <2>2, <3>2, <3>3, <4>1 DEF ScreenOf, Backup
      <4>2. CASE u # running_term
        BY <1>1, <3>1, <3>3, <4>2 DEF ScreenOf, Backup, Displayed
      <4> QED
        BY <4>1, <4>2
    <3> QED
      BY <1>1, <1>2, <3>4, Becomes
  <2> QED
    BY <2>1, <2>2
<1>4. Con(written) = Screens!PutAll(Con(scr), text)
  <2> HIDE DEF scr
  <2> QED
    BY <1>1, ConDrawn
<1>5. consoles[running_term] = Con(scr)
  BY <1>1, <1>2, ConsoleOf
<1> HIDE DEF scr, written
<1>6. Screens!Become(running_term, Screens!PutAll(consoles[running_term], text))
  BY <1>3, <1>4, <1>5, Zenon
<1> QED
  BY <1>6, Zenon DEF Screens!Write

\* A program that draws writes on the screen of its own terminal.
LEMMA DrawDraws ==
  ASSUME ScreenInv, PagesInv, NEW cell \in Cells, NEW c \in Chars, Draw(cell, c)
  PROVE  Screens!Draw(running_term)
<1> DEFINE page == Translate(maps, UserVideo, 0, TRUE)
<1>1. /\ TypeOK /\ running_term \in drawer
      /\ memory' = [memory EXCEPT ![page][cell] = c]
      /\ UNCHANGED << current_location, cursor_location, curr_term >>
  BY DEF ScreenInv, Draw
<1>2. page = Own(running_term)
  BY <1>1 DEF PagesInv, Translate
<1> HIDE DEF page
<1>3. running_term \in Terms /\ curr_term \in Terms
      /\ memory \in [VideoPages -> CellSets] /\ page \in VideoPages
  <2>1. running_term \in Terms
    BY <1>1, KeptScreens
  <2> QED
    BY <1>1, <1>2, <2>1, ScreenPages DEF TypeOK, CellSets, Own
<1>4. /\ memory'[page] = [memory[page] EXCEPT ![cell] = c]
      /\ \A other \in VideoPages : other # page => memory'[other] = memory[other]
  BY <1>1, <1>3
<1> DEFINE old == ScreenOf(running_term)
           scr == [cells |-> [old.cells EXCEPT ![cell] = c], location |-> old.location]
<1>5. old \in ScreenSet /\ consoles[running_term] = Con(old)
  BY <1>1, <1>3, ConsoleOf
<1>6. old.cells = memory[page] /\ old.location = LocationOf(running_term)
  BY <1>2 DEF ScreenOf, Own, Displayed, Backup, LocationOf
<1> HIDE DEF old
<1>7. ASSUME NEW u \in Terms
      PROVE  ScreenOf(u)' = IF u = running_term THEN scr ELSE ScreenOf(u)
  <2>1. CASE u = running_term
    <3>1. scr = [cells |-> memory'[page], location |-> LocationOf(running_term)]
      BY <1>4, <1>6
    <3> QED
      BY <1>1, <1>2, <2>1, <3>1 DEF ScreenOf, Displayed, Backup, Own, LocationOf
  <2>2. CASE u # running_term
    <3>1. CASE u = curr_term
      <4>1. VIDEO # page /\ VIDEO \in VideoPages
        BY <1>2, <1>3, <2>2, <3>1, ScreenPages DEF Own
      <4> QED
        BY <1>1, <1>4, <2>2, <3>1, <4>1 DEF ScreenOf, Displayed
    <3>2. CASE u # curr_term
      <4>1. vid_backup(u) # page /\ vid_backup(u) \in VideoPages
        BY <1>2, <1>3, <2>2, <3>2, ScreenPages DEF Own
      <4> QED
        BY <1>1, <1>4, <2>2, <3>2, <4>1 DEF ScreenOf, Backup
    <3> QED
      BY <3>1, <3>2
  <2> QED
    BY <2>1, <2>2
<1>8. Screens!Become(running_term, Con(scr))
  <2> HIDE DEF scr
  <2> QED
    BY <1>1, <1>3, <1>7, Becomes
<1>9. PICK y \in Ys, x \in Xs : cell = Spot(y, x)
  BY SpotOf
<1> DEFINE p == << y, x >>
<1>10. Con(scr) = [consoles[running_term] EXCEPT !.screen[p] = c]
  <2>1. old.cells \in CellSets
    BY <1>5 DEF ScreenSet
  <2>2. scr.cells = Marked(old.cells, y, x, c) /\ scr.location = old.location
    BY <1>9 DEF Marked
  <2>3. \A s : Con(s).screen = Grid(s.cells) /\ Con(s) = [screen |-> Con(s).screen,
                                                          cursor |-> Con(s).cursor]
    BY DEF Con, Grid, Spot, Ys, Xs
  <2>4. Con(scr).cursor = Con(old).cursor
    <3> HIDE DEF scr
    <3> QED
      BY <2>2 DEF Con
  <2> HIDE DEF scr, p
  <2>5. Con(scr).screen = [Con(old).screen EXCEPT ![p] = c]
    <3>1. Grid(Marked(old.cells, y, x, c)) = [Grid(old.cells) EXCEPT ![<< y, x >>] = c]
      BY <2>1, GridMarked
    <3> DEFINE g == Grid(old.cells)
               h == Grid(Marked(old.cells, y, x, c))
    <3>2. Con(scr).screen = h /\ Con(old).screen = g
      BY <2>2, <2>3, Zenon
    <3>3. h = [g EXCEPT ![p] = c]
      BY <3>1, Zenon DEF p
    <3> HIDE DEF g, h
    <3> QED
      BY <3>2, <3>3, Zenon
  <2> DEFINE con == Con(old)
             new == Con(scr)
  <2>6. /\ new = [screen |-> new.screen, cursor |-> new.cursor]
        /\ con = [screen |-> con.screen, cursor |-> con.cursor]
        /\ new.cursor = con.cursor /\ new.screen = [con.screen EXCEPT ![p] = c]
    BY <2>3, <2>4, <2>5
  <2> HIDE DEF con, new
  <2>7. new = [con EXCEPT !.screen[p] = c]
    BY <2>6
  <2> QED
    BY <1>5, <2>7, Zenon DEF con, new
<1>11. p \in Screens!Places
  BY DEF Screens!Places, Ys, Xs
<1> HIDE DEF scr, p
<1>12. Screens!Become(running_term, [consoles[running_term] EXCEPT !.screen[p] = c])
  BY <1>8, <1>10, Zenon
<1> QED
  BY <1>11, <1>12, Zenon DEF Screens!Draw

\* A switch shows another terminal; the screens stay those of their terminals.
LEMMA LaunchShows ==
  ASSUME ScreenInv, NEW t \in Terms, launch_term(t)
  PROVE  Screens!Show(t)
<1>1. \A u \in Terms : ScreenOf(u)' = ScreenOf(u)
  BY LaunchKeeps
<1>2. curr_term' = t
  BY DEF launch_term
<1> QED
  BY <1>1, <1>2, SameConsoles DEF Screens!Show

\* What writes on no screen changes no console.
LEMMA QuietConsoles ==
  ASSUME UNCHANGED << memory, current_location, cursor_location, curr_term >>
  PROVE  UNCHANGED << curr_term, consoles >>
<1>1. \A u \in Terms : ScreenOf(u)' = ScreenOf(u)
  BY DEF ScreenOf, Displayed, Backup
<1> QED
  BY <1>1, SameConsoles

LEMMA NextConsoles ==
  ASSUME Hazards = {}, ScreenInv, PagesInv, [Next]_vars
  PROVE  [Screens!Next]_<< curr_term, consoles >>
<1>1. \A h : h \notin Hazards
  OBVIOUS
<1>2. running_term \in Terms
  BY KeptScreens DEF ScreenInv
<1>3. CASE Keys
  <2>1. CASE CtrlC
    BY <2>1, QuietConsoles DEF CtrlC
  <2>2. CASE ~CtrlC
    <3>1. Screens!Echo \/ Screens!Erase \/ Screens!Clear
      BY <1>1, <1>3, <2>2, EnterEchoes, TabEchoes, BackspaceErases, ClearClears,
         LetterEchoes DEF Keys
    <3> QED
      BY <3>1 DEF Screens!Next
  <2> QED
    BY <2>1, <2>2
<1>4. CASE Programs
  <2>1. CASE vidmap_func \/ terminal_read \/ halt_func
    BY <2>1, QuietConsoles DEF vidmap_func, terminal_read, halt_func
  <2>2. CASE ~(vidmap_func \/ terminal_read \/ halt_func)
    <3>1. Screens!Write(running_term) \/ Screens!Draw(running_term)
      BY <1>1, <1>4, <2>2, WriteWrites, DrawDraws DEF Programs
    <3> QED
      BY <1>2, <3>1 DEF Screens!Next
  <2> QED
    BY <2>1, <2>2
<1>5. ASSUME NEW t \in Terms, schedule(t)
      PROVE  [Screens!Next]_<< curr_term, consoles >>
  BY <1>5, QuietConsoles DEF schedule
<1>6. ASSUME NEW t \in Terms, launch_term(t)
      PROVE  [Screens!Next]_<< curr_term, consoles >>
  BY <1>6, LaunchShows DEF Screens!Next
<1>7. CASE UNCHANGED vars
  BY <1>7, QuietConsoles DEF vars
<1> QED
  BY <1>3, <1>4, <1>5, <1>6, <1>7 DEF Next

LEMMA InitConsoles == Init => Screens!Init
<1> SUFFICES ASSUME Init PROVE Screens!Init
  OBVIOUS
<1>1. ASSUME NEW t \in Terms PROVE Con(ScreenOf(t)) = Screens!Cleared
  <2>1. ScreenOf(t) = Erased
    BY <1>1, ScreenPages DEF Init, ScreenOf, Displayed, Backup, Erased
  <2> QED
    BY <2>1, ErasedConsole
<1>2. curr_term = 0
  BY DEF Init
<1> QED
  BY <1>1, <1>2 DEF Screens!Init, consoles

\* The display, its copies at each switch and the background writes act as a
\* console of its own per terminal, for any number of terminals and every size
\* of screen, when the hazards are kept out: of the tabs, of vidmap in the
\* background, of Ctrl+C, of a Backspace over an Enter and of a full buffer.
THEOREM ScreensAreConsoles ==
  ASSUME Hazards = {}
  PROVE  Spec => RefinesConsoles
<1>1. /\ "tab" \notin Hazards /\ "bgvidmap" \notin Hazards /\ "ctrlc" \notin Hazards
      /\ "enter" \notin Hazards /\ "overfull" \notin Hazards
  OBVIOUS
<1> DEFINE Inv == ScreenInv /\ PagesInv
<1>2. Init => Inv
  BY InitScreens, InitPages
<1>3. Inv /\ [Next]_vars => Inv'
  BY <1>1, NextScreens, NextPages
<1>4. Inv /\ [Next]_vars => [Screens!Next]_<< curr_term, consoles >>
  BY NextConsoles
<1>5. Init => Screens!Init
  BY InitConsoles
<1> HIDE DEF Inv
<1> QED
  BY <1>2, <1>3, <1>4, <1>5, PTL DEF Spec, RefinesConsoles, Screens!Spec

=============================================================================
