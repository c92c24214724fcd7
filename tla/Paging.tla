------------------------------- MODULE Paging --------------------------------
(***************************************************************************)
(* The page directory and the one page table of paging.c, and what they    *)
(* map.  An address is the number of its 4MB region and, where that region *)
(* is cut into 4KB pages, the number of the page in it.                    *)
(***************************************************************************)
EXTENDS Integers

CONSTANTS
  NUMBER_ENTRIES,  \* in the directory and in the table
  VIDEO_ADDR,      \* the page of the display; the terminals' backups follow
  NumTerms,        \* NUM_TERM
  Program,         \* the region at 128MB, where a program runs
  UserVideo        \* the region at 132MB, where vidmap maps a screen

ASSUME PagingAssumption ==
  /\ NUMBER_ENTRIES \in Nat
  /\ NumTerms \in Nat \ {0}
  /\ VIDEO_ADDR \in Nat \ {0} /\ VIDEO_ADDR + NumTerms < NUMBER_ENTRIES
  /\ Program \in 2 .. NUMBER_ENTRIES - 1
  /\ UserVideo \in 2 .. NUMBER_ENTRIES - 1
  /\ Program # UserVideo

Entries == 0 .. NUMBER_ENTRIES - 1
Fault   == -1

\* A directory entry: ps is set for a 4MB page at page_base_addr, and clear for
\* a region cut into pages by page_table_array[0], the only table there is.
PDEs == [p : BOOLEAN, us : BOOLEAN, ps : BOOLEAN, page_base_addr : Nat]
PTEs == [p : BOOLEAN, us : BOOLEAN, page_base_addr : Nat]
PageMaps == [directory : [Entries -> PDEs], table : [Entries -> PTEs]]

\* The pages of the display and of the backups, VIDEOA to VIDEOC.
VIDEO         == VIDEO_ADDR
vid_backup(t) == VIDEO_ADDR + 1 + t

set_up_PD_PT ==
  [directory |-> [i \in Entries |->
     [p |-> i <= 1, us |-> FALSE, ps |-> i = 1,
      page_base_addr |-> IF i = 0 THEN 0 ELSE i]],
   table |-> [i \in Entries |->
     [p |-> i \in VIDEO_ADDR .. VIDEO_ADDR + NumTerms, us |-> FALSE,
      page_base_addr |-> i]]]

\* remap: a 4MB page for programs; physical is the number of the region.
remap(pm, region, physical) ==
  [pm EXCEPT !.directory[region] =
     [p |-> TRUE, us |-> TRUE, ps |-> TRUE, page_base_addr |-> physical]]

\* remap_vid: the region is cut by the table, whose page 0 becomes physical.
remap_vid(pm, region, physical) ==
  [pm EXCEPT !.directory[region] =
               [p |-> TRUE, us |-> TRUE, ps |-> FALSE, page_base_addr |-> 0],
             !.table[0] = [p |-> TRUE, us |-> TRUE, page_base_addr |-> physical]]

\* What the processor makes of a 4KB page of a region that is cut: a program
\* needs us in both entries.
Translate(pm, region, page, user) ==
  LET pde == pm.directory[region]
      pte == pm.table[page]
  IN IF pde.p /\ ~pde.ps /\ pte.p /\ (user => pde.us /\ pte.us)
     THEN pte.page_base_addr
     ELSE Fault

\* The 4KB pages a program reaches.
UserPages(pm) ==
  {Translate(pm, at[1], at[2], TRUE) : at \in Entries \X Entries} \ {Fault}
=============================================================================
