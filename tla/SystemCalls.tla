----------------------------- MODULE SystemCalls -----------------------------
(***************************************************************************)
(* System calls as a program sees them: the trap of interrupt_handler.S    *)
(* with its one ret_val, the file descriptors of the PCBs                  *)
(* (syscall_handler.c) and the read-only file system behind them           *)
(* (file_system.c).  Processes come and go as jobs of the terminals; how   *)
(* the kernel switches between them is module Processes.                   *)
(*                                                                         *)
(* A call is two steps.  The first is its handler and the store of its     *)
(* result in ret_val; the second loads ret_val and goes back to the        *)
(* program, and interrupts are on in between.  The kernel makes calls too, *)
(* by the same trap: schedule and launch_term call vidmap, halt_func close. *)
(* A handler is one step: what it touches is its own PCB, dir_number and   *)
(* the image nobody writes.  execute is called in the displayed terminal   *)
(* only; what it does to a background one is Processes' hazard "bgexec".   *)
(***************************************************************************)
EXTENDS Integers, Sequences, SequencesExt, FiniteSetsExt

CONSTANTS
  NumTerms,     \* NUM_TERM
  MaxProcs,     \* MAX_PROCESSES
  MaxFiles,     \* MAX_FILES
  BlockSize,    \* FOUR_KB
  MaxBytes,     \* bound: how many bytes a read or write asks for
  MaxCalls,     \* bound: number of system calls
  dir_entries,  \* the directory: a sequence of [file_name, file_type, inode]
  inodes,       \* a function from inode numbers to [length, data_block]
  data_blocks,  \* a function from block numbers to the blocks' bytes
  Hazards       \* what this instance allows

(***************************************************************************)
(* "ctrlc": Ctrl+C while a process of another terminal runs and one of the *)
(* two has files open.  "dirs": a directory opened while another is open,  *)
(* or a listing left unfinished.                                           *)
(***************************************************************************)
ASSUME ConstantsAssumption ==
  /\ NumTerms \in Nat \ {0}
  /\ MaxProcs \in Nat /\ MaxProcs >= NumTerms
  /\ MaxFiles \in Nat /\ MaxFiles >= 2
  /\ BlockSize \in Nat \ {0}
  /\ MaxBytes \in Nat /\ MaxCalls \in Nat
  /\ Hazards \subseteq {"ctrlc", "dirs"}

\* The image: the names differ, regular files have an inode, and inodes name
\* blocks that exist.
ASSUME ImageAssumption ==
  /\ dir_entries \in Seq([file_name : STRING, file_type : 0 .. 3, inode : Nat])
  /\ \A i, j \in 1 .. Len(dir_entries) :
       dir_entries[i].file_name = dir_entries[j].file_name => i = j
  /\ \A i \in 1 .. Len(dir_entries) :
       dir_entries[i].file_type = 2 => dir_entries[i].inode \in DOMAIN inodes
  /\ \A n \in DOMAIN inodes :
       /\ inodes[n].length \in Nat
       /\ \A k \in 0 .. inodes[n].length \div BlockSize :
            inodes[n].data_block[k] \in DOMAIN data_blocks

Terms  == 0 .. NumTerms - 1
Pids   == 0 .. MaxProcs - 1
Fds    == 0 .. MaxFiles - 1
Names  == {dir_entries[i].file_name : i \in 1 .. Len(dir_entries)}
Tables == {"none", "stdin", "stdout", "rtc", "dir", "file"}

VARIABLES
  jobs,           \* per terminal, its processes, each the child of the one before
  curr_term, running_term,
  fd_table,       \* of every PCB, whether or not a process has it
  dir_number,
  ret_val,
  call,           \* per pid, where its call is and the result of its handler
  opened, got,    \* per pid, the descriptors it opened and not closed, and
                  \* what it has read through each descriptor
  calls           \* system calls left

vars == << jobs, curr_term, running_term, fd_table, dir_number, ret_val, call,
           opened, got, calls >>
procs == << jobs, curr_term, running_term >>
files == << fd_table, dir_number, opened, got >>

Values      == -2 .. MaxBytes + MaxFiles + 2
Descriptors == [op_table_ptr : Tables, inode : Nat, file_position : Nat,
                flags : {0, 1}]

TypeOK ==
  /\ jobs \in [Terms -> Seq(Pids)]
  /\ curr_term \in Terms
  /\ running_term \in Terms
  /\ jobs[running_term] # << >>
  /\ fd_table \in [Pids -> [Fds -> Descriptors]]
  /\ dir_number \in 0 .. Len(dir_entries)
  /\ ret_val \in Values
  /\ call \in [Pids -> [at : {"user", "execute", "load"}, eax : Values]]
  /\ opened \in [Pids -> SUBSET Fds]
  /\ DOMAIN got = Pids /\ \A p \in Pids : DOMAIN got[p] = Fds
  /\ calls \in 0 .. MaxCalls

-----------------------------------------------------------------------------
cur_pid == Last(jobs[running_term])
Live    == UNION {ToSet(jobs[t]) : t \in Terms}
InUser  == [at |-> "user", eax |-> 0]

\* init_pcb: standard input and output; the other descriptors stay as the
\* process that had this PCB before has left them.
init_pcb(fds, p) ==
  [fds EXCEPT ![p][0].op_table_ptr = "stdin",  ![p][0].flags = 1,
              ![p][1].op_table_ptr = "stdout", ![p][1].flags = 1]

Init ==
  /\ jobs = [t \in Terms |-> IF t = 0 THEN << 0 >> ELSE << >>]
  /\ curr_term = 0 /\ running_term = 0
  /\ fd_table = init_pcb([p \in Pids |-> [fd \in Fds |->
                            [op_table_ptr |-> "none", inode |-> 0,
                             file_position |-> 0, flags |-> 0]]], 0)
  /\ dir_number = 0
  /\ ret_val = 0
  /\ call = [p \in Pids |-> InUser]
  /\ opened = [p \in Pids |-> {}]
  /\ got = [p \in Pids |-> [fd \in Fds |-> << >>]]
  /\ calls = MaxCalls

-----------------------------------------------------------------------------
(***************************************************************************)
(* The calls that work on descriptors.                                     *)
(***************************************************************************)
Calling == /\ call[cur_pid].at = "user"
           /\ calls > 0
           /\ calls' = calls - 1

\* The result of the handler, in eax, is stored in ret_val.
Result(eax) == /\ call' = [call EXCEPT ![cur_pid] = [at |-> "load", eax |-> eax]]
               /\ ret_val' = eax

\* finish_syscall: eax comes from ret_val as it is by then.
LoadResult ==
  /\ call[cur_pid].at = "load"
  /\ call' = [call EXCEPT ![cur_pid] = InUser]
  /\ UNCHANGED << procs, files, ret_val, calls >>

Listing == \E p \in Pids : \E fd \in opened[p] :
             fd_table[p][fd].op_table_ptr = "dir"

FreeFds_past == {fd \in 2 .. MaxFiles :         \* mutant: one entry too many
                   fd = MaxFiles \/ fd_table[cur_pid][fd].flags = 0}
FreeFds == {fd \in 2 .. MaxFiles - 1 : fd_table[cur_pid][fd].flags = 0}

Tableof(type) == CASE type = 0 -> "rtc" [] type = 1 -> "dir" [] OTHER -> "file"

\* An entry of an unknown type keeps the descriptor it was given.
open_func(name) ==
  /\ Calling
  /\ IF name \notin Names \/ FreeFds = {}
     THEN Result(-1) /\ UNCHANGED files
     ELSE LET fd    == Min(FreeFds)
              entry == dir_entries[CHOOSE i \in 1 .. Len(dir_entries) :
                                     dir_entries[i].file_name = name]
              known == entry.file_type \in 0 .. 2
          IN /\ entry.file_type = 1 => ~Listing \/ "dirs" \in Hazards
             /\ fd_table' = [fd_table EXCEPT ![cur_pid][fd] =
                  [op_table_ptr  |-> IF known THEN Tableof(entry.file_type)
                                              ELSE @.op_table_ptr,
                   inode         |-> IF entry.file_type = 2 THEN entry.inode
                                     ELSE IF known THEN 0 ELSE @.inode,
                   file_position |-> 0,
                   flags         |-> 1]]
             /\ opened' = IF known THEN [opened EXCEPT ![cur_pid] = @ \cup {fd}]
                                   ELSE opened
             /\ got' = [got EXCEPT ![cur_pid][fd] = << >>]
             /\ Result(IF known THEN fd ELSE -1)
             /\ UNCHANGED dir_number
  /\ UNCHANGED procs

\* A listing is left where it is.
Unfinished(p, fds) ==
  dir_number # 0 /\ \E fd \in fds : fd_table[p][fd].op_table_ptr = "dir"

close_func(fd) ==
  /\ Calling
  /\ IF fd \notin Fds \ {0, 1} \/ fd_table[cur_pid][fd].flags = 0
     THEN Result(-1) /\ UNCHANGED files
     ELSE /\ Unfinished(cur_pid, {fd}) => "dirs" \in Hazards
          /\ fd_table' = [fd_table EXCEPT ![cur_pid][fd].flags = 0]
          /\ opened' = [opened EXCEPT ![cur_pid] = @ \ {fd}]
          /\ got' = [got EXCEPT ![cur_pid][fd] = << >>]
          /\ Result(0)
          /\ UNCHANGED dir_number
  /\ UNCHANGED procs

-----------------------------------------------------------------------------
\* read_data: up to length bytes from offset, or -1 as bytes where the copy
\* would go on in a block that does not exist.
read_data(inode, offset, length) ==
  LET node  == inodes[inode]
      avail == IF offset >= node.length THEN 0 ELSE node.length - offset
      count == IF length < avail THEN length ELSE avail
      \* The block looked up for byte i, and for the one after the last.
      block(i) == node.data_block[(offset + i) \div BlockSize]
      lost == \E i \in 1 .. count : /\ (offset + i) % BlockSize = 0
                                    /\ block(i) \notin DOMAIN data_blocks
  IN IF lost THEN << -1, << >> >>
     ELSE << count, [i \in 1 .. count |->
               data_blocks[block(i - 1)][(offset + i - 1) % BlockSize]] >>

file_read_unmoved(fd, n) ==                      \* mutant: position not moved
  LET d    == fd_table[cur_pid][fd]
      data == read_data(d.inode, d.file_position, n)
  IN /\ got' = [got EXCEPT ![cur_pid][fd] = @ \o data[2]]
     /\ Result(data[1])
     /\ UNCHANGED << fd_table, dir_number >>

file_read(fd, n) ==
  LET d    == fd_table[cur_pid][fd]
      data == read_data(d.inode, d.file_position, n)
  IN /\ fd_table' = [fd_table EXCEPT ![cur_pid][fd].file_position = @ + data[1]]
     /\ got' = [got EXCEPT ![cur_pid][fd] = @ \o data[2]]
     /\ Result(data[1])
     /\ UNCHANGED dir_number

\* dir_read: the name of the next entry, then 0 and back to the first.  The
\* length of a name is abstracted to 1.
dir_read_stays(fd) ==                            \* mutant: not back to the first
  /\ IF dir_number < Len(dir_entries)
     THEN /\ got' = [got EXCEPT ![cur_pid][fd] =
                       Append(@, dir_entries[dir_number + 1].file_name)]
          /\ dir_number' = dir_number + 1
          /\ Result(1)
     ELSE /\ got' = [got EXCEPT ![cur_pid][fd] = << >>]
          /\ Result(0)
          /\ UNCHANGED dir_number
  /\ UNCHANGED fd_table

dir_read(fd) ==
  /\ IF dir_number < Len(dir_entries)
     THEN /\ got' = [got EXCEPT ![cur_pid][fd] =
                       Append(@, dir_entries[dir_number + 1].file_name)]
          /\ dir_number' = dir_number + 1
          /\ Result(1)
     ELSE /\ got' = [got EXCEPT ![cur_pid][fd] = << >>]
          /\ dir_number' = 0
          /\ Result(0)
  /\ UNCHANGED fd_table

\* The other read functions; terminal_read returns how long its line is
\* (module Keyboard), rtc_read 0 (module Rtc).
OtherRead(table, n) ==
  /\ \E eax \in CASE table = "stdin" -> 0 .. n
                  [] table = "rtc"   -> {0}
                  [] OTHER           -> {-1} : Result(eax)
  /\ UNCHANGED << fd_table, dir_number, got >>

read_func(fd, n) ==
  /\ Calling
  /\ IF fd \notin Fds \/ fd_table[cur_pid][fd].flags = 0
     THEN Result(-1) /\ UNCHANGED << fd_table, dir_number, got >>
     ELSE LET table == fd_table[cur_pid][fd].op_table_ptr
          IN CASE table = "file" -> file_read(fd, n)
               [] table = "dir"  -> dir_read(fd)
               [] OTHER          -> OtherRead(table, n)
  /\ UNCHANGED << procs, opened >>

\* write_func: terminal_write returns one more than it has written; rtc_write
\* 4, or -1 for a rate it does not take.
write_func(fd, n) ==
  /\ Calling
  /\ LET table == IF fd \in Fds /\ fd_table[cur_pid][fd].flags = 1
                  THEN fd_table[cur_pid][fd].op_table_ptr ELSE "none"
     IN \E eax \in CASE table = "stdout" -> {n + 1}
                     [] table = "rtc"    -> {4, -1}
                     [] OTHER            -> {-1} : Result(eax)
  /\ UNCHANGED << procs, files >>

-----------------------------------------------------------------------------
(***************************************************************************)
(* Processes begin and end.                                                *)
(***************************************************************************)
\* The lowest pid no job of js has, in a new job of terminal t.
NewJob(js, t) ==
  LET p == Min(Pids \ UNION {ToSet(js[u]) : u \in Terms})
  IN [js EXCEPT ![t] = Append(@, p)]

Started(js, fds, own, t) ==
  LET p == Last(NewJob(js, t)[t])
  IN /\ jobs' = NewJob(js, t)
     /\ fd_table' = init_pcb(fds, p)
     /\ opened' = [own EXCEPT ![p] = {}]
     /\ running_term' = t
     /\ UNCHANGED << dir_number, got, curr_term >>

\* The calls that change nothing here: an execute that fails (-1, or -2 for
\* want of a pid), open of stdin or stdout, getargs, vidmap, set_handler,
\* sigreturn, and numbers that are no call.
OtherCall ==
  /\ Calling
  /\ \E eax \in {-1, 0} \cup (IF Live = Pids THEN {-2} ELSE {}) : Result(eax)
  /\ UNCHANGED << procs, files >>

\* execute of a displayed program; its call lasts until the child's halt.
execute_func ==
  /\ Calling
  /\ running_term = curr_term
  /\ Live # Pids
  /\ Started(jobs, fd_table, opened, curr_term)
  /\ call' = [call EXCEPT ![cur_pid] = [at |-> "execute", eax |-> 0]]
  /\ UNCHANGED ret_val

\* halt_func closes, of the process that runs, the descriptors that are in use
\* in the one that ends.
CloseFiles_last(victim) ==                       \* mutant: all but the last
  [fd_table EXCEPT ![cur_pid] =
     [fd \in Fds |-> IF fd \in 2 .. MaxFiles - 2 /\ fd_table[victim][fd].flags = 1
                     THEN [@[fd] EXCEPT !.flags = 0] ELSE @[fd]]]
CloseFiles(victim) ==
  [fd_table EXCEPT ![cur_pid] =
     [fd \in Fds |-> IF fd >= 2 /\ fd_table[victim][fd].flags = 1
                     THEN [@[fd] EXCEPT !.flags = 0] ELSE @[fd]]]

\* What the last of these calls of close leaves in ret_val; those of the
\* standard input and output, which are always in use, leave -1.
ClosesReturn(victim) ==
  LET last == Max({fd \in Fds : fd_table[victim][fd].flags = 1})
  IN IF last >= 2 /\ fd_table[cur_pid][last].flags = 1 THEN 0 ELSE -1

\* The last job of terminal t ends with status: its parent's execute returns,
\* or another shell takes the place of a base shell.
Ended(t, status) ==
  LET victim == Last(jobs[t])
      left   == [jobs EXCEPT ![t] = Front(@)]
      own    == [opened EXCEPT ![victim] = {}]
  IN /\ Unfinished(victim, opened[victim]) => "dirs" \in Hazards
     /\ IF left[t] = << >>
        THEN /\ Started(left, CloseFiles(victim), own, t)
             /\ call' = [call EXCEPT ![victim] = InUser]
             /\ ret_val' = ClosesReturn(victim)
        ELSE /\ jobs' = left
             /\ fd_table' = CloseFiles(victim)
             /\ opened' = own
             /\ running_term' = t
             /\ call' = [call EXCEPT ![victim] = InUser, ![Last(left[t])] =
                           [at |-> "load", eax |-> status]]
             /\ ret_val' = status
             /\ UNCHANGED << dir_number, got, curr_term >>

\* A program halts; the base shell of a terminal only where it is displayed.
halt_func(status) ==
  /\ Calling
  /\ Len(jobs[running_term]) = 1 => running_term = curr_term
  /\ Ended(running_term, status)

\* Ctrl+C ends the process of the displayed terminal, wherever it is.
CtrlC ==
  /\ jobs[curr_term] # << >>
  /\ \/ running_term = curr_term
     \/ opened[cur_pid] \cup opened[Last(jobs[curr_term])] = {}
     \/ "ctrlc" \in Hazards
  /\ Ended(curr_term, 1)
  /\ UNCHANGED calls

\* Alt+Fn displays a terminal, with a call of vidmap, or starts its first shell.
AltF(t) ==
  /\ t # curr_term
  /\ IF jobs[t] # << >>
     THEN /\ curr_term' = t
          /\ ret_val' = 0
          /\ UNCHANGED << jobs, running_term, files, call >>
     ELSE /\ Live # Pids
          /\ jobs' = NewJob(jobs, t)
          /\ fd_table' = init_pcb(fd_table, Last(jobs'[t]))
          /\ curr_term' = t /\ running_term' = t
          /\ UNCHANGED << dir_number, ret_val, call, opened, got >>
  /\ UNCHANGED calls

\* The timer gives the processor to a terminal, with a call of vidmap, as soon
\* as there is one besides terminal 0.
Tick(t) ==
  /\ jobs[t] # << >>
  /\ running_term' = t
  /\ ret_val' = IF \E u \in Terms \ {0} : jobs[u] # << >> THEN 0 ELSE ret_val
  /\ UNCHANGED << jobs, curr_term, files, call, calls >>

Calls == \/ \E name \in Names \cup {"nosuchfile"} : open_func(name)
         \/ \E fd \in 0 .. MaxFiles :
              \/ close_func(fd)
              \/ \E n \in 1 .. MaxBytes : read_func(fd, n) \/ write_func(fd, n)
         \/ execute_func \/ OtherCall
         \/ halt_func(0)

Next == \/ Calls
        \/ LoadResult
        \/ CtrlC
        \/ \E t \in Terms : AltF(t) \/ Tick(t)

Spec == Init /\ [][Next]_vars

-----------------------------------------------------------------------------
(***************************************************************************)
(* Properties.                                                             *)
(***************************************************************************)
\* The descriptors in use in the PCB of a process are the ones it has opened
\* itself and not closed: none comes from the process that had the PCB before,
\* none is closed by another (open_func, close_func, halt_func, init_pcb).
DescriptorsOwned ==
  \A p \in Live : {fd \in Fds : fd >= 2 /\ fd_table[p][fd].flags = 1} = opened[p]

\* The bytes of a regular file.
Contents(inode) ==
  [i \in 1 .. inodes[inode].length |->
     data_blocks[inodes[inode].data_block[(i - 1) \div BlockSize]]
                [(i - 1) % BlockSize]]

\* What a process has read through a descriptor since it opened it is the
\* beginning of the file, without gaps or repeats, however its reads are cut
\* and whoever reads the same file in between (file_read, read_data).
ReadsInOrder ==
  \A p \in Live : \A fd \in opened[p] :
    fd_table[p][fd].op_table_ptr = "file" =>
      got[p][fd] = SubSeq(Contents(fd_table[p][fd].inode), 1,
                          fd_table[p][fd].file_position)

\* A listing of the directory gives the names from the first on, each once,
\* and begins again after its end (dir_read's one dir_number for everybody).
ListsDirectory ==
  \A p \in Live : \A fd \in opened[p] :
    fd_table[p][fd].op_table_ptr = "dir" =>
      got[p][fd] = [i \in 1 .. dir_number |-> dir_entries[i].file_name]

-----------------------------------------------------------------------------
(***************************************************************************)
(* The invariants that the three rest on.  Who has a descriptor also needs *)
(* an image whose entries have the three types open_func knows: with       *)
(* another it keeps a descriptor in use that nobody has.                   *)
(***************************************************************************)
KnownTypes == \A i \in 1 .. Len(dir_entries) : dir_entries[i].file_type \in 0 .. 2

\* No two jobs share a PCB.
JobsDiffer ==
  \A t, u \in Terms : \A i \in 1 .. Len(jobs[t]), j \in 1 .. Len(jobs[u]) :
    jobs[t][i] = jobs[u][j] => t = u /\ i = j

\* Every PCB has in use what its process has opened, and one without a process
\* has nothing; the first two descriptors are never files.
FilesOwned ==
  \A p \in Pids :
    /\ {fd \in Fds : fd >= 2 /\ fd_table[p][fd].flags = 1} = opened[p]
    /\ p \notin Live => opened[p] = {}
    /\ \A fd \in Fds : fd < 2 => fd_table[p][fd].op_table_ptr \notin {"file", "dir"}

\* A descriptor of a file, in use or not, has an inode and a place in its file.
FilesPlaced ==
  \A p \in Pids : \A fd \in Fds :
    LET d == fd_table[p][fd]
    IN d.op_table_ptr = "file" =>
         /\ d.inode \in DOMAIN inodes
         /\ d.file_position <= inodes[d.inode].length

\* A file that is open, also by a process that does not live, has been read up
\* to its position.
FilesRead ==
  \A p \in Pids : \A fd \in opened[p] :
    LET d == fd_table[p][fd]
    IN d.op_table_ptr = "file" =>
         got[p][fd] = SubSeq(Contents(d.inode), 1, d.file_position)

\* One descriptor at most lists the directory, and dir_number is where it is.
Lists(p, fd) == fd \in opened[p] /\ fd_table[p][fd].op_table_ptr = "dir"
OneListing ==
  /\ \A p, q \in Pids : \A fd, g \in Fds :
       Lists(p, fd) /\ Lists(q, g) => p = q /\ fd = g
  /\ \A p \in Pids : \A fd \in Fds :
       Lists(p, fd) => got[p][fd] = [i \in 1 .. dir_number |-> dir_entries[i].file_name]
  /\ ~Listing => dir_number = 0

\* What a descriptor is read through, for every image and all hazards.
ReadingInv == TypeOK /\ JobsDiffer /\ FilesPlaced /\ FilesRead

\* Who has a descriptor, and which one lists.
FilesInv == ReadingInv /\ FilesOwned /\ OneListing

-----------------------------------------------------------------------------
(* What the comments say and the code does not always do.                  *)

\* A system call returns to its caller what its handler has returned.
ReturnsOwnValue ==
  call[cur_pid].at = "load" => ret_val = call[cur_pid].eax
=============================================================================
