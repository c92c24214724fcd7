---------------------------- MODULE MCSystemCalls ----------------------------
(* SystemCalls with a small image: a directory of the clock, the directory    *)
(* itself and a file of four bytes in two blocks that are not in order.       *)
EXTENDS SystemCalls

Directory == << [file_name |-> ".",     file_type |-> 1, inode |-> 0],
                [file_name |-> "rtc",   file_type |-> 0, inode |-> 0],
                [file_name |-> "frame", file_type |-> 2, inode |-> 1] >>
Inodes == [n \in {1} |-> [length |-> 4,
                          data_block |-> [k \in 0 .. 3 |->
                            CASE k = 0 -> 2 [] k = 1 -> 1 [] OTHER -> 0]]]
Blocks == [b \in 0 .. 2 |-> [i \in 0 .. 1 |-> 10 * b + i]]

NoHazards == {}
=============================================================================
