-------------------------- MODULE SystemCalls_proofs --------------------------
(***************************************************************************)
(* Theorems about SystemCalls, for every image, every number of terminals, *)
(* pids and descriptors, and every bound.                                  *)
(***************************************************************************)
EXTENDS SystemCalls, SequenceTheorems, FiniteSetTheorems, TLAPS

-----------------------------------------------------------------------------
(* Lemmas on the data: least elements, the jobs, the blocks of a file.     *)

\* A set of naturals that is not empty has its Min.
LEMMA MinElement ==
  ASSUME NEW S \in SUBSET Nat, S # {}
  PROVE  Min(S) \in S /\ \A y \in S : Min(S) <= y
<1>1. PICK m \in S : \A n \in S : ~ << n, m >> \in OpToRel(<, Nat)
  BY NatLessThanWellFounded, WFMin, Zenon
<1>2. \A n \in S : ~(n < m)
  BY <1>1 DEF OpToRel
<1>3. m \in S /\ \A y \in S : m <= y
  BY <1>2
<1>. QED
  BY <1>3 DEF Min

\* The processes of the jobs js.
LiveIn(js) == UNION {ToSet(js[t]) : t \in Terms}

DifferIn(js) ==
  \A t, u \in Terms : \A i \in 1 .. Len(js[t]), j \in 1 .. Len(js[u]) :
    js[t][i] = js[u][j] => t = u /\ i = j

\* A process lives if it is somewhere in a line of jobs.
LEMMA LiveInJobs ==
  ASSUME NEW js \in [Terms -> Seq(Pids)]
  PROVE  /\ LiveIn(js) \in SUBSET Pids
         /\ \A p : p \in LiveIn(js) <=>
              \E t \in Terms : \E i \in 1 .. Len(js[t]) : js[t][i] = p
<1>1. \A t \in Terms : DOMAIN js[t] = 1 .. Len(js[t]) /\ js[t] \in Seq(Pids)
  OBVIOUS
<1>2. \A t \in Terms : \A i \in 1 .. Len(js[t]) : js[t][i] \in Pids
  BY <1>1
<1>3. \A p : p \in LiveIn(js) <=>
        \E t \in Terms : \E i \in 1 .. Len(js[t]) : js[t][i] = p
  BY <1>1 DEF LiveIn, ToSet
<1>. QED
  BY <1>2, <1>3

\* A new job gets a pid that no job has.
LEMMA NewJobFacts ==
  ASSUME NEW js \in [Terms -> Seq(Pids)], DifferIn(js), LiveIn(js) # Pids,
         NEW t \in Terms
  PROVE  LET p == Last(NewJob(js, t)[t])
         IN /\ p \in Pids \ LiveIn(js)
            /\ NewJob(js, t) \in [Terms -> Seq(Pids)]
            /\ DifferIn(NewJob(js, t))
            /\ LiveIn(NewJob(js, t)) = LiveIn(js) \cup {p}
            /\ NewJob(js, t)[t] # << >>
<1> DEFINE free == Pids \ LiveIn(js)
           p == Min(free)
           new == NewJob(js, t)
<1>1. free \in SUBSET Nat /\ free # {}
  <2>1. LiveIn(js) \in SUBSET Pids
    BY LiveInJobs
  <2>2. \A q \in Pids : q \in Nat
    BY ConstantsAssumption DEF Pids
  <2>. QED
    BY <2>1, <2>2
<1>2. p \in free
  BY <1>1, MinElement
<1>3. new = [js EXCEPT ![t] = Append(@, p)]
  BY DEF NewJob, LiveIn
<1>. HIDE DEF p, free
<1>4. p \in Pids /\ p \notin LiveIn(js)
  BY <1>2 DEF free
<1>5. /\ js[t] \in Seq(Pids) /\ Len(js[t]) \in Nat
      /\ Append(js[t], p) \in Seq(Pids) /\ Append(js[t], p) # << >>
      /\ Len(Append(js[t], p)) = Len(js[t]) + 1
      /\ \A i \in 1 .. Len(js[t]) : Append(js[t], p)[i] = js[t][i]
      /\ Append(js[t], p)[Len(js[t]) + 1] = p
  BY <1>4, AppendProperties
<1>. HIDE DEF new
<1>6. /\ new \in [Terms -> Seq(Pids)]
      /\ new[t] = Append(js[t], p)
      /\ \A u \in Terms \ {t} : new[u] = js[u]
  BY <1>3, <1>5
<1>7. Last(new[t]) = p /\ new[t] # << >>
  BY <1>5, <1>6 DEF Last
<1>8. \A u \in Terms : \A i \in 1 .. Len(new[u]) :
        \/ u = t /\ i = Len(js[t]) + 1 /\ new[u][i] = p
        \/ i \in 1 .. Len(js[u]) /\ new[u][i] = js[u][i]
  <2>1. \A i \in 1 .. Len(js[t]) + 1 : i = Len(js[t]) + 1 \/ i \in 1 .. Len(js[t])
    BY <1>5
  <2>. QED
    BY <1>5, <1>6, <2>1
<1>9. \A q : q \in LiveIn(js) <=>
        \E u \in Terms : \E i \in 1 .. Len(js[u]) : js[u][i] = q
  BY LiveInJobs
<1>10. DifferIn(new)
  <2>1. SUFFICES ASSUME NEW u \in Terms, NEW v \in Terms,
                        NEW i \in 1 .. Len(new[u]), NEW j \in 1 .. Len(new[v]),
                        new[u][i] = new[v][j]
                 PROVE  u = v /\ i = j
    BY DEF DifferIn
  <2>2. \A w \in Terms : \A k \in 1 .. Len(js[w]) : js[w][k] # p
    BY <1>4, <1>9
  <2>3. \/ u = t /\ i = Len(js[t]) + 1 /\ new[u][i] = p
        \/ i \in 1 .. Len(js[u]) /\ new[u][i] = js[u][i]
    BY <1>8
  <2>4. \/ v = t /\ j = Len(js[t]) + 1 /\ new[v][j] = p
        \/ j \in 1 .. Len(js[v]) /\ new[v][j] = js[v][j]
    BY <1>8
  <2>. QED
    BY <2>1, <2>2, <2>3, <2>4 DEF DifferIn
<1>11. LiveIn(new) = LiveIn(js) \cup {p}
  <2>1. \A q : q \in LiveIn(new) <=>
          \E u \in Terms : \E i \in 1 .. Len(new[u]) : new[u][i] = q
    BY <1>6, LiveInJobs
  <2>2. ASSUME NEW q, q \in LiveIn(new)
        PROVE  q \in LiveIn(js) \cup {p}
    <3>1. PICK u \in Terms : \E i \in 1 .. Len(new[u]) : new[u][i] = q
      BY <2>1, <2>2
    <3>2. PICK i \in 1 .. Len(new[u]) : new[u][i] = q
      BY <3>1
    <3>3. q = p \/ (i \in 1 .. Len(js[u]) /\ js[u][i] = q)
      BY <1>8, <3>2
    <3>. QED
      BY <1>9, <3>3
  <2>3. p \in LiveIn(new)
    <3>1. Len(js[t]) + 1 \in 1 .. Len(new[t])
      BY <1>5, <1>6
    <3>. QED
      BY <1>5, <1>6, <2>1, <3>1
  <2>4. ASSUME NEW q, q \in LiveIn(js)
        PROVE  q \in LiveIn(new)
    <3>1. PICK u \in Terms : \E i \in 1 .. Len(js[u]) : js[u][i] = q
      BY <1>9, <2>4
    <3>2. PICK i \in 1 .. Len(js[u]) : js[u][i] = q
      BY <3>1
    <3>3. i \in 1 .. Len(new[u]) /\ new[u][i] = q
      <4>1. \A k \in 1 .. Len(js[t]) : k \in 1 .. Len(js[t]) + 1
        BY <1>5
      <4>2. CASE u = t
        BY <1>5, <1>6, <3>2, <4>1, <4>2
      <4>3. CASE u # t
        BY <1>6, <3>2, <4>3
      <4>. QED
        BY <4>2, <4>3
    <3>. QED
      BY <2>1, <3>3
  <2>. QED
    BY <2>2, <2>3, <2>4
<1>. QED
  BY <1>4, <1>6, <1>7, <1>10, <1>11 DEF new

\* The last job of a terminal leaves.
LEMMA FrontFacts ==
  ASSUME NEW js \in [Terms -> Seq(Pids)], DifferIn(js),
         NEW t \in Terms, js[t] # << >>
  PROVE  LET left == [js EXCEPT ![t] = Front(@)]
             victim == Last(js[t])
         IN /\ victim \in Pids /\ victim \in LiveIn(js)
            /\ left \in [Terms -> Seq(Pids)]
            /\ DifferIn(left)
            /\ LiveIn(left) = LiveIn(js) \ {victim}
            /\ left[t] # << >> => Last(left[t]) \in LiveIn(left)
<1> DEFINE left == [js EXCEPT ![t] = Front(@)]
           victim == Last(js[t])
           k == Len(js[t])
<1>1. js[t] \in Seq(Pids) /\ k \in Nat /\ k >= 1 /\ k \in 1 .. k
  <2>1. js[t] \in Seq(Pids)
    OBVIOUS
  <2>. QED
    BY <2>1, EmptySeq
<1>2. victim = js[t][k] /\ victim \in Pids
  BY <1>1 DEF Last
<1>3. /\ Front(js[t]) \in Seq(Pids) /\ Len(Front(js[t])) = k - 1
      /\ \A i \in 1 .. k - 1 : Front(js[t])[i] = js[t][i]
  <2>1. 1 \in Int /\ k - 1 \in Int /\ \A i \in 1 .. k - 1 : js[t][i] \in Pids
    BY <1>1
  <2>. HIDE DEF k
  <2>2. /\ SubSeq(js[t], 1, k - 1) \in Seq(Pids)
        /\ Len(SubSeq(js[t], 1, k - 1)) = IF 1 <= k - 1 THEN (k - 1) - 1 + 1 ELSE 0
        /\ \A i \in 1 .. (k - 1) - 1 + 1 : SubSeq(js[t], 1, k - 1)[i] = js[t][1 + i - 1]
    BY <2>1, SubSeqProperties
  <2>3. (k - 1) - 1 + 1 = k - 1 /\ \A i \in 1 .. k - 1 : 1 + i - 1 = i
    BY <1>1
  <2>4. Front(js[t]) = SubSeq(js[t], 1, k - 1)
    BY DEF Front, k
  <2>. QED
    BY <1>1, <2>2, <2>3, <2>4
<1>. HIDE DEF left, victim
<1>4. /\ left \in [Terms -> Seq(Pids)]
      /\ left[t] = Front(js[t])
      /\ \A u \in Terms \ {t} : left[u] = js[u]
  BY <1>3 DEF left
<1>. HIDE DEF k
<1>5. \A i : i \in 1 .. k - 1 <=> i \in 1 .. k /\ i # k
  BY <1>1
<1>6. \A u \in Terms : \A i \in 1 .. Len(left[u]) :
        /\ i \in 1 .. Len(js[u]) /\ left[u][i] = js[u][i]
        /\ u = t => i # k
  BY <1>3, <1>4, <1>5 DEF k
<1>7. DifferIn(left)
  BY <1>6 DEF DifferIn
<1>8. /\ \A q : q \in LiveIn(js) <=>
           \E u \in Terms : \E i \in 1 .. Len(js[u]) : js[u][i] = q
      /\ \A q : q \in LiveIn(left) <=>
           \E u \in Terms : \E i \in 1 .. Len(left[u]) : left[u][i] = q
  BY <1>4, LiveInJobs
<1>9. victim \in LiveIn(js)
  BY <1>1, <1>2, <1>8 DEF k
<1>10. LiveIn(left) = LiveIn(js) \ {victim}
  <2>1. ASSUME NEW q, q \in LiveIn(left)
        PROVE  q \in LiveIn(js) /\ q # victim
    <3>1. PICK u \in Terms : \E i \in 1 .. Len(left[u]) : left[u][i] = q
      BY <1>8, <2>1
    <3>2. PICK i \in 1 .. Len(left[u]) : left[u][i] = q
      BY <3>1
    <3>3. i \in 1 .. Len(js[u]) /\ js[u][i] = q /\ (u = t => i # k)
      BY <1>6, <3>2
    <3>4. q # victim
      BY <1>1, <1>2, <3>3 DEF DifferIn, k
    <3>. QED
      BY <1>8, <3>3, <3>4
  <2>2. ASSUME NEW q, q \in LiveIn(js), q # victim
        PROVE  q \in LiveIn(left)
    <3>1. PICK u \in Terms : \E i \in 1 .. Len(js[u]) : js[u][i] = q
      BY <1>8, <2>2
    <3>2. PICK i \in 1 .. Len(js[u]) : js[u][i] = q
      BY <3>1
    <3>3. i \in 1 .. Len(left[u]) /\ left[u][i] = q
      BY <1>2, <1>3, <1>4, <1>5, <2>2, <3>2 DEF k
    <3>. QED
      BY <1>8, <3>3
  <2>. QED
    BY <2>1, <2>2
<1>11. left[t] # << >> => Last(left[t]) \in LiveIn(left)
  <2>1. SUFFICES ASSUME left[t] # << >>
                 PROVE  Last(left[t]) \in LiveIn(left)
    OBVIOUS
  <2>2. left[t] \in Seq(Pids)
    BY <1>4
  <2>3. Len(left[t]) \in Nat /\ Len(left[t]) # 0
    BY <2>1, <2>2, EmptySeq
  <2>4. Len(left[t]) \in 1 .. Len(left[t])
    BY <2>3
  <2>. QED
    BY <1>8, <2>4 DEF Last
<1>. QED
  BY <1>2, <1>4, <1>7, <1>9, <1>10, <1>11 DEF left, victim

\* A block number does not fall with the byte.
LEMMA BlockBounds ==
  ASSUME NEW a \in Nat, NEW b \in Nat, a <= b
  PROVE  a \div BlockSize \in Nat /\ a \div BlockSize <= b \div BlockSize
BY ConstantsAssumption

\* read_data finds the next bytes of a file, no more than asked for.
LEMMA ReadData ==
  ASSUME NEW n \in DOMAIN inodes, NEW offset \in Nat,
         offset <= inodes[n].length, NEW length \in Nat
  PROVE  LET data == read_data(n, offset, length)
         IN /\ data[1] \in 0 .. length
            /\ offset + data[1] <= inodes[n].length
            /\ SubSeq(Contents(n), 1, offset) \o data[2]
                 = SubSeq(Contents(n), 1, offset + data[1])
<1> DEFINE node == inodes[n]
           avail == IF offset >= node.length THEN 0 ELSE node.length - offset
           count == IF length < avail THEN length ELSE avail
           block(i) == node.data_block[(offset + i) \div BlockSize]
           bytes == [i \in 1 .. count |->
                       data_blocks[block(i - 1)][(offset + i - 1) % BlockSize]]
<1>1. node.length \in Nat /\ BlockSize \in Nat \ {0}
  BY ImageAssumption, ConstantsAssumption
<1>. HIDE DEF node
<1>2. avail \in Nat /\ avail = node.length - offset /\ offset <= node.length
  BY <1>1 DEF node
<1>3. count \in Nat /\ count <= length /\ offset + count <= node.length
  BY <1>1, <1>2
<1>. HIDE DEF avail, count
<1>4. ~\E i \in 1 .. count : /\ (offset + i) % BlockSize = 0
                             /\ block(i) \notin DOMAIN data_blocks
  <2>1. ASSUME NEW i \in 1 .. count
        PROVE  block(i) \in DOMAIN data_blocks
    <3>1. offset + i \in Nat /\ offset + i <= node.length
      BY <1>1, <1>3
    <3>2. node.length \div BlockSize \in Nat
      BY <1>1, BlockBounds
    <3>3. (offset + i) \div BlockSize \in 0 .. node.length \div BlockSize
      <4>1. /\ (offset + i) \div BlockSize \in Nat
            /\ (offset + i) \div BlockSize <= node.length \div BlockSize
        BY <1>1, <3>1, BlockBounds
      <4>. QED
        BY <3>2, <4>1
    <3>. QED
      BY <3>3, ImageAssumption DEF node
  <2>. QED
    BY <2>1
<1>5. read_data(n, offset, length) = << count, bytes >>
  BY <1>4 DEF read_data, node, avail, count
<1> DEFINE C == Contents(n)
           N == node.length
<1>6. /\ C = [i \in 1 .. N |-> C[i]]
      /\ \A i \in 1 .. N : C[i] = data_blocks[node.data_block[(i - 1) \div BlockSize]]
                                             [(i - 1) % BlockSize]
  BY DEF Contents, node
<1> DEFINE S == {C[i] : i \in 1 .. N}
<1>. HIDE DEF C
<1>8. \A i \in 1 .. count : /\ bytes[i] = C[offset + i]
                            /\ offset + i \in 1 .. N
  <2>1. SUFFICES ASSUME NEW i \in 1 .. count
                 PROVE  bytes[i] = C[offset + i] /\ offset + i \in 1 .. N
    OBVIOUS
  <2>2. offset + i \in 1 .. N
    BY <1>1, <1>3
  <2>3. offset + (i - 1) = (offset + i) - 1
    BY <1>3
  <2>4. bytes[i] = data_blocks[node.data_block[(offset + (i - 1)) \div BlockSize]]
                              [(offset + (i - 1)) % BlockSize]
    OBVIOUS
  <2>5. C[offset + i]
          = data_blocks[node.data_block[((offset + i) - 1) \div BlockSize]]
                       [((offset + i) - 1) % BlockSize]
    BY <1>6, <2>2
  <2>. HIDE DEF bytes
  <2>. QED
    BY <2>2, <2>3, <2>4, <2>5
<1>9. bytes \in Seq(S) /\ Len(bytes) = count
  <2>1. \A i \in 1 .. count : bytes[i] \in S
    BY <1>8
  <2>2. bytes = [i \in 1 .. count |-> bytes[i]]
    OBVIOUS
  <2>. HIDE DEF bytes, S
  <2>3. bytes \in [1 .. count -> S]
    BY <2>1, <2>2
  <2>. QED
    BY <1>3, <2>3
<1>. HIDE DEF bytes
<1>10. ASSUME NEW m \in Nat, m <= N
       PROVE  /\ SubSeq(C, 1, m) \in Seq(S) /\ Len(SubSeq(C, 1, m)) = m
              /\ \A i \in 1 .. m : SubSeq(C, 1, m)[i] = C[i]
  <2>1. 1 \in Int /\ m \in Int /\ \A i \in 1 .. m : C[i] \in S
    BY <1>1, <1>10
  <2>. HIDE DEF S
  <2>2. /\ SubSeq(C, 1, m) \in Seq(S)
        /\ Len(SubSeq(C, 1, m)) = IF 1 <= m THEN m - 1 + 1 ELSE 0
        /\ \A i \in 1 .. m - 1 + 1 : SubSeq(C, 1, m)[i] = C[1 + i - 1]
    BY <2>1, SubSeqProperties
  <2>3. m - 1 + 1 = m /\ \A i \in 1 .. m : 1 + i - 1 = i
    BY <1>10
  <2>. QED
    BY <1>10, <2>2, <2>3
<1>. HIDE DEF S
<1>11. SubSeq(C, 1, offset) \o bytes = SubSeq(C, 1, offset + count)
  <2> DEFINE a == SubSeq(C, 1, offset)
             b == SubSeq(C, 1, offset + count)
  <2>1. /\ a \in Seq(S) /\ Len(a) = offset
        /\ \A i \in 1 .. offset : a[i] = C[i]
    BY <1>2, <1>10
  <2>2. /\ b \in Seq(S) /\ Len(b) = offset + count
        /\ \A i \in 1 .. offset + count : b[i] = C[i]
    BY <1>3, <1>10
  <2>. HIDE DEF a, b
  <2>3. /\ a \o bytes \in Seq(S) /\ Len(a \o bytes) = offset + count
        /\ \A i \in 1 .. Len(a) + Len(bytes) :
             (a \o bytes)[i] = IF i <= Len(a) THEN a[i] ELSE bytes[i - Len(a)]
    BY <1>9, <2>1, ConcatProperties
  <2>4. \A i \in 1 .. offset + count : (a \o bytes)[i] = b[i]
    <3>1. SUFFICES ASSUME NEW i \in 1 .. offset + count
                   PROVE  (a \o bytes)[i] = C[i]
      BY <2>2
    <3>2. CASE i <= offset
      <4>1. i \in 1 .. offset /\ i \in 1 .. Len(a) + Len(bytes)
        BY <1>3, <1>9, <2>1, <3>2
      <4>. QED
        BY <2>1, <2>3, <3>2, <4>1
    <3>3. CASE ~(i <= offset)
      <4>1. i - offset \in 1 .. count /\ offset + (i - offset) = i
            /\ i \in 1 .. Len(a) + Len(bytes)
        BY <1>3, <1>9, <2>1, <3>3
      <4>. QED
        BY <1>8, <2>1, <2>3, <3>3, <4>1
    <3>. QED
      BY <3>2, <3>3
  <2>. QED
    BY <2>2, <2>3, <2>4, SeqEqual DEF a, b
<1>. QED
  BY <1>3, <1>5, <1>11 DEF C, node

-----------------------------------------------------------------------------
(* Lemmas on the descriptors and on processes that begin and end.          *)

\* The descriptors of all PCBs.
FdTables == [Pids -> [Fds -> Descriptors]]

\* The process that runs lives.
LEMMA CurPid ==
  ASSUME TypeOK
  PROVE  cur_pid \in Pids /\ cur_pid \in Live
<1>1. jobs \in [Terms -> Seq(Pids)] /\ running_term \in Terms
      /\ jobs[running_term] # << >>
  BY DEF TypeOK
<1>2. jobs[running_term] \in Seq(Pids)
  BY <1>1
<1>3. Len(jobs[running_term]) \in 1 .. Len(jobs[running_term])
  BY <1>1, <1>2, EmptySeq
<1>4. cur_pid \in LiveIn(jobs) /\ LiveIn(jobs) \in SUBSET Pids
  BY <1>1, <1>3, LiveInJobs DEF cur_pid, Last
<1>. QED
  BY <1>4 DEF Live, LiveIn

\* Live and JobsDiffer speak of the jobs there are.
LEMMA JobsNow ==
  /\ Live = LiveIn(jobs) /\ (JobsDiffer <=> DifferIn(jobs))
  /\ Live' = LiveIn(jobs') /\ (JobsDiffer' <=> DifferIn(jobs'))
BY DEF Live, LiveIn, JobsDiffer, DifferIn

\* There are two descriptors at least, and the numbers of the first are theirs.
LEMMA FirstFds == 0 \in Fds /\ 1 \in Fds /\ Fds \subseteq Nat
BY ConstantsAssumption DEF Fds

\* init_pcb opens the first two descriptors of p and touches no other.
LEMMA InitPcb ==
  ASSUME NEW fds \in FdTables, NEW p \in Pids
  PROVE  /\ init_pcb(fds, p) \in FdTables
         /\ \A q \in Pids, fd \in Fds :
              (q = p /\ fd < 2) \/ init_pcb(fds, p)[q][fd] = fds[q][fd]
         /\ \A fd \in {0, 1} :
              LET d == init_pcb(fds, p)[p][fd]
              IN /\ d.op_table_ptr \in {"stdin", "stdout"} /\ d.flags = 1
                 /\ d.inode = fds[p][fd].inode
                 /\ d.file_position = fds[p][fd].file_position
<1> DEFINE new == init_pcb(fds, p)
           row == [fds[p] EXCEPT ![0] = [@ EXCEPT !.op_table_ptr = "stdin", !.flags = 1],
                                 ![1] = [@ EXCEPT !.op_table_ptr = "stdout", !.flags = 1]]
<1>1. fds[p] \in [Fds -> Descriptors] /\ 0 \in Fds /\ 1 \in Fds /\ 0 # 1
  BY FirstFds DEF FdTables
<1>2. ASSUME NEW fd \in {0, 1}, NEW table \in {"stdin", "stdout"}
      PROVE  LET d == [fds[p][fd] EXCEPT !.op_table_ptr = table, !.flags = 1]
             IN /\ d \in Descriptors /\ d.op_table_ptr = table /\ d.flags = 1
                /\ d.inode = fds[p][fd].inode
                /\ d.file_position = fds[p][fd].file_position
  <2>1. fds[p][fd] \in Descriptors
    BY <1>1
  <2>2. table \in Tables
    BY DEF Tables
  <2>. QED
    BY <2>1, <2>2 DEF Descriptors
<1>3. /\ row \in [Fds -> Descriptors]
      /\ row[0] = [fds[p][0] EXCEPT !.op_table_ptr = "stdin", !.flags = 1]
      /\ row[1] = [fds[p][1] EXCEPT !.op_table_ptr = "stdout", !.flags = 1]
      /\ \A fd \in Fds \ {0, 1} : row[fd] = fds[p][fd]
  BY <1>1, <1>2
<1>4. new = [fds EXCEPT ![p] = row]
  BY <1>1 DEF init_pcb, FdTables
<1>. HIDE DEF new, row
<1>5. new \in FdTables /\ new[p] = row /\ \A q \in Pids \ {p} : new[q] = fds[q]
  BY <1>3, <1>4 DEF FdTables
<1>6. \A fd \in Fds : fd < 2 \/ fd \in Fds \ {0, 1}
  BY FirstFds
<1>7. ASSUME NEW fd \in {0, 1}
      PROVE  LET d == new[p][fd]
             IN /\ d.op_table_ptr \in {"stdin", "stdout"} /\ d.flags = 1
                /\ d.inode = fds[p][fd].inode
                /\ d.file_position = fds[p][fd].file_position
  <2>1. PICK table \in {"stdin", "stdout"} :
          row[fd] = [fds[p][fd] EXCEPT !.op_table_ptr = table, !.flags = 1]
    BY <1>3
  <2>2. new[p][fd] = [fds[p][fd] EXCEPT !.op_table_ptr = table, !.flags = 1]
    BY <1>5, <2>1
  <2>. QED
    BY <1>2, <2>2
<1>. QED
  BY <1>3, <1>5, <1>6, <1>7 DEF new

\* The calls of close in halt_func free descriptors of the process that runs.
LEMMA CloseFilesFacts ==
  ASSUME TypeOK, NEW victim \in Pids
  PROVE  /\ CloseFiles(victim) \in FdTables
         /\ \A q \in Pids, fd \in Fds :
              LET d == CloseFiles(victim)[q][fd]
              IN /\ d.op_table_ptr = fd_table[q][fd].op_table_ptr
                 /\ d.inode = fd_table[q][fd].inode
                 /\ d.file_position = fd_table[q][fd].file_position
                 /\ d.flags = IF q = cur_pid /\ fd >= 2 /\ fd_table[victim][fd].flags = 1
                              THEN 0 ELSE fd_table[q][fd].flags
<1> DEFINE row == [fd \in Fds |-> IF fd >= 2 /\ fd_table[victim][fd].flags = 1
                     THEN [fd_table[cur_pid][fd] EXCEPT !.flags = 0]
                     ELSE fd_table[cur_pid][fd]]
           new == CloseFiles(victim)
<1>1. cur_pid \in Pids /\ fd_table \in FdTables
  BY CurPid DEF TypeOK, FdTables
<1>2. fd_table[cur_pid] \in [Fds -> Descriptors]
  BY <1>1 DEF FdTables
<1>3. \A fd \in Fds :
        LET d == fd_table[cur_pid][fd]
            e == [d EXCEPT !.flags = 0]
        IN /\ e \in Descriptors /\ e.flags = 0 /\ e.op_table_ptr = d.op_table_ptr
           /\ e.inode = d.inode /\ e.file_position = d.file_position
  BY <1>2 DEF Descriptors
<1>4. new = [fd_table EXCEPT ![cur_pid] = row]
  BY <1>1 DEF CloseFiles, FdTables
<1>5. row \in [Fds -> Descriptors]
  BY <1>2, <1>3
<1>6. \A fd \in Fds : row[fd] = IF fd >= 2 /\ fd_table[victim][fd].flags = 1
                     THEN [fd_table[cur_pid][fd] EXCEPT !.flags = 0]
                     ELSE fd_table[cur_pid][fd]
  OBVIOUS
<1>. HIDE DEF row, new
<1>7. new \in FdTables /\ new[cur_pid] = row
      /\ \A q \in Pids \ {cur_pid} : new[q] = fd_table[q]
  BY <1>1, <1>4, <1>5 DEF FdTables
<1>8. ASSUME NEW q \in Pids, NEW fd \in Fds
      PROVE  LET d == new[q][fd]
             IN /\ d.op_table_ptr = fd_table[q][fd].op_table_ptr
                /\ d.inode = fd_table[q][fd].inode
                /\ d.file_position = fd_table[q][fd].file_position
                /\ d.flags = IF q = cur_pid /\ fd >= 2 /\ fd_table[victim][fd].flags = 1
                             THEN 0 ELSE fd_table[q][fd].flags
  <2>1. CASE q # cur_pid
    BY <1>7, <2>1
  <2>2. CASE q = cur_pid /\ fd >= 2 /\ fd_table[victim][fd].flags = 1
    <3>1. new[q][fd] = [fd_table[cur_pid][fd] EXCEPT !.flags = 0]
      BY <1>6, <1>7, <2>2
    <3>. QED
      BY <1>3, <2>2, <3>1
  <2>3. CASE q = cur_pid /\ ~(fd >= 2 /\ fd_table[victim][fd].flags = 1)
    <3>1. new[q][fd] = fd_table[q][fd]
      BY <1>6, <1>7, <2>3
    <3>. QED
      BY <2>3, <3>1
  <2>. QED
    BY <2>1, <2>2, <2>3
<1>. QED
  BY <1>7, <1>8 DEF new

\* A process has begun as a new job of terminal t.
LEMMA StartedFacts ==
  ASSUME NEW js \in [Terms -> Seq(Pids)], DifferIn(js), LiveIn(js) # Pids,
         NEW t \in Terms, NEW fds, NEW own, Started(js, fds, own, t)
  PROVE  /\ jobs' \in [Terms -> Seq(Pids)] /\ DifferIn(jobs')
         /\ jobs'[t] # << >> /\ running_term' = t
         /\ UNCHANGED << dir_number, got, curr_term >>
         /\ \E p \in Pids \ LiveIn(js) :
              /\ LiveIn(jobs') = LiveIn(js) \cup {p}
              /\ fd_table' = init_pcb(fds, p)
              /\ opened' = [own EXCEPT ![p] = {}]
<1> DEFINE p == Last(NewJob(js, t)[t])
<1>1. /\ p \in Pids \ LiveIn(js)
      /\ NewJob(js, t) \in [Terms -> Seq(Pids)]
      /\ DifferIn(NewJob(js, t))
      /\ LiveIn(NewJob(js, t)) = LiveIn(js) \cup {p}
      /\ NewJob(js, t)[t] # << >>
  BY NewJobFacts
<1>2. /\ jobs' = NewJob(js, t)
      /\ fd_table' = init_pcb(fds, p)
      /\ opened' = [own EXCEPT ![p] = {}]
      /\ running_term' = t
      /\ UNCHANGED << dir_number, got, curr_term >>
  BY DEF Started
<1>. HIDE DEF p
<1>. QED
  BY <1>1, <1>2

\* The last job of terminal t has ended.
LEMMA EndedFacts ==
  ASSUME TypeOK, JobsDiffer, NEW t \in Terms, jobs[t] # << >>, NEW status,
         Ended(t, status)
  PROVE  LET victim == Last(jobs[t])
             own    == [opened EXCEPT ![victim] = {}]
         IN /\ victim \in Pids /\ victim \in Live
            /\ jobs' \in [Terms -> Seq(Pids)] /\ DifferIn(jobs')
            /\ jobs'[t] # << >> /\ running_term' = t
            /\ UNCHANGED << dir_number, got, curr_term >>
            /\ \/ /\ LiveIn(jobs') = Live \ {victim}
                  /\ fd_table' = CloseFiles(victim)
                  /\ opened' = own
               \/ \E p \in Pids \ (Live \ {victim}) :
                    /\ LiveIn(jobs') = (Live \ {victim}) \cup {p}
                    /\ fd_table' = init_pcb(CloseFiles(victim), p)
                    /\ opened' = [own EXCEPT ![p] = {}]
<1> DEFINE victim == Last(jobs[t])
           left   == [jobs EXCEPT ![t] = Front(@)]
           own    == [opened EXCEPT ![victim] = {}]
<1>1. jobs \in [Terms -> Seq(Pids)] /\ DifferIn(jobs) /\ Live = LiveIn(jobs)
  BY JobsNow DEF TypeOK
<1>2. /\ victim \in Pids /\ victim \in Live
      /\ left \in [Terms -> Seq(Pids)]
      /\ DifferIn(left)
      /\ LiveIn(left) = Live \ {victim}
  BY <1>1, FrontFacts
<1>3. CASE left[t] = << >>
  <2>1. Started(left, CloseFiles(victim), own, t)
    BY <1>3 DEF Ended
  <2>2. LiveIn(left) # Pids
    BY <1>2
  <2>. HIDE DEF left, own, victim
  <2>3. /\ jobs' \in [Terms -> Seq(Pids)] /\ DifferIn(jobs')
        /\ jobs'[t] # << >> /\ running_term' = t
        /\ UNCHANGED << dir_number, got, curr_term >>
        /\ \E p \in Pids \ LiveIn(left) :
             /\ LiveIn(jobs') = LiveIn(left) \cup {p}
             /\ fd_table' = init_pcb(CloseFiles(victim), p)
             /\ opened' = [own EXCEPT ![p] = {}]
    BY <1>2, <2>1, <2>2, StartedFacts
  <2>. QED
    BY <1>2, <2>3 DEF own, victim
<1>4. CASE left[t] # << >>
  <2>1. /\ jobs' = left /\ fd_table' = CloseFiles(victim) /\ opened' = own
        /\ running_term' = t /\ UNCHANGED << dir_number, got, curr_term >>
    BY <1>4 DEF Ended
  <2>. HIDE DEF left, own, victim
  <2>. QED
    BY <1>2, <1>4, <2>1 DEF own, victim
<1>. QED
  BY <1>3, <1>4

-----------------------------------------------------------------------------
(* The jobs stay lists of different processes.                             *)

\* What TypeOK and JobsDiffer say of the jobs and terminals.
JobsTyped == /\ jobs \in [Terms -> Seq(Pids)]
             /\ curr_term \in Terms /\ running_term \in Terms
             /\ jobs[running_term] # << >>
             /\ JobsDiffer

\* A step keeps the jobs lists of different processes, one of them running.
LEMMA JobsStep ==
  ASSUME TypeOK, JobsDiffer, Next
  PROVE  JobsTyped'
<1>1. /\ jobs \in [Terms -> Seq(Pids)] /\ curr_term \in Terms
      /\ running_term \in Terms /\ jobs[running_term] # << >>
      /\ DifferIn(jobs) /\ Live = LiveIn(jobs)
  BY JobsNow DEF TypeOK
<1>2. SUFFICES /\ jobs' \in [Terms -> Seq(Pids)] /\ curr_term' \in Terms
               /\ running_term' \in Terms /\ jobs'[running_term'] # << >>
               /\ DifferIn(jobs')
  BY JobsNow DEF JobsTyped
<1>3. CASE UNCHANGED procs
  BY <1>1, <1>3 DEF procs
<1>4. CASE execute_func
  BY <1>1, <1>4, StartedFacts DEF execute_func
<1>5. CASE halt_func(0)
  BY <1>1, <1>5, EndedFacts DEF halt_func
<1>6. CASE CtrlC
  BY <1>1, <1>6, EndedFacts DEF CtrlC
<1>7. ASSUME NEW t \in Terms, AltF(t)
      PROVE  /\ jobs' \in [Terms -> Seq(Pids)] /\ curr_term' \in Terms
             /\ running_term' \in Terms /\ jobs'[running_term'] # << >>
             /\ DifferIn(jobs')
  <2>1. CASE jobs[t] # << >>
    BY <1>1, <1>7, <2>1 DEF AltF
  <2>2. CASE jobs[t] = << >>
    <3>1. Live # Pids /\ jobs' = NewJob(jobs, t) /\ curr_term' = t /\ running_term' = t
      BY <1>7, <2>2 DEF AltF
    <3>. QED
      BY <1>1, <3>1, NewJobFacts
  <2>. QED
    BY <2>1, <2>2
<1>8. ASSUME NEW t \in Terms, Tick(t)
      PROVE  /\ jobs' \in [Terms -> Seq(Pids)] /\ curr_term' \in Terms
             /\ running_term' \in Terms /\ jobs'[running_term'] # << >>
             /\ DifferIn(jobs')
  BY <1>1, <1>8 DEF Tick
<1>9. CASE Calls
  <2>1. CASE \E name \in Names \cup {"nosuchfile"} : open_func(name)
    BY <1>3, <2>1 DEF open_func
  <2>2. ASSUME NEW fd, NEW n,
               close_func(fd) \/ read_func(fd, n) \/ write_func(fd, n)
        PROVE  UNCHANGED procs
    BY <2>2 DEF close_func, read_func, write_func
  <2>3. CASE OtherCall
    BY <1>3, <2>3 DEF OtherCall
  <2>4. CASE \E fd \in 0 .. MaxFiles :
              \/ close_func(fd)
              \/ \E n \in 1 .. MaxBytes : read_func(fd, n) \/ write_func(fd, n)
    BY <1>3, <2>2, <2>4
  <2>. QED
    BY <1>4, <1>5, <1>9, <2>1, <2>3, <2>4 DEF Calls
<1>10. CASE LoadResult
  BY <1>3, <1>10 DEF LoadResult
<1>. QED
  BY <1>6, <1>7, <1>8, <1>9, <1>10 DEF Next

-----------------------------------------------------------------------------
(* What the calls return and what a descriptor is read through.            *)

\* What TypeOK says of the calls, and of the descriptors.
CallsTyped == /\ dir_number \in 0 .. Len(dir_entries)
              /\ ret_val \in Values
              /\ call \in [Pids -> [at : {"user", "execute", "load"}, eax : Values]]
              /\ calls \in 0 .. MaxCalls
GotTyped == DOMAIN got = Pids /\ \A p \in Pids : DOMAIN got[p] = Fds
FilesTyped == /\ fd_table \in FdTables
              /\ opened \in [Pids -> SUBSET Fds]
              /\ GotTyped
FilesPart == FilesTyped /\ FilesPlaced /\ FilesRead

\* The parts of the invariant.
LEMMA ReadingParts ==
  /\ ReadingInv <=> JobsTyped /\ CallsTyped /\ FilesPart
  /\ ReadingInv' <=> JobsTyped' /\ CallsTyped' /\ FilesPart'
BY DEF ReadingInv, TypeOK, JobsTyped, CallsTyped, GotTyped, FilesTyped, FilesPart, FdTables

\* The small values, the descriptors and what a read asks for can be returned.
LEMMA SmallValues ==
  /\ Values \subseteq Int /\ -2 .. 4 \subseteq Values /\ Fds \subseteq Values
  /\ 0 .. MaxBytes + 1 \subseteq Values
BY ConstantsAssumption DEF Values, Fds

\* A call leaves a result.
LEMMA ResultTyped ==
  ASSUME TypeOK, NEW eax \in Values, Result(eax)
  PROVE  /\ ret_val' \in Values
         /\ call' \in [Pids -> [at : {"user", "execute", "load"}, eax : Values]]
BY CurPid DEF TypeOK, Result

\* A call is one call less to make.
LEMMA CallingTyped ==
  ASSUME TypeOK, Calling
  PROVE  calls' \in 0 .. MaxCalls
BY ConstantsAssumption DEF TypeOK, Calling

\* One descriptor changes, or what has been read through it.
SetsDescriptor(q, fd, d) == fd_table' = [fd_table EXCEPT ![q][fd] = d]
SetsGot(q, fd, v) == got' = [got EXCEPT ![q][fd] = v]

\* The other descriptors keep what they are.
LEMMA SetDescriptor ==
  ASSUME TypeOK, NEW q \in Pids, NEW fd \in Fds, NEW d \in Descriptors,
         SetsDescriptor(q, fd, d)
  PROVE  /\ fd_table' \in FdTables /\ fd_table'[q][fd] = d
         /\ \A p \in Pids, g \in Fds :
              p # q \/ g # fd => fd_table'[p][g] = fd_table[p][g]
<1>1. fd_table \in FdTables
  BY DEF TypeOK, FdTables
<1>2. fd_table[q] \in [Fds -> Descriptors]
      /\ [fd_table[q] EXCEPT ![fd] = d] \in [Fds -> Descriptors]
  BY <1>1 DEF FdTables
<1>. QED
  BY <1>1, <1>2 DEF FdTables, SetsDescriptor

\* The others keep what has been read through them.
LEMMA SetGot ==
  ASSUME TypeOK, NEW q \in Pids, NEW fd \in Fds, NEW v,
         SetsGot(q, fd, v)
  PROVE  /\ GotTyped' /\ got'[q][fd] = v
         /\ \A p \in Pids, g \in Fds : p # q \/ g # fd => got'[p][g] = got[p][g]
<1>1. DOMAIN got = Pids /\ \A p \in Pids : DOMAIN got[p] = Fds
  BY DEF TypeOK
<1> DEFINE row == [got[q] EXCEPT ![fd] = v]
<1>2. DOMAIN row = Fds /\ row[fd] = v /\ \A g \in Fds : g # fd => row[g] = got[q][g]
  BY <1>1
<1>3. got' = [got EXCEPT ![q] = row]
  BY DEF SetsGot
<1>. HIDE DEF row
<1>4. DOMAIN got' = Pids /\ got'[q] = row /\ \A p \in Pids : p # q => got'[p] = got[p]
  BY <1>1, <1>3
<1>5. \A p \in Pids : DOMAIN got'[p] = Fds
  BY <1>1, <1>2, <1>4
<1>. QED
  BY <1>2, <1>4, <1>5 DEF GotTyped

\* Where no descriptor moves in its file and none is newly open, what has been
\* read stays where it is.
LEMMA FewerKeep ==
  ASSUME FilesPart, fd_table' \in FdTables, opened' \in [Pids -> SUBSET Fds],
         GotTyped',
         \A q \in Pids, fd \in Fds :
           /\ fd_table'[q][fd].inode = fd_table[q][fd].inode
           /\ fd_table'[q][fd].file_position = fd_table[q][fd].file_position
           /\ \/ fd_table'[q][fd].op_table_ptr = fd_table[q][fd].op_table_ptr
              \/ fd_table'[q][fd].op_table_ptr \in {"stdin", "stdout"},
         \A q \in Pids : opened'[q] \subseteq opened[q],
         \A q \in Pids : \A fd \in opened'[q] : got'[q][fd] = got[q][fd]
  PROVE  FilesPart'
<1>1. FilesTyped'
  BY DEF FilesTyped
<1>2. FilesPlaced'
  BY DEF FilesPlaced, FilesPart
<1>3. FilesRead'
  <2>1. SUFFICES ASSUME NEW q \in Pids, NEW fd \in opened'[q],
                        fd_table'[q][fd].op_table_ptr = "file"
                 PROVE  got'[q][fd] = SubSeq(Contents(fd_table'[q][fd].inode), 1,
                                             fd_table'[q][fd].file_position)
    BY DEF FilesRead, Contents
  <2>2. fd \in opened[q] /\ fd \in Fds
    BY DEF FilesPart, FilesTyped
  <2>3. /\ fd_table'[q][fd].inode = fd_table[q][fd].inode
        /\ fd_table'[q][fd].file_position = fd_table[q][fd].file_position
        /\ fd_table[q][fd].op_table_ptr = "file"
    BY <2>1, <2>2
  <2>4. got[q][fd] = SubSeq(Contents(fd_table[q][fd].inode), 1,
                            fd_table[q][fd].file_position)
    BY <2>2, <2>3 DEF FilesPart, FilesRead
  <2>. QED
    BY <2>3, <2>4
<1>. QED
  BY <1>1, <1>2, <1>3 DEF FilesPart

\* Where the files stay as they are.
LEMMA SameFiles ==
  ASSUME FilesPart, UNCHANGED << fd_table, opened, got >>
  PROVE  FilesPart'
<1>1. /\ fd_table' \in FdTables /\ opened' \in [Pids -> SUBSET Fds]
      /\ GotTyped'
  BY DEF FilesPart, FilesTyped, GotTyped
<1>2. \A q \in Pids, fd \in Fds :
        /\ fd_table'[q][fd].inode = fd_table[q][fd].inode
        /\ fd_table'[q][fd].file_position = fd_table[q][fd].file_position
        /\ fd_table'[q][fd].op_table_ptr = fd_table[q][fd].op_table_ptr
  OBVIOUS
<1>3. /\ \A q \in Pids : opened'[q] \subseteq opened[q]
      /\ \A q \in Pids : \A fd \in opened'[q] : got'[q][fd] = got[q][fd]
  OBVIOUS
<1>. QED
  BY <1>1, <1>2, <1>3, FewerKeep

\* Nothing has been read at the beginning of a file.
LEMMA NothingRead == \A n : SubSeq(Contents(n), 1, 0) = << >>
<1>1. ASSUME NEW s
      PROVE  SubSeq(s, 1, 0) = << >>
  <2>1. \A i \in 1 .. 0 : s[i] \in {}
    OBVIOUS
  <2>2. /\ SubSeq(s, 1, 0) \in Seq({})
        /\ Len(SubSeq(s, 1, 0)) = IF 1 <= 0 THEN 0 - 1 + 1 ELSE 0
    BY <2>1, SubSeqProperties
  <2>. QED
    BY <2>2, EmptySeq
<1>. QED
  BY <1>1

\* The entry of a name in the directory.
LEMMA EntryFacts ==
  ASSUME NEW name \in Names
  PROVE  LET i == CHOOSE i \in 1 .. Len(dir_entries) : dir_entries[i].file_name = name
         IN /\ i \in 1 .. Len(dir_entries)
            /\ dir_entries[i].file_type \in 0 .. 3
            /\ dir_entries[i].file_type = 2 => dir_entries[i].inode \in DOMAIN inodes
            /\ dir_entries[i].inode \in Nat
<1>1. PICK i \in 1 .. Len(dir_entries) : dir_entries[i].file_name = name
  BY DEF Names
<1> DEFINE k == CHOOSE k \in 1 .. Len(dir_entries) : dir_entries[k].file_name = name
<1>2. k \in 1 .. Len(dir_entries)
  BY <1>1
<1>. HIDE DEF k
<1>3. dir_entries[k] \in [file_name : STRING, file_type : 0 .. 3, inode : Nat]
  <2> DEFINE Entries == [file_name : STRING, file_type : 0 .. 3, inode : Nat]
  <2>1. dir_entries \in Seq(Entries)
    BY ImageAssumption
  <2>. HIDE DEF Entries
  <2>2. dir_entries[k] \in Entries
    BY <1>2, <2>1, ElementOfSeq
  <2>. QED
    BY <2>2 DEF Entries
<1>. QED
  BY <1>2, <1>3, ImageAssumption DEF k

-----------------------------------------------------------------------------
(* What the calls on descriptors do, and that it keeps ReadingInv.         *)

\* An open that succeeds takes a descriptor not in use and points it at the
\* entry's type, from its beginning.
LEMMA OpenFacts ==
  ASSUME TypeOK, NEW name, open_func(name)
  PROVE  /\ CallsTyped' /\ dir_number' = dir_number
         /\ \/ UNCHANGED files
            \/ \E fd \in Fds, d \in Descriptors, known \in BOOLEAN :
                 /\ fd >= 2 /\ fd_table[cur_pid][fd].flags = 0
                 /\ SetsDescriptor(cur_pid, fd, d)
                 /\ SetsGot(cur_pid, fd, << >>)
                 /\ opened' = IF known THEN [opened EXCEPT ![cur_pid] = @ \cup {fd}]
                                       ELSE opened
                 /\ d.flags = 1 /\ d.file_position = 0
                 /\ KnownTypes => known
                 /\ known => /\ d.op_table_ptr = "file" => d.inode \in DOMAIN inodes
                             /\ d.op_table_ptr = "dir" => ~Listing \/ "dirs" \in Hazards
                 /\ ~known => /\ d.op_table_ptr = fd_table[cur_pid][fd].op_table_ptr
                              /\ d.inode = fd_table[cur_pid][fd].inode
<1>1. calls' \in 0 .. MaxCalls
  BY CallingTyped DEF open_func
<1>2. CASE name \notin Names \/ FreeFds = {}
  <2>1. Result(-1) /\ UNCHANGED files
    BY <1>2 DEF open_func
  <2>2. -1 \in Values
    BY SmallValues
  <2>3. /\ ret_val' \in Values
        /\ call' \in [Pids -> [at : {"user", "execute", "load"}, eax : Values]]
    BY <2>1, <2>2, ResultTyped
  <2>. QED
    BY <1>1, <2>1, <2>3 DEF CallsTyped, files, TypeOK
<1>3. CASE name \in Names /\ FreeFds # {}
  <2> DEFINE fd    == Min(FreeFds)
             k     == CHOOSE i \in 1 .. Len(dir_entries) : dir_entries[i].file_name = name
             entry == dir_entries[k]
             known == entry.file_type \in 0 .. 2
             old   == fd_table[cur_pid][fd]
             d     == [op_table_ptr  |-> IF known THEN Tableof(entry.file_type)
                                         ELSE old.op_table_ptr,
                       inode         |-> IF entry.file_type = 2 THEN entry.inode
                                         ELSE IF known THEN 0 ELSE old.inode,
                       file_position |-> 0,
                       flags         |-> 1]
  <2>1. /\ entry.file_type = 1 => ~Listing \/ "dirs" \in Hazards
        /\ fd_table' = [fd_table EXCEPT ![cur_pid][fd] =
             [op_table_ptr  |-> IF known THEN Tableof(entry.file_type)
                                         ELSE @.op_table_ptr,
              inode         |-> IF entry.file_type = 2 THEN entry.inode
                                ELSE IF known THEN 0 ELSE @.inode,
              file_position |-> 0,
              flags         |-> 1]]
        /\ opened' = IF known THEN [opened EXCEPT ![cur_pid] = @ \cup {fd}]
                              ELSE opened
        /\ SetsGot(cur_pid, fd, << >>)
        /\ Result(IF known THEN fd ELSE -1)
        /\ UNCHANGED dir_number
    BY <1>3 DEF open_func, SetsDescriptor, SetsGot
  <2>2. FreeFds \in SUBSET Nat /\ FreeFds \subseteq Fds
    BY ConstantsAssumption DEF FreeFds, Fds
  <2>3. fd \in FreeFds
    BY <1>3, <2>2, MinElement
  <2>4. fd \in Fds /\ fd >= 2 /\ fd_table[cur_pid][fd].flags = 0
    <3>1. \A g \in FreeFds : g >= 2 /\ fd_table[cur_pid][g].flags = 0
      BY ConstantsAssumption DEF FreeFds
    <3>. HIDE DEF fd
    <3>. QED
      BY <2>2, <2>3, <3>1
  <2>5. /\ k \in 1 .. Len(dir_entries)
        /\ entry.file_type \in 0 .. 3
        /\ entry.file_type = 2 => entry.inode \in DOMAIN inodes
        /\ entry.inode \in Nat
    BY <1>3, EntryFacts
  <2>. HIDE DEF k, fd
  <2>6. cur_pid \in Pids /\ fd_table \in FdTables
    BY CurPid DEF TypeOK, FdTables
  <2>7. /\ fd_table[cur_pid] \in [Fds -> Descriptors] /\ old \in Descriptors
    BY <2>4, <2>6 DEF FdTables
  <2>8. SetsDescriptor(cur_pid, fd, d)
    BY <2>1, <2>4, <2>6, <2>7 DEF FdTables, SetsDescriptor, SetsGot
  <2>9. Tableof(entry.file_type) = CASE entry.file_type = 0 -> "rtc"
                                     [] entry.file_type = 1 -> "dir"
                                     [] OTHER -> "file"
    BY DEF Tableof
  <2>10. d.op_table_ptr \in Tables /\ d.inode \in Nat
    BY <2>5, <2>7, <2>9 DEF Descriptors, Tables
  <2>11. d \in Descriptors
    BY <2>10 DEF Descriptors
  <2>12. known => /\ d.op_table_ptr = "file" => d.inode \in DOMAIN inodes
                  /\ d.op_table_ptr = "dir" => ~Listing \/ "dirs" \in Hazards
    BY <2>1, <2>5, <2>9
  <2>13. ~known => /\ d.op_table_ptr = fd_table[cur_pid][fd].op_table_ptr
                   /\ d.inode = fd_table[cur_pid][fd].inode
    OBVIOUS
  <2>14. KnownTypes => known
    BY <2>5 DEF KnownTypes
  <2>15. d.flags = 1 /\ d.file_position = 0
    OBVIOUS
  <2>16. (IF known THEN fd ELSE -1) \in Values
    BY <2>4, SmallValues
  <2>. HIDE DEF d, known, entry
  <2>17. CallsTyped'
    <3>1. /\ ret_val' \in Values
          /\ call' \in [Pids -> [at : {"user", "execute", "load"}, eax : Values]]
      BY <2>1, <2>16, ResultTyped
    <3>. QED
      BY <1>1, <2>1, <3>1 DEF CallsTyped, TypeOK
  <2>18. known \in BOOLEAN
    BY DEF known
  <2>. QED
    BY <2>1, <2>4, <2>8, <2>11, <2>12, <2>13, <2>14, <2>15, <2>17, <2>18
<1>. QED
  BY <1>2, <1>3

\* open keeps it.
LEMMA OpenReads ==
  ASSUME ReadingInv, NEW name, open_func(name)
  PROVE  CallsTyped' /\ FilesPart'
<1>1. TypeOK /\ FilesPart /\ cur_pid \in Pids
  BY ReadingParts, CurPid DEF ReadingInv
<1>2. CallsTyped'
  BY <1>1, OpenFacts
<1>3. CASE UNCHANGED files
  BY <1>1, <1>2, <1>3, SameFiles DEF files
<1>4. ASSUME NEW fd \in Fds, NEW d \in Descriptors, NEW known \in BOOLEAN,
             SetsDescriptor(cur_pid, fd, d),
             SetsGot(cur_pid, fd, << >>),
             opened' = IF known THEN [opened EXCEPT ![cur_pid] = @ \cup {fd}] ELSE opened,
             d.file_position = 0,
             known => (d.op_table_ptr = "file" => d.inode \in DOMAIN inodes),
             ~known => /\ d.op_table_ptr = fd_table[cur_pid][fd].op_table_ptr
                       /\ d.inode = fd_table[cur_pid][fd].inode
      PROVE  FilesPart'
  <2>1. /\ fd_table' \in FdTables /\ fd_table'[cur_pid][fd] = d
        /\ \A p \in Pids, g \in Fds :
             p # cur_pid \/ g # fd => fd_table'[p][g] = fd_table[p][g]
    BY <1>1, <1>4, SetDescriptor
  <2>2. /\ GotTyped' /\ got'[cur_pid][fd] = << >>
        /\ \A p \in Pids, g \in Fds :
             p # cur_pid \/ g # fd => got'[p][g] = got[p][g]
    BY <1>1, <1>4, SetGot
  <2>3. /\ opened' \in [Pids -> SUBSET Fds]
        /\ \A p \in Pids : \A g \in opened'[p] :
             g \in opened[p] \/ (p = cur_pid /\ g = fd)
    <3>1. opened \in [Pids -> SUBSET Fds]
      BY <1>1 DEF TypeOK
    <3>. QED
      BY <1>1, <1>4, <3>1
  <2>4. FilesTyped'
    BY <2>1, <2>2, <2>3 DEF FilesTyped
  <2>5. d.op_table_ptr = "file" => /\ d.inode \in DOMAIN inodes
                                   /\ d.file_position <= inodes[d.inode].length
    <3>1. d.op_table_ptr = "file" => d.inode \in DOMAIN inodes
      BY <1>1, <1>4 DEF FilesPart, FilesPlaced
    <3>2. d.op_table_ptr = "file" => inodes[d.inode].length \in Nat
      BY <3>1, ImageAssumption
    <3>. QED
      BY <1>4, <3>1, <3>2
  <2>6. FilesPlaced'
    <3>1. SUFFICES ASSUME NEW p \in Pids, NEW g \in Fds,
                          fd_table'[p][g].op_table_ptr = "file"
                   PROVE  /\ fd_table'[p][g].inode \in DOMAIN inodes
                          /\ fd_table'[p][g].file_position
                               <= inodes[fd_table'[p][g].inode].length
      BY DEF FilesPlaced
    <3>2. CASE p = cur_pid /\ g = fd
      BY <2>1, <2>5, <3>1, <3>2
    <3>3. CASE ~(p = cur_pid /\ g = fd)
      BY <1>1, <2>1, <3>1, <3>3 DEF FilesPart, FilesPlaced
    <3>. QED
      BY <3>2, <3>3
  <2>7. FilesRead'
    <3>1. SUFFICES ASSUME NEW p \in Pids, NEW g \in opened'[p],
                          fd_table'[p][g].op_table_ptr = "file"
                   PROVE  got'[p][g] = SubSeq(Contents(fd_table'[p][g].inode), 1,
                                              fd_table'[p][g].file_position)
      BY DEF FilesRead, Contents
    <3>2. CASE p = cur_pid /\ g = fd
      BY <1>4, <2>1, <2>2, <3>2, NothingRead
    <3>3. CASE ~(p = cur_pid /\ g = fd)
      <4>1. g \in opened[p] /\ g \in Fds
        BY <1>1, <2>3, <3>3 DEF TypeOK
      <4>2. fd_table'[p][g] = fd_table[p][g] /\ got'[p][g] = got[p][g]
        BY <2>1, <2>2, <3>3, <4>1
      <4>3. got[p][g] = SubSeq(Contents(fd_table[p][g].inode), 1,
                               fd_table[p][g].file_position)
        BY <1>1, <3>1, <4>1, <4>2 DEF FilesPart, FilesRead
      <4>. QED
        BY <4>2, <4>3
    <3>. QED
      BY <3>2, <3>3
  <2>. QED
    BY <2>4, <2>6, <2>7 DEF FilesPart
<1>. QED
  BY <1>1, <1>2, <1>3, <1>4, OpenFacts

\* A close that succeeds frees one descriptor of the process that runs.
LEMMA CloseFacts ==
  ASSUME TypeOK, NEW fd, close_func(fd)
  PROVE  /\ CallsTyped' /\ dir_number' = dir_number
         /\ \/ UNCHANGED files
            \/ /\ fd \in Fds /\ fd >= 2
               /\ Unfinished(cur_pid, {fd}) => "dirs" \in Hazards
               /\ SetsDescriptor(cur_pid, fd, [fd_table[cur_pid][fd] EXCEPT !.flags = 0])
               /\ [fd_table[cur_pid][fd] EXCEPT !.flags = 0] \in Descriptors
               /\ opened' = [opened EXCEPT ![cur_pid] = @ \ {fd}]
               /\ SetsGot(cur_pid, fd, << >>)
<1>1. calls' \in 0 .. MaxCalls
  BY CallingTyped DEF close_func
<1>2. 0 \in Values /\ -1 \in Values
  BY SmallValues
<1>3. CASE fd \notin Fds \ {0, 1} \/ fd_table[cur_pid][fd].flags = 0
  <2>1. Result(-1) /\ UNCHANGED files
    BY <1>3 DEF close_func
  <2>2. /\ ret_val' \in Values
        /\ call' \in [Pids -> [at : {"user", "execute", "load"}, eax : Values]]
    BY <1>2, <2>1, ResultTyped
  <2>. QED
    BY <1>1, <2>1, <2>2 DEF CallsTyped, files, TypeOK
<1>4. CASE ~(fd \notin Fds \ {0, 1} \/ fd_table[cur_pid][fd].flags = 0)
  <2>1. /\ Unfinished(cur_pid, {fd}) => "dirs" \in Hazards
        /\ fd_table' = [fd_table EXCEPT ![cur_pid][fd].flags = 0]
        /\ opened' = [opened EXCEPT ![cur_pid] = @ \ {fd}]
        /\ SetsGot(cur_pid, fd, << >>)
        /\ Result(0)
        /\ UNCHANGED dir_number
    BY <1>4 DEF close_func, SetsDescriptor, SetsGot
  <2>2. /\ ret_val' \in Values
        /\ call' \in [Pids -> [at : {"user", "execute", "load"}, eax : Values]]
    BY <1>2, <2>1, ResultTyped
  <2>3. CallsTyped'
    BY <1>1, <2>1, <2>2 DEF CallsTyped, TypeOK
  <2>4. fd \in Fds /\ fd >= 2
    BY <1>4, ConstantsAssumption DEF Fds
  <2>5. cur_pid \in Pids /\ fd_table \in [Pids -> [Fds -> Descriptors]]
    BY CurPid DEF TypeOK
  <2>6. fd_table[cur_pid] \in [Fds -> Descriptors] /\ fd_table[cur_pid][fd] \in Descriptors
    BY <2>4, <2>5
  <2>7. [fd_table[cur_pid][fd] EXCEPT !.flags = 0] \in Descriptors
    BY <2>6 DEF Descriptors
  <2>8. SetsDescriptor(cur_pid, fd, [fd_table[cur_pid][fd] EXCEPT !.flags = 0])
    BY <2>1, <2>4, <2>5, <2>6 DEF SetsDescriptor, SetsGot
  <2>. QED
    BY <2>1, <2>3, <2>4, <2>7, <2>8
<1>. QED
  BY <1>3, <1>4

\* close keeps it.
LEMMA CloseReads ==
  ASSUME ReadingInv, NEW fd, close_func(fd)
  PROVE  CallsTyped' /\ FilesPart'
<1>1. TypeOK /\ FilesPart /\ cur_pid \in Pids
  BY ReadingParts, CurPid DEF ReadingInv
<1>2. CallsTyped'
  BY <1>1, CloseFacts
<1>3. CASE UNCHANGED files
  BY <1>1, <1>2, <1>3, SameFiles DEF files
<1>4. CASE /\ fd \in Fds
           /\ SetsDescriptor(cur_pid, fd, [fd_table[cur_pid][fd] EXCEPT !.flags = 0])
           /\ [fd_table[cur_pid][fd] EXCEPT !.flags = 0] \in Descriptors
           /\ opened' = [opened EXCEPT ![cur_pid] = @ \ {fd}]
           /\ SetsGot(cur_pid, fd, << >>)
  <2> DEFINE d == [fd_table[cur_pid][fd] EXCEPT !.flags = 0]
  <2>1. /\ fd_table' \in FdTables /\ fd_table'[cur_pid][fd] = d
        /\ \A p \in Pids, g \in Fds :
             p # cur_pid \/ g # fd => fd_table'[p][g] = fd_table[p][g]
    BY <1>1, <1>4, SetDescriptor
  <2>2. /\ GotTyped'
        /\ \A p \in Pids, g \in Fds :
             p # cur_pid \/ g # fd => got'[p][g] = got[p][g]
    BY <1>1, <1>4, SetGot
  <2>3. /\ opened' \in [Pids -> SUBSET Fds]
        /\ \A p \in Pids : opened'[p] \subseteq opened[p]
        /\ fd \notin opened'[cur_pid]
    <3>1. opened \in [Pids -> SUBSET Fds]
      BY <1>1 DEF TypeOK
    <3>. QED
      BY <1>1, <1>4, <3>1
  <2>4. /\ d.op_table_ptr = fd_table[cur_pid][fd].op_table_ptr
        /\ d.inode = fd_table[cur_pid][fd].inode
        /\ d.file_position = fd_table[cur_pid][fd].file_position
    <3>1. fd_table[cur_pid] \in [Fds -> Descriptors]
      BY <1>1 DEF TypeOK
    <3>2. fd_table[cur_pid][fd] \in Descriptors
      BY <1>4, <3>1
    <3>. QED
      BY <3>2 DEF Descriptors
  <2>. HIDE DEF d
  <2>5. \A q \in Pids, g \in Fds :
          /\ fd_table'[q][g].inode = fd_table[q][g].inode
          /\ fd_table'[q][g].file_position = fd_table[q][g].file_position
          /\ fd_table'[q][g].op_table_ptr = fd_table[q][g].op_table_ptr
    <3>1. SUFFICES ASSUME NEW q \in Pids, NEW g \in Fds
                   PROVE  /\ fd_table'[q][g].inode = fd_table[q][g].inode
                          /\ fd_table'[q][g].file_position = fd_table[q][g].file_position
                          /\ fd_table'[q][g].op_table_ptr = fd_table[q][g].op_table_ptr
      OBVIOUS
    <3>2. CASE q = cur_pid /\ g = fd
      BY <2>1, <2>4, <3>2
    <3>3. CASE ~(q = cur_pid /\ g = fd)
      BY <2>1, <3>3
    <3>. QED
      BY <3>2, <3>3
  <2>6. \A q \in Pids : \A g \in opened'[q] : got'[q][g] = got[q][g]
    BY <2>2, <2>3
  <2>. QED
    BY <1>1, <1>2, <2>1, <2>2, <2>3, <2>5, <2>6, FewerKeep
<1>. QED
  BY <1>1, <1>3, <1>4, CloseFacts

\* A read of a file: it gives the next bytes, and the position moves past them.
LEMMA FileReads ==
  ASSUME ReadingInv, NEW fd \in Fds, NEW n \in 1 .. MaxBytes,
         fd_table[cur_pid][fd].op_table_ptr = "file",
         file_read(fd, n), UNCHANGED opened
  PROVE  /\ FilesPart' /\ dir_number' = dir_number
         /\ ret_val' \in Values
         /\ call' \in [Pids -> [at : {"user", "execute", "load"}, eax : Values]]
<1> DEFINE d    == fd_table[cur_pid][fd]
           data == read_data(d.inode, d.file_position, n)
           count == data[1]
           new  == [d EXCEPT !.file_position = @ + count]
<1>1. TypeOK /\ FilesPart /\ cur_pid \in Pids
  BY ReadingParts, CurPid DEF ReadingInv
<1>2. /\ fd_table' = [fd_table EXCEPT ![cur_pid][fd].file_position = @ + count]
      /\ got' = [got EXCEPT ![cur_pid][fd] = @ \o data[2]]
      /\ Result(count)
      /\ UNCHANGED dir_number
  BY DEF file_read
<1>3. fd_table \in [Pids -> [Fds -> Descriptors]]
  BY <1>1 DEF TypeOK
<1>4. fd_table[cur_pid] \in [Fds -> Descriptors] /\ d \in Descriptors
  BY <1>1, <1>3
<1>5. /\ d.inode \in DOMAIN inodes /\ d.file_position \in Nat
      /\ d.file_position <= inodes[d.inode].length
  BY <1>1, <1>4 DEF FilesPart, FilesPlaced, Descriptors
<1>6. n \in Nat /\ MaxBytes \in Nat
  BY ConstantsAssumption
<1>7. /\ count \in 0 .. n
      /\ d.file_position + count <= inodes[d.inode].length
      /\ SubSeq(Contents(d.inode), 1, d.file_position) \o data[2]
           = SubSeq(Contents(d.inode), 1, d.file_position + count)
  BY <1>5, <1>6, ReadData
<1>. HIDE DEF data, count
<1>8. count \in Values /\ count \in Nat
  BY <1>6, <1>7, SmallValues
<1>9. /\ ret_val' \in Values
      /\ call' \in [Pids -> [at : {"user", "execute", "load"}, eax : Values]]
  BY <1>1, <1>2, <1>8, ResultTyped
<1>10. SetsDescriptor(cur_pid, fd, new)
  BY <1>1, <1>2, <1>3, <1>4 DEF SetsDescriptor, SetsGot
<1>11. /\ new \in Descriptors /\ new.op_table_ptr = "file" /\ new.inode = d.inode
       /\ new.file_position = d.file_position + count
  BY <1>4, <1>5, <1>8 DEF Descriptors
<1>. HIDE DEF new
<1>12. /\ fd_table' \in FdTables /\ fd_table'[cur_pid][fd] = new
       /\ \A p \in Pids, g \in Fds :
            p # cur_pid \/ g # fd => fd_table'[p][g] = fd_table[p][g]
  BY <1>1, <1>10, <1>11, SetDescriptor
<1>13. /\ GotTyped' /\ got'[cur_pid][fd] = got[cur_pid][fd] \o data[2]
       /\ \A p \in Pids, g \in Fds :
            p # cur_pid \/ g # fd => got'[p][g] = got[p][g]
  <2>1. SetsGot(cur_pid, fd, got[cur_pid][fd] \o data[2])
    <3>1. DOMAIN got = Pids /\ DOMAIN got[cur_pid] = Fds
      BY <1>1 DEF TypeOK
    <3>. QED
      BY <1>1, <1>2, <3>1 DEF SetsDescriptor, SetsGot
  <2>. QED
    BY <1>1, <2>1, SetGot
<1>14. FilesTyped'
  BY <1>1, <1>12, <1>13 DEF FilesTyped, TypeOK
<1>15. FilesPlaced'
  <2>1. SUFFICES ASSUME NEW p \in Pids, NEW g \in Fds,
                        fd_table'[p][g].op_table_ptr = "file"
                 PROVE  /\ fd_table'[p][g].inode \in DOMAIN inodes
                        /\ fd_table'[p][g].file_position
                             <= inodes[fd_table'[p][g].inode].length
    BY DEF FilesPlaced
  <2>2. CASE p = cur_pid /\ g = fd
    BY <1>5, <1>7, <1>11, <1>12, <2>2
  <2>3. CASE ~(p = cur_pid /\ g = fd)
    BY <1>1, <1>12, <2>1, <2>3 DEF FilesPart, FilesPlaced
  <2>. QED
    BY <2>2, <2>3
<1>16. FilesRead'
  <2>1. SUFFICES ASSUME NEW p \in Pids, NEW g \in opened[p],
                        fd_table'[p][g].op_table_ptr = "file"
                 PROVE  got'[p][g] = SubSeq(Contents(fd_table'[p][g].inode), 1,
                                            fd_table'[p][g].file_position)
    BY DEF FilesRead, Contents
  <2>2. g \in Fds
    BY <1>1 DEF TypeOK
  <2>3. CASE p = cur_pid /\ g = fd
    <3>1. got[cur_pid][fd] = SubSeq(Contents(d.inode), 1, d.file_position)
      BY <1>1, <2>3 DEF FilesPart, FilesRead
    <3>2. got'[p][g] = SubSeq(Contents(d.inode), 1, d.file_position + count)
      BY <1>7, <1>13, <2>3, <3>1
    <3>. QED
      BY <1>11, <1>12, <2>3, <3>2
  <2>4. CASE ~(p = cur_pid /\ g = fd)
    <3>1. fd_table'[p][g] = fd_table[p][g] /\ got'[p][g] = got[p][g]
      BY <1>12, <1>13, <2>2, <2>4
    <3>2. got[p][g] = SubSeq(Contents(fd_table[p][g].inode), 1,
                             fd_table[p][g].file_position)
      BY <1>1, <2>1, <3>1 DEF FilesPart, FilesRead
    <3>. QED
      BY <3>1, <3>2
  <2>. QED
    BY <2>3, <2>4
<1>. QED
  BY <1>2, <1>9, <1>14, <1>15, <1>16 DEF FilesPart

\* A read of the directory: the next name, or the end of the listing.
LEMMA DirReads ==
  ASSUME ReadingInv, NEW fd \in Fds,
         fd_table[cur_pid][fd].op_table_ptr = "dir",
         dir_read(fd), UNCHANGED opened
  PROVE  /\ FilesPart' /\ dir_number' \in 0 .. Len(dir_entries)
         /\ ret_val' \in Values
         /\ call' \in [Pids -> [at : {"user", "execute", "load"}, eax : Values]]
<1>1. TypeOK /\ FilesPart /\ cur_pid \in Pids
  BY ReadingParts, CurPid DEF ReadingInv
<1>2. PICK v : SetsGot(cur_pid, fd, v)
  <2>1. DOMAIN got = Pids /\ DOMAIN got[cur_pid] = Fds
    BY <1>1 DEF TypeOK
  <2>2. CASE dir_number < Len(dir_entries)
    <3>1. SetsGot(cur_pid, fd,
             Append(got[cur_pid][fd], dir_entries[dir_number + 1].file_name))
      BY <1>1, <2>1, <2>2 DEF dir_read, SetsDescriptor, SetsGot
    <3>. QED
      BY <3>1
  <2>3. CASE ~(dir_number < Len(dir_entries))
    BY <2>3 DEF dir_read, SetsDescriptor, SetsGot
  <2>. QED
    BY <2>2, <2>3
<1>3. /\ GotTyped'
      /\ \A p \in Pids, g \in Fds :
           p # cur_pid \/ g # fd => got'[p][g] = got[p][g]
  BY <1>1, <1>2, SetGot
<1>4. \E eax \in {0, 1} : Result(eax)
  BY DEF dir_read
<1>5. /\ ret_val' \in Values
      /\ call' \in [Pids -> [at : {"user", "execute", "load"}, eax : Values]]
  <2>1. 0 \in Values /\ 1 \in Values
    BY SmallValues
  <2>. QED
    BY <1>1, <1>4, <2>1, ResultTyped
<1>6. dir_number' \in 0 .. Len(dir_entries)
  <2>1. Len(dir_entries) \in Nat
    BY ImageAssumption
  <2>. QED
    BY <1>1, <2>1 DEF dir_read, TypeOK
<1>7. UNCHANGED fd_table
  BY DEF dir_read
<1>8. FilesTyped' /\ FilesPlaced'
  BY <1>1, <1>3, <1>7 DEF FilesPart, FilesTyped, FilesPlaced
<1>9. FilesRead'
  <2>1. SUFFICES ASSUME NEW p \in Pids, NEW g \in opened[p],
                        fd_table[p][g].op_table_ptr = "file"
                 PROVE  got'[p][g] = SubSeq(Contents(fd_table[p][g].inode), 1,
                                            fd_table[p][g].file_position)
    BY <1>7 DEF FilesRead, Contents, dir_read
  <2>2. g \in Fds
    BY <1>1 DEF TypeOK
  <2>3. p # cur_pid \/ g # fd
    BY <2>1
  <2>4. got'[p][g] = got[p][g]
    BY <1>3, <2>2, <2>3
  <2>5. got[p][g] = SubSeq(Contents(fd_table[p][g].inode), 1,
                           fd_table[p][g].file_position)
    BY <1>1, <2>1 DEF FilesPart, FilesRead
  <2>. QED
    BY <2>4, <2>5
<1>. QED
  BY <1>5, <1>6, <1>8, <1>9 DEF FilesPart

\* A read keeps it, whatever it reads.
LEMMA ReadReads ==
  ASSUME ReadingInv, NEW fd, NEW n \in 1 .. MaxBytes, read_func(fd, n)
  PROVE  CallsTyped' /\ FilesPart'
<1>1. TypeOK /\ FilesPart /\ cur_pid \in Pids
  BY ReadingParts, CurPid DEF ReadingInv
<1>2. calls' \in 0 .. MaxCalls /\ UNCHANGED opened
  BY <1>1, CallingTyped DEF read_func
<1>3. n \in Nat /\ MaxBytes \in Nat /\ 0 .. n \subseteq Values /\ {0, -1} \subseteq Values
  BY ConstantsAssumption, SmallValues
<1>4. SUFFICES /\ FilesPart' /\ dir_number' \in 0 .. Len(dir_entries)
               /\ ret_val' \in Values
               /\ call' \in [Pids -> [at : {"user", "execute", "load"}, eax : Values]]
  BY <1>2 DEF CallsTyped
<1>5. ASSUME NEW eax \in Values, Result(eax), UNCHANGED << fd_table, dir_number, got >>
      PROVE  /\ FilesPart' /\ dir_number' \in 0 .. Len(dir_entries)
             /\ ret_val' \in Values
             /\ call' \in [Pids -> [at : {"user", "execute", "load"}, eax : Values]]
  BY <1>1, <1>2, <1>5, ResultTyped, SameFiles DEF TypeOK
<1>6. CASE fd \notin Fds \/ fd_table[cur_pid][fd].flags = 0
  BY <1>3, <1>5, <1>6 DEF read_func
<1>7. CASE ~(fd \notin Fds \/ fd_table[cur_pid][fd].flags = 0)
  <2> DEFINE table == fd_table[cur_pid][fd].op_table_ptr
  <2>1. CASE table = "file"
    <3>1. file_read(fd, n)
      BY <1>7, <2>1 DEF read_func
    <3>2. /\ FilesPart' /\ dir_number' = dir_number /\ ret_val' \in Values
          /\ call' \in [Pids -> [at : {"user", "execute", "load"}, eax : Values]]
      BY <1>2, <1>7, <2>1, <3>1, FileReads
    <3>. QED
      BY <1>1, <3>2 DEF TypeOK
  <2>2. CASE table = "dir"
    <3>1. dir_read(fd)
      BY <1>7, <2>2 DEF read_func
    <3>. QED
      BY <1>2, <1>7, <2>2, <3>1, DirReads
  <2>3. CASE table \notin {"file", "dir"}
    <3>1. OtherRead(table, n)
      BY <1>7, <2>3 DEF read_func
    <3>2. PICK eax \in CASE table = "stdin" -> 0 .. n
                         [] table = "rtc"   -> {0}
                         [] OTHER           -> {-1} : Result(eax)
      BY <3>1 DEF OtherRead
    <3>3. eax \in Values
      BY <1>3, <3>2
    <3>4. UNCHANGED << fd_table, dir_number, got >>
      BY <3>1 DEF OtherRead
    <3>. QED
      BY <1>5, <3>2, <3>3, <3>4
  <2>. QED
    BY <2>1, <2>2, <2>3
<1>. QED
  BY <1>6, <1>7

\* A write keeps it.
LEMMA WriteReads ==
  ASSUME ReadingInv, NEW fd, NEW n \in 1 .. MaxBytes, write_func(fd, n)
  PROVE  CallsTyped' /\ FilesPart'
<1>1. TypeOK /\ FilesPart
  BY ReadingParts DEF ReadingInv
<1>2. calls' \in 0 .. MaxCalls /\ UNCHANGED files
  BY <1>1, CallingTyped DEF write_func
<1>3. n + 1 \in Values /\ 4 \in Values /\ -1 \in Values
  BY ConstantsAssumption, SmallValues
<1>4. \E eax \in Values : Result(eax)
  BY <1>3 DEF write_func
<1>5. /\ ret_val' \in Values
      /\ call' \in [Pids -> [at : {"user", "execute", "load"}, eax : Values]]
  BY <1>1, <1>4, ResultTyped
<1>. QED
  BY <1>1, <1>2, <1>5, SameFiles DEF files, CallsTyped, TypeOK

-----------------------------------------------------------------------------
(* Processes that begin and end keep ReadingInv.                           *)

\* A new process has the descriptors that were in its PCB, the first two new.
LEMMA StartKeeps ==
  ASSUME TypeOK, FilesPart, NEW fds \in FdTables, NEW p \in Pids,
         \A q \in Pids, fd \in Fds :
           /\ fds[q][fd].inode = fd_table[q][fd].inode
           /\ fds[q][fd].file_position = fd_table[q][fd].file_position
           /\ fds[q][fd].op_table_ptr = fd_table[q][fd].op_table_ptr,
         fd_table' = init_pcb(fds, p),
         opened' \in [Pids -> SUBSET Fds],
         \A q \in Pids : opened'[q] \subseteq opened[q],
         got' = got
  PROVE  FilesPart'
<1>1. /\ init_pcb(fds, p) \in FdTables
      /\ \A q \in Pids, fd \in Fds :
           (q = p /\ fd < 2) \/ init_pcb(fds, p)[q][fd] = fds[q][fd]
      /\ \A fd \in {0, 1} :
           LET d == init_pcb(fds, p)[p][fd]
           IN /\ d.op_table_ptr \in {"stdin", "stdout"} /\ d.flags = 1
              /\ d.inode = fds[p][fd].inode
              /\ d.file_position = fds[p][fd].file_position
  BY InitPcb
<1>4. ASSUME NEW fd \in {0, 1}
      PROVE  /\ fd \in Fds
             /\ fd_table'[p][fd].inode = fds[p][fd].inode
             /\ fd_table'[p][fd].file_position = fds[p][fd].file_position
             /\ fd_table'[p][fd].op_table_ptr \in {"stdin", "stdout"}
  BY <1>1, FirstFds
<1>5. \A fd \in Fds : fd < 2 => fd \in {0, 1}
  BY FirstFds
<1>6. \A q \in Pids, fd \in Fds :
        /\ fd_table'[q][fd].inode = fd_table[q][fd].inode
        /\ fd_table'[q][fd].file_position = fd_table[q][fd].file_position
        /\ \/ fd_table'[q][fd].op_table_ptr = fd_table[q][fd].op_table_ptr
           \/ fd_table'[q][fd].op_table_ptr \in {"stdin", "stdout"}
  <2>1. SUFFICES ASSUME NEW q \in Pids, NEW fd \in Fds
                 PROVE  /\ fd_table'[q][fd].inode = fds[q][fd].inode
                        /\ fd_table'[q][fd].file_position = fds[q][fd].file_position
                        /\ \/ fd_table'[q][fd].op_table_ptr = fds[q][fd].op_table_ptr
                           \/ fd_table'[q][fd].op_table_ptr \in {"stdin", "stdout"}
    OBVIOUS
  <2>2. CASE q = p /\ fd < 2
    BY <1>4, <1>5, <2>2
  <2>3. CASE ~(q = p /\ fd < 2)
    <3>1. fd_table'[q][fd] = fds[q][fd]
      BY <1>1, <2>3
    <3>. QED
      BY <3>1
  <2>. QED
    BY <2>2, <2>3
<1>7. GotTyped'
  BY DEF GotTyped, TypeOK
<1>8. fd_table' \in FdTables
  BY <1>1
<1>9. \A q \in Pids : \A fd \in opened'[q] : got'[q][fd] = got[q][fd]
  OBVIOUS
<1>. QED
  BY <1>6, <1>7, <1>8, <1>9, FewerKeep

\* An execute keeps it.
LEMMA ExecuteReads ==
  ASSUME ReadingInv, execute_func
  PROVE  CallsTyped' /\ FilesPart'
<1>1. TypeOK /\ FilesPart /\ cur_pid \in Pids /\ 0 \in Values
  BY ReadingParts, CurPid, SmallValues DEF ReadingInv
<1>2. /\ calls' \in 0 .. MaxCalls /\ UNCHANGED << ret_val, dir_number, got >>
      /\ call' = [call EXCEPT ![cur_pid] = [at |-> "execute", eax |-> 0]]
      /\ Started(jobs, fd_table, opened, curr_term) /\ Live # Pids
  BY <1>1, CallingTyped DEF execute_func, Started
<1>3. CallsTyped'
  BY <1>1, <1>2 DEF CallsTyped, TypeOK
<1>4. /\ jobs \in [Terms -> Seq(Pids)] /\ DifferIn(jobs) /\ LiveIn(jobs) # Pids
      /\ curr_term \in Terms
  BY <1>1, <1>2, JobsNow DEF TypeOK, ReadingInv
<1>5. PICK p \in Pids : fd_table' = init_pcb(fd_table, p)
                        /\ opened' = [opened EXCEPT ![p] = {}]
  BY <1>2, <1>4, StartedFacts
<1>6. fd_table \in FdTables /\ opened \in [Pids -> SUBSET Fds]
  BY <1>1 DEF TypeOK, FdTables
<1>7. opened' \in [Pids -> SUBSET Fds] /\ \A q \in Pids : opened'[q] \subseteq opened[q]
  BY <1>5, <1>6
<1>8. FilesPart'
  BY <1>1, <1>2, <1>5, <1>6, <1>7, StartKeeps
<1>. QED
  BY <1>3, <1>8

\* The end of a process keeps it.
LEMMA EndedReads ==
  ASSUME ReadingInv, NEW t \in Terms, jobs[t] # << >>, NEW status \in {0, 1},
         Ended(t, status), calls' \in 0 .. MaxCalls
  PROVE  CallsTyped' /\ FilesPart'
<1> DEFINE victim == Last(jobs[t])
           left   == [jobs EXCEPT ![t] = Front(@)]
           own    == [opened EXCEPT ![victim] = {}]
<1>1. TypeOK /\ JobsDiffer /\ FilesPart /\ status \in Values /\ 0 \in Values /\ -1 \in Values
  BY ReadingParts, SmallValues DEF ReadingInv
<1>2. /\ victim \in Pids
      /\ left[t] # << >> => Last(left[t]) \in Pids
  <2>1. jobs \in [Terms -> Seq(Pids)] /\ DifferIn(jobs)
    BY <1>1, JobsNow DEF TypeOK
  <2>2. /\ victim \in Pids /\ left \in [Terms -> Seq(Pids)]
        /\ left[t] # << >> => Last(left[t]) \in LiveIn(left)
    BY <2>1, FrontFacts
  <2>. HIDE DEF left
  <2>. QED
    BY <2>2, LiveInJobs
<1>3. CallsTyped'
  <2>1. UNCHANGED dir_number
    BY DEF Ended, Started
  <2>2. ClosesReturn(victim) \in Values
    BY <1>1 DEF ClosesReturn
  <2>3. CASE left[t] = << >>
    <3>1. /\ call' = [call EXCEPT ![victim] = InUser]
          /\ ret_val' = ClosesReturn(victim)
      BY <2>3 DEF Ended
    <3>. HIDE DEF victim
    <3>. QED
      BY <1>1, <1>2, <2>1, <2>2, <3>1 DEF CallsTyped, TypeOK, InUser
  <2>4. CASE left[t] # << >>
    <3>1. /\ call' = [call EXCEPT ![victim] = InUser, ![Last(left[t])] =
                           [at |-> "load", eax |-> status]]
          /\ ret_val' = status
      BY <2>4 DEF Ended
    <3>2. PICK parent \in Pids : parent = Last(left[t])
      BY <1>2, <2>4
    <3>. HIDE DEF victim, left
    <3>. QED
      BY <1>1, <1>2, <2>1, <3>1, <3>2 DEF CallsTyped, TypeOK, InUser
  <2>. QED
    BY <2>3, <2>4
<1>4. /\ UNCHANGED got
      /\ \/ /\ fd_table' = CloseFiles(victim)
            /\ opened' = own
         \/ \E p \in Pids :
              /\ fd_table' = init_pcb(CloseFiles(victim), p)
              /\ opened' = [own EXCEPT ![p] = {}]
  BY <1>1, EndedFacts
<1>. HIDE DEF victim
<1>5. /\ CloseFiles(victim) \in FdTables
      /\ \A q \in Pids, fd \in Fds :
           LET d == CloseFiles(victim)[q][fd]
           IN /\ d.op_table_ptr = fd_table[q][fd].op_table_ptr
              /\ d.inode = fd_table[q][fd].inode
              /\ d.file_position = fd_table[q][fd].file_position
  BY <1>1, <1>2, CloseFilesFacts
<1>6. opened \in [Pids -> SUBSET Fds]
  BY <1>1 DEF TypeOK
<1>7. own \in [Pids -> SUBSET Fds] /\ \A q \in Pids : own[q] \subseteq opened[q]
  BY <1>2, <1>6
<1>. HIDE DEF own
<1>8. FilesPart'
  <2>1. CASE fd_table' = CloseFiles(victim) /\ opened' = own
    <3>1. GotTyped'
      BY <1>1, <1>4 DEF GotTyped, TypeOK
    <3>. QED
      BY <1>1, <1>4, <1>5, <1>7, <2>1, <3>1, FewerKeep
  <2>2. ASSUME NEW p \in Pids, fd_table' = init_pcb(CloseFiles(victim), p),
               opened' = [own EXCEPT ![p] = {}]
        PROVE  FilesPart'
    <3>1. opened' \in [Pids -> SUBSET Fds] /\ \A q \in Pids : opened'[q] \subseteq opened[q]
      BY <1>7, <2>2
    <3>. QED
      BY <1>1, <1>4, <1>5, <2>2, <3>1, StartKeeps
  <2>. QED
    BY <1>4, <2>1, <2>2
<1>. QED
  BY <1>3, <1>8

\* Alt+Fn keeps it.
LEMMA AltFReads ==
  ASSUME ReadingInv, NEW t \in Terms, AltF(t)
  PROVE  CallsTyped' /\ FilesPart'
<1>1. TypeOK /\ FilesPart /\ 0 \in Values
  BY ReadingParts, SmallValues DEF ReadingInv
<1>2. CASE jobs[t] # << >>
  <2>1. ret_val' = 0 /\ UNCHANGED << files, call, calls >>
    BY <1>2 DEF AltF
  <2>. QED
    BY <1>1, <2>1, SameFiles DEF files, CallsTyped, TypeOK
<1>3. CASE jobs[t] = << >>
  <2>1. /\ Live # Pids /\ jobs' = NewJob(jobs, t)
        /\ fd_table' = init_pcb(fd_table, Last(jobs'[t]))
        /\ UNCHANGED << dir_number, ret_val, call, opened, got, calls >>
    BY <1>3 DEF AltF
  <2>2. jobs \in [Terms -> Seq(Pids)] /\ DifferIn(jobs) /\ LiveIn(jobs) # Pids
    BY <1>1, <2>1, JobsNow DEF TypeOK, ReadingInv
  <2>3. PICK p \in Pids : p = Last(jobs'[t])
    BY <2>1, <2>2, NewJobFacts
  <2>4. fd_table' = init_pcb(fd_table, p)
    BY <2>1, <2>3
  <2>5. fd_table \in FdTables /\ opened' \in [Pids -> SUBSET Fds]
    BY <1>1, <2>1 DEF TypeOK, FdTables
  <2>6. FilesPart'
    BY <1>1, <2>1, <2>4, <2>5, StartKeeps
  <2>. QED
    BY <1>1, <2>1, <2>6 DEF CallsTyped, TypeOK
<1>. QED
  BY <1>2, <1>3

-----------------------------------------------------------------------------
(* ReadingInv is an invariant.                                             *)

\* It holds at the beginning.
LEMMA ReadingInit == Init => ReadingInv
<1>1. SUFFICES ASSUME Init PROVE ReadingInv
  OBVIOUS
<1>2. 0 \in Terms /\ 0 \in Pids /\ Terms \subseteq Nat
  BY ConstantsAssumption DEF Terms, Pids
<1>3. << 0 >> \in Seq(Pids) /\ << >> \in Seq(Pids) /\ Len(<< 0 >>) = 1
  BY <1>2
<1>4. /\ jobs \in [Terms -> Seq(Pids)] /\ jobs[0] = << 0 >>
      /\ \A t \in Terms : t # 0 => jobs[t] = << >>
  BY <1>1, <1>2, <1>3 DEF Init
<1>5. JobsTyped
  <2>1. \A t \in Terms : \A i \in 1 .. Len(jobs[t]) : t = 0 /\ i = 1
    <3>1. \A i \in 1 .. Len(<< 0 >>) : i = 1
      OBVIOUS
    <3>2. \A i \in 1 .. Len(<< >>) : FALSE
      OBVIOUS
    <3>. QED
      BY <1>4, <3>1, <3>2
  <2>2. JobsDiffer
    BY <2>1 DEF JobsDiffer
  <2>3. curr_term = 0 /\ running_term = 0
    BY <1>1 DEF Init
  <2>4. jobs[0] # << >>
    BY <1>4
  <2>. QED
    BY <1>2, <1>4, <2>2, <2>3, <2>4 DEF JobsTyped
<1>6. CallsTyped
  <2>1. 0 \in Values /\ Len(dir_entries) \in Nat /\ MaxCalls \in Nat
    BY SmallValues, ImageAssumption, ConstantsAssumption
  <2>. QED
    BY <1>1, <2>1 DEF CallsTyped, Init, InUser
<1> DEFINE none == [op_table_ptr |-> "none", inode |-> 0, file_position |-> 0,
                    flags |-> 0]
           fds  == [p \in Pids |-> [fd \in Fds |-> none]]
<1>7. none \in Descriptors /\ none.op_table_ptr = "none"
  BY DEF Descriptors, Tables
<1>8. fd_table = init_pcb(fds, 0) /\ opened = [p \in Pids |-> {}]
      /\ got = [p \in Pids |-> [fd \in Fds |-> << >>]]
  BY <1>1 DEF Init
<1>. HIDE DEF none
<1>9. fds \in FdTables /\ \A p \in Pids, fd \in Fds : fds[p][fd] = none
  BY <1>7 DEF FdTables
<1>. HIDE DEF fds
<1>10. /\ fd_table \in FdTables
       /\ \A q \in Pids, fd \in Fds : (q = 0 /\ fd < 2) \/ fd_table[q][fd] = fds[q][fd]
       /\ \A fd \in {0, 1} : fd_table[0][fd].op_table_ptr \in {"stdin", "stdout"}
  BY <1>2, <1>8, <1>9, InitPcb
<1>11. \A q \in Pids, fd \in Fds : fd_table[q][fd].op_table_ptr # "file"
  <2>1. \A fd \in Fds : fd < 2 => fd \in {0, 1}
    BY FirstFds
  <2>. QED
    BY <1>7, <1>9, <1>10, <2>1
<1>12. FilesPart
  BY <1>8, <1>10, <1>11 DEF FilesPart, FilesTyped, GotTyped, FilesPlaced, FilesRead
<1>. QED
  BY <1>5, <1>6, <1>12, ReadingParts

\* Every step keeps it.
LEMMA ReadingNext == ReadingInv /\ [Next]_vars => ReadingInv'
<1>1. SUFFICES ASSUME ReadingInv, [Next]_vars PROVE ReadingInv'
  OBVIOUS
<1>2. TypeOK /\ JobsDiffer /\ FilesPart /\ CallsTyped /\ JobsTyped
      /\ curr_term \in Terms /\ running_term \in Terms /\ jobs[running_term] # << >>
  BY <1>1, ReadingParts DEF ReadingInv, TypeOK
<1>3. CASE UNCHANGED vars
  BY <1>2, <1>3, SameFiles, ReadingParts
     DEF vars, JobsTyped, JobsDiffer, CallsTyped
<1>4. CASE Next
  <2>1. SUFFICES CallsTyped' /\ FilesPart'
    BY <1>2, <1>4, JobsStep, ReadingParts
  <2>2. CASE Calls
    <3>1. ASSUME NEW name, open_func(name)
          PROVE  CallsTyped' /\ FilesPart'
      BY <1>1, <3>1, OpenReads
    <3>2. ASSUME NEW fd, close_func(fd)
          PROVE  CallsTyped' /\ FilesPart'
      BY <1>1, <3>2, CloseReads
    <3>3. ASSUME NEW fd, NEW n \in 1 .. MaxBytes, read_func(fd, n) \/ write_func(fd, n)
          PROVE  CallsTyped' /\ FilesPart'
      BY <1>1, <3>3, ReadReads, WriteReads
    <3>4. CASE execute_func
      BY <1>1, <3>4, ExecuteReads
    <3>5. CASE OtherCall
      <4>1. calls' \in 0 .. MaxCalls /\ UNCHANGED files
        BY <1>2, <3>5, CallingTyped DEF OtherCall
      <4>2. -2 \in Values /\ -1 \in Values /\ 0 \in Values
        BY SmallValues
      <4>3. PICK eax \in {-2, -1, 0} : Result(eax)
        BY <3>5 DEF OtherCall
      <4>4. /\ ret_val' \in Values
            /\ call' \in [Pids -> [at : {"user", "execute", "load"}, eax : Values]]
        BY <1>2, <4>2, <4>3, ResultTyped
      <4>. QED
        BY <1>2, <4>1, <4>4, SameFiles DEF files, CallsTyped
    <3>6. CASE halt_func(0)
      <4>1. Ended(running_term, 0) /\ calls' \in 0 .. MaxCalls
        BY <1>2, <3>6, CallingTyped DEF halt_func
      <4>. QED
        BY <1>1, <1>2, <4>1, EndedReads
    <3>. QED
      BY <2>2, <3>1, <3>2, <3>3, <3>4, <3>5, <3>6 DEF Calls
  <2>3. CASE LoadResult
    <3>1. /\ call' = [call EXCEPT ![cur_pid] = InUser]
          /\ UNCHANGED << files, ret_val, calls >>
      BY <2>3 DEF LoadResult
    <3>2. 0 \in Values /\ cur_pid \in Pids
      BY <1>2, SmallValues, CurPid
    <3>. QED
      BY <1>2, <3>1, <3>2, SameFiles DEF files, CallsTyped, InUser
  <2>4. CASE CtrlC
    <3>1. Ended(curr_term, 1) /\ calls' = calls /\ jobs[curr_term] # << >>
      BY <2>4 DEF CtrlC
    <3>2. calls' \in 0 .. MaxCalls
      BY <1>2, <3>1 DEF CallsTyped
    <3>. QED
      BY <1>1, <1>2, <3>1, <3>2, EndedReads
  <2>5. ASSUME NEW t \in Terms, Tick(t)
        PROVE  CallsTyped' /\ FilesPart'
    <3>1. UNCHANGED << files, call, calls >> /\ ret_val' \in {0, ret_val}
      BY <2>5 DEF Tick
    <3>2. 0 \in Values
      BY SmallValues
    <3>. QED
      BY <1>2, <3>1, <3>2, SameFiles DEF files, CallsTyped
  <2>. QED
    BY <1>1, <1>4, <2>2, <2>3, <2>4, <2>5, AltFReads DEF Next
<1>. QED
  BY <1>1, <1>3, <1>4

\* The system calls keep the types of their state, and every descriptor of a
\* file, whoever left it in a PCB, points into a file that exists.
THEOREM ReadingInvariant == Spec => []ReadingInv
<1>. QED
  BY ReadingInit, ReadingNext, PTL DEF Spec

\* Every value is in its range: also no position passes a file's end and no
\* call returns more than it was asked for.
THEOREM TypeCorrect == Spec => []TypeOK
<1>1. ReadingInv => TypeOK
  BY DEF ReadingInv
<1>. QED
  BY <1>1, ReadingInvariant, PTL

\* Whatever the schedule and the interrupts, what a process has read through a
\* descriptor is the beginning of its file.
THEOREM ReadsInOrderHolds == Spec => []ReadsInOrder
<1>1. ReadingInv => ReadsInOrder
  <2>1. SUFFICES ASSUME ReadingInv PROVE ReadsInOrder
    OBVIOUS
  <2>2. Live \subseteq Pids
    BY <2>1, LiveInJobs, JobsNow DEF ReadingInv, TypeOK
  <2>. QED
    BY <2>1, <2>2 DEF ReadsInOrder, ReadingInv, FilesRead
<1>. QED
  BY <1>1, ReadingInvariant, PTL

-----------------------------------------------------------------------------
(* Who has a descriptor: where Ctrl+C meets no descriptors of two          *)
(* processes and open_func knows every type.                               *)

\* FilesOwned, of descriptors fds, what the processes have opened and live.
Owned(fds, own, live) ==
  \A p \in Pids : \A fd \in Fds :
    /\ fd \in own[p] <=> fd >= 2 /\ fds[p][fd].flags = 1
    /\ fd \in own[p] => p \in live
    /\ fd < 2 => fds[p][fd].op_table_ptr \notin {"file", "dir"}

\* FilesOwned is Owned of the state there is.
LEMMA OwnedNow ==
  ASSUME TypeOK
  PROVE  FilesOwned <=> Owned(fd_table, opened, Live)
<1>1. opened \in [Pids -> SUBSET Fds]
  BY DEF TypeOK
<1>2. ASSUME FilesOwned
      PROVE  Owned(fd_table, opened, Live)
  <2>1. SUFFICES ASSUME NEW p \in Pids, NEW fd \in Fds
                 PROVE  /\ fd \in opened[p] <=> fd >= 2 /\ fd_table[p][fd].flags = 1
                        /\ fd \in opened[p] => p \in Live
                        /\ fd < 2 => fd_table[p][fd].op_table_ptr \notin {"file", "dir"}
    BY DEF Owned
  <2>2. {g \in Fds : g >= 2 /\ fd_table[p][g].flags = 1} = opened[p]
    BY <1>2 DEF FilesOwned
  <2>3. fd \in opened[p] <=> fd >= 2 /\ fd_table[p][fd].flags = 1
    BY <2>2
  <2>. QED
    BY <1>2, <2>3 DEF FilesOwned
<1>3. ASSUME Owned(fd_table, opened, Live)
      PROVE  FilesOwned
  <2>1. SUFFICES ASSUME NEW p \in Pids
                 PROVE  /\ {fd \in Fds : fd >= 2 /\ fd_table[p][fd].flags = 1} = opened[p]
                        /\ p \notin Live => opened[p] = {}
                        /\ \A fd \in Fds : fd < 2 => fd_table[p][fd].op_table_ptr
                                                       \notin {"file", "dir"}
    BY DEF FilesOwned
  <2>2. opened[p] \subseteq Fds
    BY <1>1
  <2>3. \A fd \in Fds : fd \in opened[p] <=> fd >= 2 /\ fd_table[p][fd].flags = 1
    BY <1>3 DEF Owned
  <2>4. {fd \in Fds : fd >= 2 /\ fd_table[p][fd].flags = 1} = opened[p]
    BY <2>2, <2>3
  <2>. QED
    BY <1>3, <2>2, <2>4 DEF Owned
<1>. QED
  BY <1>2, <1>3

\* The same of the state after a step.
LEMMA OwnedThen ==
  ASSUME opened' \in [Pids -> SUBSET Fds], Owned(fd_table', opened', Live')
  PROVE  FilesOwned'
<1>1. SUFFICES ASSUME NEW p \in Pids
               PROVE  /\ {fd \in Fds : fd >= 2 /\ fd_table'[p][fd].flags = 1} = opened'[p]
                      /\ p \notin Live' => opened'[p] = {}
                      /\ \A fd \in Fds : fd < 2 => fd_table'[p][fd].op_table_ptr
                                                     \notin {"file", "dir"}
  BY DEF FilesOwned
<1>2. opened'[p] \subseteq Fds
  OBVIOUS
<1>3. \A fd \in Fds : fd \in opened'[p] <=> fd >= 2 /\ fd_table'[p][fd].flags = 1
  BY DEF Owned
<1>4. {fd \in Fds : fd >= 2 /\ fd_table'[p][fd].flags = 1} = opened'[p]
  BY <1>2, <1>3
<1>. QED
  BY <1>2, <1>4 DEF Owned

\* A process that begins finds none of the descriptors from 2 on in use.
LEMMA StartOwned ==
  ASSUME NEW fds \in FdTables, NEW own \in [Pids -> SUBSET Fds], NEW live,
         Owned(fds, own, live), NEW p \in Pids, p \notin live
  PROVE  own[p] = {} /\ Owned(init_pcb(fds, p), own, live \cup {p})
<1>1. /\ \A q \in Pids, fd \in Fds :
           (q = p /\ fd < 2) \/ init_pcb(fds, p)[q][fd] = fds[q][fd]
      /\ \A fd \in {0, 1} : init_pcb(fds, p)[p][fd].op_table_ptr \in {"stdin", "stdout"}
  BY InitPcb
<1>2. own[p] = {}
  <2>1. own[p] \subseteq Fds
    OBVIOUS
  <2>. QED
    BY <2>1 DEF Owned
<1>4. \A fd \in Fds : fd \in Int /\ (fd < 2 => fd \in {0, 1})
  BY FirstFds
<1>5. Owned(init_pcb(fds, p), own, live \cup {p})
  <2>1. SUFFICES ASSUME NEW q \in Pids, NEW fd \in Fds
                 PROVE  /\ fd \in own[q] <=> fd >= 2 /\ init_pcb(fds, p)[q][fd].flags = 1
                        /\ fd \in own[q] => q \in live \cup {p}
                        /\ fd < 2 => init_pcb(fds, p)[q][fd].op_table_ptr
                                       \notin {"file", "dir"}
    BY DEF Owned
  <2>2. CASE q = p /\ fd < 2
    BY <1>1, <1>2, <1>4, <2>2
  <2>3. CASE ~(q = p /\ fd < 2)
    <3>1. init_pcb(fds, p)[q][fd] = fds[q][fd]
      BY <1>1, <2>3
    <3>. QED
      BY <3>1 DEF Owned
  <2>. QED
    BY <2>2, <2>3
<1>. QED
  BY <1>2, <1>5

\* The end of a process frees its descriptors and no other's: it runs, or
\* there are none.
LEMMA EndOwned ==
  ASSUME TypeOK, Owned(fd_table, opened, Live), NEW victim \in Pids,
         cur_pid = victim \/ opened[cur_pid] \cup opened[victim] = {}
  PROVE  Owned(CloseFiles(victim), [opened EXCEPT ![victim] = {}], Live \ {victim})
<1> DEFINE fds == CloseFiles(victim)
           own == [opened EXCEPT ![victim] = {}]
<1>1. \A q \in Pids, fd \in Fds :
        /\ fds[q][fd].op_table_ptr = fd_table[q][fd].op_table_ptr
        /\ fds[q][fd].flags = IF q = cur_pid /\ fd >= 2 /\ fd_table[victim][fd].flags = 1
                              THEN 0 ELSE fd_table[q][fd].flags
  BY CloseFilesFacts
<1>2. opened \in [Pids -> SUBSET Fds] /\ cur_pid \in Pids
  BY CurPid DEF TypeOK
<1>3. own[victim] = {} /\ \A q \in Pids : q # victim => own[q] = opened[q]
  BY <1>2
<1>. HIDE DEF fds, own
<1>4. SUFFICES ASSUME NEW q \in Pids, NEW fd \in Fds
               PROVE  /\ fd \in own[q] <=> fd >= 2 /\ fds[q][fd].flags = 1
                      /\ fd \in own[q] => q \in Live \ {victim}
                      /\ fd < 2 => fds[q][fd].op_table_ptr \notin {"file", "dir"}
  BY DEF Owned, fds, own
<1>5. /\ fd \in opened[q] <=> fd >= 2 /\ fd_table[q][fd].flags = 1
      /\ fd \in opened[victim] <=> fd >= 2 /\ fd_table[victim][fd].flags = 1
      /\ fd \in opened[q] => q \in Live
      /\ fd < 2 => fd_table[q][fd].op_table_ptr \notin {"file", "dir"}
  BY DEF Owned
<1>6. fd < 2 => fds[q][fd].op_table_ptr \notin {"file", "dir"}
  BY <1>1, <1>5
<1>7. CASE q = victim
  <2>1. fd \notin own[q]
    BY <1>3, <1>7
  <2>2. ~(fd >= 2 /\ fds[q][fd].flags = 1)
    <3>1. CASE fd >= 2 /\ fd_table[victim][fd].flags = 1
      <4>1. cur_pid = victim
        BY <1>5, <3>1
      <4>2. fds[q][fd].flags = 0
        BY <1>1, <1>7, <3>1, <4>1
      <4>. QED
        BY <4>2
    <3>2. CASE ~(fd >= 2 /\ fd_table[victim][fd].flags = 1)
      BY <1>1, <1>7, <3>2
    <3>. QED
      BY <3>1, <3>2
  <2>. QED
    BY <1>6, <2>1, <2>2
<1>8. CASE q # victim
  <2>1. fds[q][fd].flags = fd_table[q][fd].flags
    <3>1. ~(q = cur_pid /\ fd >= 2 /\ fd_table[victim][fd].flags = 1)
      BY <1>5, <1>8
    <3>. QED
      BY <1>1, <3>1
  <2>2. own[q] = opened[q]
    BY <1>3, <1>8
  <2>. QED
    BY <1>5, <1>6, <1>8, <2>1, <2>2
<1>. QED
  BY <1>7, <1>8

\* What the theorems on owners need of the image and the instance.
OwnersKnown == KnownTypes /\ "ctrlc" \notin Hazards

\* Where no flag and no table changes.
LEMMA SameOwners ==
  ASSUME FilesOwned, TypeOK, UNCHANGED << jobs, opened >>,
         \A p \in Pids, fd \in Fds :
           /\ fd_table'[p][fd].flags = fd_table[p][fd].flags
           /\ fd_table'[p][fd].op_table_ptr = fd_table[p][fd].op_table_ptr
  PROVE  FilesOwned'
<1>1. Owned(fd_table, opened, Live)
  BY OwnedNow
<1>2. Live' = Live
  BY DEF Live
<1>3. Owned(fd_table', opened', Live')
  BY <1>1, <1>2 DEF Owned
<1>4. opened' \in [Pids -> SUBSET Fds]
  BY DEF TypeOK
<1>. QED
  BY <1>3, <1>4, OwnedThen

\* A process begins beside the others: no descriptor changes hands.
LEMMA BeginOwned ==
  ASSUME ReadingInv, FilesOwned, NEW t \in Terms, Live # Pids, jobs' = NewJob(jobs, t),
         fd_table' = init_pcb(fd_table, Last(NewJob(jobs, t)[t])),
         opened' = opened \/ opened' = [opened EXCEPT ![Last(NewJob(jobs, t)[t])] = {}]
  PROVE  FilesOwned' /\ opened' = opened
<1> DEFINE p == Last(NewJob(jobs, t)[t])
<1>1. TypeOK /\ JobsDiffer /\ Owned(fd_table, opened, Live)
      /\ fd_table \in FdTables /\ opened \in [Pids -> SUBSET Fds]
  BY OwnedNow DEF ReadingInv, TypeOK, FdTables
<1>2. jobs \in [Terms -> Seq(Pids)] /\ DifferIn(jobs) /\ LiveIn(jobs) # Pids
      /\ Live = LiveIn(jobs) /\ Live' = LiveIn(jobs')
  BY <1>1, JobsNow DEF TypeOK
<1>3. p \in Pids /\ p \notin Live /\ Live' = Live \cup {p}
  BY <1>2, NewJobFacts
<1>4. fd_table' = init_pcb(fd_table, p)
      /\ (opened' = opened \/ opened' = [opened EXCEPT ![p] = {}])
  OBVIOUS
<1>. HIDE DEF p
<1>5. opened[p] = {} /\ Owned(init_pcb(fd_table, p), opened, Live \cup {p})
  BY <1>1, <1>3, StartOwned
<1>6. opened' = opened /\ opened' \in [Pids -> SUBSET Fds]
  BY <1>1, <1>4, <1>5
<1>7. Owned(fd_table', opened', Live')
  BY <1>3, <1>4, <1>5, <1>6
<1>. QED
  BY <1>6, <1>7, OwnedThen

\* A process ends, and perhaps a base shell takes its place: its descriptors
\* go, and nobody else's.
LEMMA EndsOwned ==
  ASSUME ReadingInv, FilesOwned, NEW t \in Terms, jobs[t] # << >>, NEW status,
         Ended(t, status),
         LET victim == Last(jobs[t])
         IN cur_pid = victim \/ opened[cur_pid] \cup opened[victim] = {}
  PROVE  FilesOwned' /\ opened' = [opened EXCEPT ![Last(jobs[t])] = {}]
<1> DEFINE victim == Last(jobs[t])
           own    == [opened EXCEPT ![victim] = {}]
<1>1. TypeOK /\ JobsDiffer /\ Owned(fd_table, opened, Live)
      /\ opened \in [Pids -> SUBSET Fds] /\ Live' = LiveIn(jobs')
  BY OwnedNow, JobsNow DEF ReadingInv, TypeOK
<1>2. /\ victim \in Pids
      /\ \/ /\ LiveIn(jobs') = Live \ {victim}
            /\ fd_table' = CloseFiles(victim)
            /\ opened' = own
         \/ \E p \in Pids \ (Live \ {victim}) :
              /\ LiveIn(jobs') = (Live \ {victim}) \cup {p}
              /\ fd_table' = init_pcb(CloseFiles(victim), p)
              /\ opened' = [own EXCEPT ![p] = {}]
  BY <1>1, EndedFacts
<1>3. cur_pid = victim \/ opened[cur_pid] \cup opened[victim] = {}
  OBVIOUS
<1>. HIDE DEF victim
<1>4. Owned(CloseFiles(victim), own, Live \ {victim})
  BY <1>1, <1>2, <1>3, EndOwned
<1>5. CloseFiles(victim) \in FdTables /\ own \in [Pids -> SUBSET Fds]
  BY <1>1, <1>2, CloseFilesFacts
<1>. HIDE DEF own
<1>6. CASE fd_table' = CloseFiles(victim) /\ opened' = own
           /\ LiveIn(jobs') = Live \ {victim}
  <2>1. Owned(fd_table', opened', Live')
    BY <1>1, <1>4, <1>6
  <2>. QED
    BY <1>5, <1>6, <2>1, OwnedThen DEF own, victim
<1>7. ASSUME NEW p \in Pids \ (Live \ {victim}),
             LiveIn(jobs') = (Live \ {victim}) \cup {p},
             fd_table' = init_pcb(CloseFiles(victim), p),
             opened' = [own EXCEPT ![p] = {}]
      PROVE  FilesOwned' /\ opened' = own
  <2> DEFINE rest == Live \ {victim}
  <2>1. p \in Pids /\ p \notin rest /\ Owned(CloseFiles(victim), own, rest)
    BY <1>4, <1>7
  <2>. HIDE DEF rest
  <2>2. own[p] = {} /\ Owned(init_pcb(CloseFiles(victim), p), own, rest \cup {p})
    BY <1>5, <2>1, StartOwned
  <2>3. Live' = rest \cup {p}
    BY <1>1, <1>7 DEF rest
  <2>4. opened' = own /\ Owned(fd_table', opened', Live')
    BY <1>5, <1>7, <2>2, <2>3
  <2>. QED
    BY <1>5, <2>4, OwnedThen
<1>. QED
  BY <1>2, <1>6, <1>7 DEF own, victim

\* No step gives a descriptor to a process that has not opened it, or frees
\* one for a process that has.
LEMMA OwnedNext ==
  ASSUME ReadingInv, FilesOwned, OwnersKnown, [Next]_vars
  PROVE  FilesOwned'
<1>1. /\ TypeOK /\ JobsDiffer /\ Owned(fd_table, opened, Live)
      /\ fd_table \in FdTables /\ opened \in [Pids -> SUBSET Fds]
      /\ cur_pid \in Pids /\ cur_pid \in Live
      /\ curr_term \in Terms /\ running_term \in Terms /\ jobs[running_term] # << >>
  BY OwnedNow, CurPid DEF ReadingInv, TypeOK, FdTables
<1>2. CASE UNCHANGED << jobs, fd_table, opened >>
  BY <1>1, <1>2, SameOwners
<1>3. CASE UNCHANGED vars
  BY <1>2, <1>3 DEF vars
<1>4. ASSUME NEW name, open_func(name)
      PROVE  FilesOwned'
  <2>1. CASE UNCHANGED files
    BY <1>2, <1>4, <2>1 DEF files, procs, open_func
  <2>2. ASSUME NEW fd \in Fds, NEW d \in Descriptors, fd >= 2, d.flags = 1,
               SetsDescriptor(cur_pid, fd, d),
               opened' = [opened EXCEPT ![cur_pid] = @ \cup {fd}]
        PROVE  FilesOwned'
    <3>1. /\ fd_table'[cur_pid][fd] = d
          /\ \A p \in Pids, g \in Fds :
               p # cur_pid \/ g # fd => fd_table'[p][g] = fd_table[p][g]
      BY <1>1, <2>2, SetDescriptor
    <3>2. /\ opened' \in [Pids -> SUBSET Fds]
          /\ \A p \in Pids, g \in Fds :
               g \in opened'[p] <=> g \in opened[p] \/ (p = cur_pid /\ g = fd)
      BY <1>1, <2>2
    <3>3. Live' = Live
      BY <1>4 DEF open_func, procs, Live
    <3>4. Owned(fd_table', opened', Live')
      <4>1. SUFFICES ASSUME NEW p \in Pids, NEW g \in Fds
                     PROVE  /\ g \in opened'[p] <=> g >= 2 /\ fd_table'[p][g].flags = 1
                            /\ g \in opened'[p] => p \in Live
                            /\ g < 2 => fd_table'[p][g].op_table_ptr \notin {"file", "dir"}
        BY <3>3 DEF Owned
      <4>2. CASE p = cur_pid /\ g = fd
        <5>1. ~(g < 2)
          BY <2>2, <4>2, FirstFds
        <5>. QED
          BY <1>1, <2>2, <3>1, <3>2, <4>2, <5>1
      <4>3. CASE ~(p = cur_pid /\ g = fd)
        <5>1. fd_table'[p][g] = fd_table[p][g] /\ (g \in opened'[p] <=> g \in opened[p])
          BY <3>1, <3>2, <4>3
        <5>. QED
          BY <1>1, <5>1 DEF Owned
      <4>. QED
        BY <4>2, <4>3
    <3>. QED
      BY <3>2, <3>4, OwnedThen
  <2>. QED
    BY <1>1, <1>4, <2>1, <2>2, OpenFacts DEF OwnersKnown
<1>5. ASSUME NEW fd, close_func(fd)
      PROVE  FilesOwned'
  <2>1. CASE UNCHANGED files
    BY <1>2, <1>5, <2>1 DEF files, procs, close_func
  <2>2. CASE /\ fd \in Fds /\ fd >= 2
             /\ SetsDescriptor(cur_pid, fd, [fd_table[cur_pid][fd] EXCEPT !.flags = 0])
             /\ [fd_table[cur_pid][fd] EXCEPT !.flags = 0] \in Descriptors
             /\ opened' = [opened EXCEPT ![cur_pid] = @ \ {fd}]
    <3>1. /\ fd_table'[cur_pid][fd] = [fd_table[cur_pid][fd] EXCEPT !.flags = 0]
          /\ \A p \in Pids, g \in Fds :
               p # cur_pid \/ g # fd => fd_table'[p][g] = fd_table[p][g]
      BY <1>1, <2>2, SetDescriptor
    <3>2. /\ opened' \in [Pids -> SUBSET Fds]
          /\ \A p \in Pids, g \in Fds :
               g \in opened'[p] <=> g \in opened[p] /\ ~(p = cur_pid /\ g = fd)
      BY <1>1, <2>2
    <3>3. Live' = Live
      BY <1>5 DEF close_func, procs, Live
    <3>4. fd_table'[cur_pid][fd].flags = 0
      <4>1. fd_table[cur_pid] \in [Fds -> Descriptors]
        BY <1>1 DEF FdTables
      <4>2. fd_table[cur_pid][fd] \in Descriptors
        BY <2>2, <4>1
      <4>. QED
        BY <3>1, <4>2 DEF Descriptors
    <3>5. Owned(fd_table', opened', Live')
      <4>1. SUFFICES ASSUME NEW p \in Pids, NEW g \in Fds
                     PROVE  /\ g \in opened'[p] <=> g >= 2 /\ fd_table'[p][g].flags = 1
                            /\ g \in opened'[p] => p \in Live
                            /\ g < 2 => fd_table'[p][g].op_table_ptr \notin {"file", "dir"}
        BY <3>3 DEF Owned
      <4>2. CASE p = cur_pid /\ g = fd
        <5>1. ~(g < 2)
          BY <2>2, <4>2, FirstFds
        <5>. QED
          BY <3>2, <3>4, <4>2, <5>1
      <4>3. CASE ~(p = cur_pid /\ g = fd)
        <5>1. fd_table'[p][g] = fd_table[p][g] /\ (g \in opened'[p] <=> g \in opened[p])
          BY <3>1, <3>2, <4>3
        <5>. QED
          BY <1>1, <5>1 DEF Owned
      <4>. QED
        BY <4>2, <4>3
    <3>. QED
      BY <3>2, <3>5, OwnedThen
  <2>. QED
    BY <1>1, <1>5, <2>1, <2>2, CloseFacts
<1>6. ASSUME NEW fd, NEW n \in 1 .. MaxBytes, read_func(fd, n)
      PROVE  FilesOwned'
  <2>1. UNCHANGED << jobs, opened >>
    BY <1>6 DEF read_func, procs
  <2>2. UNCHANGED fd_table \/ (fd \in Fds /\ file_read(fd, n))
    BY <1>6 DEF read_func, dir_read, OtherRead
  <2>3. CASE UNCHANGED fd_table
    BY <1>2, <2>1, <2>3
  <2>4. CASE fd \in Fds /\ file_read(fd, n)
    <3>1. PICK v : fd_table' = [fd_table EXCEPT ![cur_pid][fd].file_position = v]
      BY <2>4 DEF file_read
    <3>2. \A p \in Pids, g \in Fds :
            /\ fd_table'[p][g].flags = fd_table[p][g].flags
            /\ fd_table'[p][g].op_table_ptr = fd_table[p][g].op_table_ptr
      <4>1. /\ fd_table \in [Pids -> [Fds -> Descriptors]]
            /\ fd_table[cur_pid] \in [Fds -> Descriptors]
            /\ fd_table[cur_pid][fd] \in Descriptors
        BY <1>1, <2>4 DEF FdTables
      <4> DEFINE new == [fd_table[cur_pid][fd] EXCEPT !.file_position = v]
      <4>2. /\ new.flags = fd_table[cur_pid][fd].flags
            /\ new.op_table_ptr = fd_table[cur_pid][fd].op_table_ptr
        BY <4>1 DEF Descriptors
      <4>3. fd_table' = [fd_table EXCEPT ![cur_pid] = [fd_table[cur_pid] EXCEPT ![fd] = new]]
        BY <1>1, <2>4, <3>1, <4>1
      <4>. HIDE DEF new
      <4>4. \A p \in Pids, g \in Fds :
              fd_table'[p][g] = IF p = cur_pid /\ g = fd THEN new ELSE fd_table[p][g]
        BY <1>1, <2>4, <4>1, <4>3
      <4>5. SUFFICES ASSUME NEW p \in Pids, NEW g \in Fds
                     PROVE  /\ fd_table'[p][g].flags = fd_table[p][g].flags
                            /\ fd_table'[p][g].op_table_ptr = fd_table[p][g].op_table_ptr
        OBVIOUS
      <4>. QED
        BY <4>2, <4>4
    <3>. QED
      BY <1>1, <2>1, <3>2, SameOwners
  <2>. QED
    BY <2>2, <2>3, <2>4
<1>7. ASSUME NEW fd, NEW n \in 1 .. MaxBytes, write_func(fd, n)
      PROVE  FilesOwned'
  BY <1>2, <1>7 DEF write_func, procs, files
<1>8. CASE execute_func
  <2>1. /\ Live # Pids /\ jobs' = NewJob(jobs, curr_term)
        /\ fd_table' = init_pcb(fd_table, Last(NewJob(jobs, curr_term)[curr_term]))
        /\ opened' = [opened EXCEPT ![Last(NewJob(jobs, curr_term)[curr_term])] = {}]
    BY <1>8 DEF execute_func, Started
  <2>. QED
    BY <1>1, <2>1, BeginOwned
<1>9. CASE OtherCall
  BY <1>2, <1>9 DEF OtherCall, procs, files
<1>10. CASE halt_func(0)
  <2>1. Ended(running_term, 0) /\ cur_pid = Last(jobs[running_term])
    BY <1>10 DEF halt_func, cur_pid
  <2>. QED
    BY <1>1, <2>1, EndsOwned
<1>11. CASE LoadResult
  BY <1>2, <1>11 DEF LoadResult, procs, files
<1>12. CASE CtrlC
  <2>1. Ended(curr_term, 1) /\ jobs[curr_term] # << >>
    BY <1>12 DEF CtrlC
  <2>2. \/ cur_pid = Last(jobs[curr_term])
        \/ opened[cur_pid] \cup opened[Last(jobs[curr_term])] = {}
    BY <1>12 DEF CtrlC, cur_pid, OwnersKnown
  <2>. QED
    BY <1>1, <2>1, <2>2, EndsOwned
<1>13. ASSUME NEW t \in Terms, AltF(t)
       PROVE  FilesOwned'
  <2>1. CASE jobs[t] # << >>
    BY <1>2, <1>13, <2>1 DEF AltF, files
  <2>2. CASE jobs[t] = << >>
    <3>1. /\ Live # Pids /\ jobs' = NewJob(jobs, t) /\ opened' = opened
          /\ fd_table' = init_pcb(fd_table, Last(NewJob(jobs, t)[t]))
      BY <1>13, <2>2 DEF AltF
    <3>. QED
      BY <3>1, BeginOwned
  <2>. QED
    BY <2>1, <2>2
<1>14. ASSUME NEW t \in Terms, Tick(t)
       PROVE  FilesOwned'
  BY <1>2, <1>14 DEF Tick, files
<1>15. CASE Calls
  <2>1. CASE \E fd \in 0 .. MaxFiles :
               \/ close_func(fd)
               \/ \E n \in 1 .. MaxBytes : read_func(fd, n) \/ write_func(fd, n)
    BY <1>5, <1>6, <1>7, <2>1
  <2>2. CASE \E name \in Names \cup {"nosuchfile"} : open_func(name)
    BY <1>4, <2>2
  <2>. QED
    BY <1>8, <1>9, <1>10, <1>15, <2>1, <2>2 DEF Calls
<1>. QED
  BY <1>3, <1>11, <1>12, <1>13, <1>14, <1>15 DEF Next

\* Nobody has a descriptor at the beginning.
LEMMA OwnedInit == Init => FilesOwned
<1>1. SUFFICES ASSUME Init PROVE FilesOwned
  OBVIOUS
<1> DEFINE none == [op_table_ptr |-> "none", inode |-> 0, file_position |-> 0,
                    flags |-> 0]
           fds  == [p \in Pids |-> [fd \in Fds |-> none]]
           own  == [p \in Pids |-> {}]
<1>2. 0 \in Pids
  BY ConstantsAssumption DEF Pids
<1>3. none \in Descriptors /\ none.op_table_ptr = "none" /\ none.flags = 0
  BY DEF Descriptors, Tables
<1>4. fd_table = init_pcb(fds, 0) /\ opened = own
  BY <1>1 DEF Init
<1>. HIDE DEF none
<1>5. fds \in FdTables /\ \A p \in Pids, fd \in Fds : fds[p][fd] = none
  BY <1>3 DEF FdTables
<1>6. own \in [Pids -> SUBSET Fds] /\ \A p \in Pids : own[p] = {}
  OBVIOUS
<1>. HIDE DEF fds, own
<1>7. Owned(fds, own, {})
  BY <1>3, <1>5, <1>6 DEF Owned
<1>8. Owned(fd_table, opened, {} \cup {0})
  BY <1>2, <1>4, <1>5, <1>6, <1>7, StartOwned
<1>9. \A p \in Pids : opened[p] = {}
  BY <1>4, <1>6
<1>10. Owned(fd_table, opened, Live)
  BY <1>8, <1>9 DEF Owned
<1>11. TypeOK
  BY <1>1, ReadingInit DEF ReadingInv
<1>. QED
  BY <1>10, <1>11, OwnedNow

\* The descriptors a process has in use are the ones it has opened, where the
\* image has the types open_func knows and Ctrl+C meets no descriptors of two.
THEOREM OwnersInvariant ==
  ASSUME OwnersKnown
  PROVE  Spec => [](ReadingInv /\ FilesOwned)
<1>1. Init => ReadingInv /\ FilesOwned
  BY ReadingInit, OwnedInit
<1>2. (ReadingInv /\ FilesOwned) /\ [Next]_vars => (ReadingInv /\ FilesOwned)'
  BY ReadingNext, OwnedNext
<1>. QED
  BY <1>1, <1>2, PTL DEF Spec

\* The run's property: of the processes that live.
THEOREM DescriptorsOwnedHolds ==
  ASSUME OwnersKnown
  PROVE  Spec => []DescriptorsOwned
<1>1. ReadingInv /\ FilesOwned => DescriptorsOwned
  <2>1. SUFFICES ASSUME ReadingInv, FilesOwned PROVE DescriptorsOwned
    OBVIOUS
  <2>2. Live \subseteq Pids
    BY <2>1, LiveInJobs, JobsNow DEF ReadingInv, TypeOK
  <2>. QED
    BY <2>1, <2>2 DEF DescriptorsOwned, FilesOwned
<1>. QED
  BY <1>1, OwnersInvariant, PTL

-----------------------------------------------------------------------------
(* The listing, where besides one is opened at a time and read to its end. *)

\* The names of the first k entries.
NamesTo(k) == [i \in 1 .. k |-> dir_entries[i].file_name]

\* The names before, and the next one.
LEMMA NextName ==
  /\ NamesTo(0) = << >>
  /\ \A k \in Nat : k < Len(dir_entries) =>
       Append(NamesTo(k), dir_entries[k + 1].file_name) = NamesTo(k + 1)
<1>1. NamesTo(0) = << >>
  BY DEF NamesTo
<1>2. SUFFICES ASSUME NEW k \in Nat, k < Len(dir_entries)
               PROVE  Append(NamesTo(k), dir_entries[k + 1].file_name) = NamesTo(k + 1)
  BY <1>1
<1> DEFINE S == {dir_entries[i].file_name : i \in 1 .. Len(dir_entries)}
           x == dir_entries[k + 1].file_name
<1>3. Len(dir_entries) \in Nat
  BY ImageAssumption
<1>4. \A j \in Nat : j <= Len(dir_entries) =>
        /\ NamesTo(j) \in Seq(S) /\ Len(NamesTo(j)) = j
        /\ \A i \in 1 .. j : NamesTo(j)[i] = dir_entries[i].file_name
  <2>1. SUFFICES ASSUME NEW j \in Nat, j <= Len(dir_entries)
                 PROVE  /\ NamesTo(j) \in Seq(S) /\ Len(NamesTo(j)) = j
                        /\ \A i \in 1 .. j : NamesTo(j)[i] = dir_entries[i].file_name
    OBVIOUS
  <2>2. \A i \in 1 .. j : dir_entries[i].file_name \in S
    BY <1>3, <2>1
  <2>. HIDE DEF S
  <2>. QED
    BY <2>2 DEF NamesTo
<1>5. x \in S
  BY <1>2, <1>3
<1>. HIDE DEF S
<1>6. /\ NamesTo(k) \in Seq(S) /\ Len(NamesTo(k)) = k
      /\ \A i \in 1 .. k : NamesTo(k)[i] = dir_entries[i].file_name
  BY <1>2, <1>4
<1>7. /\ NamesTo(k + 1) \in Seq(S) /\ Len(NamesTo(k + 1)) = k + 1
      /\ \A i \in 1 .. k + 1 : NamesTo(k + 1)[i] = dir_entries[i].file_name
  BY <1>2, <1>3, <1>4
<1>. HIDE DEF x
<1>8. /\ Append(NamesTo(k), x) \in Seq(S)
      /\ Len(Append(NamesTo(k), x)) = k + 1
      /\ \A i \in 1 .. k : Append(NamesTo(k), x)[i] = NamesTo(k)[i]
      /\ Append(NamesTo(k), x)[k + 1] = x
  BY <1>5, <1>6, AppendProperties
<1>9. \A i \in 1 .. k + 1 : Append(NamesTo(k), x)[i] = NamesTo(k + 1)[i]
  <2>1. SUFFICES ASSUME NEW i \in 1 .. k + 1
                 PROVE  Append(NamesTo(k), x)[i] = NamesTo(k + 1)[i]
    OBVIOUS
  <2>2. CASE i = k + 1
    BY <1>7, <1>8, <2>2 DEF x
  <2>3. CASE i # k + 1
    <3>1. i \in 1 .. k
      BY <2>3
    <3>. QED
      BY <1>6, <1>7, <1>8, <3>1
  <2>. QED
    BY <2>2, <2>3
<1>. QED
  BY <1>7, <1>8, <1>9, SeqEqual DEF x

\* OneListing, with the names by their number and the listing by its descriptor.
LEMMA ListingNow ==
  ASSUME TypeOK
  PROVE  /\ Listing <=> \E p \in Pids : \E fd \in Fds : Lists(p, fd)
         /\ OneListing =>
              /\ \A p, q \in Pids : \A fd, g \in Fds :
                   Lists(p, fd) /\ Lists(q, g) => p = q /\ fd = g
              /\ \A p \in Pids : \A fd \in Fds :
                   Lists(p, fd) => got[p][fd] = NamesTo(dir_number)
              /\ ~(\E p \in Pids : \E fd \in Fds : Lists(p, fd)) => dir_number = 0
<1>1. \A p \in Pids : opened[p] \subseteq Fds
  BY DEF TypeOK
<1>2. Listing <=> \E p \in Pids : \E fd \in Fds : Lists(p, fd)
  BY <1>1 DEF Listing, Lists
<1>. QED
  BY <1>2 DEF OneListing, NamesTo

\* The same after a step: lists(p, fd) there is Lists(p, fd)'.
LEMMA ListingThen ==
  ASSUME opened' \in [Pids -> SUBSET Fds],
         \A p, q \in Pids : \A fd, g \in Fds :
           Lists(p, fd)' /\ Lists(q, g)' => p = q /\ fd = g,
         \A p \in Pids : \A fd \in Fds :
           Lists(p, fd)' => got'[p][fd] = NamesTo(dir_number'),
         dir_number' = 0 \/ \E p \in Pids : \E fd \in Fds : Lists(p, fd)'
  PROVE  OneListing'
<1>1. \A p \in Pids : opened'[p] \subseteq Fds
  OBVIOUS
<1>2. dir_number' = 0 \/ Listing'
  BY <1>1 DEF Listing, Lists
<1>. QED
  BY <1>2 DEF OneListing, NamesTo

\* Where nothing new lists, and the listing there is stays open.
LEMMA ListingFewer ==
  ASSUME TypeOK, OneListing, opened' \in [Pids -> SUBSET Fds], dir_number' = dir_number,
         \A p \in Pids : \A fd \in Fds :
           Lists(p, fd)' => Lists(p, fd) /\ got'[p][fd] = got[p][fd],
         dir_number = 0 \/ \A p \in Pids : \A fd \in Fds : Lists(p, fd) => Lists(p, fd)'
  PROVE  OneListing'
<1>1. /\ \A p, q \in Pids : \A fd, g \in Fds :
           Lists(p, fd) /\ Lists(q, g) => p = q /\ fd = g
      /\ \A p \in Pids : \A fd \in Fds :
           Lists(p, fd) => got[p][fd] = NamesTo(dir_number)
      /\ ~(\E p \in Pids : \E fd \in Fds : Lists(p, fd)) => dir_number = 0
  BY ListingNow
<1>2. dir_number' = 0 \/ \E p \in Pids : \E fd \in Fds : Lists(p, fd)'
  BY <1>1
<1>. QED
  BY <1>1, <1>2, ListingThen

\* Where the descriptors stay as they are.
LEMMA SameListing ==
  ASSUME OneListing, UNCHANGED files
  PROVE  OneListing'
BY DEF OneListing, Lists, Listing, files

\* A process begins or ends: what stays open is read on, and what is closed
\* lists nothing or is at its end.
LEMMA ProcessListing ==
  ASSUME TypeOK, FilesOwned, OneListing, UNCHANGED << got, dir_number >>,
         opened' \in [Pids -> SUBSET Fds],
         \A p \in Pids : opened'[p] \subseteq opened[p],
         \A p \in Pids, fd \in Fds :
           fd >= 2 => fd_table'[p][fd].op_table_ptr = fd_table[p][fd].op_table_ptr,
         dir_number = 0 \/ \A p \in Pids : \A fd \in Fds :
                             Lists(p, fd) => fd \in opened'[p]
  PROVE  OneListing'
<1>1. \A p \in Pids : \A fd \in Fds : fd \in opened[p] => fd >= 2
  BY OwnedNow DEF Owned
<1>2. \A p \in Pids : \A fd \in Fds : Lists(p, fd)' <=> fd \in opened'[p] /\ Lists(p, fd)
  BY <1>1 DEF Lists
<1>3. dir_number = 0 \/ \A p \in Pids : \A fd \in Fds : Lists(p, fd) => Lists(p, fd)'
  BY <1>2
<1>. QED
  BY <1>2, <1>3, ListingFewer

\* A read of the directory gives the listing's next name, or ends it.
LEMMA DirReadListing ==
  ASSUME TypeOK, FilesOwned, OneListing, NEW fd \in Fds,
         fd_table[cur_pid][fd].flags # 0,
         fd_table[cur_pid][fd].op_table_ptr = "dir",
         dir_read(fd), UNCHANGED opened
  PROVE  OneListing'
<1>1. /\ cur_pid \in Pids /\ opened \in [Pids -> SUBSET Fds]
      /\ dir_number \in 0 .. Len(dir_entries) /\ Len(dir_entries) \in Nat
      /\ fd_table \in [Pids -> [Fds -> Descriptors]]
  BY CurPid, ImageAssumption DEF TypeOK
<1>2. Lists(cur_pid, fd)
  <2>1. fd_table[cur_pid] \in [Fds -> Descriptors] /\ fd_table[cur_pid][fd] \in Descriptors
    BY <1>1
  <2>2. fd_table[cur_pid][fd].flags = 1
    BY <2>1 DEF Descriptors
  <2>3. Owned(fd_table, opened, Live) /\ (fd >= 2 \/ fd < 2)
    BY OwnedNow, FirstFds
  <2>4. fd \in opened[cur_pid]
    BY <1>1, <2>2, <2>3 DEF Owned
  <2>. QED
    BY <2>4 DEF Lists
<1>3. /\ \A p, q \in Pids : \A g, h \in Fds :
           Lists(p, g) /\ Lists(q, h) => p = q /\ g = h
      /\ got[cur_pid][fd] = NamesTo(dir_number)
  BY <1>1, <1>2, ListingNow
<1>4. \A p \in Pids : \A g \in Fds : Lists(p, g)' <=> Lists(p, g)
  BY DEF dir_read, Lists
<1>5. SetsGot(cur_pid, fd, NamesTo(dir_number'))
  <2>1. CASE dir_number < Len(dir_entries)
    <3>1. /\ got' = [got EXCEPT ![cur_pid][fd] =
                       Append(got[cur_pid][fd], dir_entries[dir_number + 1].file_name)]
          /\ dir_number' = dir_number + 1
      <4>1. DOMAIN got = Pids /\ DOMAIN got[cur_pid] = Fds
        BY <1>1 DEF TypeOK
      <4>. QED
        BY <1>1, <2>1, <4>1 DEF dir_read
    <3>2. Append(got[cur_pid][fd], dir_entries[dir_number + 1].file_name)
            = NamesTo(dir_number')
      BY <1>1, <1>3, <2>1, <3>1, NextName
    <3>. QED
      BY <3>1, <3>2 DEF SetsGot
  <2>2. CASE ~(dir_number < Len(dir_entries))
    <3>1. got' = [got EXCEPT ![cur_pid][fd] = << >>] /\ dir_number' = 0
      BY <2>2 DEF dir_read
    <3>. QED
      BY <3>1, NextName DEF SetsGot
  <2>. QED
    BY <2>1, <2>2
<1>6. got'[cur_pid][fd] = NamesTo(dir_number')
  BY <1>1, <1>5, SetGot
<1>7. \A p \in Pids : \A g \in Fds : Lists(p, g)' => p = cur_pid /\ g = fd
  BY <1>1, <1>2, <1>3, <1>4
<1>8. \E p \in Pids : \E g \in Fds : Lists(p, g)'
  BY <1>1, <1>2, <1>4
<1>9. \A p \in Pids : \A g \in Fds : Lists(p, g)' => got'[p][g] = NamesTo(dir_number')
  BY <1>6, <1>7
<1>10. \A p, q \in Pids : \A g, h \in Fds :
         Lists(p, g)' /\ Lists(q, h)' => p = q /\ g = h
  BY <1>7
<1>. QED
  BY <1>1, <1>8, <1>9, <1>10, ListingThen

\* The calls of open keep the listing: a directory opens where nothing lists.
LEMMA OpenListing ==
  ASSUME TypeOK, FilesOwned, OneListing, OwnersKnown, "dirs" \notin Hazards,
         NEW name, open_func(name)
  PROVE  OneListing'
<1>1. /\ cur_pid \in Pids /\ opened \in [Pids -> SUBSET Fds]
      /\ Owned(fd_table, opened, Live)
      /\ (Listing <=> \E p \in Pids : \E fd \in Fds : Lists(p, fd))
      /\ \A p, q \in Pids : \A fd, g \in Fds :
           Lists(p, fd) /\ Lists(q, g) => p = q /\ fd = g
      /\ \A p \in Pids : \A fd \in Fds :
           Lists(p, fd) => got[p][fd] = NamesTo(dir_number)
      /\ ~(\E p \in Pids : \E fd \in Fds : Lists(p, fd)) => dir_number = 0
  BY CurPid, OwnedNow, ListingNow DEF TypeOK
<1>2. dir_number' = dir_number
  BY OpenFacts
<1>3. CASE UNCHANGED files
  BY <1>3, SameListing
<1>4. ASSUME NEW fd \in Fds, NEW d \in Descriptors,
             fd_table[cur_pid][fd].flags = 0,
             SetsDescriptor(cur_pid, fd, d), SetsGot(cur_pid, fd, << >>),
             opened' = [opened EXCEPT ![cur_pid] = @ \cup {fd}],
             d.op_table_ptr = "dir" => ~Listing
      PROVE  OneListing'
  <2>1. PICK me \in Pids : me = cur_pid
    BY <1>1
  <2>2. /\ fd_table'[me][fd] = d
        /\ \A p \in Pids, g \in Fds : p # me \/ g # fd => fd_table'[p][g] = fd_table[p][g]
    BY <1>1, <1>4, <2>1, SetDescriptor
  <2>3. /\ got'[me][fd] = << >>
        /\ \A p \in Pids, g \in Fds : p # me \/ g # fd => got'[p][g] = got[p][g]
    BY <1>1, <1>4, <2>1, SetGot
  <2>4. /\ opened' \in [Pids -> SUBSET Fds]
        /\ \A p \in Pids, g \in Fds :
             g \in opened'[p] <=> g \in opened[p] \/ (p = me /\ g = fd)
    BY <1>1, <1>4, <2>1
  <2>5. fd \notin opened[me]
    BY <1>1, <1>4, <2>1 DEF Owned
  <2>6. \A p \in Pids, g \in Fds :
          IF p = me /\ g = fd THEN Lists(p, g)' <=> d.op_table_ptr = "dir"
                              ELSE Lists(p, g)' <=> Lists(p, g)
    <3>1. SUFFICES ASSUME NEW p \in Pids, NEW g \in Fds
                   PROVE  IF p = me /\ g = fd THEN Lists(p, g)' <=> d.op_table_ptr = "dir"
                                              ELSE Lists(p, g)' <=> Lists(p, g)
      OBVIOUS
    <3>2. CASE p = me /\ g = fd
      BY <2>2, <2>4, <3>2 DEF Lists
    <3>3. CASE ~(p = me /\ g = fd)
      BY <2>2, <2>4, <3>3 DEF Lists
    <3>. QED
      BY <3>2, <3>3
  <2>7. ~Lists(me, fd)
    BY <2>5 DEF Lists
  <2>8. CASE d.op_table_ptr = "dir"
    <3>1. ~Listing /\ dir_number = 0
      BY <1>1, <1>4, <2>8
    <3>2. \A p \in Pids, g \in Fds : Lists(p, g)' <=> p = me /\ g = fd
      BY <1>1, <2>6, <2>8, <3>1
    <3>3. \A p \in Pids : \A g \in Fds : Lists(p, g)' => got'[p][g] = NamesTo(dir_number')
      BY <1>2, <2>3, <3>1, <3>2, NextName
    <3>. QED
      BY <1>2, <2>4, <3>1, <3>2, <3>3, ListingThen
  <2>9. CASE d.op_table_ptr # "dir"
    <3>1. \A p \in Pids : \A g \in Fds : Lists(p, g)' <=> Lists(p, g)
      <4>1. SUFFICES ASSUME NEW p \in Pids, NEW g \in Fds
                     PROVE  Lists(p, g)' <=> Lists(p, g)
        OBVIOUS
      <4>2. CASE p = me /\ g = fd
        BY <2>6, <2>7, <2>9, <4>2
      <4>3. CASE ~(p = me /\ g = fd)
        BY <2>6, <4>3
      <4>. QED
        BY <4>2, <4>3
    <3>2. \A p \in Pids : \A g \in Fds :
            Lists(p, g)' => Lists(p, g) /\ got'[p][g] = got[p][g]
      BY <2>3, <2>7, <3>1
    <3>. QED
      BY <1>2, <2>4, <3>1, <3>2, ListingFewer
  <2>. QED
    BY <2>8, <2>9
<1>. QED
  BY <1>3, <1>4, OpenFacts DEF OwnersKnown

\* close keeps it: what it closes lists nothing, or is at its end.
LEMMA CloseListing ==
  ASSUME TypeOK, OneListing, "dirs" \notin Hazards, NEW fd, close_func(fd)
  PROVE  OneListing'
<1>1. cur_pid \in Pids /\ opened \in [Pids -> SUBSET Fds]
      /\ fd_table \in [Pids -> [Fds -> Descriptors]]
  BY CurPid DEF TypeOK
<1>2. dir_number' = dir_number
  BY CloseFacts
<1>3. CASE UNCHANGED files
  BY <1>3, SameListing
<1>4. CASE /\ fd \in Fds
           /\ Unfinished(cur_pid, {fd}) => "dirs" \in Hazards
           /\ SetsDescriptor(cur_pid, fd, [fd_table[cur_pid][fd] EXCEPT !.flags = 0])
           /\ [fd_table[cur_pid][fd] EXCEPT !.flags = 0] \in Descriptors
           /\ opened' = [opened EXCEPT ![cur_pid] = @ \ {fd}]
           /\ SetsGot(cur_pid, fd, << >>)
  <2>1. PICK me \in Pids : me = cur_pid
    BY <1>1
  <2>2. \A p \in Pids, g \in Fds : p # me \/ g # fd => fd_table'[p][g] = fd_table[p][g]
    BY <1>1, <1>4, <2>1, SetDescriptor
  <2>3. \A p \in Pids, g \in Fds : p # me \/ g # fd => got'[p][g] = got[p][g]
    BY <1>1, <1>4, <2>1, SetGot
  <2>4. /\ opened' \in [Pids -> SUBSET Fds]
        /\ \A p \in Pids, g \in Fds :
             g \in opened'[p] <=> g \in opened[p] /\ ~(p = me /\ g = fd)
    BY <1>1, <1>4, <2>1
  <2>5. \A p \in Pids : \A g \in Fds : Lists(p, g)' <=> Lists(p, g) /\ ~(p = me /\ g = fd)
    <3>1. SUFFICES ASSUME NEW p \in Pids, NEW g \in Fds
                   PROVE  Lists(p, g)' <=> Lists(p, g) /\ ~(p = me /\ g = fd)
      OBVIOUS
    <3>2. CASE p = me /\ g = fd
      BY <2>4, <3>2 DEF Lists
    <3>3. CASE ~(p = me /\ g = fd)
      BY <2>2, <2>4, <3>3 DEF Lists
    <3>. QED
      BY <3>2, <3>3
  <2>6. \A p \in Pids : \A g \in Fds :
          Lists(p, g)' => Lists(p, g) /\ got'[p][g] = got[p][g]
    BY <2>3, <2>5
  <2>7. dir_number = 0 \/ ~Lists(me, fd)
    BY <1>4, <2>1 DEF Unfinished, Lists
  <2>8. dir_number = 0 \/ \A p \in Pids : \A g \in Fds : Lists(p, g) => Lists(p, g)'
    BY <2>5, <2>7
  <2>. QED
    BY <1>2, <2>4, <2>6, <2>8, ListingFewer
<1>. QED
  BY <1>3, <1>4, CloseFacts

\* A read of a file or of another descriptor is none of the listing.
LEMMA FileReadListing ==
  ASSUME ReadingInv, OneListing, NEW fd \in Fds, NEW n \in 1 .. MaxBytes,
         fd_table[cur_pid][fd].op_table_ptr = "file",
         file_read(fd, n), UNCHANGED opened
  PROVE  OneListing'
<1> DEFINE d    == fd_table[cur_pid][fd]
           data == read_data(d.inode, d.file_position, n)
           new  == [d EXCEPT !.file_position = @ + data[1]]
<1>1. /\ TypeOK /\ cur_pid \in Pids /\ opened \in [Pids -> SUBSET Fds]
      /\ fd_table \in [Pids -> [Fds -> Descriptors]]
      /\ DOMAIN got = Pids /\ \A p \in Pids : DOMAIN got[p] = Fds
  BY CurPid DEF ReadingInv, TypeOK
<1>2. fd_table[cur_pid] \in [Fds -> Descriptors] /\ d \in Descriptors
  BY <1>1
<1>3. /\ fd_table' = [fd_table EXCEPT ![cur_pid][fd].file_position = @ + data[1]]
      /\ got' = [got EXCEPT ![cur_pid][fd] = @ \o data[2]]
      /\ UNCHANGED dir_number
  BY DEF file_read
<1>. HIDE DEF data
<1>4. fd_table' = [fd_table EXCEPT ![cur_pid] = [fd_table[cur_pid] EXCEPT ![fd] = new]]
  BY <1>1, <1>2, <1>3
<1>5. new.op_table_ptr = "file"
  BY <1>2 DEF Descriptors
<1>6. PICK me \in Pids : me = cur_pid
  BY <1>1
<1>. HIDE DEF new
<1>7. \A p \in Pids, g \in Fds :
        fd_table'[p][g] = IF p = me /\ g = fd THEN new ELSE fd_table[p][g]
  BY <1>1, <1>2, <1>4, <1>6
<1>8. \A p \in Pids, g \in Fds : p # me \/ g # fd => got'[p][g] = got[p][g]
  <2>1. SetsGot(cur_pid, fd, got[cur_pid][fd] \o data[2])
    BY <1>1, <1>3 DEF SetsGot
  <2>. QED
    BY <1>1, <1>6, <2>1, SetGot
<1>9. fd_table[me][fd].op_table_ptr = "file"
  BY <1>6
<1>10. \A p \in Pids : \A g \in Fds : Lists(p, g)' <=> Lists(p, g)
  <2>1. SUFFICES ASSUME NEW p \in Pids, NEW g \in Fds
                 PROVE  fd_table'[p][g].op_table_ptr = fd_table[p][g].op_table_ptr
    BY DEF Lists
  <2>. QED
    BY <1>5, <1>7, <1>9
<1>11. \A p \in Pids : \A g \in Fds :
         Lists(p, g)' => Lists(p, g) /\ got'[p][g] = got[p][g]
  <2>1. ~Lists(me, fd)
    BY <1>9 DEF Lists
  <2>. QED
    BY <1>8, <1>10, <2>1
<1>. QED
  BY <1>1, <1>3, <1>10, <1>11, ListingFewer

\* A process begins: its descriptors from 2 on are not touched.
LEMMA BeginListing ==
  ASSUME ReadingInv, FilesOwned, OneListing, NEW t \in Terms, Live # Pids,
         fd_table' = init_pcb(fd_table, Last(NewJob(jobs, t)[t])),
         opened' = opened, UNCHANGED << got, dir_number >>
  PROVE  OneListing'
<1>1. TypeOK /\ fd_table \in FdTables /\ opened \in [Pids -> SUBSET Fds]
      /\ jobs \in [Terms -> Seq(Pids)] /\ DifferIn(jobs) /\ LiveIn(jobs) # Pids
  BY JobsNow DEF ReadingInv, TypeOK, FdTables
<1>2. PICK p \in Pids : p = Last(NewJob(jobs, t)[t])
  BY <1>1, NewJobFacts
<1>3. fd_table' = init_pcb(fd_table, p)
  BY <1>2
<1>4. \A q \in Pids, fd \in Fds : (q = p /\ fd < 2) \/ fd_table'[q][fd] = fd_table[q][fd]
  BY <1>1, <1>3, InitPcb
<1>5. \A q \in Pids, fd \in Fds :
        fd >= 2 => fd_table'[q][fd].op_table_ptr = fd_table[q][fd].op_table_ptr
  <2>1. \A fd \in Fds : fd >= 2 => ~(fd < 2)
    BY FirstFds
  <2>. QED
    BY <1>4, <2>1
<1>6. \A q \in Pids : \A fd \in Fds : Lists(q, fd) => fd \in opened'[q]
  BY DEF Lists
<1>. QED
  BY <1>1, <1>5, <1>6, ProcessListing

\* A process ends: it was not in the middle of a listing.
LEMMA EndListing ==
  ASSUME ReadingInv, FilesOwned, OneListing, "dirs" \notin Hazards,
         NEW t \in Terms, jobs[t] # << >>, NEW status, Ended(t, status),
         opened' = [opened EXCEPT ![Last(jobs[t])] = {}]
  PROVE  OneListing'
<1> DEFINE victim == Last(jobs[t])
<1>1. TypeOK /\ JobsDiffer /\ opened \in [Pids -> SUBSET Fds]
  BY DEF ReadingInv, TypeOK
<1>2. /\ victim \in Pids
      /\ UNCHANGED << got, dir_number >>
      /\ \/ fd_table' = CloseFiles(victim)
         \/ \E p \in Pids : fd_table' = init_pcb(CloseFiles(victim), p)
  BY <1>1, EndedFacts
<1>3. dir_number = 0 \/ \A fd \in opened[victim] : fd_table[victim][fd].op_table_ptr # "dir"
  BY DEF Ended, Unfinished
<1>4. opened' = [opened EXCEPT ![victim] = {}]
  OBVIOUS
<1>. HIDE DEF victim
<1>5. /\ CloseFiles(victim) \in FdTables
      /\ \A q \in Pids, fd \in Fds :
           CloseFiles(victim)[q][fd].op_table_ptr = fd_table[q][fd].op_table_ptr
  BY <1>1, <1>2, CloseFilesFacts
<1>6. \A q \in Pids, fd \in Fds :
        fd >= 2 => fd_table'[q][fd].op_table_ptr = fd_table[q][fd].op_table_ptr
  <2>1. CASE fd_table' = CloseFiles(victim)
    BY <1>5, <2>1
  <2>2. ASSUME NEW p \in Pids, fd_table' = init_pcb(CloseFiles(victim), p)
        PROVE  \A q \in Pids, fd \in Fds :
                 fd >= 2 => fd_table'[q][fd].op_table_ptr = fd_table[q][fd].op_table_ptr
    <3>1. \A q \in Pids, fd \in Fds :
            (q = p /\ fd < 2) \/ fd_table'[q][fd] = CloseFiles(victim)[q][fd]
      BY <1>5, <2>2, InitPcb
    <3>2. \A fd \in Fds : fd >= 2 => ~(fd < 2)
      BY FirstFds
    <3>. QED
      BY <1>5, <3>1, <3>2
  <2>. QED
    BY <1>2, <2>1, <2>2
<1>7. /\ opened' \in [Pids -> SUBSET Fds]
      /\ \A q \in Pids : opened'[q] \subseteq opened[q]
      /\ \A q \in Pids : q # victim => opened'[q] = opened[q]
  BY <1>1, <1>2, <1>4
<1>8. dir_number = 0 \/ \A q \in Pids : \A fd \in Fds : Lists(q, fd) => fd \in opened'[q]
  BY <1>2, <1>3, <1>7 DEF Lists
<1>. QED
  BY <1>1, <1>2, <1>6, <1>7, <1>8, ProcessListing

\* No step makes the listing skip or repeat a name.
LEMMA ListingNext ==
  ASSUME ReadingInv, FilesOwned, OneListing, OwnersKnown, "dirs" \notin Hazards,
         [Next]_vars
  PROVE  OneListing'
<1>1. /\ TypeOK /\ JobsDiffer /\ curr_term \in Terms
      /\ running_term \in Terms /\ jobs[running_term] # << >>
  BY DEF ReadingInv, TypeOK
<1>2. CASE UNCHANGED files
  BY <1>2, SameListing
<1>3. CASE UNCHANGED vars
  BY <1>2, <1>3 DEF vars, files
<1>4. ASSUME NEW name, open_func(name)
      PROVE  OneListing'
  BY <1>1, <1>4, OpenListing
<1>5. ASSUME NEW fd, close_func(fd)
      PROVE  OneListing'
  BY <1>1, <1>5, CloseListing
<1>6. ASSUME NEW fd, NEW n \in 1 .. MaxBytes, read_func(fd, n)
      PROVE  OneListing'
  <2>1. UNCHANGED opened
    BY <1>6 DEF read_func
  <2>2. CASE fd \notin Fds \/ fd_table[cur_pid][fd].flags = 0
    BY <1>2, <1>6, <2>1, <2>2 DEF read_func, files
  <2>3. CASE ~(fd \notin Fds \/ fd_table[cur_pid][fd].flags = 0)
    <3>1. CASE fd_table[cur_pid][fd].op_table_ptr = "file"
      <4>1. file_read(fd, n)
        BY <1>6, <2>3, <3>1 DEF read_func
      <4>. QED
        BY <2>1, <2>3, <3>1, <4>1, FileReadListing
    <3>2. CASE fd_table[cur_pid][fd].op_table_ptr = "dir"
      <4>1. dir_read(fd)
        BY <1>6, <2>3, <3>2 DEF read_func
      <4>. QED
        BY <1>1, <2>1, <2>3, <3>2, <4>1, DirReadListing
    <3>3. CASE fd_table[cur_pid][fd].op_table_ptr \notin {"file", "dir"}
      BY <1>2, <1>6, <2>1, <2>3, <3>3 DEF read_func, OtherRead, files
    <3>. QED
      BY <3>1, <3>2, <3>3
  <2>. QED
    BY <2>2, <2>3
<1>7. ASSUME NEW fd, NEW n \in 1 .. MaxBytes, write_func(fd, n)
      PROVE  OneListing'
  BY <1>2, <1>7 DEF write_func
<1>8. CASE execute_func
  <2>1. /\ Live # Pids /\ jobs' = NewJob(jobs, curr_term)
        /\ fd_table' = init_pcb(fd_table, Last(NewJob(jobs, curr_term)[curr_term]))
        /\ opened' = [opened EXCEPT ![Last(NewJob(jobs, curr_term)[curr_term])] = {}]
        /\ UNCHANGED << got, dir_number >>
    BY <1>8 DEF execute_func, Started
  <2>2. opened' = opened
    BY <1>1, <2>1, BeginOwned
  <2>. QED
    BY <1>1, <2>1, <2>2, BeginListing
<1>9. CASE OtherCall
  BY <1>2, <1>9 DEF OtherCall
<1>10. CASE halt_func(0)
  <2>1. Ended(running_term, 0) /\ cur_pid = Last(jobs[running_term])
    BY <1>10 DEF halt_func, cur_pid
  <2>2. opened' = [opened EXCEPT ![Last(jobs[running_term])] = {}]
    BY <1>1, <2>1, EndsOwned
  <2>. QED
    BY <1>1, <2>1, <2>2, EndListing
<1>11. CASE LoadResult
  BY <1>2, <1>11 DEF LoadResult
<1>12. CASE CtrlC
  <2>1. Ended(curr_term, 1) /\ jobs[curr_term] # << >>
    BY <1>12 DEF CtrlC
  <2>2. \/ cur_pid = Last(jobs[curr_term])
        \/ opened[cur_pid] \cup opened[Last(jobs[curr_term])] = {}
    BY <1>12 DEF CtrlC, cur_pid, OwnersKnown
  <2>3. opened' = [opened EXCEPT ![Last(jobs[curr_term])] = {}]
    BY <1>1, <2>1, <2>2, EndsOwned
  <2>. QED
    BY <1>1, <2>1, <2>3, EndListing
<1>13. ASSUME NEW t \in Terms, AltF(t)
       PROVE  OneListing'
  <2>1. CASE jobs[t] # << >>
    BY <1>2, <1>13, <2>1 DEF AltF
  <2>2. CASE jobs[t] = << >>
    <3>1. /\ Live # Pids /\ jobs' = NewJob(jobs, t)
          /\ fd_table' = init_pcb(fd_table, Last(NewJob(jobs, t)[t]))
          /\ UNCHANGED << opened, got, dir_number >>
      BY <1>13, <2>2 DEF AltF
    <3>. QED
      BY <3>1, BeginListing
  <2>. QED
    BY <2>1, <2>2
<1>14. ASSUME NEW t \in Terms, Tick(t)
       PROVE  OneListing'
  BY <1>2, <1>14 DEF Tick
<1>15. CASE Calls
  <2>1. CASE \E fd \in 0 .. MaxFiles :
               \/ close_func(fd)
               \/ \E n \in 1 .. MaxBytes : read_func(fd, n) \/ write_func(fd, n)
    BY <1>5, <1>6, <1>7, <2>1
  <2>2. CASE \E name \in Names \cup {"nosuchfile"} : open_func(name)
    BY <1>4, <2>2
  <2>. QED
    BY <1>8, <1>9, <1>10, <1>15, <2>1, <2>2 DEF Calls
<1>. QED
  BY <1>3, <1>11, <1>12, <1>13, <1>14, <1>15 DEF Next

\* One descriptor at most lists the directory, and dir_number is where it is,
\* where no second listing is opened and none is left in its middle.
THEOREM FilesInvariant ==
  ASSUME OwnersKnown, "dirs" \notin Hazards
  PROVE  Spec => []FilesInv
<1>1. Init => FilesInv
  <2>1. SUFFICES ASSUME Init PROVE OneListing
    BY ReadingInit, OwnedInit DEF FilesInv
  <2>2. \A p \in Pids : opened[p] = {}
    BY <2>1 DEF Init
  <2>3. dir_number = 0 /\ \A p \in Pids, fd \in Fds : ~Lists(p, fd)
    BY <2>1, <2>2 DEF Init, Lists
  <2>. QED
    BY <2>3 DEF OneListing
<1>2. FilesInv /\ [Next]_vars => FilesInv'
  BY ReadingNext, OwnedNext, ListingNext DEF FilesInv
<1>. QED
  BY <1>1, <1>2, PTL DEF Spec

\* Whoever lists the directory reads the names from the first on, each once,
\* whatever the other processes do in between.
THEOREM ListsDirectoryHolds ==
  ASSUME OwnersKnown, "dirs" \notin Hazards
  PROVE  Spec => []ListsDirectory
<1>1. FilesInv => ListsDirectory
  <2>1. SUFFICES ASSUME FilesInv PROVE ListsDirectory
    OBVIOUS
  <2>2. Live \subseteq Pids /\ \A p \in Pids : opened[p] \subseteq Fds
    BY <2>1, LiveInJobs, JobsNow DEF FilesInv, ReadingInv, TypeOK
  <2>. QED
    BY <2>1, <2>2 DEF ListsDirectory, FilesInv, OneListing, Lists
<1>. QED
  BY <1>1, FilesInvariant, PTL
=============================================================================
