---------------------------- MODULE Library_proofs ----------------------------
(***************************************************************************)
(* Proofs about Library: what memset and memcpy write, for every size of    *)
(* memory, every block and every contents, on blocks that are apart or are  *)
(* moved down; what the string functions return and write, for every        *)
(* string, place and count; what printf prints, for every format of         *)
(* conversions it knows, every argument and every width of an integer.      *)
(***************************************************************************)
EXTENDS Library, FiniteSetTheorems, WellFoundedInduction, TLAPS

BlockFns == {"memset", "memcpy"}

\* The bytes that are left to move, whichever register counts them.
Left == CASE pc \in {"top", "aligned"} -> ecx
          [] pc = "rep"    -> 4 * ecx + edx
          [] pc = "bottom" -> edx
          [] OTHER         -> 0

\* What belongs at address a of the destination.
Source(a) == IF call.fn = "memset" THEN call.c
                                   ELSE old[call.src + (a - call.dest)]

\* Up to edi the block has been written, from there on nothing.
BlockInv ==
  call.fn \in BlockFns =>
    /\ call \in BlockCalls
    /\ pc \in {"top", "aligned", "rep", "bottom", "done"}
    /\ old \in [Addr -> Bytes] /\ mem \in [Addr -> Bytes]
    /\ edi \in Nat /\ ecx \in Nat /\ edx \in Nat /\ esi \in Nat
    /\ call.dest <= edi /\ edi + Left = call.dest + call.n
    /\ call.fn = "memcpy" => esi = call.src + (edi - call.dest)
    /\ \A a \in Addr : mem[a] = IF a \in call.dest .. edi - 1 THEN Source(a)
                                                             ELSE old[a]

-----------------------------------------------------------------------------
\* The words and the bytes behind them that a number of bytes makes.
LEMMA WordsAndBytes ==
  ASSUME NEW n \in Nat, NEW q, NEW r, q = n \div 4, r = n % 4
  PROVE  q \in Nat /\ r \in Nat /\ n = 4 * q + r
<1>1. q \in Int /\ 4 * q <= n /\ n < 4 * q + 4
  <2>1. n \div 4 \in Int /\ 4 * (n \div 4) <= n /\ n < 4 * (n \div 4) + 4
    BY Z3
  <2> QED
    BY <2>1, Zenon
<1>2. r = n - 4 * q
  <2>1. n % 4 = n - 4 * (n \div 4)
    BY SMT
  <2> QED
    BY <2>1, Zenon
<1> QED
  BY <1>1, <1>2, Z3

\* What a block call is.
LEMMA BlockCall ==
  ASSUME ConstantsAssumption, call \in BlockCalls
  PROVE  /\ call.fn \in BlockFns
         /\ call.dest \in Nat /\ call.src \in Nat /\ call.n \in Nat
         /\ call.c \in Bytes
         /\ call.dest + call.n <= MemSize /\ call.src + call.n <= MemSize
         /\ call.fn = "memcpy" => \/ call.dest <= call.src
                                  \/ call.dest + call.n <= call.src
                                  \/ call.src + call.n <= call.dest
BY DEF ConstantsAssumption, BlockCalls, BlockFns, Apart

\* A move of k of the bytes that are left writes the next k of the block: what
\* it reads has not been written, though the blocks may overlap.
LEMMA MoveWrites ==
  ASSUME ConstantsAssumption, BlockInv, call.fn \in BlockFns,
         NEW k \in Nat, k <= Left, Move(k)
  PROVE  /\ mem' \in [Addr -> Bytes]
         /\ edi' = edi + k /\ esi' \in Nat
         /\ call.fn = "memcpy" => esi' = call.src + (edi' - call.dest)
         /\ \A a \in Addr : mem'[a] = IF a \in call.dest .. edi' - 1 THEN Source(a)
                                                                   ELSE old[a]
<1> USE DEF Addr
<1>1. /\ call.dest \in Nat /\ call.src \in Nat /\ call.n \in Nat
      /\ call.dest + call.n <= MemSize /\ call.src + call.n <= MemSize
      /\ MemSize \in Nat /\ call.c \in Bytes
      /\ call.fn = "memcpy" => \/ call.dest <= call.src
                               \/ call.dest + call.n <= call.src
                               \/ call.src + call.n <= call.dest
  BY BlockCall DEF BlockInv, ConstantsAssumption
<1>2. /\ edi \in Nat /\ esi \in Nat /\ call.dest <= edi
      /\ edi + Left = call.dest + call.n
      /\ mem \in [Addr -> Bytes] /\ old \in [Addr -> Bytes]
      /\ call.fn = "memcpy" => esi = call.src + (edi - call.dest)
  BY DEF BlockInv
<1>3. Left \in Nat
  BY DEF BlockInv, Left
<1>4. edi + k <= call.dest + call.n
  BY <1>1, <1>2, <1>3
<1>5. /\ mem' = Moved(k) /\ edi' = edi + k
      /\ esi' = IF call.fn = "memset" THEN esi ELSE esi + k
  BY DEF Move
<1>6. ASSUME NEW a \in Addr, a \in edi .. edi + k - 1
      PROVE  mem'[a] = Source(a) /\ Source(a) \in Bytes
  <2>1. CASE call.fn = "memset"
    BY <1>1, <1>5, <1>6, <2>1 DEF Moved, Source
  <2>2. CASE call.fn = "memcpy"
    <3> DEFINE b == call.src + (a - call.dest)
    <3>0. /\ a \in Int /\ edi <= a /\ a < edi + k
          /\ edi \in Nat /\ call.dest <= edi /\ edi + k <= call.dest + call.n
          /\ esi = call.src + (edi - call.dest)
      BY <1>2, <1>4, <1>6, <2>2
    <3>1. esi + (a - edi) = b /\ b \in Addr /\ b \notin call.dest .. edi - 1
      <4> DEFINE src == call.src
                 dest == call.dest
                 n == call.n
      <4>1. /\ src \in Nat /\ dest \in Nat /\ n \in Nat /\ MemSize \in Nat
            /\ src + n <= MemSize
            /\ dest <= src \/ dest + n <= src \/ src + n <= dest
            /\ b = src + (a - dest)
        BY <1>1, <2>2
      <4>2. /\ dest <= edi /\ edi + k <= dest + n
            /\ esi = src + (edi - dest)
        BY <3>0
      <4> HIDE DEF src, dest, n, b
      <4>3. esi + (a - edi) = b /\ b >= src /\ b < src + n /\ b \in Int
        BY <3>0, <4>1, <4>2
      <4>4. ~(dest <= b /\ b <= edi - 1)
        BY <3>0, <4>1, <4>2, <4>3
      <4>5. b \in Addr
        BY <4>1, <4>3
      <4> QED
        BY <3>0, <4>3, <4>4, <4>5 DEF dest
    <3>2. mem'[a] = mem[b]
      BY <1>5, <1>6, <2>2, <3>1 DEF Moved
    <3>3. mem[b] = old[b]
      BY <3>1 DEF BlockInv
    <3> QED
      BY <1>2, <2>2, <3>1, <3>2, <3>3 DEF Source
  <2> QED
    BY <2>1, <2>2 DEF BlockFns
<1>7. ASSUME NEW a \in Addr, a \notin edi .. edi + k - 1
      PROVE  mem'[a] = mem[a]
  BY <1>5, <1>7 DEF Moved
<1>8. mem' \in [Addr -> Bytes]
  <2>1. \A a \in Addr : mem'[a] \in Bytes
    BY <1>2, <1>6, <1>7
  <2> QED
    BY <1>5, <2>1 DEF Moved
<1>9. ASSUME NEW a \in Addr
      PROVE  mem'[a] = IF a \in call.dest .. edi' - 1 THEN Source(a) ELSE old[a]
  <2>1. CASE a \in edi .. edi + k - 1
    BY <1>1, <1>2, <1>5, <1>6, <2>1
  <2>2. CASE a \notin edi .. edi + k - 1
    <3>1. a \in call.dest .. edi' - 1 <=> a \in call.dest .. edi - 1
      BY <1>1, <1>2, <1>5, <2>2
    <3> QED
      BY <1>7, <2>2, <3>1 DEF BlockInv
  <2> QED
    BY <2>1, <2>2
<1>10. esi' \in Nat
  BY <1>2, <1>5
<1>11. ASSUME call.fn = "memcpy" PROVE esi' = call.src + (edi' - call.dest)
  <2>1. /\ esi = call.src + (edi - call.dest) /\ esi' = esi + k /\ edi' = edi + k
        /\ call.src \in Nat /\ call.dest \in Nat /\ edi \in Nat
    BY <1>1, <1>2, <1>5, <1>11
  <2> QED
    BY <2>1
<1> QED
  BY <1>5, <1>8, <1>9, <1>10, <1>11

-----------------------------------------------------------------------------
\* A call finds memory as it is.
LEMMA InitBlock == ConstantsAssumption /\ Init => BlockInv
<1> SUFFICES ASSUME ConstantsAssumption, Init, call.fn \in BlockFns PROVE BlockInv
  BY DEF BlockInv
<1>1. call \in BlockCalls /\ old \in [Addr -> Bytes]
  BY DEF Init, PrintCalls, StringCalls, BlockFns, ConstantsAssumption
<1>2. /\ pc = "top" /\ mem = old
      /\ edi = call.dest /\ esi = call.src /\ ecx = call.n /\ edx = 0
  BY DEF Init, BlockFns
<1>3. call.dest \in Nat /\ call.src \in Nat /\ call.n \in Nat
  BY <1>1, BlockCall
<1>4. \A a \in Addr : a \notin call.dest .. edi - 1
  BY <1>2, <1>3 DEF Addr, ConstantsAssumption
<1> QED
  BY <1>1, <1>2, <1>3, <1>4 DEF BlockInv, Left

\* Every step keeps the invariant.
LEMMA NextBlock == ConstantsAssumption /\ BlockInv /\ [Next]_vars => BlockInv'
<1> SUFFICES ASSUME ConstantsAssumption, BlockInv, [Next]_vars,
                    call'.fn \in BlockFns
             PROVE  BlockInv'
  BY DEF BlockInv
<1>0. call' = call /\ old' = old
  BY DEF Next, Block, Top, Aligned, Rep, Bottom, String, strlen, strncmp, strcpy,
     strncpy, Printing, Text, Convert, Stop, vars
<1>1. /\ call \in BlockCalls /\ call.fn \in BlockFns
      /\ pc \in {"top", "aligned", "rep", "bottom", "done"}
      /\ edi \in Nat /\ ecx \in Nat /\ edx \in Nat /\ call.dest \in Nat
      /\ call.dest <= edi /\ edi + Left = call.dest + call.n
      /\ call.n \in Nat
  BY <1>0, BlockCall DEF BlockInv
<1>k. ASSUME UNCHANGED << mem, edi, esi >>, ecx' \in Nat, edx' \in Nat,
             pc' \in {"top", "aligned", "rep", "bottom", "done"}, Left' = Left
      PROVE  BlockInv'
  BY <1>0, <1>1, <1>k DEF BlockInv, Source
<1>m. ASSUME NEW k \in Nat, k <= Left, Move(k), ecx' \in Nat, edx' \in Nat,
             pc' = pc, Left' = Left - k
      PROVE  BlockInv'
  <2>1. Left \in Nat
    BY <1>1 DEF Left
  <2>2. /\ mem' \in [Addr -> Bytes] /\ edi' = edi + k /\ esi' \in Nat
        /\ call.fn = "memcpy" => esi' = call.src + (edi' - call.dest)
        /\ \A a \in Addr : mem'[a] = IF a \in call.dest .. edi' - 1
                                     THEN Source(a) ELSE old[a]
    BY <1>1, <1>m, MoveWrites
  <2>3. edi' \in Nat /\ call.dest <= edi' /\ edi' + Left' = call.dest + call.n
    BY <1>1, <1>m, <2>1, <2>2
  <2> HIDE DEF Left
  <2> QED
    BY <1>0, <1>1, <1>m, <2>2, <2>3 DEF BlockInv, Source
<1>2. CASE Top
  <2>1. CASE ecx = 0 \/ edi % 4 = 0
    BY <1>1, <1>2, <1>k, <2>1 DEF Top, Left
  <2>2. CASE ecx # 0 /\ edi % 4 # 0
    <3>1. 1 <= Left /\ Move(1) /\ pc' = pc /\ ecx' = ecx - 1 /\ edx' = edx
      BY <1>1, <1>2, <2>2 DEF Top, Left
    <3>2. Left' = Left - 1
      BY <1>1, <1>2, <3>1 DEF Top, Left
    <3> QED
      BY <1>1, <1>m, <2>2, <3>1, <3>2
  <2> QED
    BY <2>1, <2>2
<1>3. CASE Aligned
  <2>1. /\ ecx' = ecx \div 4 /\ edx' = ecx % 4 /\ pc = "aligned" /\ pc' = "rep"
        /\ UNCHANGED << mem, edi, esi >>
    BY <1>3 DEF Aligned
  <2>2. ecx' \in Nat /\ edx' \in Nat /\ ecx = 4 * ecx' + edx'
    <3>1. ecx \in Nat
      BY <1>1
    <3>2. \A n \in Nat : \A q, r : q = n \div 4 /\ r = n % 4
                                  => q \in Nat /\ r \in Nat /\ n = 4 * q + r
      BY WordsAndBytes, Zenon
    <3>3. \A q, r : q = ecx \div 4 /\ r = ecx % 4
                     => q \in Nat /\ r \in Nat /\ ecx = 4 * q + r
      BY <3>1, <3>2, Zenon
    <3>4. ecx' = ecx \div 4 /\ edx' = ecx % 4
      BY <2>1
    <3> QED
      BY <3>3, <3>4, Zenon
  <2>3. Left' = Left
    BY <2>1, <2>2 DEF Left
  <2> QED
    BY <1>k, <2>1, <2>2, <2>3
<1>4. CASE Rep
  <2>1. CASE ecx = 0
    BY <1>1, <1>4, <1>k, <2>1 DEF Rep, Left
  <2>2. CASE ecx # 0
    <3>1. 4 <= Left /\ Move(4) /\ pc' = pc /\ ecx' = ecx - 1 /\ edx' = edx
      BY <1>1, <1>4, <2>2 DEF Rep, Left
    <3>2. Left' = Left - 4
      BY <1>1, <1>4, <3>1 DEF Rep, Left
    <3> QED
      BY <1>1, <1>m, <2>2, <3>1, <3>2
  <2> QED
    BY <2>1, <2>2
<1>5. CASE Bottom
  <2>1. CASE edx = 0
    BY <1>1, <1>5, <1>k, <2>1 DEF Bottom, Left
  <2>2. CASE edx # 0
    <3>1. 1 <= Left /\ Move(1) /\ pc' = pc /\ edx' = edx - 1 /\ ecx' = ecx
      BY <1>1, <1>5, <2>2 DEF Bottom, Left
    <3>2. Left' = Left - 1
      BY <1>1, <1>5, <3>1 DEF Bottom, Left
    <3> QED
      BY <1>1, <1>m, <2>2, <3>1, <3>2
  <2> QED
    BY <2>1, <2>2
<1>6. ASSUME String \/ Printing PROVE FALSE
  BY <1>1, <1>6 DEF String, strlen, strncmp, strcpy, strncpy, Printing, Text,
     Convert, BlockFns
<1>7. CASE Stop \/ UNCHANGED vars
  <2>1. UNCHANGED << mem, edi, esi, ecx, edx, pc >>
    BY <1>7 DEF Stop, vars, regs
  <2> QED
    BY <1>1, <1>k, <2>1 DEF Left
<1> QED
  BY <1>2, <1>3, <1>4, <1>5, <1>6, <1>7 DEF Next, Block

\* memset and memcpy write what belongs into the block, and nothing else.
THEOREM BlockInvariant == Spec => []BlockInv
<1>1. ConstantsAssumption
  BY ConstantsAssumption
<1>2. Init => BlockInv
  BY <1>1, InitBlock
<1>3. BlockInv /\ [Next]_vars => BlockInv'
  BY <1>1, NextBlock
<1> QED
  BY <1>2, <1>3, PTL DEF Spec

\* When one returns, every byte is the one that belongs there.
THEOREM BlockComplete == Spec => []BlockWritten
<1>1. ASSUME ConstantsAssumption, BlockInv PROVE BlockWritten
  <2> SUFFICES ASSUME pc = "done", call.fn \in BlockFns, NEW a \in Addr
               PROVE  mem[a] = IF a \notin call.dest .. call.dest + call.n - 1
                               THEN old[a]
                               ELSE IF call.fn = "memset" THEN call.c
                               ELSE old[call.src + (a - call.dest)]
    BY DEF BlockWritten, BlockFns
  <2>1. /\ call.dest \in Nat /\ call.n \in Nat
        /\ call.dest + call.n <= MemSize /\ MemSize \in Nat
    BY <1>1, BlockCall DEF BlockInv, ConstantsAssumption
  <2>2. edi \in Nat /\ edi = call.dest + call.n
    BY <1>1, <2>1 DEF BlockInv, Left
  <2> DEFINE block == call.dest .. call.dest + call.n - 1
  <2>3. mem[a] = IF a \in block THEN Source(a) ELSE old[a]
    <3>1. mem[a] = IF a \in call.dest .. edi - 1 THEN Source(a) ELSE old[a]
      BY <1>1 DEF BlockInv
    <3>2. call.dest .. edi - 1 = block
      BY <2>1, <2>2
    <3> HIDE DEF block
    <3> QED
      BY <3>1, <3>2
  <2>4. ASSUME a \in block PROVE mem[a] = Source(a)
    BY <2>3, <2>4
  <2>5. ASSUME a \notin block PROVE mem[a] = old[a]
    BY <2>3, <2>5
  <2> HIDE DEF block
  <2>6. mem[a] = IF a \notin block THEN old[a]
                 ELSE IF call.fn = "memset" THEN call.c
                 ELSE old[call.src + (a - call.dest)]
    BY <2>4, <2>5 DEF Source
  <2> QED
    BY <2>6 DEF block
<1>2. ConstantsAssumption
  BY ConstantsAssumption
<1>3. BlockInv => BlockWritten
  BY <1>1, <1>2
<1> QED
  BY <1>3, BlockInvariant, PTL

-----------------------------------------------------------------------------
(***************************************************************************)
(* The string functions.                                                   *)
(***************************************************************************)
StringFns == {"strlen", "strncmp", "strcpy", "strncpy"}
Copies    == {"strcpy", "strncpy"}

\* The first k bytes of what the function writes are in memory m, and nothing
\* else has changed.
WrittenTo(m, k) ==
  \A a \in Addr : m[a] = IF a \in call.dest .. call.dest + k - 1
                         THEN Prefix(old, call.src, Size)[a - call.dest]
                         ELSE old[a]

\* What a string function knows after i turns: no zero has been met, or, in
\* the second loop of strncpy, one has or the count is reached.
Reached ==
  /\ pc = "loop" => \A k \in 0 .. i - 1 : old[call.src + k] # 0
  /\ pc = "loop" /\ call.fn = "strncmp" =>
       \A k \in 0 .. i - 1 : old[call.dest + k] = old[call.src + k]
  /\ pc = "fill" => /\ call.fn = "strncpy"
                    /\ i < call.n => \E j \in 0 .. i : old[call.src + j] = 0
  /\ call.fn \in {"strncmp", "strncpy"} => i <= call.n

\* The invariant of their loops.  It holds at every turn, and StringsRight at
\* the end.
StringInv ==
  call.fn \in StringFns =>
    /\ call \in StringCalls(old)
    /\ old \in [Addr -> Bytes] /\ DOMAIN mem = Addr /\ i \in Nat
    /\ pc \in {"loop", "fill", "done"}
    /\ IF pc = "done" THEN StringsRight
       ELSE Reached /\ WrittenTo(mem, IF call.fn \in Copies THEN i ELSE 0)

-----------------------------------------------------------------------------
\* A set of naturals that is not empty has a least element.
LEMMA LeastElement ==
  ASSUME NEW T \in SUBSET Nat, T # {}
  PROVE  \E m \in T : \A n \in T : m <= n
<1>1. PICK m \in T : \A n \in T : ~ << n, m >> \in OpToRel(<, Nat)
  BY NatLessThanWellFounded, WFMin, Zenon
<1>2. \A n \in T : ~(n < m)
  BY <1>1 DEF OpToRel
<1> QED
  BY <1>2

\* The length of a string is the distance to its first zero.
LEMMA StringEnds ==
  ASSUME ConstantsAssumption, NEW m \in [Addr -> Bytes], NEW s \in Nat, StringIn(m, s)
  PROVE  /\ Strlen(m, s) \in Nat /\ s + Strlen(m, s) \in Addr
         /\ m[s + Strlen(m, s)] = 0
         /\ \A k \in 0 .. Strlen(m, s) - 1 : m[s + k] # 0
<1> DEFINE Ends == {a \in Addr : s <= a /\ m[a] = 0}
           End(a) == s <= a /\ m[a] = 0 /\ \A b \in s .. a - 1 : m[b] # 0
<1>1. Addr \subseteq Nat /\ \A a \in Addr : \A b \in Nat : b <= a => b \in Addr
  BY DEF Addr, ConstantsAssumption
<1>2. Ends \in SUBSET Nat /\ Ends # {}
  BY <1>1 DEF StringIn
<1>3. PICK a \in Ends : \A b \in Ends : a <= b
  <2> HIDE DEF Ends
  <2> QED
    BY <1>2, LeastElement
<1>4. \A b \in s .. a - 1 : m[b] # 0
  <2> SUFFICES ASSUME NEW b \in s .. a - 1, m[b] = 0 PROVE FALSE
    OBVIOUS
  <2>1. b \in Addr /\ ~(a <= b)
    BY <1>1
  <2> QED
    BY <1>3, <2>1
<1>5. \E b \in Addr : End(b)
  BY <1>4
<1> DEFINE e == CHOOSE b \in Addr : End(b)
<1>6. e \in Addr /\ End(e)
  <2> HIDE DEF End
  <2> QED
    BY <1>5
<1>7. Strlen(m, s) = e - s
  BY DEF Strlen
<1> HIDE DEF e
<1>8. e \in Nat /\ Strlen(m, s) \in Nat /\ s + Strlen(m, s) = e
  BY <1>1, <1>6, <1>7
<1>9. ASSUME NEW k \in 0 .. Strlen(m, s) - 1 PROVE m[s + k] # 0
  <2>1. s + k \in s .. e - 1
    BY <1>8
  <2> QED
    BY <1>6, <2>1
<1> QED
  BY <1>6, <1>8, <1>9

\* What a call of a string function is.
LEMMA StringCall ==
  ASSUME ConstantsAssumption, call \in StringCalls(old), old \in [Addr -> Bytes]
  PROVE  /\ call.fn \in StringFns
         /\ call.dest \in Nat /\ call.src \in Nat /\ call.n \in Nat /\ MemSize \in Nat
         /\ call.fn \in {"strlen", "strcpy"} =>
              /\ Strlen(old, call.src) \in Nat
              /\ call.src + Strlen(old, call.src) < MemSize
              /\ old[call.src + Strlen(old, call.src)] = 0
              /\ \A k \in 0 .. Strlen(old, call.src) - 1 : old[call.src + k] # 0
         /\ call.fn = "strcpy" =>
              /\ call.dest + (Strlen(old, call.src) + 1) <= MemSize
              /\ call.dest <= call.src
                 \/ Apart(call.dest, call.src, Strlen(old, call.src) + 1)
         /\ call.fn \in {"strncmp", "strncpy"} =>
              call.dest + call.n < MemSize /\ call.src + call.n < MemSize
         /\ call.fn = "strncpy" => Apart(call.dest, call.src, call.n + 1)
<1>1. /\ call.fn \in StringFns
      /\ call.dest \in Nat /\ call.src \in Nat /\ call.n \in Nat /\ MemSize \in Nat
  BY DEF StringCalls, StringFns, ConstantsAssumption
<1>2. /\ call.fn \in {"strlen", "strcpy"} => StringIn(old, call.src)
      /\ call.fn = "strcpy" =>
           /\ call.dest + (Strlen(old, call.src) + 1) <= MemSize
           /\ call.dest <= call.src
              \/ Apart(call.dest, call.src, Strlen(old, call.src) + 1)
      /\ call.fn \in {"strncmp", "strncpy"} =>
           call.dest + call.n < MemSize /\ call.src + call.n < MemSize
      /\ call.fn = "strncpy" => Apart(call.dest, call.src, call.n + 1)
  BY DEF StringCalls
<1>3. ASSUME call.fn \in {"strlen", "strcpy"}
      PROVE  /\ Strlen(old, call.src) \in Nat
             /\ call.src + Strlen(old, call.src) < MemSize
             /\ old[call.src + Strlen(old, call.src)] = 0
             /\ \A k \in 0 .. Strlen(old, call.src) - 1 : old[call.src + k] # 0
  <2>1. /\ Strlen(old, call.src) \in Nat
        /\ call.src + Strlen(old, call.src) \in Addr
        /\ old[call.src + Strlen(old, call.src)] = 0
        /\ \A k \in 0 .. Strlen(old, call.src) - 1 : old[call.src + k] # 0
    BY <1>1, <1>2, <1>3, StringEnds
  <2> QED
    BY <1>1, <2>1 DEF Addr
<1> QED
  BY <1>1, <1>2, <1>3

\* Two prefixes without a difference compare as 0.
LEMMA CompareSame ==
  ASSUME NEW p, NEW q, NEW n, \A k \in 0 .. n - 1 : p[k] = q[k]
  PROVE  Compare(p, q, n) = 0
BY DEF Compare

\* Others compare as the characters at the first difference.
LEMMA CompareFirst ==
  ASSUME NEW p, NEW q, NEW n \in Nat, NEW f \in 0 .. n - 1, p[f] # q[f],
         \A k \in 0 .. f - 1 : p[k] = q[k]
  PROVE  Compare(p, q, n) = int8_t(p[f]) - int8_t(q[f])
<1> DEFINE differ == {k \in 0 .. n - 1 : p[k] # q[k]}
           first  == CHOOSE k \in differ : \A l \in differ : k <= l
<1>1. f \in differ /\ \A l \in differ : f <= l
  <2>1. ASSUME NEW l \in differ PROVE f <= l
    <3>1. l \in 0 .. n - 1 /\ l \notin 0 .. f - 1
      OBVIOUS
    <3> QED
      BY <3>1
  <2> QED
    BY <2>1
<1>2. differ \subseteq Int
  OBVIOUS
<1>3. Compare(p, q, n) =
        IF differ = {} THEN 0 ELSE int8_t(p[first]) - int8_t(q[first])
  BY DEF Compare
<1> HIDE DEF differ
<1>4. first \in differ /\ \A l \in differ : first <= l
  BY <1>1
<1> HIDE DEF first
<1>5. first = f
  <2>1. first <= f /\ f <= first
    BY <1>1, <1>4
  <2>2. first \in Int /\ f \in Int
    BY <1>2, <1>4
  <2> HIDE DEF first
  <2> QED
    BY <2>1, <2>2
<1> QED
  BY <1>1, <1>3, <1>5

\* The byte at place k of a prefix.
LEMMA PrefixAt ==
  ASSUME NEW m, NEW s, NEW n \in Nat, NEW k \in 0 .. n - 1
  PROVE  Prefix(m, s, n)[k] = IF \E j \in 0 .. k - 1 : m[s + j] = 0 THEN 0 ELSE m[s + k]
BY DEF Prefix


-----------------------------------------------------------------------------
\* The loop reads the source as it was: what has been written lies behind it or
\* elsewhere.
LEMMA LoopReads ==
  ASSUME ConstantsAssumption, StringInv, call.fn \in StringFns, pc = "loop"
  PROVE  /\ mem[call.src + i] = old[call.src + i]
         /\ call.fn \in {"strlen", "strcpy"} =>
              /\ i <= Strlen(old, call.src)
              /\ old[call.src + i] = 0 => i = Strlen(old, call.src)
              /\ old[call.src + i] # 0 => i < Strlen(old, call.src)
         /\ call.fn = "strncmp" => mem[call.dest + i] = old[call.dest + i]
<1> DEFINE src == call.src
           dest == call.dest
           len == Strlen(old, call.src)
           k == IF call.fn \in Copies THEN i ELSE 0
<1>1. /\ call \in StringCalls(old) /\ old \in [Addr -> Bytes] /\ i \in Nat
      /\ Reached /\ WrittenTo(mem, k)
  BY DEF StringInv
<1>2. src \in Nat /\ dest \in Nat /\ call.n \in Nat /\ MemSize \in Nat
  BY <1>1, StringCall
<1>3. ASSUME call.fn \in {"strlen", "strcpy"}
      PROVE  /\ len \in Nat /\ src + len < MemSize /\ i <= len
             /\ old[src + i] = 0 => i = len
             /\ old[src + i] # 0 => i < len
  <2>1. /\ len \in Nat /\ src + len < MemSize /\ old[src + len] = 0
        /\ \A j \in 0 .. len - 1 : old[src + j] # 0
    BY <1>1, <1>3, StringCall
  <2>2. \A j \in 0 .. i - 1 : old[src + j] # 0
    BY <1>1 DEF Reached
  <2> HIDE DEF len, src
  <2>3. ~(len \in 0 .. i - 1)
    BY <2>1, <2>2
  <2>4. i <= len
    BY <1>1, <2>1, <2>3
  <2>5. i \in 0 .. len - 1 => old[src + i] # 0
    BY <2>1
  <2> QED
    BY <1>1, <2>1, <2>4, <2>5
<1>4. ASSUME call.fn \in {"strncmp", "strncpy"}
      PROVE  i <= call.n /\ src + i < MemSize /\ dest + i < MemSize
  <2>1. i <= call.n
    BY <1>1, <1>4 DEF Reached
  <2>2. dest + call.n < MemSize /\ src + call.n < MemSize
    BY <1>1, <1>4, StringCall
  <2> QED
    BY <1>1, <1>2, <2>1, <2>2
<1>5. src + i \in Addr
  <2>1. src + i < MemSize
    BY <1>1, <1>2, <1>3, <1>4 DEF StringFns
  <2> QED
    BY <1>1, <1>2, <2>1 DEF Addr
<1>6. src + i \notin dest .. dest + k - 1
  <2>1. CASE call.fn = "strcpy"
    <3>1. dest <= src \/ Apart(dest, src, len + 1)
      BY <1>1, <2>1, StringCall
    <3>2. len \in Nat /\ i <= len
      BY <1>3, <2>1
    <3> HIDE DEF len
    <3> QED
      BY <1>1, <1>2, <2>1, <3>1, <3>2 DEF Apart, Copies
  <2>2. CASE call.fn = "strncpy"
    <3>1. dest + (call.n + 1) <= src \/ src + (call.n + 1) <= dest
      BY <1>1, <2>2, StringCall DEF Apart
    <3>2. k = i /\ i <= call.n
      BY <1>4, <2>2 DEF Copies
    <3> HIDE DEF src, dest, k
    <3> QED
      BY <1>1, <1>2, <3>1, <3>2
  <2>3. CASE call.fn \notin Copies
    BY <1>2, <2>3
  <2> QED
    BY <2>1, <2>2, <2>3 DEF Copies
<1>7. mem[src + i] = old[src + i]
  BY <1>1, <1>5, <1>6 DEF WrittenTo
<1>8. ASSUME call.fn = "strncmp" PROVE mem[dest + i] = old[dest + i]
  <2>1. dest + i \in Addr
    BY <1>1, <1>2, <1>4, <1>8 DEF Addr
  <2>2. k = 0 /\ dest + i \notin dest .. dest + 0 - 1
    BY <1>2, <1>8 DEF Copies
  <2> QED
    BY <1>1, <2>1, <2>2 DEF WrittenTo
<1> QED
  BY <1>3, <1>7, <1>8

\* Where a copy ends.
LEMMA SizeOfCopy ==
  ASSUME ConstantsAssumption, call \in StringCalls(old), old \in [Addr -> Bytes],
         call.fn \in Copies
  PROVE  /\ Size \in Nat /\ call.dest + Size <= MemSize
         /\ call.fn = "strcpy" => Size = Strlen(old, call.src) + 1
         /\ call.fn = "strncpy" => Size = call.n
<1>1. CASE call.fn = "strcpy"
  <2>1. Size = Strlen(old, call.src) + 1
    BY <1>1 DEF Size
  <2>2. /\ Strlen(old, call.src) \in Nat
        /\ call.dest + (Strlen(old, call.src) + 1) <= MemSize
    BY <1>1, StringCall
  <2> QED
    BY <1>1, <2>1, <2>2
<1>2. CASE call.fn = "strncpy"
  <2>1. Size = call.n
    BY <1>2 DEF Size
  <2>2. /\ call.n \in Nat /\ call.dest \in Nat /\ MemSize \in Nat
        /\ call.dest + call.n < MemSize
    BY <1>2, StringCall
  <2> QED
    BY <1>2, <2>1, <2>2
<1> QED
  BY <1>1, <1>2 DEF Copies

\* One more byte at the destination.
LEMMA PutWrites ==
  ASSUME ConstantsAssumption, call \in StringCalls(old), old \in [Addr -> Bytes],
         call.fn \in Copies, i \in Nat, i < Size, DOMAIN mem = Addr,
         WrittenTo(mem, i), Put(Prefix(old, call.src, Size)[i])
  PROVE  DOMAIN mem' = Addr /\ WrittenTo(mem', i + 1)
<1> DEFINE c == Prefix(old, call.src, Size)[i]
           place == call.dest + i
<1>1. /\ Size \in Nat /\ call.dest + Size <= MemSize /\ call.dest \in Nat
      /\ MemSize \in Nat
  BY SizeOfCopy, StringCall
<1>2. place \in Addr
  BY <1>1 DEF Addr
<1>3. /\ DOMAIN mem' = Addr /\ mem'[place] = c
      /\ \A a \in Addr : a # place => mem'[a] = mem[a]
  <2>1. mem' = [mem EXCEPT ![place] = c]
    BY DEF Put
  <2> HIDE DEF c, place
  <2> QED
    BY <1>2, <2>1
<1>4. ASSUME NEW a \in Addr
      PROVE  mem'[a] = IF a \in call.dest .. call.dest + (i + 1) - 1
                       THEN Prefix(old, call.src, Size)[a - call.dest] ELSE old[a]
  <2>1. a \in Int
    BY <1>1 DEF Addr
  <2>2. CASE a = place
    <3>1. /\ a - call.dest = i
          /\ a \in call.dest .. call.dest + (i + 1) - 1
      BY <1>1, <2>2
    <3> QED
      BY <1>3, <2>2, <3>1
  <2>3. CASE a # place
    <3>1. a \in call.dest .. call.dest + (i + 1) - 1 <=> a \in call.dest .. call.dest + i - 1
      <4>1. \A b \in Int, s, j \in Nat :
              b # s + j => (b \in s .. s + (j + 1) - 1 <=> b \in s .. s + j - 1)
        OBVIOUS
      <4> QED
        BY <1>1, <2>1, <2>3, <4>1, Zenon
    <3>2. mem'[a] = mem[a]
      BY <1>3, <2>3
    <3> QED
      BY <3>1, <3>2 DEF WrittenTo
  <2> QED
    BY <2>2, <2>3
<1> QED
  BY <1>3, <1>4 DEF WrittenTo

\* What strncmp finds where it stops.
LEMMA Compared ==
  ASSUME ConstantsAssumption, StringInv, call.fn = "strncmp", pc = "loop",
         strncmp, pc' = "done"
  PROVE  result' = Compare(Prefix(old, call.dest, call.n),
                           Prefix(old, call.src, call.n), call.n)
<1> DEFINE n == call.n
           p == Prefix(old, call.dest, n)
           q == Prefix(old, call.src, n)
           s1 == old[call.dest + i]
           s2 == old[call.src + i]
<1>1. /\ i \in Nat /\ n \in Nat /\ i <= n
      /\ \A k \in 0 .. i - 1 : old[call.src + k] # 0 /\ old[call.dest + k] # 0
      /\ \A k \in 0 .. i - 1 : old[call.dest + k] = old[call.src + k]
  <2>1. call \in StringCalls(old) /\ old \in [Addr -> Bytes] /\ i \in Nat /\ Reached
    BY DEF StringInv, StringFns
  <2>2. n \in Nat
    BY <2>1, StringCall
  <2>3. /\ i <= n
        /\ \A k \in 0 .. i - 1 : old[call.src + k] # 0
        /\ \A k \in 0 .. i - 1 : old[call.dest + k] = old[call.src + k]
    BY <2>1 DEF Reached
  <2> QED
    BY <2>1, <2>2, <2>3
<1>2. mem[call.dest + i] = s1 /\ mem[call.src + i] = s2
  BY LoopReads DEF StringFns
<1>3. /\ i # n => s1 # s2 \/ s1 = 0
      /\ result' = IF i = n THEN 0 ELSE int8_t(s1) - int8_t(s2)
  BY <1>2 DEF strncmp, Return, Turn
<1>4. ASSUME NEW k \in 0 .. n - 1, k <= i
      PROVE  p[k] = old[call.dest + k] /\ q[k] = old[call.src + k]
  <2>1. \A j \in 0 .. k - 1 : j \in 0 .. i - 1
    BY <1>1, <1>4
  <2> QED
    BY <1>1, <1>4, <2>1, PrefixAt
<1>5. \A k \in 0 .. i - 1 : k \in 0 .. n - 1 /\ k <= i
  BY <1>1
<1>6. \A k \in 0 .. i - 1 : p[k] = q[k]
  BY <1>1, <1>4, <1>5
<1> HIDE DEF p, q, s1, s2
<1>7. CASE i = n
  BY <1>3, <1>6, <1>7, CompareSame DEF p, q
<1>8. CASE i # n /\ s1 # s2
  <2>1. i \in 0 .. n - 1 /\ i <= i
    BY <1>1, <1>8
  <2>2. p[i] = s1 /\ q[i] = s2
    BY <1>4, <2>1 DEF s1, s2
  <2>3. Compare(p, q, n) = int8_t(p[i]) - int8_t(q[i])
    BY <1>1, <1>6, <1>8, <2>1, <2>2, CompareFirst
  <2> QED
    BY <1>3, <1>8, <2>2, <2>3 DEF p, q
<1>9. CASE i # n /\ s1 = s2
  <2>1. s1 = 0 /\ s2 = 0 /\ result' = 0 - 0
    BY <1>3, <1>9 DEF int8_t
  <2>2. ASSUME NEW k \in 0 .. n - 1 PROVE p[k] = q[k]
    <3>1. CASE k < i
      <4>1. k \in 0 .. i - 1
        BY <1>1, <3>1
      <4> QED
        BY <1>6, <4>1
    <3>2. CASE k = i
      BY <1>1, <1>4, <2>1, <3>2 DEF s1, s2
    <3>3. CASE k > i
      <4>1. i \in 0 .. k - 1
        BY <1>1, <3>3
      <4>2. old[call.dest + i] = 0 /\ old[call.src + i] = 0
        BY <2>1 DEF s1, s2
      <4>3. p[k] = 0 /\ q[k] = 0
        BY <1>1, <4>1, <4>2, PrefixAt DEF p, q
      <4> QED
        BY <4>3
    <3> QED
      BY <1>1, <3>1, <3>2, <3>3
  <2>3. Compare(p, q, n) = 0
    BY <2>2, CompareSame
  <2> QED
    BY <2>1, <2>3 DEF p, q
<1> QED
  BY <1>7, <1>8, <1>9


-----------------------------------------------------------------------------
\* StringsRight for the memory and the result after a step.
Right(m, r) ==
  /\ call.fn = "strlen" => r = Strlen(old, call.src)
  /\ call.fn = "strncmp" => r = Compare(Prefix(old, call.dest, call.n),
                                        Prefix(old, call.src, call.n), call.n)
  /\ call.fn \in StringFns => WrittenTo(m, Size)

\* A step with which a string function returns.
LEMMA Returns ==
  ASSUME StringInv, call.fn \in StringFns, UNCHANGED << call, old >>,
         DOMAIN mem' = Addr, i' \in Nat, pc' = "done", Right(mem', result')
  PROVE  StringInv'
<1>1. Size' = Size
  BY DEF Size
<1>2. StringsRight'
  BY <1>1 DEF StringsRight, Right, WrittenTo, StringFns
<1> QED
  BY <1>2 DEF StringInv

\* A step with which it goes on.
LEMMA GoesOn ==
  ASSUME StringInv, call.fn \in StringFns, UNCHANGED << call, old >>,
         DOMAIN mem' = Addr, i' \in Nat, pc' \in {"loop", "fill"}, Reached',
         WrittenTo(mem', IF call.fn \in Copies THEN i' ELSE 0)
  PROVE  StringInv'
<1>1. Size' = Size
  BY DEF Size
<1>2. WrittenTo(mem, IF call.fn \in Copies THEN i ELSE 0)'
  BY <1>1 DEF WrittenTo, Prefix
<1> QED
  BY <1>2 DEF StringInv

\* A call finds memory as it is.
LEMMA InitString == ConstantsAssumption /\ Init => StringInv
<1> SUFFICES ASSUME ConstantsAssumption, Init, call.fn \in StringFns PROVE StringInv
  BY DEF StringInv
<1>1. call \in StringCalls(old) /\ old \in [Addr -> Bytes]
  BY DEF Init, BlockCalls, PrintCalls, StringFns, ConstantsAssumption
<1>2. pc = "loop" /\ mem = old /\ i = 0
  BY DEF Init, StringFns
<1>3. call.dest \in Nat /\ call.n \in Nat
  BY <1>1, StringCall
<1>4. WrittenTo(mem, 0)
  BY <1>2, <1>3 DEF WrittenTo, Addr
<1>5. Reached
  BY <1>2, <1>3 DEF Reached
<1> QED
  BY <1>1, <1>2, <1>4, <1>5 DEF StringInv, Copies

\* What the next turn of a loop knows.
LEMMA TurnReached ==
  ASSUME Reached, i \in Nat, pc = "loop", pc' = "loop", i' = i + 1,
         UNCHANGED << call, old >>, old[call.src + i] # 0,
         call.fn = "strncmp" => old[call.dest + i] = old[call.src + i],
         call.fn \in {"strncmp", "strncpy"} => i + 1 <= call.n
  PROVE  Reached'
<1>1. \A k \in 0 .. i' - 1 : k = i \/ k \in 0 .. i - 1
  OBVIOUS
<1>2. \A k \in 0 .. i' - 1 : old[call.src + k] # 0
  BY <1>1 DEF Reached
<1>3. ASSUME call.fn = "strncmp", NEW k \in 0 .. i' - 1
      PROVE  old[call.dest + k] = old[call.src + k]
  BY <1>1, <1>3 DEF Reached
<1> QED
  BY <1>2, <1>3 DEF Reached

\* The functions that only read.
LEMMA ReadsKeep ==
  ASSUME ConstantsAssumption, StringInv, call.fn \in StringFns, strlen \/ strncmp
  PROVE  StringInv'
<1>1. /\ call \in StringCalls(old) /\ old \in [Addr -> Bytes] /\ i \in Nat
      /\ DOMAIN mem = Addr
      /\ pc = "loop" /\ Reached /\ call.fn \notin Copies
  BY DEF StringInv, strlen, strncmp, Copies
<1>2. UNCHANGED << call, old, mem >> /\ WrittenTo(mem', 0)
  BY <1>1 DEF StringInv, strlen, strncmp, WrittenTo
<1>3. (i' = i + 1 /\ pc' = pc) \/ (i' = i /\ pc' = "done")
  BY DEF strlen, strncmp, Turn, Return
<1>4. call.fn \in {"strlen", "strncmp"} /\ Size = 0
  BY DEF strlen, strncmp, Size
<1>5. CASE pc' = "done"
  <2>1. ASSUME call.fn = "strlen" PROVE result' = Strlen(old, call.src)
    <3>1. mem[call.src + i] = 0 /\ result' = i
      BY <1>1, <1>5, <2>1 DEF strlen, strncmp, Turn, Return
    <3> QED
      BY <1>1, <2>1, <3>1, LoopReads
  <2>2. ASSUME call.fn = "strncmp"
        PROVE  result' = Compare(Prefix(old, call.dest, call.n),
                                 Prefix(old, call.src, call.n), call.n)
    BY <1>1, <1>5, <2>2, Compared DEF strlen
  <2>3. Right(mem', result')
    BY <1>2, <1>4, <2>1, <2>2 DEF Right
  <2>4. DOMAIN mem' = Addr /\ i' \in Nat
    BY <1>1, <1>2, <1>3
  <2> QED
    BY <1>2, <1>5, <2>3, <2>4, Returns
<1>6. CASE pc' = "loop" /\ i' = i + 1
  <2>1. old[call.src + i] # 0
    <3>1. mem[call.src + i] = old[call.src + i]
      BY <1>1, LoopReads
    <3>2. CASE strlen
      BY <1>6, <3>1, <3>2 DEF strlen, Return
    <3>3. CASE strncmp
      BY <1>6, <3>1, <3>3 DEF strncmp, Return
    <3> QED
      BY <3>2, <3>3
  <2>2. ASSUME call.fn = "strncmp"
        PROVE  old[call.dest + i] = old[call.src + i] /\ i # call.n
    <3>1. /\ mem[call.src + i] = old[call.src + i]
          /\ mem[call.dest + i] = old[call.dest + i]
      BY <1>1, <2>2, LoopReads
    <3> QED
      BY <1>6, <2>2, <3>1 DEF strncmp, strlen, Return
  <2>3. call.fn \in {"strncmp", "strncpy"} => i + 1 <= call.n
    <3>1. call.fn = "strncmp" => i <= call.n /\ call.n \in Nat
      BY <1>1, StringCall DEF Reached
    <3> QED
      BY <1>1, <1>4, <2>2, <3>1
  <2>4. Reached'
    BY <1>1, <1>2, <1>6, <2>1, <2>2, <2>3, TurnReached
  <2> QED
    BY <1>1, <1>2, <1>6, <2>4, GoesOn
<1> QED
  BY <1>1, <1>3, <1>5, <1>6

\* strcpy: the byte it puts belongs there, also the zero at the end.
LEMMA StrcpyKeeps ==
  ASSUME ConstantsAssumption, StringInv, call.fn \in StringFns, strcpy
  PROVE  StringInv'
<1>1. /\ call \in StringCalls(old) /\ old \in [Addr -> Bytes] /\ i \in Nat
      /\ DOMAIN mem = Addr /\ call.fn = "strcpy" /\ call.fn \in Copies
      /\ pc = "loop" /\ Reached /\ WrittenTo(mem, i)
  BY DEF StringInv, strcpy, Copies
<1>2. /\ UNCHANGED << call, old >> /\ Put(mem[call.src + i])
      /\ IF mem[call.src + i] # 0 THEN Turn ELSE Return(call.dest)
  BY DEF strcpy
<1>3. /\ mem[call.src + i] = old[call.src + i]
      /\ i <= Strlen(old, call.src)
      /\ old[call.src + i] = 0 => i = Strlen(old, call.src)
  BY <1>1, LoopReads
<1>4. Size \in Nat /\ Size = Strlen(old, call.src) + 1 /\ Strlen(old, call.src) \in Nat
  BY <1>1, SizeOfCopy, StringCall
<1>5. i < Size
  BY <1>1, <1>3, <1>4
<1>6. Prefix(old, call.src, Size)[i] = mem[call.src + i]
  <2>1. \A j \in 0 .. i - 1 : old[call.src + j] # 0
    BY <1>1 DEF Reached
  <2>2. i \in 0 .. Size - 1
    BY <1>1, <1>4, <1>5
  <2> QED
    BY <1>3, <1>4, <2>1, <2>2, PrefixAt
<1>7. DOMAIN mem' = Addr /\ WrittenTo(mem', i + 1)
  BY <1>1, <1>2, <1>5, <1>6, PutWrites
<1>8. CASE old[call.src + i] # 0
  <2>1. i' = i + 1 /\ pc' = "loop"
    BY <1>1, <1>2, <1>3, <1>8 DEF Turn
  <2>2. Reached'
    BY <1>1, <1>2, <1>8, <2>1, TurnReached
  <2> QED
    BY <1>1, <1>2, <1>7, <2>1, <2>2, GoesOn
<1>9. CASE old[call.src + i] = 0
  <2>1. i' = i /\ pc' = "done" /\ i + 1 = Size
    BY <1>1, <1>2, <1>3, <1>4, <1>9 DEF Return
  <2>2. Right(mem', result')
    BY <1>1, <1>7, <2>1 DEF Right
  <2> QED
    BY <1>1, <1>2, <1>7, <2>1, <2>2, Returns
<1> QED
  BY <1>8, <1>9

\* strncpy: the string, then zeros.
LEMMA StrncpyKeeps ==
  ASSUME ConstantsAssumption, StringInv, call.fn \in StringFns, strncpy
  PROVE  StringInv'
<1>1. /\ call \in StringCalls(old) /\ old \in [Addr -> Bytes] /\ i \in Nat
      /\ DOMAIN mem = Addr /\ call.fn = "strncpy" /\ call.fn \in Copies
      /\ pc \in {"loop", "fill"} /\ Reached /\ WrittenTo(mem, i)
  BY DEF StringInv, strncpy, Copies
<1>2. /\ UNCHANGED << call, old >> /\ Size = call.n /\ call.n \in Nat /\ i <= call.n
  BY <1>1, SizeOfCopy DEF strncpy, Reached
<1>3. ASSUME i < call.n, Put(Prefix(old, call.src, Size)[i]), Turn, Reached'
      PROVE  StringInv'
  <2>1. DOMAIN mem' = Addr /\ WrittenTo(mem', i + 1)
    BY <1>1, <1>2, <1>3, PutWrites
  <2>2. i' = i + 1 /\ pc' = pc
    BY <1>3 DEF Turn
  <2> QED
    BY <1>1, <1>2, <1>3, <2>1, <2>2, GoesOn
<1>4. CASE pc = "loop"
  <2>1. mem[call.src + i] = old[call.src + i]
    BY <1>1, <1>4, LoopReads
  <2>2. CASE old[call.src + i] # 0 /\ i < call.n
    <3>1. Put(old[call.src + i]) /\ Turn /\ pc' = "loop" /\ i' = i + 1
      BY <1>4, <2>1, <2>2 DEF strncpy, Turn
    <3>2. Prefix(old, call.src, Size)[i] = old[call.src + i]
      <4>1. \A j \in 0 .. i - 1 : old[call.src + j] # 0
        BY <1>1, <1>4 DEF Reached
      <4>2. i \in 0 .. Size - 1
        BY <1>1, <1>2, <2>2
      <4> QED
        BY <1>2, <4>1, <4>2, PrefixAt
    <3>3. Reached'
      <4>1. call.fn # "strncmp" /\ i + 1 <= call.n
        BY <1>1, <1>2, <2>2
      <4> QED
        BY <1>1, <1>2, <1>4, <2>2, <3>1, <4>1, TurnReached
    <3> QED
      BY <1>3, <2>2, <3>1, <3>2, <3>3
  <2>3. CASE ~(old[call.src + i] # 0 /\ i < call.n)
    <3>1. pc' = "fill" /\ UNCHANGED << mem, i >>
      BY <1>4, <2>1, <2>3 DEF strncpy
    <3>2. i < call.n => \E j \in 0 .. i : old[call.src + j] = 0
      BY <1>1, <2>3
    <3>3. Reached'
      BY <1>1, <1>2, <3>1, <3>2 DEF Reached
    <3>4. WrittenTo(mem', i')
      BY <1>1, <3>1
    <3> QED
      BY <1>1, <1>2, <3>1, <3>3, <3>4, GoesOn
  <2> QED
    BY <2>2, <2>3
<1>5. CASE pc = "fill"
  <2>1. CASE i < call.n
    <3>1. Put(0) /\ Turn /\ pc' = "fill" /\ i' = i + 1
      BY <1>5, <2>1 DEF strncpy, Turn
    <3>2. PICK j \in 0 .. i : old[call.src + j] = 0
      BY <1>1, <1>5, <2>1 DEF Reached
    <3>3. Prefix(old, call.src, Size)[i] = 0
      <4>1. i \in 0 .. Size - 1 /\ (j = i \/ j \in 0 .. i - 1)
        BY <1>1, <1>2, <2>1
      <4> QED
        BY <1>2, <3>2, <4>1, PrefixAt
    <3>4. Reached'
      <4>1. j \in 0 .. i' /\ i' <= call.n
        BY <1>1, <1>2, <2>1, <3>1
      <4> QED
        BY <1>1, <1>2, <3>1, <3>2, <4>1 DEF Reached
    <3> QED
      BY <1>3, <2>1, <3>1, <3>3, <3>4
  <2>2. CASE ~(i < call.n)
    <3>1. pc' = "done" /\ UNCHANGED << mem, i >> /\ i = Size
      BY <1>1, <1>2, <1>5, <2>2 DEF strncpy, Return
    <3>2. Right(mem', result')
      BY <1>1, <3>1 DEF Right
    <3> QED
      BY <1>1, <1>2, <3>1, <3>2, Returns
  <2> QED
    BY <2>1, <2>2
<1> QED
  BY <1>1, <1>4, <1>5

\* Every step keeps the invariant.
LEMMA NextString == ConstantsAssumption /\ StringInv /\ [Next]_vars => StringInv'
<1> SUFFICES ASSUME ConstantsAssumption, StringInv, [Next]_vars, call'.fn \in StringFns
             PROVE  StringInv'
  BY DEF StringInv
<1>0. call' = call /\ old' = old
  BY DEF Next, Block, Top, Aligned, Rep, Bottom, String, strlen, strncmp, strcpy,
     strncpy, Printing, Text, Convert, Stop, vars
<1>1. call.fn \in StringFns /\ pc \in {"loop", "fill", "done"}
  BY <1>0 DEF StringInv
<1>2. CASE String
  BY <1>1, <1>2, ReadsKeep, StrcpyKeeps, StrncpyKeeps DEF String
<1>3. ASSUME Block \/ Printing PROVE FALSE
  BY <1>1, <1>3 DEF Block, Top, Aligned, Rep, Bottom, Printing, Text, Convert
<1>4. CASE Stop \/ UNCHANGED vars
  <2>1. UNCHANGED << call, old, mem, pc, i, result >>
    BY <1>4 DEF Stop, vars
  <2>2. Size' = Size
    BY <2>1 DEF Size
  <2>3. StringsRight' <=> StringsRight
    BY <2>1, <2>2 DEF StringsRight, Prefix, Compare
  <2>4. Reached' <=> Reached
    BY <2>1 DEF Reached
  <2>5. WrittenTo(mem, IF call.fn \in Copies THEN i ELSE 0)'
          <=> WrittenTo(mem, IF call.fn \in Copies THEN i ELSE 0)
    BY <2>1, <2>2 DEF WrittenTo, Prefix
  <2> QED
    BY <1>1, <2>1, <2>3, <2>4, <2>5 DEF StringInv
<1> QED
  BY <1>2, <1>3, <1>4 DEF Next

\* At every turn the string functions have read and written what they should.
THEOREM StringInvariant == Spec => []StringInv
<1>1. ConstantsAssumption
  BY ConstantsAssumption
<1>2. Init => StringInv
  BY <1>1, InitString
<1>3. StringInv /\ [Next]_vars => StringInv'
  BY <1>1, NextString
<1> QED
  BY <1>2, <1>3, PTL DEF Spec

\* When one returns, its result and memory are those its comment promises.
THEOREM StringsRightHolds == Spec => []StringsRight
<1>1. StringInv => StringsRight
  BY DEF StringInv, StringsRight, StringFns
<1> QED
  BY <1>1, StringInvariant, PTL

-----------------------------------------------------------------------------
(* Induction, on the numbers up to n.                                      *)

\* What holds of 0 and of each number after one of which it holds.
LEMMA Along ==
  ASSUME NEW n \in Nat, NEW S, 0 \in S, \A k \in 1 .. n : k - 1 \in S => k \in S
  PROVE  \A k \in 0 .. n : k \in S
<1> DEFINE T == {k \in 0 .. n : k \notin S}
<1>1. T = {}
  <2>1. SUFFICES ASSUME T # {} PROVE FALSE
    OBVIOUS
  <2>2. T \in SUBSET Nat
    OBVIOUS
  <2> HIDE DEF T
  <2>3. PICK m \in T : \A k \in T : m <= k
    BY <2>1, <2>2, LeastElement
  <2> USE DEF T
  <2>4. m \in 1 .. n /\ m - 1 \in 0 .. n /\ m - 1 \notin T
    BY <2>3
  <2> QED
    BY <2>4
<1> QED
  BY <1>1

-----------------------------------------------------------------------------
(* Powers and divisions.                                                   *)

\* The powers of a base: each is the base times the one before.
Powers(P, b) ==
  /\ P \in [0 .. Width -> Nat \ {0}]
  /\ P[0] = 1
  /\ \A k \in 1 .. Width : P[k] = b * P[k - 1]

LEMMA PowerIs ==
  ASSUME Width \in Nat, NEW b \in Nat \ {0}
  PROVE  Powers(Power(b), b)
<1> DEFINE H == Power(b)
           power(g, n) == IF n = 0 THEN 1 ELSE b * g[n - 1]
           S == {m \in 0 .. Width : \E f : f = [n \in 0 .. m |-> power(f, n)]}
<1>1. 0 \in S
  <2> DEFINE f == [n \in 0 .. 0 |-> 1]
  <2>1. f = [n \in 0 .. 0 |-> power(f, n)]
    <3>1. \A n \in 0 .. 0 : power(f, n) = 1
      BY SMT
    <3> HIDE DEF power
    <3> QED
      BY <3>1
  <2>2. 0 \in 0 .. Width
    OBVIOUS
  <2> HIDE DEF f, power
  <2> QED
    BY <2>1, <2>2, Zenon
<1>2. ASSUME NEW m \in 1 .. Width, m - 1 \in S PROVE m \in S
  <2>1. PICK f : f = [n \in 0 .. m - 1 |-> power(f, n)]
    BY <1>2
  <2> DEFINE g == [n \in 0 .. m |-> IF n = m THEN b * f[m - 1] ELSE f[n]]
  <2>2. g[m] = b * f[m - 1] /\ \A n \in 0 .. m - 1 : g[n] = f[n]
    OBVIOUS
  <2>3. DOMAIN g = 0 .. m /\ g = [n \in 0 .. m |-> g[n]]
    OBVIOUS
  <2> HIDE DEF g
  <2>4. ASSUME NEW n \in 0 .. m PROVE g[n] = power(g, n)
    <3>1. CASE n = m
      BY <2>2, <3>1
    <3>2. CASE n # m
      <4>1. n \in 0 .. m - 1
        BY <3>2
      <4>2. f[n] = power(f, n)
        BY <2>1, <4>1, Zenon
      <4>3. n = 0 \/ n - 1 \in 0 .. m - 1
        BY <4>1
      <4> QED
        BY <2>2, <4>1, <4>2, <4>3
    <3> QED
      BY <3>1, <3>2
  <2>5. g = [n \in 0 .. m |-> power(g, n)]
    <3> HIDE DEF power
    <3> QED
      BY <2>3, <2>4
  <2> QED
    BY <2>5
<1>3. Width \in S
  <2> HIDE DEF S
  <2> QED
    BY <1>1, <1>2, Along
<1>4. H = [n \in 0 .. Width |-> power(H, n)]
  <2>1. \E f : f = [n \in 0 .. Width |-> power(f, n)]
    BY <1>3, Zenon
  <2>2. H = CHOOSE f : f = [n \in 0 .. Width |-> power(f, n)]
    BY Zenon DEF Power
  <2> HIDE DEF H, power
  <2> QED
    BY <2>1, <2>2, Zenon
<1> HIDE DEF H
<1>5. \A n \in 0 .. Width : H[n] = power(H, n)
  <2> HIDE DEF power
  <2> QED
    BY <1>4, Zenon
<1>6. H[0] = 1 /\ \A k \in 1 .. Width : H[k] = b * H[k - 1]
  BY <1>5
<1>7. \A k \in 0 .. Width : H[k] \in Nat \ {0}
  <2> DEFINE T == {k \in 0 .. Width : H[k] \in Nat \ {0}}
  <2>1. 0 \in T
    BY <1>6
  <2>2. ASSUME NEW k \in 1 .. Width, k - 1 \in T PROVE k \in T
    <3>1. H[k] = b * H[k - 1] /\ H[k - 1] \in Nat \ {0}
      BY <1>6, <2>2
    <3>2. H[k] \in Nat \ {0}
      <4>1. \A x \in Nat \ {0} : b * x \in Nat \ {0}
        BY Z3
      <4> QED
        BY <3>1, <4>1, Zenon
    <3> QED
      BY <3>2
  <2> HIDE DEF T
  <2>3. \A k \in 0 .. Width : k \in T
    BY <2>1, <2>2, Along
  <2> QED
    BY <2>3 DEF T
<1>8. H \in [0 .. Width -> Nat \ {0}]
  <2>1. H = [n \in 0 .. Width |-> H[n]]
    <3>1. \A n \in 0 .. Width : H[n] = power(H, n)
      BY <1>5
    <3> HIDE DEF power
    <3> QED
      BY <1>4, <3>1
  <2> QED
    BY <1>7, <2>1
<1> QED
  BY <1>6, <1>8 DEF H, Powers

\* Powers grow.
LEMMA PowersGrow ==
  ASSUME Width \in Nat, NEW P, NEW b \in Nat, b >= 2, Powers(P, b),
         NEW m \in 0 .. Width, NEW n \in m .. Width
  PROVE  P[m] <= P[n]
<1>0. P \in [0 .. Width -> Nat \ {0}] /\ \A k \in 1 .. Width : P[k] = b * P[k - 1]
  BY DEF Powers
<1> DEFINE S == {k \in 0 .. Width : m <= k => P[m] <= P[k]}
<1>1. 0 \in S
  BY <1>0
<1>2. ASSUME NEW k \in 1 .. Width, k - 1 \in S PROVE k \in S
  <2>1. k - 1 \in 0 .. Width /\ k \in 0 .. Width
    OBVIOUS
  <2>2. P[k] = b * P[k - 1] /\ P[k - 1] \in Nat /\ P[m] \in Nat
    BY <1>0, <2>1
  <2>3. P[k - 1] <= b * P[k - 1]
    <3>1. \A x \in Nat : x <= b * x
      BY Z3
    <3> QED
      BY <2>2, <3>1
  <2>4. m <= k - 1 => P[m] <= P[k - 1]
    BY <1>2
  <2>5. P[k] \in Nat
    BY <1>0, <2>1
  <2>6. m <= k => m <= k - 1 \/ m = k
    OBVIOUS
  <2>7. m <= k => P[m] <= P[k]
    <3>1. P[k - 1] <= P[k]
      BY <2>2, <2>3, Zenon
    <3> QED
      BY <2>2, <2>4, <2>5, <2>6, <3>1
  <2> QED
    BY <2>1, <2>7
<1> HIDE DEF S
<1>3. \A k \in 0 .. Width : k \in S
  BY <1>1, <1>2, Along
<1> QED
  BY <1>3 DEF S

\* A greater base has greater powers.
LEMMA PowersOver ==
  ASSUME Width \in Nat, NEW P, NEW Q, NEW b \in Nat \ {0}, NEW c \in Nat, b <= c,
         Powers(P, b), Powers(Q, c), NEW n \in 0 .. Width
  PROVE  P[n] <= Q[n]
<1>0. /\ P \in [0 .. Width -> Nat \ {0}] /\ \A k \in 1 .. Width : P[k] = b * P[k - 1]
      /\ Q \in [0 .. Width -> Nat \ {0}] /\ \A k \in 1 .. Width : Q[k] = c * Q[k - 1]
      /\ P[0] = 1 /\ Q[0] = 1
  BY DEF Powers
<1> DEFINE S == {k \in 0 .. Width : P[k] <= Q[k]}
<1>1. 0 \in S
  BY <1>0
<1>2. ASSUME NEW k \in 1 .. Width, k - 1 \in S PROVE k \in S
  <2>1. k - 1 \in 0 .. Width /\ k \in 0 .. Width
    OBVIOUS
  <2>2. P[k] = b * P[k - 1] /\ P[k - 1] \in Nat /\ Q[k] = c * Q[k - 1] /\ Q[k - 1] \in Nat
    BY <1>0, <2>1
  <2>3. P[k - 1] <= Q[k - 1]
    BY <1>2
  <2>4. \A x, y \in Nat : x <= y => b * x <= c * y
    BY Z3
  <2>5. P[k] <= Q[k]
    BY <2>2, <2>3, <2>4, Zenon
  <2> QED
    BY <2>1, <2>5
<1> HIDE DEF S
<1>3. \A k \in 0 .. Width : k \in S
  BY <1>1, <1>2, Along
<1> QED
  BY <1>3 DEF S

\* Four binary digits are a hexadecimal one.
LEMMA HexPower ==
  ASSUME Width \in Nat, Width % 4 = 0
  PROVE  /\ HexDigits \in 0 .. Width /\ Width = 4 * HexDigits
         /\ Power(2)[Width] = Power(16)[HexDigits]
<1> DEFINE P == Power(2)
           Q == Power(16)
<1>0. /\ P \in [0 .. Width -> Nat \ {0}] /\ \A k \in 1 .. Width : P[k] = 2 * P[k - 1]
      /\ Q \in [0 .. Width -> Nat \ {0}] /\ \A k \in 1 .. Width : Q[k] = 16 * Q[k - 1]
      /\ P[0] = 1 /\ Q[0] = 1
  BY PowerIs DEF Powers
<1>1. HexDigits \in 0 .. Width /\ Width = 4 * HexDigits
  BY DEF HexDigits
<1> HIDE DEF P, Q
<1> DEFINE S == {k \in 0 .. HexDigits : P[4 * k] = Q[k]}
<1>2. 0 \in S
  BY <1>0, <1>1
<1>3. ASSUME NEW k \in 1 .. HexDigits, k - 1 \in S PROVE k \in S
  <2>1. /\ k \in 1 .. Width /\ k - 1 \in 0 .. Width
        /\ 4 * k \in 1 .. Width /\ 4 * k - 1 \in 1 .. Width /\ 4 * k - 2 \in 1 .. Width
        /\ 4 * k - 3 \in 1 .. Width /\ 4 * (k - 1) \in 0 .. Width
        /\ (4 * k - 1) - 1 = 4 * k - 2 /\ (4 * k - 2) - 1 = 4 * k - 3
        /\ (4 * k - 3) - 1 = 4 * (k - 1)
    BY <1>1
  <2>2. /\ P[4 * k] = 2 * P[4 * k - 1] /\ P[4 * k - 1] = 2 * P[4 * k - 2]
        /\ P[4 * k - 2] = 2 * P[4 * k - 3] /\ P[4 * k - 3] = 2 * P[4 * (k - 1)]
        /\ Q[k] = 16 * Q[k - 1] /\ P[4 * (k - 1)] \in Nat
    BY <1>0, <2>1
  <2>3. P[4 * (k - 1)] = Q[k - 1]
    BY <1>3
  <2>4. P[4 * k] = Q[k]
    BY <2>2, <2>3
  <2>5. k \in 0 .. HexDigits
    BY <1>1
  <2> QED
    BY <2>4, <2>5
<1> HIDE DEF S
<1>4. \A k \in 0 .. HexDigits : k \in S
  <2>1. HexDigits \in Nat
    BY <1>1
  <2> HIDE DEF HexDigits
  <2> QED
    BY <1>2, <1>3, <2>1, Along
<1>5. P[4 * HexDigits] = Q[HexDigits]
  BY <1>1, <1>4 DEF S
<1> QED
  BY <1>1, <1>5 DEF P, Q

\* What division gives.
LEMMA Quotient ==
  ASSUME NEW v \in Nat, NEW d \in Nat \ {0}
  PROVE  /\ v \div d \in Nat /\ v % d \in 0 .. d - 1
         /\ d * (v \div d) <= v /\ v < d * (v \div d) + d
<1>1. v \div d \in Int /\ d * (v \div d) <= v /\ v < d * (v \div d) + d
  BY Z3
<1>2. v % d \in 0 .. d - 1
  BY Z3
<1>3. v \div d >= 0
  <2>1. \A q \in Int : v < d * q + d => q >= 0
    BY Z3
  <2> QED
    BY <1>1, <2>1
<1> QED
  BY <1>1, <1>2, <1>3

\* Which number it is.
LEMMA QuotientAt ==
  ASSUME NEW v \in Nat, NEW d \in Nat \ {0}, NEW q \in Nat, d * q <= v, v < d * q + d
  PROVE  v \div d = q
<1>1. v \div d \in Nat /\ d * (v \div d) <= v /\ v < d * (v \div d) + d
  BY Quotient
<1>2. \A x, y \in Nat : d * x <= v /\ v < d * y + d => x <= y
  BY Z3
<1> QED
  BY <1>1, <1>2

LEMMA TwoDivisions ==
  ASSUME NEW v \in Nat, NEW a \in Nat \ {0}, NEW b \in Nat \ {0}
  PROVE  (v \div a) \div b = v \div (a * b)
<1> DEFINE u == v \div a
           w == u \div b
<1>1. u \in Nat /\ a * u <= v /\ v < a * u + a
  BY Quotient
<1> HIDE DEF u
<1>2. w \in Nat /\ b * w <= u /\ u < b * w + b
  BY <1>1, Quotient
<1> HIDE DEF w
<1>3. a * b \in Nat \ {0}
  BY Z3
<1>4. (a * b) * w <= v
  <2>1. \A x, y, z \in Nat : x <= y => z * x <= z * y
    BY Z3
  <2>2. a * (b * w) <= a * u
    <3>1. b * w \in Nat
      BY <1>2
    <3> QED
      BY <1>1, <1>2, <2>1, <3>1
  <2>3. (a * b) * w = a * (b * w)
    BY <1>2, Z3
  <2>4. a * (b * w) \in Int /\ a * u \in Int
    BY <1>1, <1>2
  <2> QED
    BY <1>1, <2>2, <2>3, <2>4
<1>5. v < (a * b) * w + a * b
  <2>1. u + 1 <= b * w + b
    BY <1>1, <1>2
  <2>2. a * (u + 1) <= a * (b * w + b)
    <3>1. \A x, y, z \in Nat : x <= y => z * x <= z * y
      BY Z3
    <3>2. u + 1 \in Nat /\ b * w + b \in Nat
      BY <1>1, <1>2
    <3> QED
      BY <2>1, <3>1, <3>2
  <2>3. a * (u + 1) = a * u + a
    BY <1>1, Z3
  <2>4. a * (b * w + b) = (a * b) * w + a * b
    BY <1>2, Z3
  <2>5. a * u + a \in Int /\ (a * b) * w + a * b \in Int
    BY <1>1, <1>2
  <2> QED
    BY <1>1, <2>2, <2>3, <2>4, <2>5
<1>6. v \div (a * b) = w
  <2> DEFINE d == a * b
  <2>1. d \in Nat \ {0} /\ d * w <= v /\ v < d * w + d
    BY <1>3, <1>4, <1>5
  <2> HIDE DEF d
  <2>2. v \div d = w
    BY <1>2, <2>1, QuotientAt
  <2> QED
    BY <2>2 DEF d
<1> QED
  BY <1>6 DEF w, u

-----------------------------------------------------------------------------
(* The digits of a number.                                                 *)

Unsigned == 0 .. Power(2)[Width] - 1
Digit(d) == lookup[d + 1]

\* What printf prints.
Chars == {Digit(d) : d \in 0 .. 15} \cup {"a", "%", "-", "s"}

LEMMA DigitIs == \A d \in 0 .. 15 : Digit(d) \in Chars
BY Zenon DEF Chars

\* The loop of itoa: the digits of each number, the last one first.
Reversed(radix) ==
  LET low[v \in 0 .. Power(2)[Width] - 1] ==
        IF v = 0 THEN << >>
        ELSE << lookup[(v % radix) + 1] >> \o low[v \div radix]
  IN low

LEMMA UnsignedIs ==
  ASSUME Width \in Nat
  PROVE  Power(2)[Width] \in Nat \ {0}
<1>1. Width \in 0 .. Width
  OBVIOUS
<1> QED
  BY <1>1, PowerIs DEF Powers

LEMMA ReversedIs ==
  ASSUME Width \in Nat, NEW r \in Nat, r >= 2
  PROVE  \A v \in Unsigned :
           Reversed(r)[v] = IF v = 0 THEN << >>
                            ELSE << Digit(v % r) >> \o Reversed(r)[v \div r]
<1> DEFINE H == Reversed(r)
           N == Power(2)[Width] - 1
           low(g, v) == IF v = 0 THEN << >> ELSE << Digit(v % r) >> \o g[v \div r]
           S == {m \in 0 .. N : \E f : f = [v \in 0 .. m |-> low(f, v)]}
<1>0. N \in Nat
  BY UnsignedIs
<1> HIDE DEF N
<1>d. \A v \in Nat \ {0} : v \div r \in 0 .. v - 1
  <2>1. SUFFICES ASSUME NEW v \in Nat \ {0} PROVE v \div r \in 0 .. v - 1
    OBVIOUS
  <2>2. v \div r \in Nat /\ r * (v \div r) <= v
    <3>1. r \in Nat \ {0} /\ v \in Nat
      OBVIOUS
    <3> QED
      BY <3>1, Quotient
  <2>3. \A q \in Nat : r * q <= v => q < v
    BY Z3
  <2> QED
    BY <2>2, <2>3
<1>1. 0 \in S
  <2> DEFINE f == [v \in 0 .. 0 |-> << >>]
  <2>1. f = [v \in 0 .. 0 |-> low(f, v)]
    <3>1. \A v \in 0 .. 0 : low(f, v) = << >>
      BY SMT
    <3> HIDE DEF low
    <3> QED
      BY <3>1
  <2>2. 0 \in 0 .. N
    BY <1>0
  <2> HIDE DEF f, low
  <2> QED
    BY <2>1, <2>2, Zenon
<1>2. ASSUME NEW m \in 1 .. N, m - 1 \in S PROVE m \in S
  <2>1. PICK f : f = [v \in 0 .. m - 1 |-> low(f, v)]
    BY <1>2, Zenon
  <2> DEFINE new == low(f, m)
             g == [v \in 0 .. m |-> IF v = m THEN new ELSE f[v]]
  <2> HIDE DEF new
  <2>2. g[m] = new /\ \A v \in 0 .. m - 1 : g[v] = f[v]
    BY <1>0
  <2>3. g = [v \in 0 .. m |-> g[v]]
    OBVIOUS
  <2> HIDE DEF g
  <2>4. ASSUME NEW v \in 0 .. m PROVE g[v] = low(g, v)
    <3>1. v = 0 \/ v \div r \in 0 .. m - 1
      <4>1. SUFFICES ASSUME v # 0 PROVE v \div r \in 0 .. m - 1
        OBVIOUS
      <4>2. v \in Nat \ {0}
        BY <1>0, <4>1
      <4> DEFINE q == v \div r
      <4>3. q \in 0 .. v - 1
        BY <1>d, <4>2, Zenon
      <4> HIDE DEF q
      <4>4. q \in 0 .. m - 1
        BY <1>0, <4>3
      <4> QED
        BY <4>4 DEF q
    <3>2. low(g, v) = low(f, v)
      <4>1. CASE v = 0
        BY <4>1
      <4>2. CASE v # 0
        <5>1. g[v \div r] = f[v \div r]
          BY <2>2, <3>1, <4>2
        <5> QED
          BY <5>1, Zenon
      <4> QED
        BY <4>1, <4>2
    <3>3. CASE v = m
      BY <2>2, <3>2, <3>3, Zenon DEF new
    <3>4. CASE v # m
      <4>1. v \in 0 .. m - 1
        BY <1>0, <3>4
      <4>2. f[v] = low(f, v)
        <5> HIDE DEF low
        <5> QED
          BY <2>1, <4>1, Zenon
      <4> QED
        BY <2>2, <3>2, <4>1, <4>2, Zenon
    <3> QED
      BY <3>3, <3>4
  <2>5. g = [v \in 0 .. m |-> low(g, v)]
    <3> HIDE DEF low
    <3> QED
      BY <2>3, <2>4
  <2>6. m \in 0 .. N
    BY <1>0
  <2> HIDE DEF low
  <2> QED
    BY <2>5, <2>6, Zenon
<1>3. N \in S
  <2>1. \A k \in 0 .. N : k \in S
    <3> HIDE DEF S
    <3> QED
      BY <1>0, <1>1, <1>2, Along
  <2>2. N \in 0 .. N
    BY <1>0
  <2> QED
    BY <2>1, <2>2, Zenon
<1>4. H = [v \in 0 .. N |-> low(H, v)]
  <2>1. \E f : f = [v \in 0 .. N |-> low(f, v)]
    BY <1>3, Zenon
  <2>2. H = CHOOSE f : f = [v \in 0 .. N |-> low(f, v)]
    BY Zenon DEF Reversed, N, Digit
  <2> HIDE DEF H, low
  <2> QED
    BY <2>1, <2>2, Zenon
<1> HIDE DEF H
<1>5. \A v \in 0 .. N : H[v] = low(H, v)
  <2> HIDE DEF low
  <2> QED
    BY <1>4, Zenon
<1> QED
  BY <1>5, Zenon DEF H, N, Unsigned

\* L are the digits of v, the last one first, and there are not too many.
DigitsOf(L, v, P, r, n) ==
  /\ L \in Seq(Chars) /\ Len(L) \in 0 .. n
  /\ v < P[Len(L)]
  /\ Len(L) > 0 => P[Len(L) - 1] <= v
  /\ \A k \in 1 .. Len(L) : L[k] = Digit((v \div P[k - 1]) % r)

\* One digit before them.
LEMMA OneDigitMore ==
  ASSUME Width \in Nat, NEW r \in 2 .. 16, NEW P, Powers(P, r),
         NEW n \in 1 .. Width, NEW v \in Nat \ {0}, NEW L,
         DigitsOf(L, v \div r, P, r, n - 1)
  PROVE  DigitsOf(<< Digit(v % r) >> \o L, v, P, r, n)
<1> DEFINE u == v \div r
           d == v % r
           l == Len(L)
           M == << Digit(d) >> \o L
<1>0. r \in Nat \ {0} /\ v \in Nat
  OBVIOUS
<1>1. u \in Nat /\ d \in 0 .. r - 1 /\ r * u <= v /\ v < r * u + r
  BY <1>0, Quotient
<1>2. /\ L \in Seq(Chars) /\ l \in 0 .. n - 1 /\ u < P[l] /\ (l > 0 => P[l - 1] <= u)
      /\ \A k \in 1 .. l : L[k] = Digit((u \div P[k - 1]) % r)
  BY DEF DigitsOf
<1>3. /\ P \in [0 .. Width -> Nat \ {0}] /\ P[0] = 1
      /\ \A k \in 1 .. Width : P[k] = r * P[k - 1]
  BY DEF Powers
<1>4. Digit(d) \in Chars
  BY <1>1, DigitIs
<1> HIDE DEF u, d
<1>5. M \in Seq(Chars) /\ Len(M) = l + 1 /\ l + 1 \in 1 .. n
  BY <1>2, <1>4
<1>6. M[1] = Digit(d) /\ \A k \in 2 .. l + 1 : M[k] = L[k - 1]
  BY <1>2, <1>4
<1> HIDE DEF M, l
<1>7. /\ l \in 0 .. Width /\ l + 1 \in 1 .. Width /\ (l + 1) - 1 = l
      /\ P[l] \in Nat /\ P[l + 1] = r * P[l]
  BY <1>2, <1>3
<1>8. v < P[l + 1]
  <2>1. u + 1 <= P[l]
    BY <1>1, <1>2, <1>7
  <2>2. r * (u + 1) <= r * P[l]
    <3>1. \A x, y \in Nat : x <= y => r * x <= r * y
      BY Z3
    <3>2. u + 1 \in Nat
      BY <1>1
    <3> QED
      BY <1>7, <2>1, <3>1, <3>2
  <2>3. r * (u + 1) = r * u + r
    BY <1>1, Z3
  <2>4. r * u \in Nat /\ r * P[l] \in Nat
    BY <1>0, <1>1, <1>7
  <2> QED
    BY <1>1, <1>7, <2>2, <2>3, <2>4
<1>9. P[l] <= v
  <2>1. CASE l = 0
    BY <1>3, <2>1
  <2>2. CASE l # 0
    <3>1. l \in 1 .. Width /\ l - 1 \in 0 .. Width /\ l > 0
      BY <1>7, <2>2
    <3>2. P[l] = r * P[l - 1] /\ P[l - 1] \in Nat /\ P[l - 1] <= u
      BY <1>2, <1>3, <3>1
    <3>3. \A x, y \in Nat : x <= y => r * x <= r * y
      BY Z3
    <3>4. r * P[l - 1] <= r * u
      BY <1>1, <3>2, <3>3
    <3>5. r * u \in Nat
      BY <1>0, <1>1
    <3> QED
      BY <1>1, <1>7, <3>2, <3>4, <3>5
  <2> QED
    BY <2>1, <2>2
<1>10. ASSUME NEW k \in 1 .. l + 1 PROVE M[k] = Digit((v \div P[k - 1]) % r)
  <2>1. CASE k = 1
    <3>1. k - 1 = 0
      BY <2>1
    <3>2. v \div 1 = v
      BY <1>0
    <3> QED
      BY <1>3, <1>6, <2>1, <3>1, <3>2, Zenon DEF d
  <2>2. CASE k # 1
    <3>1. /\ k \in 2 .. l + 1 /\ k - 1 \in 1 .. l /\ k - 1 \in 1 .. Width
          /\ (k - 1) - 1 \in 0 .. Width
      BY <1>7, <2>2
    <3>2. M[k] = Digit((u \div P[(k - 1) - 1]) % r)
      BY <1>2, <1>6, <3>1
    <3>3. P[k - 1] = r * P[(k - 1) - 1] /\ P[(k - 1) - 1] \in Nat \ {0}
      BY <1>3, <3>1
    <3>4. (v \div r) \div P[(k - 1) - 1] = v \div (r * P[(k - 1) - 1])
      BY <1>0, <3>3, TwoDivisions, Zenon
    <3> QED
      BY <3>2, <3>3, <3>4, Zenon DEF u
  <2> QED
    BY <2>1, <2>2
<1>11. Len(M) \in 0 .. n /\ Len(M) - 1 = l
  BY <1>5, <1>7
<1> HIDE DEF u, d, M, l
<1>12. DigitsOf(M, v, P, r, n)
  BY <1>5, <1>8, <1>9, <1>10, <1>11, Zenon DEF DigitsOf
<1> QED
  BY <1>12 DEF M, d

\* All its numbers below a power have their digits there.
LEMMA ReversedDigits ==
  ASSUME Width \in Nat, NEW r \in 2 .. 16, NEW v \in Unsigned
  PROVE  DigitsOf(Reversed(r)[v], v, Power(r), r, Width)
<1> DEFINE P == Power(r)
           R == Reversed(r)
           S == {n \in 0 .. Width : \A u \in Unsigned :
                                      u < P[n] => DigitsOf(R[u], u, P, r, n)}
<1>0. r \in Nat \ {0} /\ r \in Nat /\ r >= 2 /\ 2 \in Nat \ {0} /\ 2 <= r
  OBVIOUS
<1>1. Powers(P, r)
  BY <1>0, PowerIs, Zenon
<1>2. /\ P \in [0 .. Width -> Nat \ {0}] /\ P[0] = 1
      /\ \A k \in 1 .. Width : P[k] = r * P[k - 1]
  BY <1>1 DEF Powers
<1>3. \A u \in Unsigned : R[u] = IF u = 0 THEN << >>
                                 ELSE << Digit(u % r) >> \o R[u \div r]
  BY <1>0, ReversedIs, Zenon
<1>4. \A u \in Unsigned : u \in Nat
  BY UnsignedIs DEF Unsigned
<1> HIDE DEF P, R
<1>5. ASSUME NEW n \in 0 .. Width PROVE 0 \in Unsigned => DigitsOf(R[0], 0, P, r, n)
  <2>1. SUFFICES ASSUME 0 \in Unsigned PROVE DigitsOf(R[0], 0, P, r, n)
    OBVIOUS
  <2>2. R[0] = << >>
    BY <1>3, <2>1, Zenon
  <2> QED
    BY <1>2, <2>2 DEF DigitsOf
<1>6. 0 \in S
  <2>1. ASSUME NEW u \in Unsigned, u < P[0] PROVE u = 0
    BY <1>2, <1>4, <2>1
  <2>2. 0 \in 0 .. Width
    OBVIOUS
  <2> QED
    BY <1>5, <2>1, <2>2, Zenon
<1>7. ASSUME NEW n \in 1 .. Width, n - 1 \in S PROVE n \in S
  <2>1. n \in 0 .. Width /\ n - 1 \in 0 .. Width
    OBVIOUS
  <2>2. ASSUME NEW u \in Unsigned, u < P[n] PROVE DigitsOf(R[u], u, P, r, n)
    <3>1. CASE u = 0
      BY <1>5, <2>1, <3>1, Zenon
    <3>2. CASE u # 0
      <4>1. u \in Nat \ {0} /\ u \in Nat
        BY <1>4, <3>2
      <4>2. u \div r \in Nat /\ r * (u \div r) <= u
        BY <1>0, <4>1, Quotient, Zenon
      <4>3. P[n] = r * P[n - 1] /\ P[n - 1] \in Nat
        BY <1>2, <2>1
      <4>4. u \div r < P[n - 1]
        <5>1. \A x, y \in Nat : r * x < r * y => x < y
          BY Z3
        <5>2. r * (u \div r) < r * P[n - 1]
          <6>1. r * (u \div r) \in Nat /\ r * P[n - 1] \in Nat
            BY <4>2, <4>3
          <6> QED
            BY <2>2, <4>1, <4>2, <4>3, <6>1
        <5> QED
          BY <4>2, <4>3, <5>1, <5>2, Zenon
      <4>5. u \div r \in Unsigned
        <5>1. \A x \in Nat : r * x <= u => x <= u
          BY <4>1, Z3
        <5>2. u \div r <= u
          BY <4>2, <5>1, Zenon
        <5> QED
          BY <4>1, <4>2, <5>2, UnsignedIs DEF Unsigned
      <4>6. DigitsOf(R[u \div r], u \div r, P, r, n - 1)
        BY <1>7, <4>4, <4>5, Zenon
      <4>7. DigitsOf(<< Digit(u % r) >> \o R[u \div r], u, P, r, n)
        BY <1>1, <4>1, <4>6, OneDigitMore, Zenon
      <4> QED
        BY <1>3, <3>2, <4>7, Zenon
    <3> QED
      BY <3>1, <3>2
  <2> QED
    BY <2>1, <2>2
<1>8. Width \in S
  <2>1. \A n \in 0 .. Width : n \in S
    <3> HIDE DEF S
    <3> QED
      BY <1>6, <1>7, Along
  <2>2. Width \in 0 .. Width
    OBVIOUS
  <2> QED
    BY <2>1, <2>2, Zenon
<1>9. v < P[Width]
  <2>1. Powers(Power(2), 2)
    BY <1>0, PowerIs, Zenon
  <2>2. Width \in 0 .. Width
    OBVIOUS
  <2>3. Power(2)[Width] <= P[Width]
    BY <1>0, <1>1, <2>1, <2>2, PowersOver, Zenon
  <2>4. P[Width] \in Nat /\ v \in 0 .. Power(2)[Width] - 1
    BY <1>2, <2>2 DEF Unsigned
  <2> QED
    BY <2>3, <2>4, UnsignedIs
<1>10. DigitsOf(R[v], v, P, r, Width)
  BY <1>8, <1>9, Zenon
<1> QED
  BY <1>10 DEF P, R

-----------------------------------------------------------------------------
(* What the conversions print.                                             *)

LEMMA ReverseIs ==
  ASSUME NEW s \in Seq(Chars)
  PROVE  strrev(s) = [k \in 1 .. Len(s) |-> s[Len(s) + 1 - k]]
<1> DEFINE n == Len(s)
           swaps == n \div 2
<1>1. n \in Nat /\ DOMAIN s = 1 .. n
  OBVIOUS
<1> HIDE DEF n
<1>2. swaps \in Nat /\ 2 * swaps <= n /\ n <= 2 * swaps + 1
  BY <1>1
<1> HIDE DEF swaps
<1>3. ASSUME NEW k \in 1 .. n
      PROVE  (IF k <= swaps \/ k > n - swaps THEN s[n + 1 - k] ELSE s[k]) = s[n + 1 - k]
  <2>1. CASE k <= swaps \/ k > n - swaps
    BY <2>1
  <2>2. CASE ~(k <= swaps \/ k > n - swaps)
    <3>1. n + 1 - k = k
      BY <1>1, <1>2, <2>2
    <3> QED
      BY <2>2, <3>1
  <2> QED
    BY <2>1, <2>2
<1>4. strrev(s) = [k \in DOMAIN s |-> IF k <= swaps \/ k > n - swaps
                                      THEN s[n + 1 - k] ELSE s[k]]
  BY Zenon DEF strrev, n, swaps
<1>5. strrev(s) = [k \in 1 .. n |-> s[n + 1 - k]]
  BY <1>1, <1>3, <1>4
<1> QED
  BY <1>5 DEF n

\* n digits are as few as show v.
IsFew(P, v, n) == n \in 1 .. Width /\ v < P[n] /\ (n > 1 => v >= P[n - 1])

LEMMA OneFew ==
  ASSUME Width \in Nat, NEW r \in 2 .. 16, NEW v \in Nat,
         NEW n, IsFew(Power(r), v, n)
  PROVE  Shortest(v, r) = Numeral(v, r, n)
<1> DEFINE P == Power(r)
           few(m) == v < P[m] /\ (m > 1 => v >= P[m - 1])
<1>0. r \in Nat \ {0} /\ r \in Nat /\ r >= 2
  OBVIOUS
<1>1. Powers(P, r)
  BY <1>0, PowerIs, Zenon
<1>2. P \in [0 .. Width -> Nat \ {0}]
  BY <1>1 DEF Powers
<1>3. n \in 1 .. Width /\ few(n)
  BY DEF IsFew
<1> HIDE DEF P
<1>4. ASSUME NEW m \in 1 .. Width, NEW l \in 1 .. Width, few(m), few(l), m < l PROVE FALSE
  <2>1. l > 1 /\ l - 1 \in 0 .. Width /\ m \in 0 .. Width /\ l - 1 \in m .. Width
    BY <1>4
  <2>2. P[m] <= P[l - 1]
    BY <1>0, <1>1, <2>1, PowersGrow, Zenon
  <2>3. P[m] \in Nat /\ P[l - 1] \in Nat
    BY <1>2, <2>1
  <2>4. v < P[m] /\ v >= P[l - 1]
    BY <1>4, <2>1
  <2> QED
    BY <2>2, <2>3, <2>4
<1>5. ASSUME NEW m \in 1 .. Width, few(m) PROVE m = n
  <2>1. ~(m < n) /\ ~(n < m)
    BY <1>3, <1>4, <1>5, Zenon
  <2> QED
    BY <1>3, <2>1
<1> DEFINE c == CHOOSE m \in 1 .. Width : few(m)
<1>6. c = n
  <2>1. \E m \in 1 .. Width : few(m)
    BY <1>3, Zenon
  <2> HIDE DEF few
  <2>2. c \in 1 .. Width /\ few(c)
    BY <2>1, Zenon
  <2> QED
    BY <1>5, <2>2, Zenon
<1>7. Shortest(v, r) = Numeral(v, r, c)
  BY Zenon DEF Shortest, P
<1> QED
  BY <1>6, <1>7, Zenon

\* s are the lower n digits of v.
Shows(s, v, r, n) ==
  /\ s = [k \in 1 .. n |-> Digit((v \div Power(r)[n - k]) % r)]
  /\ s \in Seq(Chars) /\ Len(s) = n

LEMMA NumeralIs ==
  ASSUME Width \in Nat, NEW r \in 2 .. 16, NEW v \in Nat, NEW n \in 0 .. Width
  PROVE  Shows(Numeral(v, r, n), v, r, n)
<1> DEFINE P == Power(r)
           digit(k) == Digit((v \div P[n - k]) % r)
<1>0. r \in Nat \ {0}
  OBVIOUS
<1>1. P \in [0 .. Width -> Nat \ {0}]
  BY <1>0, PowerIs, Zenon DEF Powers
<1>2. Numeral(v, r, n) = [k \in 1 .. n |-> digit(k)]
  BY Zenon DEF Numeral, Digit
<1> HIDE DEF P
<1>3. ASSUME NEW k \in 1 .. n PROVE digit(k) \in Chars
  <2>1. n - k \in 0 .. Width
    OBVIOUS
  <2>2. P[n - k] \in Nat \ {0}
    BY <1>1, <2>1
  <2> DEFINE q == v \div P[n - k]
             d == q % r
  <2>3. q \in Nat
    BY <2>2, Quotient
  <2> HIDE DEF q
  <2>4. d \in 0 .. r - 1
    BY <1>0, <2>3, Quotient
  <2> HIDE DEF d
  <2>5. d \in 0 .. 15
    BY <2>4
  <2> QED
    BY <2>5, DigitIs, Zenon DEF d, q
<1>4. [k \in 1 .. n |-> digit(k)] \in Seq(Chars) /\ Len([k \in 1 .. n |-> digit(k)]) = n
  <2> HIDE DEF digit
  <2>1. n \in Nat
    OBVIOUS
  <2> QED
    BY <1>3, <2>1
<1> QED
  BY <1>2, <1>4, Zenon DEF P, Shows

\* The digits that itoa has are those of the number, and as few.
LEMMA ItoaIs ==
  ASSUME Width \in Nat \ {0}, NEW r \in 2 .. 16, NEW v \in Unsigned
  PROVE  \E n \in 1 .. Width : IsFew(Power(r), v, n) /\ itoa(v, r) = Numeral(v, r, n)
<1> DEFINE P == Power(r)
<1>0. /\ Width \in Nat /\ r \in Nat \ {0} /\ v \in Nat
      /\ 0 \in 0 .. Width /\ 1 \in 1 .. Width /\ 1 \in 0 .. Width /\ 1 - 1 = 0
  BY UnsignedIs DEF Unsigned
<1>1. Powers(P, r)
  BY <1>0, PowerIs, Zenon
<1>2. /\ P \in [0 .. Width -> Nat \ {0}] /\ P[0] = 1
      /\ \A k \in 1 .. Width : P[k] = r * P[k - 1]
  BY <1>1 DEF Powers
<1>3. CASE v = 0
  <2>1. P[1] > 0
    BY <1>0, <1>2
  <2>2. IsFew(P, v, 1)
    <3> HIDE DEF P
    <3> QED
      BY <1>0, <1>3, <2>1 DEF IsFew
  <2>3. Numeral(v, r, 1) = [k \in 1 .. 1 |-> Digit((v \div P[1 - k]) % r)]
    <3>1. Shows(Numeral(v, r, 1), v, r, 1)
      BY <1>0, NumeralIs, Zenon
    <3> QED
      BY <3>1, Zenon DEF Shows
  <2> HIDE DEF P
  <2>4. \A k \in 1 .. 1 : Digit((v \div P[1 - k]) % r) = "0"
    <3>1. \A k \in 1 .. 1 : k = 1 /\ 1 - k = 0
      OBVIOUS
    <3>2. (0 \div 1) % r = 0
      BY <1>0
    <3>3. (v \div P[0]) % r = 0
      BY <1>2, <1>3, <3>2, Zenon
    <3>4. Digit(0) = "0"
      BY DEF Digit, lookup
    <3> QED
      BY <3>1, <3>3, <3>4
  <2>5. Numeral(v, r, 1) = << "0" >>
    <3> DEFINE digit(k) == Digit((v \div P[1 - k]) % r)
    <3>1. \A k \in 1 .. 1 : digit(k) = "0"
      BY <2>4, Zenon
    <3> HIDE DEF digit
    <3>2. [k \in 1 .. 1 |-> digit(k)] = << "0" >>
      BY <3>1
    <3> QED
      BY <2>3, <3>2, Zenon DEF digit
  <2>6. itoa(v, r) = << "0" >>
    BY <1>3, Zenon DEF itoa
  <2> QED
    BY <1>0, <2>2, <2>5, <2>6, Zenon DEF P
<1>4. CASE v # 0
  <2> DEFINE L == Reversed(r)[v]
             n == Len(L)
  <2>1. itoa(v, r) = strrev(L)
    BY <1>4, Zenon DEF itoa, Reversed
  <2>2. DigitsOf(L, v, P, r, Width)
    BY <1>0, ReversedDigits, Zenon
  <2> HIDE DEF L, P
  <2>3. /\ L \in Seq(Chars) /\ n \in 0 .. Width /\ v < P[n] /\ (n > 0 => P[n - 1] <= v)
        /\ \A k \in 1 .. n : L[k] = Digit((v \div P[k - 1]) % r)
    BY <2>2, Zenon DEF DigitsOf
  <2>4. strrev(L) = [k \in 1 .. n |-> L[n + 1 - k]]
    BY <2>3, ReverseIs
  <2> HIDE DEF n
  <2>5. n \in 1 .. Width
    <3>1. n # 0
      BY <1>0, <1>2, <1>4, <2>3
    <3> QED
      BY <2>3, <3>1
  <2>6. IsFew(P, v, n)
    <3>1. n > 0 /\ n - 1 \in 0 .. Width
      BY <2>5
    <3>2. P[n - 1] \in Nat
      BY <1>2, <3>1
    <3> QED
      BY <1>0, <2>3, <2>5, <3>1, <3>2 DEF IsFew
  <2>7. ASSUME NEW k \in 1 .. n
        PROVE  L[n + 1 - k] = Digit((v \div P[n - k]) % r)
    <3>1. n + 1 - k \in 1 .. n /\ (n + 1 - k) - 1 = n - k
      BY <2>5
    <3> QED
      BY <2>3, <3>1
  <2>8. Numeral(v, r, n) = [k \in 1 .. n |-> Digit((v \div P[n - k]) % r)]
    <3>1. n \in 0 .. Width
      BY <2>5
    <3>2. Shows(Numeral(v, r, n), v, r, n)
      BY <1>0, <3>1, NumeralIs, Zenon
    <3> QED
      BY <3>2, Zenon DEF P, Shows
  <2>9. strrev(L) = Numeral(v, r, n)
    <3> DEFINE digit(k) == Digit((v \div P[n - k]) % r)
    <3>1. \A k \in 1 .. n : L[n + 1 - k] = digit(k)
      BY <2>7, Zenon
    <3> HIDE DEF digit
    <3>2. [k \in 1 .. n |-> L[n + 1 - k]] = [k \in 1 .. n |-> digit(k)]
      BY <3>1
    <3> QED
      BY <2>4, <2>8, <3>2, Zenon DEF digit
  <2> QED
    BY <2>1, <2>5, <2>6, <2>9, Zenon DEF P
<1> QED
  BY <1>3, <1>4

\* itoa prints a number with as few digits as show it.
LEMMA ItoaShortest ==
  ASSUME Width \in Nat \ {0}, NEW r \in 2 .. 16, NEW v \in Unsigned
  PROVE  /\ itoa(v, r) = Shortest(v, r)
         /\ Shortest(v, r) \in Seq(Chars)
<1>1. Width \in Nat /\ v \in Nat
  BY UnsignedIs DEF Unsigned
<1>2. PICK n \in 1 .. Width : IsFew(Power(r), v, n) /\ itoa(v, r) = Numeral(v, r, n)
  BY ItoaIs, Zenon
<1>3. Shortest(v, r) = Numeral(v, r, n)
  BY <1>1, <1>2, OneFew, Zenon
<1>4. Numeral(v, r, n) \in Seq(Chars)
  <2>1. n \in 0 .. Width
    OBVIOUS
  <2> QED
    BY <1>1, <2>1, NumeralIs, Zenon DEF Shows
<1> QED
  BY <1>2, <1>3, <1>4, Zenon

\* With the zeros in front of them they are all the digits there are.
LEMMA PaddedIs ==
  ASSUME Width \in Nat \ {0}, Width % 4 = 0, NEW v \in Unsigned
  PROVE  /\ PaddedHex(v) = Numeral(v, 16, HexDigits)
         /\ Numeral(v, 16, HexDigits) \in Seq(Chars)
<1> DEFINE P == Power(16)
           h == HexDigits
<1>0. Width \in Nat /\ v \in Nat /\ 16 \in 2 .. 16 /\ 16 \in Nat \ {0} /\ 16 \in Nat /\ 16 >= 2
  BY UnsignedIs DEF Unsigned
<1>1. h \in 0 .. Width /\ Power(2)[Width] = P[h]
  BY <1>0, HexPower, Zenon
<1> HIDE DEF h
<1>2. Powers(P, 16)
  BY <1>0, PowerIs, Zenon
<1>3. P \in [0 .. Width -> Nat \ {0}]
  BY <1>2 DEF Powers
<1>4. PICK n \in 1 .. Width : IsFew(P, v, n) /\ itoa(v, 16) = Numeral(v, 16, n)
  BY <1>0, ItoaIs, Zenon
<1>5. n \in 0 .. Width /\ v < P[n] /\ (n > 1 => v >= P[n - 1])
  BY <1>4 DEF IsFew
<1> DEFINE digit(k) == Digit((v \div P[h - k]) % 16)
<1>6. /\ Numeral(v, 16, h) = [k \in 1 .. h |-> digit(k)]
      /\ Numeral(v, 16, h) \in Seq(Chars) /\ Len(Numeral(v, 16, h)) = h
  <2>1. Shows(Numeral(v, 16, h), v, 16, h)
    BY <1>0, <1>1, NumeralIs, Zenon
  <2> QED
    BY <2>1, Zenon DEF Shows
<1> DEFINE low(k) == Digit((v \div P[n - k]) % 16)
<1>7. /\ itoa(v, 16) = [k \in 1 .. n |-> low(k)]
      /\ itoa(v, 16) \in Seq(Chars) /\ Len(itoa(v, 16)) = n
  <2>1. /\ Numeral(v, 16, n) = [k \in 1 .. n |-> low(k)]
        /\ Numeral(v, 16, n) \in Seq(Chars) /\ Len(Numeral(v, 16, n)) = n
    <3>1. Shows(Numeral(v, 16, n), v, 16, n)
      BY <1>0, <1>5, NumeralIs, Zenon
    <3> QED
      BY <3>1, Zenon DEF Shows
  <2> HIDE DEF low
  <2> QED
    BY <1>4, <2>1
<1>8. v < P[h]
  BY <1>1, UnsignedIs DEF Unsigned
<1> HIDE DEF P
<1>9. n <= h
  <2>1. CASE n = 1
    <3>1. h # 0
      <4>1. Width = 4 * h
        BY <1>0, HexPower, Zenon DEF h
      <4> QED
        BY <1>1, <4>1
    <3> QED
      BY <1>1, <2>1, <3>1
  <2>2. CASE n # 1
    <3>1. SUFFICES ASSUME n > h PROVE FALSE
      BY <1>1
    <3>2. n > 1 /\ n - 1 \in 0 .. Width /\ n - 1 \in h .. Width
      BY <1>1, <2>2, <3>1
    <3>3. P[h] <= P[n - 1]
      BY <1>0, <1>1, <1>2, <3>2, PowersGrow, Zenon
    <3>4. P[h] \in Nat /\ P[n - 1] \in Nat
      BY <1>1, <1>3, <3>2
    <3> QED
      BY <1>0, <1>5, <1>8, <3>2, <3>3, <3>4
  <2> QED
    BY <2>1, <2>2
<1>10. ASSUME NEW k \in 1 .. h - n PROVE digit(k) = "0"
  <2>1. h - k \in n .. Width /\ h - k \in 0 .. Width
    BY <1>1, <1>9
  <2>2. P[n] <= P[h - k]
    BY <1>0, <1>2, <1>5, <2>1, PowersGrow, Zenon
  <2>3. P[n] \in Nat /\ P[h - k] \in Nat \ {0}
    BY <1>3, <1>5, <2>1
  <2> DEFINE d == P[h - k]
  <2>4. d \in Nat \ {0} /\ v < d
    BY <1>0, <1>5, <2>2, <2>3
  <2> HIDE DEF d
  <2>5. v \div d = 0
    <3>1. 0 \in Nat /\ d * 0 <= v /\ v < d * 0 + d
      BY <1>0, <2>4
    <3> QED
      BY <1>0, <2>4, <3>1, QuotientAt, Zenon
  <2>6. 0 % 16 = 0 /\ Digit(0) = "0"
    BY DEF Digit, lookup
  <2> QED
    BY <2>5, <2>6, Zenon DEF d
<1>11. ASSUME NEW k \in h - n + 1 .. h PROVE digit(k) = low(k - (h - n))
  <2>1. n - (k - (h - n)) = h - k
    BY <1>1, <1>5
  <2> QED
    BY <2>1, Zenon
<1> HIDE DEF digit, low
<1> DEFINE zeros == [k \in 1 .. h - n |-> "0"]
           I == itoa(v, 16)
<1>12. I \in Seq(Chars) /\ Len(I) = n /\ \A k \in 1 .. n : I[k] = low(k)
  <2>1. \A k \in 1 .. n : I[k] = low(k)
    BY <1>7
  <2> QED
    BY <1>7, <2>1, Zenon
<1>13. PaddedHex(v) = zeros \o I
  <2>1. PaddedHex(v) = [k \in 1 .. h - Len(I) |-> "0"] \o I
    BY Zenon DEF PaddedHex, h
  <2> QED
    BY <1>12, <2>1, Zenon
<1> HIDE DEF I
<1>14. zeros \in Seq({"0"}) /\ Len(zeros) = h - n /\ \A k \in 1 .. h - n : zeros[k] = "0"
  <2>1. h - n \in Nat
    BY <1>1, <1>5, <1>9
  <2> QED
    BY <2>1
<1> HIDE DEF zeros
<1>15. zeros \o I = [k \in 1 .. h |-> digit(k)]
  <2> DEFINE Z == zeros \o I
  <2>1. Z \in Seq({"0"} \cup Chars) /\ Len(Z) = h
    BY <1>1, <1>5, <1>12, <1>14
  <2>2. ASSUME NEW k \in 1 .. h PROVE Z[k] = digit(k)
    <3>1. CASE k <= h - n
      <4>1. k \in 1 .. h - n
        BY <1>1, <1>5, <3>1
      <4>2. Z[k] = zeros[k]
        BY <1>12, <1>14, <4>1
      <4> QED
        BY <1>10, <1>14, <4>1, <4>2
    <3>2. CASE ~(k <= h - n)
      <4>1. k \in h - n + 1 .. h /\ k - (h - n) \in 1 .. n
        BY <1>1, <1>5, <1>9, <3>2
      <4>2. Z[k] = I[k - (h - n)]
        <5> DEFINE l == Len(zeros)
        <5>1. zeros \in Seq({"0"}) /\ I \in Seq(Chars) /\ l = h - n /\ Len(I) = n
          BY <1>12, <1>14, Zenon
        <5>2. k \in l + 1 .. l + Len(I) /\ Z[k] = (zeros \o I)[k]
          BY <1>1, <1>5, <4>1, <5>1
        <5>3. \A s \in Seq({"0"}), t \in Seq(Chars) :
                \A j \in Len(s) + 1 .. Len(s) + Len(t) : (s \o t)[j] = t[j - Len(s)]
          OBVIOUS
        <5>4. (zeros \o I)[k] = I[k - l]
          BY <5>1, <5>2, <5>3, Zenon
        <5> QED
          BY <5>1, <5>2, <5>4, Zenon
      <4> QED
        BY <1>11, <1>12, <4>1, <4>2, Zenon
    <3> QED
      BY <3>1, <3>2
  <2> HIDE DEF Z
  <2>3. Z = [k \in 1 .. h |-> Z[k]]
    BY <2>1
  <2>4. Z = [k \in 1 .. h |-> digit(k)]
    BY <2>2, <2>3
  <2> QED
    BY <2>4 DEF Z
<1> QED
  BY <1>6, <1>13, <1>15, Zenon DEF h


\* Each conversion prints its value as it should.
LEMMA ConvertedIs ==
  ASSUME ConstantsAssumption, NEW d \in Directives \ {"text", "%", "h"}, NEW c,
         NEW v \in Unsigned
  PROVE  /\ Expected(d, v) \in Seq(Chars)
         /\ c = (IF d = "#x" THEN "x" ELSE d) /\ alternate = (d = "#x")
              => Converted(c, v) = Expected(d, v)
<1> DEFINE A == c = (IF d = "#x" THEN "x" ELSE d) /\ alternate = (d = "#x")
<1>0. Width \in Nat \ {0} /\ Width \in Nat /\ Width % 4 = 0
  BY DEF ConstantsAssumption
<1>1. 10 \in 2 .. 16 /\ 16 \in 2 .. 16
  OBVIOUS
<1>2. CASE d = "x"
  <2>1. (A => Converted(c, v) = itoa(v, 16)) /\ Expected(d, v) = Shortest(v, 16)
    BY <1>2 DEF Converted, Expected
  <2> QED
    BY <1>0, <1>1, <2>1, ItoaShortest, Zenon
<1>3. CASE d = "#x"
  <2>1. (A => Converted(c, v) = PaddedHex(v)) /\ Expected(d, v) = Numeral(v, 16, HexDigits)
    BY <1>3 DEF Converted, Expected
  <2> QED
    BY <1>0, <2>1, PaddedIs, Zenon
<1>4. CASE d = "u"
  <2>1. (A => Converted(c, v) = itoa(v, 10)) /\ Expected(d, v) = Shortest(v, 10)
    BY <1>4 DEF Converted, Expected
  <2> QED
    BY <1>0, <1>1, <2>1, ItoaShortest, Zenon
<1>5. CASE d = "d"
  <2>1. /\ A => Converted(c, v) = IF Signed(v) < 0
                                  THEN << "-" >> \o itoa(Power(2)[Width] - v, 10)
                                  ELSE itoa(v, 10)
        /\ Expected(d, v) = IF Signed(v) < 0 THEN << "-" >> \o Shortest(-Signed(v), 10)
                            ELSE Shortest(v, 10)
    BY <1>5 DEF Converted, Expected
  <2>2. CASE Signed(v) < 0
    <3> DEFINE H == Power(2)[Width - 1]
               N == Power(2)[Width]
    <3>1. H \in Nat \ {0} /\ N \in Nat
      <4>1. Width - 1 \in 0 .. Width /\ 2 \in Nat \ {0}
        BY <1>0
      <4> QED
        BY <1>0, <4>1, PowerIs, UnsignedIs, Zenon DEF Powers
    <3>2. Signed(v) = IF v >= H THEN v - N ELSE v
      BY Zenon DEF Signed
    <3>3. v \in 0 .. N - 1
      BY Zenon DEF Unsigned
    <3> HIDE DEF H, N
    <3>4. v >= H /\ Signed(v) = v - N
      BY <2>2, <3>1, <3>2, <3>3
    <3>5. -Signed(v) = N - v /\ N - v \in 0 .. N - 1
      BY <3>1, <3>3, <3>4
    <3> DEFINE w == N - v
    <3>6. w \in Unsigned
      BY <3>5, Zenon DEF Unsigned, N
    <3>7. -Signed(v) = w
      BY <3>5
    <3> HIDE DEF w
    <3>8. itoa(w, 10) = Shortest(w, 10) /\ Shortest(w, 10) \in Seq(Chars)
      BY <1>0, <1>1, <3>6, ItoaShortest, Zenon
    <3>9. /\ A => Converted(c, v) = << "-" >> \o itoa(w, 10)
          /\ Expected(d, v) = << "-" >> \o Shortest(w, 10)
      BY <2>1, <2>2, <3>7, Zenon DEF w, N
    <3>10. << "-" >> \o Shortest(w, 10) \in Seq(Chars)
      <4>1. "-" \in Chars
        BY DEF Chars
      <4> QED
        BY <3>8, <4>1
    <3> QED
      BY <3>8, <3>9, <3>10, Zenon
  <2>3. CASE ~(Signed(v) < 0)
    BY <1>0, <1>1, <2>1, <2>3, ItoaShortest, Zenon
  <2> QED
    BY <2>2, <2>3
<1>6. CASE d = "c"
  <2>1. (A => Converted(c, v) = AsChar(v)) /\ Expected(d, v) = AsChar(v)
    BY <1>6 DEF Converted, Expected
  <2>2. AsChar(v) = << Digit(v % 16) >>
    BY Zenon DEF AsChar, Digit
  <2>3. v \in Nat /\ 16 \in Nat \ {0} /\ 16 - 1 = 15
    BY <1>0, UnsignedIs DEF Unsigned
  <2> DEFINE e == v % 16
  <2>4. e \in 0 .. 15
    BY <2>3, Quotient
  <2> HIDE DEF e
  <2>5. << Digit(e) >> \in Seq(Chars)
    BY <2>4, DigitIs
  <2> QED
    BY <2>1, <2>2, <2>5, Zenon DEF e
<1>7. CASE d = "s"
  <2>1. (A => Converted(c, v) = AsString(v)) /\ Expected(d, v) = AsString(v)
    BY <1>7 DEF Converted, Expected
  <2>2. v \in Nat /\ 3 \in Nat \ {0}
    BY <1>0, UnsignedIs DEF Unsigned
  <2> DEFINE n == v % 3
  <2>3. n \in Nat
    <3>1. n \in 0 .. 3 - 1
      BY <2>2, Quotient
    <3> HIDE DEF n
    <3> QED
      BY <3>1
  <2> HIDE DEF n
  <2>4. [k \in 1 .. n |-> "s"] \in Seq(Chars)
    BY <2>3 DEF Chars
  <2> QED
    BY <2>1, <2>4, Zenon DEF AsString, n
<1> QED
  BY <1>2, <1>3, <1>4, <1>5, <1>6, <1>7 DEF Directives

-----------------------------------------------------------------------------
(* Formats.                                                                *)

\* What the first so many pieces make, one behind the other.
Joined(H, n, piece) == /\ H[0] = << >>
                       /\ \A k \in 1 .. n : H[k] = H[k - 1] \o piece[k]

LEMMA JoinIs ==
  ASSUME NEW n \in Nat, NEW piece,
         NEW H, H = CHOOSE f : f = [k \in 0 .. n |->
                                      IF k = 0 THEN << >> ELSE f[k - 1] \o piece[k]]
  PROVE  Joined(H, n, piece)
<1> DEFINE next(f, k) == IF k = 0 THEN << >> ELSE f[k - 1] \o piece[k]
           S == {m \in 0 .. n : \E f : f = [k \in 0 .. m |-> next(f, k)]}
<1>1. 0 \in S
  <2> DEFINE f == [k \in 0 .. 0 |-> << >>]
  <2>1. f = [k \in 0 .. 0 |-> next(f, k)]
    <3>1. \A k \in 0 .. 0 : next(f, k) = << >>
      BY SMT
    <3> HIDE DEF next
    <3> QED
      BY <3>1
  <2>2. 0 \in 0 .. n
    OBVIOUS
  <2> HIDE DEF f, next
  <2> QED
    BY <2>1, <2>2, Zenon
<1>2. ASSUME NEW m \in 1 .. n, m - 1 \in S PROVE m \in S
  <2>1. PICK f : f = [k \in 0 .. m - 1 |-> next(f, k)]
    BY <1>2, Zenon
  <2> DEFINE new == next(f, m)
             g == [k \in 0 .. m |-> IF k = m THEN new ELSE f[k]]
  <2> HIDE DEF new
  <2>2. g[m] = new /\ \A k \in 0 .. m - 1 : g[k] = f[k]
    OBVIOUS
  <2>3. g = [k \in 0 .. m |-> g[k]]
    OBVIOUS
  <2> HIDE DEF g
  <2>4. ASSUME NEW k \in 0 .. m PROVE g[k] = next(g, k)
    <3>1. k = 0 \/ k - 1 \in 0 .. m - 1
      OBVIOUS
    <3>2. next(g, k) = next(f, k)
      <4>1. CASE k = 0
        BY <4>1
      <4>2. CASE k # 0
        <5>1. g[k - 1] = f[k - 1]
          BY <2>2, <3>1, <4>2
        <5> QED
          BY <5>1, Zenon
      <4> QED
        BY <4>1, <4>2
    <3>3. CASE k = m
      BY <2>2, <3>2, <3>3, Zenon DEF new
    <3>4. CASE k # m
      <4>1. k \in 0 .. m - 1
        BY <3>4
      <4>2. f[k] = next(f, k)
        <5> HIDE DEF next
        <5> QED
          BY <2>1, <4>1, Zenon
      <4> QED
        BY <2>2, <3>2, <4>1, <4>2, Zenon
    <3> QED
      BY <3>3, <3>4
  <2>5. g = [k \in 0 .. m |-> next(g, k)]
    <3> HIDE DEF next
    <3> QED
      BY <2>3, <2>4
  <2>6. m \in 0 .. n
    OBVIOUS
  <2> HIDE DEF next
  <2> QED
    BY <2>5, <2>6, Zenon
<1>3. n \in S
  <2>1. \A k \in 0 .. n : k \in S
    <3> HIDE DEF S
    <3> QED
      BY <1>1, <1>2, Along
  <2>2. n \in 0 .. n
    OBVIOUS
  <2> QED
    BY <2>1, <2>2, Zenon
<1>4. H = [k \in 0 .. n |-> next(H, k)]
  <2>1. \E f : f = [k \in 0 .. n |-> next(f, k)]
    BY <1>3, Zenon
  <2>2. H = CHOOSE f : f = [k \in 0 .. n |-> next(f, k)]
    BY Zenon
  <2> HIDE DEF next
  <2> QED
    BY <2>1, <2>2, Zenon
<1>5. \A k \in 0 .. n : H[k] = next(H, k)
  <2> HIDE DEF next
  <2> QED
    BY <1>4, Zenon
<1>6. 0 \in 0 .. n /\ \A k \in 1 .. n : k \in 0 .. n /\ k # 0
  OBVIOUS
<1> QED
  BY <1>5, <1>6, Zenon DEF Joined

\* What pieces make has only what is in the pieces.
LEMMA JoinTyped ==
  ASSUME NEW n \in Nat, NEW T, NEW piece, \A k \in 1 .. n : piece[k] \in Seq(T),
         NEW H, Joined(H, n, piece)
  PROVE  \A k \in 0 .. n : H[k] \in Seq(T)
<1> DEFINE S == {k \in 0 .. n : H[k] \in Seq(T)}
<1>0. H[0] = << >> /\ \A k \in 1 .. n : H[k] = H[k - 1] \o piece[k]
  BY DEF Joined
<1>1. 0 \in S
  <2>1. H[0] \in Seq(T)
    BY <1>0
  <2> QED
    BY <2>1
<1>2. ASSUME NEW k \in 1 .. n, k - 1 \in S PROVE k \in S
  <2>1. H[k - 1] \in Seq(T) /\ piece[k] \in Seq(T) /\ H[k] = H[k - 1] \o piece[k]
    BY <1>0, <1>2
  <2>2. k \in 0 .. n
    OBVIOUS
  <2>3. \A s, t \in Seq(T) : s \o t \in Seq(T)
    OBVIOUS
  <2>4. H[k] \in Seq(T)
    BY <2>1, <2>3, Zenon
  <2> QED
    BY <2>2, <2>4
<1> HIDE DEF S
<1>3. \A k \in 0 .. n : k \in S
  BY <1>1, <1>2, Along
<1> QED
  BY <1>3 DEF S

\* What fewer of the pieces make is a prefix of what all make.
LEMMA JoinPrefix ==
  ASSUME NEW n \in Nat, NEW T, NEW piece, \A k \in 1 .. n : piece[k] \in Seq(T),
         NEW H, Joined(H, n, piece), NEW j \in 0 .. n
  PROVE  \A k \in j .. n : /\ Len(H[j]) <= Len(H[k])
                           /\ \A m \in 1 .. Len(H[j]) : H[k][m] = H[j][m]
<1> DEFINE S == {k \in 0 .. n : k >= j => /\ Len(H[j]) <= Len(H[k])
                                          /\ \A m \in 1 .. Len(H[j]) : H[k][m] = H[j][m]}
<1>0. /\ \A k \in 1 .. n : H[k] = H[k - 1] \o piece[k]
      /\ \A k \in 0 .. n : H[k] \in Seq(T)
  <2>1. \A k \in 0 .. n : H[k] \in Seq(T)
    BY JoinTyped
  <2> QED
    BY <2>1, Zenon DEF Joined
<1>1. 0 \in S
  <2>1. 0 >= j => j = 0
    OBVIOUS
  <2>2. H[j] \in Seq(T)
    BY <1>0
  <2>3. Len(H[j]) <= Len(H[j])
    BY <2>2
  <2> QED
    BY <2>1, <2>3
<1>2. ASSUME NEW k \in 1 .. n, k - 1 \in S PROVE k \in S
  <2>1. /\ H[k] = H[k - 1] \o piece[k] /\ H[k - 1] \in Seq(T) /\ piece[k] \in Seq(T)
        /\ H[j] \in Seq(T) /\ k \in 0 .. n
    <3>1. k - 1 \in 0 .. n /\ k \in 0 .. n
      OBVIOUS
    <3> QED
      BY <1>0, <3>1, Zenon
  <2> DEFINE s == H[j]
             a == H[k - 1]
             b == H[k]
  <2>2. CASE k = j
    <3>1. Len(s) <= Len(s)
      BY <2>1
    <3> QED
      BY <2>1, <2>2, <3>1
  <2>3. CASE k > j
    <3>1. k - 1 >= j
      BY <2>3
    <3>2. Len(s) <= Len(a) /\ \A m \in 1 .. Len(s) : a[m] = s[m]
      BY <1>2, <3>1
    <3>3. s \in Seq(T) /\ a \in Seq(T) /\ b = a \o piece[k]
      BY <2>1
    <3> HIDE DEF s, a, b
    <3>4. Len(b) >= Len(a) /\ \A m \in 1 .. Len(a) : b[m] = a[m]
      BY <2>1, <3>3
    <3>5. b \in Seq(T)
      BY <2>1, <3>3
    <3>6. Len(s) <= Len(b) /\ \A m \in 1 .. Len(s) : b[m] = s[m]
      BY <3>2, <3>3, <3>4, <3>5
    <3> QED
      BY <2>1, <3>6 DEF s, b
  <2>4. CASE k < j
    BY <2>1, <2>4
  <2> QED
    BY <2>2, <2>3, <2>4
<1> HIDE DEF S
<1>3. \A k \in 0 .. n : k \in S
  BY <1>1, <1>2, Along
<1>4. \A k \in j .. n : k \in 0 .. n /\ k >= j
  OBVIOUS
<1> QED
  BY <1>3, <1>4, Zenon DEF S

LEMMA CharactersAre ==
  ASSUME NEW d \in Directives
  PROVE  /\ Characters(d) \in Seq({"a", "#"} \cup Directives)
         /\ Len(Characters(d)) = CASE d = "text" -> 1 [] d = "#x" -> 3 [] OTHER -> 2
         /\ d = "text" => Characters(d)[1] = "a"
         /\ d # "text" => Characters(d)[1] = "%"
         /\ d = "#x" => Characters(d)[2] = "#" /\ Characters(d)[3] = "x"
         /\ d \notin {"text", "#x"} => Characters(d)[2] = d
<1> DEFINE T == {"a", "#"} \cup Directives
<1>0. "a" \in T /\ "#" \in T /\ "%" \in T /\ "x" \in T /\ d \in T
  BY DEF Directives
<1> HIDE DEF T
<1>1. CASE d = "text"
  <2>1. Characters(d) = << "a" >>
    BY <1>1 DEF Characters
  <2>2. << "a" >> \in Seq(T) /\ Len(<< "a" >>) = 1 /\ << "a" >>[1] = "a"
    BY <1>0
  <2> QED
    BY <1>1, <2>1, <2>2 DEF T
<1>2. CASE d = "#x"
  <2>1. Characters(d) = << "%", "#", "x" >>
    BY <1>2 DEF Characters
  <2> DEFINE c == << "%", "#", "x" >>
  <2>2. c \in Seq(T)
    BY <1>0
  <2>3. Len(c) = 3 /\ c[1] = "%" /\ c[2] = "#" /\ c[3] = "x"
    OBVIOUS
  <2> HIDE DEF c
  <2>4. Characters(d) = c
    BY <2>1 DEF c
  <2> QED
    BY <1>2, <2>2, <2>3, <2>4 DEF T
<1>3. CASE d \notin {"text", "#x"}
  <2>1. Characters(d) = << "%", d >>
    BY <1>3 DEF Characters
  <2>2. << "%", d >> \in Seq(T) /\ Len(<< "%", d >>) = 2
        /\ << "%", d >>[1] = "%" /\ << "%", d >>[2] = d
    BY <1>0
  <2> QED
    BY <1>3, <2>1, <2>2 DEF T
<1> QED
  BY <1>1, <1>2, <1>3

\* Where the directives of a format stand.
LEMMA FormatAt ==
  ASSUME NEW ds \in Seq(Directives)
  PROVE  /\ Spelled(ds)[0] = << >>
         /\ Len(Format(ds)) = Len(Spelled(ds)[Len(ds)])
         /\ \A k \in 0 .. Len(ds) : Len(Spelled(ds)[k]) \in Nat
         /\ \A k \in 1 .. Len(ds) :
              LET l == Len(Spelled(ds)[k - 1])
                  c == Characters(ds[k])
              IN /\ Len(Spelled(ds)[k]) = l + Len(c)
                 /\ l + Len(c) <= Len(Format(ds))
                 /\ \A m \in 1 .. Len(c) : Format(ds)[l + m] = c[m]
<1> DEFINE n == Len(ds)
           H == Spelled(ds)
           piece == [k \in 1 .. n |-> Characters(ds[k])]
           T == {"a", "#"} \cup Directives
<1>1. n \in Nat
  OBVIOUS
<1>2. \A k \in 1 .. n : piece[k] = Characters(ds[k]) /\ piece[k] \in Seq(T)
  <2> SUFFICES ASSUME NEW k \in 1 .. n
               PROVE  piece[k] = Characters(ds[k]) /\ piece[k] \in Seq(T)
    OBVIOUS
  <2>1. ds[k] \in Directives
    OBVIOUS
  <2>2. Characters(ds[k]) \in Seq(T)
    BY <2>1, CharactersAre, Zenon
  <2> QED
    BY <2>2
<1>3. Joined(H, n, piece)
  <2> DEFINE h == CHOOSE f : f = [k \in 0 .. n |->
                                    IF k = 0 THEN << >> ELSE f[k - 1] \o piece[k]]
  <2>1. Joined(h, n, piece)
    BY <1>1, JoinIs, Zenon
  <2>2. \A f : [k \in 0 .. n |-> IF k = 0 THEN << >> ELSE f[k - 1] \o piece[k]]
             = [k \in 0 .. n |-> IF k = 0 THEN << >> ELSE f[k - 1] \o Characters(ds[k])]
    <3> HIDE DEF piece
    <3> SUFFICES ASSUME NEW f
                 PROVE  [k \in 0 .. n |-> IF k = 0 THEN << >> ELSE f[k - 1] \o piece[k]]
             = [k \in 0 .. n |-> IF k = 0 THEN << >> ELSE f[k - 1] \o Characters(ds[k])]
      OBVIOUS
    <3>1. \A k \in 0 .. n : k # 0 => k \in 1 .. n
      BY <1>1
    <3>2. \A k \in 0 .. n : (IF k = 0 THEN << >> ELSE f[k - 1] \o piece[k])
                          = IF k = 0 THEN << >> ELSE f[k - 1] \o Characters(ds[k])
      BY <1>2, <3>1, Zenon
    <3> QED
      BY <3>2, Zenon
  <2>3. H = h
    <3> HIDE DEF piece
    <3>1. H = CHOOSE f : f = [k \in 0 .. n |->
                                IF k = 0 THEN << >> ELSE f[k - 1] \o Characters(ds[k])]
      BY Zenon DEF Spelled
    <3> DEFINE mine(f)  == [k \in 0 .. n |-> IF k = 0 THEN << >> ELSE f[k - 1] \o piece[k]]
               yours(f) == [k \in 0 .. n |->
                              IF k = 0 THEN << >> ELSE f[k - 1] \o Characters(ds[k])]
    <3>2. \A f : mine(f) = yours(f)
      BY <2>2, Zenon
    <3>3. H = CHOOSE f : f = yours(f)
      BY <3>1, Zenon
    <3>4. h = CHOOSE f : f = mine(f)
      BY Zenon
    <3> HIDE DEF H, h, mine, yours
    <3> QED
      BY <3>2, <3>3, <3>4, Zenon
  <2> QED
    BY <2>1, <2>3, Zenon
<1> HIDE DEF piece, T
<1>4. H[0] = << >> /\ \A k \in 1 .. n : H[k] = H[k - 1] \o piece[k]
  BY <1>3, Zenon DEF Joined
<1>5. \A k \in 0 .. n : H[k] \in Seq(T)
  BY <1>1, <1>2, <1>3, JoinTyped
<1>6. Format(ds) = H[n]
  BY Zenon DEF Format
<1>7. ASSUME NEW k \in 1 .. n
      PROVE  LET l == Len(H[k - 1])
                 c == Characters(ds[k])
             IN /\ Len(H[k]) = l + Len(c)
                /\ l + Len(c) <= Len(Format(ds))
                /\ \A m \in 1 .. Len(c) : Format(ds)[l + m] = c[m]
  <2> DEFINE a == H[k - 1]
             b == H[k]
             c == Characters(ds[k])
             f == H[n]
  <2>1. k - 1 \in 0 .. n /\ k \in 0 .. n /\ n \in 0 .. n /\ n \in k .. n
    BY <1>1
  <2>2. a \in Seq(T) /\ b \in Seq(T) /\ c \in Seq(T) /\ f \in Seq(T) /\ b = a \o c
    BY <1>2, <1>4, <1>5, <2>1, Zenon
  <2>3. Len(b) <= Len(f) /\ \A m \in 1 .. Len(b) : f[m] = b[m]
    <3>1. \A p \in k .. n : /\ Len(H[k]) <= Len(H[p])
                            /\ \A m \in 1 .. Len(H[k]) : H[p][m] = H[k][m]
      <4> HIDE DEF H, n
      <4>1. \A p \in 1 .. n : piece[p] \in Seq(T)
        BY <1>2, Zenon
      <4> QED
        BY <1>1, <1>3, <2>1, <4>1, JoinPrefix
    <3> QED
      BY <2>1, <3>1, Zenon
  <2> HIDE DEF a, b, c, f
  <2>4. Len(b) = Len(a) + Len(c) /\ \A m \in 1 .. Len(c) : b[Len(a) + m] = c[m]
    BY <2>2
  <2>5. \A m \in 1 .. Len(c) : Len(a) + m \in 1 .. Len(b)
    BY <2>2, <2>4
  <2>6. \A m \in 1 .. Len(c) : f[Len(a) + m] = c[m]
    BY <2>3, <2>4, <2>5, Zenon
  <2> QED
    BY <1>6, <2>3, <2>4, <2>6, Zenon DEF a, b, c, f
<1>8. \A k \in 0 .. n : Len(H[k]) \in Nat
  BY <1>5
<1> QED
  BY <1>4, <1>6, <1>7, <1>8, Zenon

-----------------------------------------------------------------------------
(* printf.                                                                 *)

\* How many arguments the first k directives take.
Taken(ds, k) == Cardinality({j \in 1 .. k : ds[j] \notin {"text", "%"}})
\* The value for directive k.
ValueOf(ds, values, k) == values[IF Taken(ds, k) = 0 THEN 1 ELSE Taken(ds, k)]

\* What printf has done when it has passed k directives.
Passed(k) ==
  /\ out = AllExpected(call.directives, call.values)[k]
  /\ esp = Taken(call.directives, k) + 1
AtText(k) ==
  pc = "text" /\ Passed(k) /\ i = Len(Spelled(call.directives)[k])
\* Behind the % of the next, or behind its #.
AtConv(k) ==
  /\ pc = "conv" /\ Passed(k) /\ alternate \in BOOLEAN
  /\ k < Len(call.directives) /\ call.directives[k + 1] # "text"
  /\ alternate => call.directives[k + 1] = "#x"
  /\ i = Len(Spelled(call.directives)[k]) + IF alternate THEN 2 ELSE 1

PrintInv ==
  call.fn = "printf" =>
    /\ call \in PrintCalls
    /\ \/ \E k \in 0 .. Len(call.directives) : AtText(k) \/ AtConv(k)
       \/ pc = "done" /\ PrintsDirectives

LEMMA TakenIs ==
  ASSUME NEW ds, NEW n \in Nat
  PROVE  /\ Taken(ds, 0) = 0
         /\ \A k \in 1 .. n :
              Taken(ds, k) = IF ds[k] \in {"text", "%"} THEN Taken(ds, k - 1)
                                                        ELSE Taken(ds, k - 1) + 1
         /\ \A k \in 0 .. n : Taken(ds, k) \in 0 .. k
<1> DEFINE takes(k) == {j \in 1 .. k : ds[j] \notin {"text", "%"}}
<1>1. Taken(ds, 0) = 0
  <2>1. takes(0) = {}
    OBVIOUS
  <2> QED
    BY <2>1, FS_EmptySet, Zenon DEF Taken
<1>2. \A k \in 0 .. n : IsFiniteSet(takes(k))
  <2> SUFFICES ASSUME NEW k \in 0 .. n PROVE IsFiniteSet(takes(k))
    OBVIOUS
  <2>1. IsFiniteSet(1 .. k)
    BY FS_Interval
  <2>2. takes(k) \subseteq 1 .. k
    OBVIOUS
  <2> QED
    BY <2>1, <2>2, FS_Subset, Zenon
<1>3. ASSUME NEW k \in 1 .. n
      PROVE  Taken(ds, k) = IF ds[k] \in {"text", "%"} THEN Taken(ds, k - 1)
                                                       ELSE Taken(ds, k - 1) + 1
  <2>1. \A j : j \in 1 .. k <=> j \in 1 .. k - 1 \/ j = k
    OBVIOUS
  <2>2. k \notin takes(k - 1)
    OBVIOUS
  <2>3. CASE ds[k] \in {"text", "%"}
    <3>1. takes(k) = takes(k - 1)
      BY <2>1, <2>3
    <3> QED
      BY <2>3, <3>1, Zenon DEF Taken
  <2>4. CASE ds[k] \notin {"text", "%"}
    <3>1. takes(k) = takes(k - 1) \cup {k}
      BY <2>1, <2>4
    <3>2. k - 1 \in 0 .. n
      OBVIOUS
    <3>3. Cardinality(takes(k - 1) \cup {k}) = Cardinality(takes(k - 1)) + 1
      BY <1>2, <2>2, <3>2, FS_AddElement
    <3> QED
      BY <2>4, <3>1, <3>3, Zenon DEF Taken
  <2> QED
    BY <2>3, <2>4
<1>4. \A k \in 0 .. n : Taken(ds, k) \in 0 .. k
  <2> DEFINE S == {k \in 0 .. n : Taken(ds, k) \in 0 .. k}
  <2>1. 0 \in S
    BY <1>1
  <2>2. ASSUME NEW k \in 1 .. n, k - 1 \in S PROVE k \in S
    <3>1. Taken(ds, k - 1) \in 0 .. k - 1 /\ k \in 0 .. n
      BY <2>2
    <3>2. Taken(ds, k) = Taken(ds, k - 1) \/ Taken(ds, k) = Taken(ds, k - 1) + 1
      BY <1>3
    <3> QED
      BY <3>1, <3>2
  <2> HIDE DEF S
  <2>3. \A k \in 0 .. n : k \in S
    BY <2>1, <2>2, Along
  <2> QED
    BY <2>3 DEF S
<1> QED
  BY <1>1, <1>3, <1>4

\* What a call of printf is.
IsPrint(ds, values) ==
  /\ ds \in Seq(Directives) /\ \A k \in 1 .. Len(ds) : ds[k] # "h"
  /\ values \in [1 .. Len(ds) -> Unsigned]

LEMMA PrintCall ==
  ASSUME ConstantsAssumption, "noconv" \notin Hazards, call \in PrintCalls
  PROVE  call.fn = "printf" /\ IsPrint(call.directives, call.values)
<1>1. PICK ds \in {f \in Formats : "h" \in Range(f) => "noconv" \in Hazards} :
        call \in [fn : {"printf"}, directives : {ds}, values : [1 .. Len(ds) -> Values]]
  BY Zenon DEF PrintCalls
<1>2. /\ call.fn = "printf" /\ call.directives = ds
      /\ call.values \in [1 .. Len(ds) -> Values]
  BY <1>1
<1>3. ds \in Seq(Directives) /\ "h" \notin Range(ds)
  BY <1>1 DEF ConstantsAssumption
<1>4. \A k \in 1 .. Len(ds) : ds[k] # "h"
  <2>1. \A k \in DOMAIN ds : ds[k] \in Range(ds)
    BY Zenon DEF Range
  <2>2. DOMAIN ds = 1 .. Len(ds)
    BY <1>3
  <2> QED
    BY <1>3, <2>1, <2>2
<1>5. Values \subseteq Unsigned
  BY Zenon DEF ConstantsAssumption, Unsigned
<1>6. call.values \in [1 .. Len(ds) -> Unsigned]
  <2> DEFINE n == Len(ds)
  <2> HIDE DEF n
  <2>1. call.values \in [1 .. n -> Values]
    BY <1>2 DEF n
  <2>2. call.values \in [1 .. n -> Unsigned]
    BY <1>5, <2>1
  <2> QED
    BY <2>2 DEF n
<1> QED
  BY <1>2, <1>3, <1>4, <1>6, Zenon DEF IsPrint

\* The value that printf takes for a directive.
LEMMA ValueIs ==
  ASSUME NEW ds, NEW values, IsPrint(ds, values), NEW k \in 1 .. Len(ds)
  PROVE  /\ ValueOf(ds, values, k) \in Unsigned
         /\ ds[k] \notin {"text", "%"} =>
              ValueOf(ds, values, k) = values[Taken(ds, k - 1) + 1]
<1> DEFINE n == Len(ds)
           t == IF Taken(ds, k) = 0 THEN 1 ELSE Taken(ds, k)
<1>1. n \in Nat /\ values \in [1 .. n -> Unsigned]
  BY DEF IsPrint
<1> HIDE DEF n
<1>2. k \in 1 .. n /\ k \in 0 .. n /\ k - 1 \in 0 .. n
  BY <1>1 DEF n
<1>3. /\ Taken(ds, k) \in 0 .. k /\ Taken(ds, k - 1) \in 0 .. k - 1
      /\ Taken(ds, k) = IF ds[k] \in {"text", "%"} THEN Taken(ds, k - 1)
                                                   ELSE Taken(ds, k - 1) + 1
  BY <1>1, <1>2, TakenIs, Zenon
<1>4. t \in 1 .. n
  BY <1>1, <1>2, <1>3
<1>5. ds[k] \notin {"text", "%"} => t = Taken(ds, k - 1) + 1
  BY <1>2, <1>3
<1>6. ValueOf(ds, values, k) = values[t]
  BY Zenon DEF ValueOf
<1> HIDE DEF t
<1> QED
  BY <1>1, <1>4, <1>5, <1>6

\* What each directive should print.
LEMMA ExpectedIs ==
  ASSUME ConstantsAssumption, NEW d \in Directives, d # "h", NEW v \in Unsigned
  PROVE  Expected(d, v) \in Seq(Chars)
<1>1. CASE d = "text"
  <2>1. Expected(d, v) = << "a" >>
    BY <1>1 DEF Expected
  <2> QED
    BY <2>1 DEF Chars
<1>2. CASE d = "%"
  <2>1. Expected(d, v) = << "%" >>
    BY <1>2 DEF Expected
  <2> QED
    BY <2>1 DEF Chars
<1>3. CASE d \notin {"text", "%"}
  BY <1>3, ConvertedIs
<1> QED
  BY <1>1, <1>2, <1>3

LEMMA AllExpectedIs ==
  ASSUME ConstantsAssumption, NEW ds, NEW values, IsPrint(ds, values)
  PROVE  /\ AllExpected(ds, values)[0] = << >>
         /\ \A k \in 0 .. Len(ds) : AllExpected(ds, values)[k] \in Seq(Chars)
         /\ \A k \in 1 .. Len(ds) :
              AllExpected(ds, values)[k] = AllExpected(ds, values)[k - 1]
                                           \o Expected(ds[k], ValueOf(ds, values, k))
<1> DEFINE n == Len(ds)
           H == AllExpected(ds, values)
           one(k) == Expected(ds[k], ValueOf(ds, values, k))
           piece == [k \in 1 .. n |-> one(k)]
<1>0. n \in Nat /\ ds \in Seq(Directives) /\ \A k \in 1 .. n : ds[k] # "h"
  BY DEF IsPrint
<1>1. \A k \in 1 .. n : piece[k] = one(k) /\ piece[k] \in Seq(Chars)
  <2> SUFFICES ASSUME NEW k \in 1 .. n PROVE piece[k] = one(k) /\ piece[k] \in Seq(Chars)
    OBVIOUS
  <2>1. ds[k] \in Directives /\ ds[k] # "h"
    BY <1>0
  <2>2. ValueOf(ds, values, k) \in Unsigned
    BY ValueIs, Zenon
  <2>3. one(k) \in Seq(Chars)
    BY <2>1, <2>2, ExpectedIs, Zenon
  <2> HIDE DEF one
  <2> QED
    BY <2>3
<1> HIDE DEF piece
<1>2. Joined(H, n, piece)
  <2> DEFINE h == CHOOSE f : f = [k \in 0 .. n |->
                                    IF k = 0 THEN << >> ELSE f[k - 1] \o piece[k]]
  <2>1. Joined(h, n, piece)
    BY <1>0, JoinIs, Zenon
  <2>2. \A f : [k \in 0 .. n |-> IF k = 0 THEN << >> ELSE f[k - 1] \o piece[k]]
             = [k \in 0 .. n |-> IF k = 0 THEN << >> ELSE f[k - 1] \o one(k)]
    <3> SUFFICES ASSUME NEW f
                 PROVE  [k \in 0 .. n |-> IF k = 0 THEN << >> ELSE f[k - 1] \o piece[k]]
                      = [k \in 0 .. n |-> IF k = 0 THEN << >> ELSE f[k - 1] \o one(k)]
      OBVIOUS
    <3> HIDE DEF one
    <3>1. \A k \in 0 .. n : k # 0 => k \in 1 .. n
      BY <1>0
    <3>2. \A k \in 0 .. n : (IF k = 0 THEN << >> ELSE f[k - 1] \o piece[k])
                          = IF k = 0 THEN << >> ELSE f[k - 1] \o one(k)
      BY <1>1, <3>1, Zenon
    <3> QED
      BY <3>2, Zenon
  <2>3. H = h
    <3>1. H = CHOOSE f : f = [k \in 0 .. n |->
                                IF k = 0 THEN << >> ELSE f[k - 1] \o one(k)]
      BY Zenon DEF AllExpected, ValueOf, Taken
    <3> DEFINE mine(f)  == [k \in 0 .. n |-> IF k = 0 THEN << >> ELSE f[k - 1] \o piece[k]]
               yours(f) == [k \in 0 .. n |-> IF k = 0 THEN << >> ELSE f[k - 1] \o one(k)]
    <3>2. \A f : mine(f) = yours(f)
      BY <2>2, Zenon
    <3>3. H = CHOOSE f : f = yours(f)
      BY <3>1, Zenon
    <3>4. h = CHOOSE f : f = mine(f)
      BY Zenon
    <3> HIDE DEF H, h, mine, yours
    <3> QED
      BY <3>2, <3>3, <3>4, Zenon
  <2> QED
    BY <2>1, <2>3, Zenon
<1>3. \A k \in 0 .. n : H[k] \in Seq(Chars)
  <2> HIDE DEF one
  <2> QED
    BY <1>0, <1>1, <1>2, JoinTyped
<1> QED
  BY <1>1, <1>2, <1>3, Zenon DEF Joined

LEMMA InitPrint ==
  ConstantsAssumption /\ "noconv" \notin Hazards /\ Init => PrintInv
<1> SUFFICES ASSUME ConstantsAssumption, "noconv" \notin Hazards, Init, call.fn = "printf"
             PROVE  PrintInv
  BY DEF PrintInv
<1>1. call \in PrintCalls
  BY DEF Init, BlockCalls, StringCalls
<1>2. IsPrint(call.directives, call.values)
  BY <1>1, PrintCall, Zenon
<1>3. pc = "text" /\ i = 0 /\ esp = 1 /\ out = << >>
  BY DEF Init
<1> DEFINE ds == call.directives
<1>4. ds \in Seq(Directives)
  BY <1>2, Zenon DEF IsPrint
<1>5. Spelled(ds)[0] = << >> /\ AllExpected(ds, call.values)[0] = << >>
  BY <1>2, <1>4, FormatAt, AllExpectedIs, Zenon
<1>6. Taken(ds, 0) = 0
  <2>1. 0 \in Nat
    OBVIOUS
  <2> QED
    BY <2>1, TakenIs, Zenon
<1>7. AtText(0)
  <2>1. Passed(0)
    BY <1>3, <1>5, <1>6 DEF Passed
  <2>2. i = Len(Spelled(ds)[0])
    BY <1>3, <1>5
  <2> QED
    BY <1>3, <2>1, <2>2, Zenon DEF AtText
<1>8. 0 \in 0 .. Len(ds)
  BY <1>4
<1> QED
  BY <1>1, <1>7, <1>8, Zenon DEF PrintInv

\* What a step that leaves the call alone can reach.
LEMMA TextAgain ==
  ASSUME call' = call, call \in PrintCalls, NEW k \in 0 .. Len(call.directives), AtText(k)'
  PROVE  PrintInv'
<1>1. \E j \in 0 .. Len(call'.directives) : AtText(j)' \/ AtConv(j)'
  BY Zenon
<1> QED
  BY <1>1, Zenon DEF PrintInv

LEMMA ConvAgain ==
  ASSUME call' = call, call \in PrintCalls, NEW k \in 0 .. Len(call.directives), AtConv(k)'
  PROVE  PrintInv'
<1>1. \E j \in 0 .. Len(call'.directives) : AtText(j)' \/ AtConv(j)'
  BY Zenon
<1> QED
  BY <1>1, Zenon DEF PrintInv

\* The characters of the next directive, and what passing it means.
LEMMA NextDirective ==
  ASSUME ConstantsAssumption, IsPrint(call.directives, call.values),
         NEW k \in Nat, k < Len(call.directives), Passed(k)
  PROVE  LET ds == call.directives
             d  == ds[k + 1]
             l  == Len(Spelled(ds)[k])
             c  == Characters(d)
             v  == ValueOf(ds, call.values, k + 1)
         IN /\ d \in Directives \ {"h"} /\ v \in Unsigned /\ l \in Nat
            /\ out \in Seq(Chars)
            /\ Len(Spelled(ds)[k + 1]) = l + Len(c) /\ Len(c) \in {1, 2, 3}
            /\ l < Len(format) /\ \A m \in 1 .. Len(c) : format[l + m] = c[m]
            /\ AllExpected(ds, call.values)[k + 1] = out \o Expected(d, v)
            /\ d \in {"text", "%"} => Taken(ds, k + 1) + 1 = esp
            /\ d \notin {"text", "%"} => /\ Taken(ds, k + 1) + 1 = esp + 1
                                         /\ v = call.values[esp]
<1> DEFINE ds == call.directives
           n  == Len(ds)
           d  == ds[k + 1]
           l  == Len(Spelled(ds)[k])
           c  == Characters(d)
           v  == ValueOf(ds, call.values, k + 1)
<1>1. /\ ds \in Seq(Directives) /\ n \in Nat /\ \A j \in 1 .. n : ds[j] # "h"
  BY DEF IsPrint
<1>2. /\ k + 1 \in 1 .. n /\ k + 1 \in 0 .. n /\ k \in 0 .. n /\ (k + 1) - 1 = k
  BY <1>1
<1>3. d \in Directives /\ d # "h"
  BY <1>1, <1>2
<1>4. v \in Unsigned /\ (d \notin {"text", "%"} => v = call.values[Taken(ds, k) + 1])
  BY <1>2, ValueIs, Zenon
<1>5. /\ l \in Nat /\ Len(Spelled(ds)[k + 1]) = l + Len(c) /\ l + Len(c) <= Len(format)
      /\ \A m \in 1 .. Len(c) : format[l + m] = c[m]
  <2>1. LET p == Len(Spelled(ds)[(k + 1) - 1])
        IN /\ Len(Spelled(ds)[k + 1]) = p + Len(c)
           /\ p + Len(c) <= Len(Format(ds))
           /\ \A m \in 1 .. Len(c) : Format(ds)[p + m] = c[m]
    BY <1>1, <1>2, FormatAt, Zenon
  <2>2. l \in Nat
    BY <1>1, <1>2, FormatAt, Zenon
  <2> QED
    BY <1>2, <2>1, <2>2, Zenon DEF format
<1>6. Len(c) \in {1, 2, 3}
  BY <1>3, CharactersAre
<1>7. /\ AllExpected(ds, call.values)[k + 1]
           = AllExpected(ds, call.values)[k] \o Expected(d, v)
      /\ AllExpected(ds, call.values)[k] \in Seq(Chars)
  <2>1. AllExpected(ds, call.values)[k + 1]
           = AllExpected(ds, call.values)[(k + 1) - 1] \o Expected(d, v)
    BY <1>2, AllExpectedIs, Zenon
  <2>2. AllExpected(ds, call.values)[k] \in Seq(Chars)
    BY <1>2, AllExpectedIs, Zenon
  <2> QED
    BY <1>2, <2>1, <2>2, Zenon
<1>8. out = AllExpected(ds, call.values)[k] /\ esp = Taken(ds, k) + 1
  BY Zenon DEF Passed
<1>9. /\ Taken(ds, k + 1) = IF d \in {"text", "%"} THEN Taken(ds, k) ELSE Taken(ds, k) + 1
      /\ Taken(ds, k) \in 0 .. k
  BY <1>1, <1>2, TakenIs, Zenon
<1>10. l < Len(format)
  <2>1. format = Format(ds) /\ Len(format) \in Nat
    <3>1. Len(Format(ds)) = Len(Spelled(ds)[n]) /\ Len(Spelled(ds)[n]) \in Nat
      <4>1. n \in 0 .. n
        BY <1>1
      <4> QED
        BY <1>1, <4>1, FormatAt, Zenon
    <3> QED
      BY <3>1, Zenon DEF format
  <2>2. l \in Nat /\ l + Len(c) <= Len(format)
    BY <1>5, Zenon
  <2>3. Len(c) \in {1, 2, 3} /\ Len(format) \in Nat
    BY <1>6, <2>1, Zenon
  <2> DEFINE q == Len(c)
             z == Len(format)
  <2>4. l \in Nat /\ q \in {1, 2, 3} /\ z \in Nat /\ l + q <= z
    BY <2>2, <2>3, Zenon
  <2> HIDE DEF l, q, z
  <2>5. l < z
    BY <2>4
  <2> QED
    BY <2>5, Zenon DEF z
<1>11. /\ d \in {"text", "%"} => Taken(ds, k + 1) + 1 = esp
       /\ d \notin {"text", "%"} => Taken(ds, k + 1) + 1 = esp + 1
  BY <1>8, <1>9
<1>12. d \notin {"text", "%"} => v = call.values[esp]
  BY <1>4, <1>8, Zenon
<1>13. d \in Directives \ {"h"} /\ out \in Seq(Chars)
  BY <1>3, <1>7, <1>8
<1>14. AllExpected(ds, call.values)[k + 1] = out \o Expected(d, v)
  BY <1>7, <1>8, Zenon
<1> HIDE DEF ds, n, d, l, c, v
<1>15. Len(Spelled(ds)[k + 1]) = l + Len(c) /\ \A m \in 1 .. Len(c) : format[l + m] = c[m]
  BY <1>5
<1> QED
  BY <1>4, <1>5, <1>6, <1>10, <1>11, <1>12, <1>13, <1>14, <1>15, Zenon DEF ds, d, l, c, v

\* The outer switch.
LEMMA TextPrints ==
  ASSUME ConstantsAssumption, "noconv" \notin Hazards, call \in PrintCalls, Text,
         NEW k \in 0 .. Len(call.directives), AtText(k)
  PROVE  PrintInv'
<1> DEFINE ds == call.directives
           n  == Len(ds)
           l  == Len(Spelled(ds)[k])
<1>1. IsPrint(ds, call.values) /\ call.fn = "printf"
  BY PrintCall, Zenon
<1>2. ds \in Seq(Directives) /\ n \in Nat
  BY <1>1 DEF IsPrint
<1>3. call' = call /\ esp' = esp
  BY DEF Text
<1>4. Passed(k) /\ i = l
  BY Zenon DEF AtText
<1>5. CASE k = n
  <2>1. Len(format) = l
    BY <1>2, <1>5, FormatAt, Zenon DEF format
  <2>2. pc' = "done" /\ result' = i /\ out' = out
    BY <1>4, <2>1 DEF Text, Return
  <2>3. out = AllExpected(ds, call.values)[n]
    BY <1>4, <1>5, Zenon DEF Passed
  <2>4. PrintsDirectives'
    <3>1. format' = format
      BY <1>3, Zenon DEF format
    <3> QED
      BY <1>3, <1>4, <2>1, <2>2, <2>3, <3>1, Zenon DEF PrintsDirectives
  <2> QED
    BY <1>3, <2>2, <2>4, Zenon DEF PrintInv
<1>6. CASE k # n
  <2> DEFINE d == ds[k + 1]
             c == Characters(d)
             v == ValueOf(ds, call.values, k + 1)
  <2>1. k \in Nat /\ k < n /\ k + 1 \in 0 .. n
    BY <1>2, <1>6
  <2>2. /\ d \in Directives \ {"h"} /\ l \in Nat /\ out \in Seq(Chars)
        /\ Len(Spelled(ds)[k + 1]) = l + Len(c) /\ Len(c) \in {1, 2, 3}
        /\ l < Len(format) /\ \A m \in 1 .. Len(c) : format[l + m] = c[m]
        /\ AllExpected(ds, call.values)[k + 1] = out \o Expected(d, v)
        /\ d \in {"text", "%"} => Taken(ds, k + 1) + 1 = esp
    BY <1>1, <1>4, <2>1, NextDirective, Zenon
  <2>3. i # Len(format)
    <3>1. l # Len(format)
      <4> HIDE DEF l
      <4>1. l \in Nat /\ l < Len(format)
        BY <2>2, Zenon
      <4> QED
        BY <4>1
    <3> QED
      BY <1>4, <3>1, Zenon
  <2>4. format[i + 1] = c[1]
    <3>1. 1 \in 1 .. Len(c)
      <4>1. Len(c) \in {1, 2, 3}
        BY <2>2, Zenon
      <4>2. \A m \in {1, 2, 3} : 1 \in 1 .. m
        OBVIOUS
      <4> QED
        BY <4>1, <4>2, Zenon
    <3> QED
      BY <1>4, <2>2, <3>1, Zenon
  <2>5. CASE d = "text"
    <3>1. c[1] = "a" /\ Len(c) = 1
      BY <2>2, <2>5, CharactersAre
    <3>2. i' = i + 1 /\ pc' = "text" /\ out' = Append(out, "a")
      BY <2>3, <2>4, <3>1 DEF Text
    <3>3. out \o Expected(d, v) = Append(out, "a")
      <4>1. Expected(d, v) = << "a" >>
        BY <2>5 DEF Expected
      <4>2. out \o << "a" >> = Append(out, "a")
        BY <2>2
      <4> QED
        BY <4>1, <4>2, Zenon
    <3>4. Passed(k + 1)'
      <4>1. out' = AllExpected(ds, call.values)[k + 1] /\ esp' = Taken(ds, k + 1) + 1
        BY <1>3, <2>2, <2>5, <3>2, <3>3, Zenon
      <4> QED
        BY <1>3, <4>1, Zenon DEF Passed
    <3>5. i' = Len(Spelled(ds)[k + 1])
      BY <1>4, <2>2, <3>1, <3>2, Zenon
    <3>6. AtText(k + 1)'
      BY <1>3, <3>2, <3>4, <3>5, Zenon DEF AtText
    <3> QED
      BY <1>3, <2>1, <3>6, TextAgain, Zenon
  <2>6. CASE d # "text"
    <3>1. c[1] = "%"
      BY <2>2, <2>6, CharactersAre
    <3>2. i' = i + 1 /\ pc' = "conv" /\ out' = out /\ alternate' = FALSE
      BY <2>3, <2>4, <3>1 DEF Text
    <3>3. Passed(k)'
      BY <1>3, <1>4, <3>2, Zenon DEF Passed
    <3>4. i' = l + IF alternate' THEN 2 ELSE 1
      BY <1>4, <3>2, Zenon
    <3>5. AtConv(k)'
      BY <1>3, <2>1, <2>6, <3>2, <3>3, <3>4, Zenon DEF AtConv
    <3> QED
      BY <1>3, <3>5, ConvAgain, Zenon
  <2> QED
    BY <2>5, <2>6
<1> QED
  BY <1>5, <1>6

\* The inner switch.
LEMMA ConvertPrints ==
  ASSUME ConstantsAssumption, "noconv" \notin Hazards, call \in PrintCalls, Convert,
         NEW k \in 0 .. Len(call.directives), AtConv(k)
  PROVE  PrintInv'
<1> DEFINE ds == call.directives
           n  == Len(ds)
           l  == Len(Spelled(ds)[k])
           d  == ds[k + 1]
           c  == Characters(d)
           v  == ValueOf(ds, call.values, k + 1)
           char == format[i + 1]
           takes == char \in {"x", "u", "d", "c", "s"}
<1>1. IsPrint(ds, call.values)
  BY PrintCall, Zenon
<1>2. ds \in Seq(Directives) /\ n \in Nat
  BY <1>1 DEF IsPrint
<1>3. /\ call' = call /\ i' = i + 1
      /\ alternate' = (char = "#" \/ alternate)
      /\ pc' = IF char = "#" THEN "conv" ELSE "text"
      /\ esp' = IF takes THEN esp + 1 ELSE esp
      /\ out' = IF takes THEN out \o Converted(char, call.values[esp])
                ELSE IF char = "%" THEN Append(out, "%") ELSE out
  BY Zenon DEF Convert
<1>4. /\ Passed(k) /\ alternate \in BOOLEAN /\ k < n /\ d # "text"
      /\ (alternate => d = "#x") /\ i = l + IF alternate THEN 2 ELSE 1
  BY Zenon DEF AtConv
<1>5. k \in Nat /\ k + 1 \in 0 .. n
  BY <1>2, <1>4
<1>6. /\ d \in Directives \ {"h"} /\ v \in Unsigned /\ l \in Nat /\ out \in Seq(Chars)
      /\ Len(Spelled(ds)[k + 1]) = l + Len(c)
      /\ \A m \in 1 .. Len(c) : format[l + m] = c[m]
      /\ AllExpected(ds, call.values)[k + 1] = out \o Expected(d, v)
      /\ d \in {"text", "%"} => Taken(ds, k + 1) + 1 = esp
      /\ d \notin {"text", "%"} => /\ Taken(ds, k + 1) + 1 = esp + 1
                                   /\ v = call.values[esp]
  BY <1>1, <1>4, <1>5, NextDirective, Zenon
<1>7. ASSUME pc' = "text", out' = out \o Expected(d, v), esp' = Taken(ds, k + 1) + 1,
             i' = l + Len(c)
      PROVE  PrintInv'
  <2>1. Passed(k + 1)'
    BY <1>3, <1>6, <1>7, Zenon DEF Passed
  <2>2. AtText(k + 1)'
    BY <1>3, <1>6, <1>7, <2>1, Zenon DEF AtText
  <2> QED
    BY <1>3, <1>5, <2>2, TextAgain, Zenon
<1>8. CASE d = "#x"
  <2>1. Len(c) = 3 /\ c[2] = "#" /\ c[3] = "x" /\ d \notin {"text", "%"}
    BY <1>6, <1>8, CharactersAre
  <2>2. 2 \in 1 .. Len(c) /\ 3 \in 1 .. Len(c)
    <3> HIDE DEF c
    <3> QED
      BY <2>1
  <2>3. format[l + 2] = "#" /\ format[l + 3] = "x"
    BY <1>6, <2>1, <2>2, Zenon
  <2>4. CASE alternate
    <3>1. i + 1 = l + 3
      <4> HIDE DEF l
      <4>1. i = l + 2
        BY <1>4, <2>4, Zenon
      <4> QED
        BY <1>6, <4>1
    <3>2. char = "x"
      BY <2>3, <3>1, Zenon
    <3>3. /\ pc' = "text" /\ esp' = esp + 1
          /\ out' = out \o Converted(char, call.values[esp])
      BY <1>3, <3>2
    <3>4. Converted(char, v) = Expected(d, v)
      <4>1. d \in Directives \ {"text", "%", "h"} /\ alternate = (d = "#x")
        BY <1>4, <1>6, <1>8, <2>4
      <4>2. char = IF d = "#x" THEN "x" ELSE d
        BY <1>8, <3>2
      <4>3. v \in Unsigned
        BY <1>6, Zenon
      <4> QED
        BY <4>1, <4>2, <4>3, ConvertedIs, Zenon
    <3>5. out' = out \o Expected(d, v)
      BY <1>6, <2>1, <3>3, <3>4, Zenon
    <3>6. i' = l + Len(c) /\ esp' = Taken(ds, k + 1) + 1
      BY <1>3, <1>6, <2>1, <3>1, <3>3, Zenon
    <3> QED
      BY <1>7, <3>3, <3>5, <3>6, Zenon
  <2>5. CASE ~alternate
    <3>1. i + 1 = l + 2
      <4> HIDE DEF l
      <4>1. i = l + 1
        BY <1>4, <2>5, Zenon
      <4> QED
        BY <1>6, <4>1
    <3>2. char = "#"
      BY <2>3, <3>1, Zenon
    <3>3. pc' = "conv" /\ esp' = esp /\ out' = out /\ alternate' = TRUE
      BY <1>3, <3>2
    <3>4. Passed(k)'
      BY <1>3, <1>4, <3>3, Zenon DEF Passed
    <3>5. i' = l + IF alternate' THEN 2 ELSE 1
      BY <1>3, <3>1, <3>3, Zenon
    <3>6. AtConv(k)'
      BY <1>3, <1>4, <1>8, <3>3, <3>4, <3>5, Zenon DEF AtConv
    <3> QED
      BY <1>3, <3>6, ConvAgain, Zenon
  <2> QED
    BY <1>4, <2>4, <2>5
<1>9. CASE d # "#x"
  <2>1. Len(c) = 2 /\ c[2] = d
    BY <1>4, <1>6, <1>9, CharactersAre
  <2>2. i + 1 = l + 2 /\ alternate = FALSE
    <3> HIDE DEF l
    <3>1. alternate = FALSE /\ i = l + 1
      BY <1>4, <1>9, Zenon
    <3> QED
      BY <1>6, <3>1
  <2>3. char = d
    <3>1. 2 \in 1 .. Len(c)
      <4> HIDE DEF c
      <4> QED
        BY <2>1
    <3> QED
      BY <1>6, <2>1, <2>2, <3>1, Zenon
  <2>4. i' = l + Len(c)
    BY <1>3, <2>1, <2>2, Zenon
  <2>5. CASE d = "%"
    <3>1. pc' = "text" /\ esp' = esp /\ out' = Append(out, "%")
      BY <1>3, <2>3, <2>5
    <3>2. out \o Expected(d, v) = Append(out, "%")
      <4>1. Expected(d, v) = << "%" >>
        BY <2>5 DEF Expected
      <4>2. out \o << "%" >> = Append(out, "%")
        BY <1>6
      <4> QED
        BY <4>1, <4>2, Zenon
    <3>3. esp' = Taken(ds, k + 1) + 1
      BY <1>6, <2>5, <3>1
    <3> QED
      BY <1>7, <2>4, <3>1, <3>2, <3>3, Zenon
  <2>6. CASE d # "%"
    <3>1. d \in {"x", "u", "d", "c", "s"}
      BY <1>4, <1>6, <1>9, <2>6 DEF Directives
    <3>2. /\ pc' = "text" /\ esp' = esp + 1
          /\ out' = out \o Converted(char, call.values[esp])
      BY <1>3, <2>3, <3>1
    <3>3. Converted(char, v) = Expected(d, v)
      <4>1. d \in Directives \ {"text", "%", "h"} /\ alternate = (d = "#x")
        BY <1>4, <1>6, <1>9, <2>2, <2>6
      <4>2. char = IF d = "#x" THEN "x" ELSE d
        BY <1>9, <2>3
      <4>3. v \in Unsigned
        BY <1>6, Zenon
      <4> QED
        BY <4>1, <4>2, <4>3, ConvertedIs, Zenon
    <3>4. d \notin {"text", "%"}
      BY <1>4, <2>6
    <3>5. out' = out \o Expected(d, v) /\ esp' = Taken(ds, k + 1) + 1
      BY <1>6, <3>2, <3>3, <3>4, Zenon
    <3> QED
      BY <1>7, <2>4, <3>2, <3>5, Zenon
  <2> QED
    BY <2>5, <2>6
<1> QED
  BY <1>8, <1>9

LEMMA NextPrint ==
  ConstantsAssumption /\ "noconv" \notin Hazards /\ PrintInv /\ [Next]_vars => PrintInv'
<1> SUFFICES ASSUME ConstantsAssumption, "noconv" \notin Hazards, PrintInv, [Next]_vars,
                    call'.fn = "printf"
             PROVE  PrintInv'
  BY DEF PrintInv
<1>0. call' = call
  BY DEF Next, Block, Top, Aligned, Rep, Bottom, String, strlen, strncmp, strcpy,
     strncpy, Printing, Text, Convert, Stop, vars
<1>1. /\ call.fn = "printf" /\ call \in PrintCalls
      /\ \/ \E k \in 0 .. Len(call.directives) : AtText(k) \/ AtConv(k)
         \/ pc = "done" /\ PrintsDirectives
  BY <1>0, Zenon DEF PrintInv
<1>2. CASE Text
  <2>1. pc = "text"
    BY <1>2 DEF Text
  <2>2. \E k \in 0 .. Len(call.directives) : AtText(k)
    <3>1. ~(pc = "done" /\ PrintsDirectives) /\ \A k : ~AtConv(k)
      BY <2>1 DEF AtConv
    <3> QED
      BY <1>1, <3>1, Zenon
  <2> QED
    BY <1>1, <1>2, <2>2, TextPrints, Zenon
<1>3. CASE Convert
  <2>1. pc = "conv"
    BY <1>3 DEF Convert
  <2>2. \E k \in 0 .. Len(call.directives) : AtConv(k)
    <3>1. ~(pc = "done" /\ PrintsDirectives) /\ \A k : ~AtText(k)
      BY <2>1 DEF AtText
    <3> QED
      BY <1>1, <3>1, Zenon
  <2> QED
    BY <1>1, <1>3, <2>2, ConvertPrints, Zenon
<1>4. ASSUME Block \/ String PROVE FALSE
  <2>1. pc \in {"text", "conv", "done"}
    BY <1>1 DEF AtText, AtConv
  <2> QED
    BY <1>1, <1>4, <2>1 DEF Block, Top, Aligned, Rep, Bottom, String, strlen, strncmp,
       strcpy, strncpy
<1>5. CASE Stop \/ UNCHANGED vars
  <2>1. UNCHANGED << call, pc, i, esp, alternate, out, result >>
    BY <1>5 DEF Stop, vars, print
  <2>2. PrintsDirectives' <=> PrintsDirectives
    BY <2>1 DEF PrintsDirectives, format
  <2>3. \A k : (AtText(k)' <=> AtText(k)) /\ (AtConv(k)' <=> AtConv(k))
    BY <2>1 DEF AtText, AtConv, Passed
  <2> QED
    BY <1>1, <2>1, <2>2, <2>3 DEF PrintInv
<1> QED
  BY <1>2, <1>3, <1>4, <1>5 DEF Next, Printing

\* As long as printf knows its conversions, it has at every turn printed the
\* directives it has passed, each with its own argument, as they should be.
THEOREM PrintInvariant == "noconv" \notin Hazards /\ Spec => []PrintInv
<1>1. SUFFICES ASSUME "noconv" \notin Hazards PROVE Spec => []PrintInv
  OBVIOUS
<1>2. ConstantsAssumption
  BY ConstantsAssumption
<1>3. Init => PrintInv
  BY <1>1, <1>2, InitPrint
<1>4. PrintInv /\ [Next]_vars => PrintInv'
  BY <1>1, <1>2, NextPrint
<1> QED
  BY <1>3, <1>4, PTL DEF Spec

\* When it returns, all of them, and their length is what it returns.
THEOREM PrintfRight == "noconv" \notin Hazards /\ Spec => []PrintsDirectives
<1>1. SUFFICES ASSUME "noconv" \notin Hazards PROVE Spec => []PrintsDirectives
  OBVIOUS
<1>2. PrintInv => PrintsDirectives
  <2> SUFFICES ASSUME PrintInv, pc = "done", call.fn = "printf" PROVE PrintsDirectives
    BY DEF PrintsDirectives
  <2>1. \A k : ~AtText(k) /\ ~AtConv(k)
    BY DEF AtText, AtConv
  <2> QED
    BY <2>1, Zenon DEF PrintInv
<1>3. Spec => []PrintInv
  BY <1>1, PrintInvariant
<1> QED
  BY <1>2, <1>3, PTL

=============================================================================
