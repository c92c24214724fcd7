------------------------------- MODULE Library -------------------------------
(***************************************************************************)
(* lib.c without the screen: memset and memcpy, which go byte by byte to a  *)
(* multiple of 4, then word by word, then byte by byte again; the string    *)
(* functions; printf with puts, itoa and strrev.  One call runs, step by    *)
(* step: a turn of its loop, or a run of equal instructions between labels. *)
(*                                                                         *)
(* Memory is old at the call and mem now; 0 ends a string.  Addresses do    *)
(* not wrap around.                                                         *)
(***************************************************************************)
EXTENDS Integers, Sequences, FiniteSets, SequencesExt

CONSTANTS
  MemSize,     \* bound: bytes of memory
  Bytes,       \* the values of a byte
  Memories,    \* the contents of memory a call may find
  Strings,     \* those that a call of a string function may find
  MaxString,   \* bound: string functions start in that many bytes
  Width,       \* bits of an int32_t, a multiple of 4
  Values,      \* the arguments of printf
  Formats,     \* the conversions, in order, of printf's formats
  Hazards      \* what this instance allows

Addr == 0 .. MemSize - 1

\* The powers of a base, up to Width.
Power(base) ==
  LET power[n \in 0 .. Width] == IF n = 0 THEN 1 ELSE base * power[n - 1]
  IN power

Directives == {"text", "%", "x", "#x", "u", "d", "c", "s", "h"}

(***************************************************************************)
(* "noconv": a conversion printf does not know, as print_err_addr's %h.     *)
(***************************************************************************)
ASSUME ConstantsAssumption ==
  /\ MemSize \in Nat
  /\ 0 \in Bytes /\ Bytes \subseteq 0 .. 255
  /\ Memories \subseteq [Addr -> Bytes] /\ Strings \subseteq [Addr -> Bytes]
  /\ MaxString \in 0 .. MemSize
  /\ Width \in Nat \ {0} /\ Width % 4 = 0
  /\ Values \subseteq 0 .. Power(2)[Width] - 1
  /\ Formats \subseteq Seq(Directives)
  /\ Hazards \subseteq {"noconv"}

VARIABLES
  call,                   \* which function, with its arguments
  old, mem,
  pc,                     \* where the function is
  edi, esi, ecx, edx,     \* memset and memcpy
  i,                      \* the loop variable of the others
  esp, alternate,         \* printf: its next argument; # seen
  result,                 \* what a string function returns
  out                     \* what printf has printed

regs == << edi, esi, ecx, edx >>
vars == << call, old, mem, pc, regs, i, esp, alternate, result, out >>
print == << esp, alternate, out >>

-----------------------------------------------------------------------------
(***************************************************************************)
(* Calls.                                                                  *)
(***************************************************************************)
Apart(d, s, n) == d + n <= s \/ s + n <= d

\* The kernel calls memcpy on blocks that do not overlap.  Blocks that move
\* down over themselves are copied as well as those, and are included here.
BlockCalls ==
  {c \in [fn : {"memset", "memcpy"}, dest : 0 .. MemSize, src : 0 .. MemSize,
          n : 0 .. MemSize, c : Bytes] :
     /\ c.dest + c.n <= MemSize /\ c.src + c.n <= MemSize
     /\ c.fn = "memset" => c.src = 0
     /\ c.fn = "memcpy" => c.c = 0
     /\ c.fn = "memcpy" => c.dest <= c.src \/ Apart(c.dest, c.src, c.n)}

\* A string that starts at s, and the n bytes from s, lie in memory.
StringIn(m, s) == \E a \in Addr : s <= a /\ m[a] = 0
Strlen(m, s)   == (CHOOSE a \in Addr : /\ s <= a /\ m[a] = 0
                                       /\ \A b \in s .. a - 1 : m[b] # 0) - s

StringCalls(m) ==
  {c \in [fn : {"strlen", "strncmp", "strcpy", "strncpy"},
          dest : 0 .. MaxString - 1, src : 0 .. MaxString - 1, n : 0 .. MaxString,
          c : {0}] :
     /\ c.fn \in {"strlen", "strcpy"} => c.n = 0 /\ StringIn(m, c.src)
     /\ c.fn = "strlen" => c.dest = c.src
     /\ c.fn = "strcpy" =>
          LET len == Strlen(m, c.src) + 1
          IN /\ c.dest + len <= MemSize
             /\ c.dest <= c.src \/ Apart(c.dest, c.src, len)
     /\ c.fn \in {"strncmp", "strncpy"} =>
          c.dest + c.n < MemSize /\ c.src + c.n < MemSize
     /\ c.fn = "strncpy" => Apart(c.dest, c.src, c.n + 1)}

\* A format is the characters of its directives.
Characters(d) == CASE d = "text" -> << "a" >>
                   [] d = "#x"   -> << "%", "#", "x" >>
                   [] OTHER      -> << "%", d >>

Spelled(ds) ==
  LET upto[k \in 0 .. Len(ds)] ==
        IF k = 0 THEN << >> ELSE upto[k - 1] \o Characters(ds[k])
  IN upto
Format(ds) == Spelled(ds)[Len(ds)]

\* The values behind the format.
PrintCalls ==
  UNION {[fn : {"printf"}, directives : {ds}, values : [1 .. Len(ds) -> Values]] :
           ds \in {f \in Formats : "h" \in Range(f) => "noconv" \in Hazards}}

Init ==
  /\ \/ old \in Memories /\ call \in BlockCalls \cup PrintCalls
     \/ old \in Strings /\ call \in StringCalls(old)
  /\ mem = old
  /\ pc = CASE call.fn \in {"memset", "memcpy"} -> "top"
            [] call.fn = "printf" -> "text"
            [] OTHER -> "loop"
  /\ edi = IF pc = "top" THEN call.dest ELSE 0
  /\ esi = IF pc = "top" THEN call.src ELSE 0
  /\ ecx = IF pc = "top" THEN call.n ELSE 0
  /\ edx = 0
  /\ i = 0 /\ esp = 1 /\ alternate = FALSE
  /\ result = 0
  /\ out = << >>

-----------------------------------------------------------------------------
(***************************************************************************)
(* memset and memcpy.                                                      *)
(***************************************************************************)
\* A move of k bytes to edi, which reads before it writes.
Moved(k) ==
  [a \in Addr |-> IF a \in edi .. edi + k - 1
                  THEN IF call.fn = "memset" THEN call.c ELSE mem[esi + (a - edi)]
                  ELSE mem[a]]

Move(k) ==
  /\ mem' = Moved(k)
  /\ edi' = edi + k
  /\ esi' = IF call.fn = "memset" THEN esi ELSE esi + k

\* .memcpy_top: bytes up to an address that 4 divides.
Top ==
  /\ pc = "top"
  /\ IF ecx = 0 THEN pc' = "done" /\ UNCHANGED << mem, edi, esi, ecx >>
     ELSE IF edi % 4 = 0 THEN pc' = "aligned" /\ UNCHANGED << mem, edi, esi, ecx >>
     ELSE /\ Move(1)
          /\ ecx' = ecx - 1
          /\ UNCHANGED pc
  /\ UNCHANGED << call, old, edx, i, print, result >>

\* .memcpy_aligned, before its rep.
Aligned_lost ==                          \* mutant: ecx divided before edx is set
  /\ pc = "aligned"
  /\ edx' = (ecx \div 4) % 4
  /\ ecx' = ecx \div 4
  /\ pc' = "rep"
  /\ UNCHANGED << call, old, mem, edi, esi, i, print, result >>

Aligned ==
  /\ pc = "aligned"
  /\ edx' = ecx % 4
  /\ ecx' = ecx \div 4
  /\ pc' = "rep"
  /\ UNCHANGED << call, old, mem, edi, esi, i, print, result >>

\* rep stosl, rep movsl.
Rep ==
  /\ pc = "rep"
  /\ IF ecx = 0 THEN pc' = "bottom" /\ UNCHANGED << mem, edi, esi, ecx >>
     ELSE /\ Move(4)
          /\ ecx' = ecx - 1
          /\ UNCHANGED pc
  /\ UNCHANGED << call, old, edx, i, print, result >>

\* .memcpy_bottom: the bytes that are left.
Bottom ==
  /\ pc = "bottom"
  /\ IF edx = 0 THEN pc' = "done" /\ UNCHANGED << mem, edi, esi, edx >>
     ELSE /\ Move(1)
          /\ edx' = edx - 1
          /\ UNCHANGED pc
  /\ UNCHANGED << call, old, ecx, i, print, result >>

-----------------------------------------------------------------------------
(***************************************************************************)
(* The strings.                                                            *)
(***************************************************************************)
Return(r) == pc' = "done" /\ result' = r /\ UNCHANGED i
Put(c)    == mem' = [mem EXCEPT ![call.dest + i] = c]
Turn      == i' = i + 1 /\ UNCHANGED << pc, result >>

strlen ==
  /\ pc = "loop" /\ call.fn = "strlen"
  /\ IF mem[call.src + i] # 0 THEN Turn ELSE Return(i)
  /\ UNCHANGED << call, old, mem, regs, print >>

int8_t(byte) == IF byte >= 128 THEN byte - 256 ELSE byte

strncmp ==
  /\ pc = "loop" /\ call.fn = "strncmp"
  /\ LET s1 == mem[call.dest + i]
         s2 == mem[call.src + i]
     IN IF i = call.n THEN Return(0)
        ELSE IF s1 # s2 \/ s1 = 0 THEN Return(int8_t(s1) - int8_t(s2))
        ELSE Turn
  /\ UNCHANGED << call, old, mem, regs, print >>

strcpy ==
  /\ pc = "loop" /\ call.fn = "strcpy"
  /\ Put(mem[call.src + i])
  /\ IF mem[call.src + i] # 0 THEN Turn ELSE Return(call.dest)
  /\ UNCHANGED << call, old, regs, print >>

strncpy_unfilled ==                      \* mutant: without the second loop
  /\ pc = "loop" /\ call.fn = "strncpy"
  /\ IF mem[call.src + i] # 0 /\ i < call.n
     THEN Put(mem[call.src + i]) /\ Turn
     ELSE Return(call.dest) /\ UNCHANGED mem
  /\ UNCHANGED << call, old, regs, print >>

strncpy ==
  /\ call.fn = "strncpy"
  /\ \/ /\ pc = "loop"
        /\ IF mem[call.src + i] # 0 /\ i < call.n
           THEN Put(mem[call.src + i]) /\ Turn
           ELSE pc' = "fill" /\ UNCHANGED << mem, i, result >>
     \/ /\ pc = "fill"
        /\ IF i < call.n THEN Put(0) /\ Turn
           ELSE Return(call.dest) /\ UNCHANGED mem
  /\ UNCHANGED << call, old, regs, print >>

-----------------------------------------------------------------------------
(***************************************************************************)
(* printf.                                                                 *)
(***************************************************************************)
lookup == << "0", "1", "2", "3", "4", "5", "6", "7", "8", "9", "A", "B", "C",
             "D", "E", "F" >>
HexDigits == Width \div 4

strrev(s) ==
  LET swaps == Len(s) \div 2
  IN [k \in DOMAIN s |-> IF k <= swaps \/ k > Len(s) - swaps
                         THEN s[Len(s) + 1 - k] ELSE s[k]]

itoa(value, radix) ==
  LET low[v \in 0 .. Power(2)[Width] - 1] ==
        IF v = 0 THEN << >>
        ELSE << lookup[(v % radix) + 1] >> \o low[v \div radix]
  IN IF value = 0 THEN << "0" >> ELSE strrev(low[value])

\* conv_buf of %#x: the digits lie at its place 8, zeros before them.
PaddedHex_1(v) ==                        \* mutant: one zero too few
  [k \in 1 .. HexDigits - Len(itoa(v, 16)) - 1 |-> "0"] \o itoa(v, 16)
PaddedHex(v) ==
  [k \in 1 .. HexDigits - Len(itoa(v, 16)) |-> "0"] \o itoa(v, 16)

Signed(v) == IF v >= Power(2)[Width - 1] THEN v - Power(2)[Width] ELSE v

\* A value as the character or the string that %c or %s takes it for.
AsChar(v)   == << lookup[(v % 16) + 1] >>
AsString(v) == [k \in 1 .. v % 3 |-> "s"]

Converted(c, v) ==
  CASE c = "x" -> IF alternate THEN PaddedHex(v) ELSE itoa(v, 16)
    [] c = "u" -> itoa(v, 10)
    [] c = "d" -> IF Signed(v) < 0 THEN << "-" >> \o itoa(Power(2)[Width] - v, 10)
                                   ELSE itoa(v, 10)
    [] c = "c" -> AsChar(v)
    [] c = "s" -> AsString(v)

format == Format(call.directives)

\* The outer switch.
Text ==
  /\ pc = "text"
  /\ IF i = Len(format)
     THEN /\ Return(i)
          /\ UNCHANGED << alternate, out >>
     ELSE LET c == format[i + 1]
          IN /\ i' = i + 1
             /\ pc' = IF c = "%" THEN "conv" ELSE "text"
             /\ alternate' = FALSE
             /\ out' = IF c = "%" THEN out ELSE Append(out, c)
             /\ UNCHANGED result
  /\ UNCHANGED << call, old, mem, regs, esp >>

\* The inner switch: a conversion it does not know prints and takes nothing.
Convert ==
  /\ pc = "conv"
  /\ LET c == format[i + 1]
         takes == c \in {"x", "u", "d", "c", "s"}
     IN /\ alternate' = (c = "#" \/ alternate)
        /\ pc' = IF c = "#" THEN "conv" ELSE "text"
        /\ esp' = IF takes THEN esp + 1 ELSE esp
        /\ out' = IF takes THEN out \o Converted(c, call.values[esp])
                  ELSE IF c = "%" THEN Append(out, "%") ELSE out
  /\ i' = i + 1
  /\ UNCHANGED << call, old, mem, regs, result >>

Stop == pc = "done" /\ UNCHANGED vars

Block  == Top \/ Aligned \/ Rep \/ Bottom
String == strlen \/ strncmp \/ strcpy \/ strncpy
Printing == Text \/ Convert
Next == Block \/ String \/ Printing \/ Stop

Spec == Init /\ [][Next]_vars

-----------------------------------------------------------------------------
(***************************************************************************)
(* Properties.                                                             *)
(***************************************************************************)
\* When memset or memcpy returns, the n bytes from dest are those that lay at
\* src, or c, and all others are what they were, also where the blocks overlap
\* and wherever 4 divides an address (lib.c:362-396, 445-482).
BlockWritten ==
  pc = "done" /\ call.fn \in {"memset", "memcpy"} =>
    \A a \in Addr :
      mem[a] = IF a \notin call.dest .. call.dest + call.n - 1 THEN old[a]
               ELSE IF call.fn = "memset" THEN call.c
               ELSE old[call.src + (a - call.dest)]

\* The bytes of a string at a, up to n of them, with zeros after its end.
Prefix(m, a, n) == [k \in 0 .. n - 1 |->
                      IF \E j \in 0 .. k - 1 : m[a + j] = 0 THEN 0 ELSE m[a + k]]

\* How many bytes a string function writes at its destination.
Size == CASE call.fn = "strncpy" -> call.n
          [] call.fn = "strcpy" -> Strlen(old, call.src) + 1
          [] OTHER -> 0

Compare(p, q, n) ==
  LET differ == {k \in 0 .. n - 1 : p[k] # q[k]}
      first  == CHOOSE k \in differ : \A l \in differ : k <= l
  IN IF differ = {} THEN 0 ELSE int8_t(p[first]) - int8_t(q[first])

\* The string functions return what their comments say, and write that and
\* nothing else (lib.c:345-354, 515-570).
StringsRight ==
  pc = "done" =>
    /\ call.fn = "strlen" => result = Strlen(old, call.src)
    /\ call.fn = "strncmp" =>
         result = Compare(Prefix(old, call.dest, call.n),
                          Prefix(old, call.src, call.n), call.n)
    /\ call.fn \in {"strlen", "strncmp", "strcpy", "strncpy"} =>
         \A a \in Addr :
           mem[a] = IF a \in call.dest .. call.dest + Size - 1
                    THEN Prefix(old, call.src, Size)[a - call.dest] ELSE old[a]

Numeral(v, radix, n) ==
  [k \in 1 .. n |-> lookup[((v \div Power(radix)[n - k]) % radix) + 1]]
Shortest(v, radix) ==
  Numeral(v, radix, CHOOSE n \in 1 .. Width :
                      /\ v < Power(radix)[n]
                      /\ n > 1 => v >= Power(radix)[n - 1])

Expected(d, v) ==
  CASE d = "text" -> << "a" >>
    [] d = "%"  -> << "%" >>
    [] d \in {"x", "h"} -> Shortest(v, 16)
    [] d = "#x" -> Numeral(v, 16, HexDigits)
    [] d = "u"  -> Shortest(v, 10)
    [] d = "d"  -> IF Signed(v) < 0 THEN << "-" >> \o Shortest(-Signed(v), 10)
                                    ELSE Shortest(v, 10)
    [] d = "c"  -> AsChar(v)
    [] d = "s"  -> AsString(v)

\* What the first so many directives print, each with its own value.
AllExpected(ds, values) ==
  LET taken(k) == Cardinality({j \in 1 .. k : ds[j] \notin {"text", "%"}})
      upto[k \in 0 .. Len(ds)] ==
        IF k = 0 THEN << >>
        ELSE upto[k - 1] \o Expected(ds[k], values[IF taken(k) = 0 THEN 1 ELSE taken(k)])
  IN upto

\* printf prints each directive, in order, each with its own argument.
PrintsDirectives ==
  pc = "done" /\ call.fn = "printf" =>
    /\ result = Len(format)
    /\ out = AllExpected(call.directives, call.values)[Len(call.directives)]
=============================================================================
