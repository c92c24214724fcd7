--------------------------- MODULE UserPrograms_proofs ---------------------------
(***************************************************************************)
(* Theorems about UserPrograms, for every length of buffers, set of lines   *)
(* and of directories: execute runs the command that is typed, with its     *)
(* argument, and grep prints the lines that contain it, wherever the reads  *)
(* of a file end.                                                           *)
(***************************************************************************)
EXTENDS UserPrograms, TLAPS, FiniteSetTheorems, SequenceTheorems, WellFoundedInduction

-----------------------------------------------------------------------------
(* Induction, on the numbers up to n.                                      *)

\* A set of naturals that is not empty has a least element.
LEMMA LeastElement ==
  ASSUME NEW T \in SUBSET Nat, T # {}
  PROVE  \E m \in T : \A n \in T : m <= n
<1>1. PICK m \in T : \A n \in T : ~ << n, m >> \in OpToRel(<, Nat)
  BY NatLessThanWellFounded, WFMin, Zenon
<1>2. \A n \in T : ~(n < m)
  BY <1>1 DEF OpToRel
<1> QED
  BY <1>2

\* What holds of 0 and of each number after one of which it holds.
LEMMA Along ==
  ASSUME NEW n \in Nat, NEW S, 0 \in S, \A k \in 1 .. n : k - 1 \in S => k \in S
  PROVE  \A k \in 0 .. n : k \in S
<1> DEFINE T == {k \in 0 .. n : k \notin S}
<1>1. T = {}
  <2>1. SUFFICES ASSUME T # {} PROVE FALSE
    OBVIOUS
  <2>2. T \in SUBSET Nat
    OBVIOUS
  <2> HIDE DEF T
  <2>3. PICK m \in T : \A k \in T : m <= k
    BY <2>1, <2>2, LeastElement
  <2> USE DEF T
  <2>4. m \in 1 .. n /\ m - 1 \in 0 .. n /\ m - 1 \notin T
    BY <2>3
  <2> QED
    BY <2>4
<1> QED
  BY <1>1

-----------------------------------------------------------------------------
(* Arrays.                                                                 *)

\* An interval from 0 has as many elements as its length says.
LEMMA ArrayLength ==
  ASSUME NEW n \in Nat
  PROVE  Cardinality(0 .. n - 1) = n
<1>1. 0 \in Int /\ n - 1 \in Int
  OBVIOUS
<1>2. Cardinality(0 .. n - 1) = IF 0 > n - 1 THEN 0 ELSE ((n - 1) - 0) + 1
  BY <1>1, FS_Interval, Zenon
<1> QED
  BY <1>2

\* Find stops at the first place that is in stops, or at the array's end.
LEMMA FindIs ==
  ASSUME NEW n \in Nat, NEW a, DOMAIN a = 0 .. n - 1, NEW k \in 0 .. n, NEW stops
  PROVE  /\ Find(a, k, stops) \in k .. n
         /\ Find(a, k, stops) < n => a[Find(a, k, stops)] \in stops
         /\ \A j \in k .. Find(a, k, stops) - 1 : a[j] \notin stops
<1> DEFINE end == Cardinality(DOMAIN a)
           at == {j \in k .. end - 1 : a[j] \in stops}
           least == CHOOSE j \in at : \A l \in at : j <= l
<1>0. end = n
  BY ArrayLength
<1>1. Find(a, k, stops) = IF at = {} THEN n ELSE least
  <2>1. Find(a, k, stops) = IF at = {} THEN end ELSE least
    BY Zenon DEF Find
  <2> QED
    BY <1>0, <2>1
<1> HIDE DEF end
<1>2. CASE at = {}
  <2>1. \A j \in k .. n - 1 : a[j] \notin stops
    BY <1>0, <1>2
  <2> QED
    BY <1>1, <1>2, <2>1
<1>3. CASE at # {}
  <2>1. at \in SUBSET Nat
    BY <1>0
  <2> HIDE DEF at
  <2>2. \E j \in at : \A l \in at : j <= l
    BY <1>3, <2>1, LeastElement
  <2>3. least \in at /\ \A l \in at : least <= l
    BY <2>2
  <2> HIDE DEF least
  <2>4. Find(a, k, stops) = least
    BY <1>1, <1>3
  <2> QED
    BY <1>0, <2>3, <2>4 DEF at
<1> QED
  BY <1>2, <1>3

\* Where the first such place is known.
LEMMA FindAt ==
  ASSUME NEW n \in Nat, NEW a, DOMAIN a = 0 .. n - 1, NEW k \in 0 .. n, NEW stops,
         NEW m \in k .. n, m < n => a[m] \in stops,
         \A j \in k .. m - 1 : a[j] \notin stops
  PROVE  Find(a, k, stops) = m
<1> DEFINE f == Find(a, k, stops)
<1>1. /\ f \in k .. n
      /\ f < n => a[f] \in stops
      /\ \A j \in k .. f - 1 : a[j] \notin stops
  BY FindIs
<1> HIDE DEF f
<1>2. f = m
  BY <1>1
<1> QED
  BY <1>2 DEF f

-----------------------------------------------------------------------------
(* Words.                                                                  *)

\* Where the words of a line begin.
WordStarts(line) ==
  {k \in DOMAIN line : line[k] # Space /\ (k = 1 \/ line[k - 1] = Space)}
UpTo(S, k) == {j \in S : j <= k}

\* The word that begins at k goes on to e.
WordAt(line, k, e) ==
  /\ k \in 1 .. Len(line) /\ e \in k .. Len(line)
  /\ k = 1 \/ line[k - 1] = Space
  /\ \A j \in k .. e : line[j] # Space
  /\ e = Len(line) \/ line[e + 1] = Space

LEMMA WordEnd ==
  ASSUME NEW line, Len(line) \in Nat, NEW k, NEW e, WordAt(line, k, e)
  PROVE  Cardinality({l \in k .. Len(line) : \A j \in k .. l : line[j] # Space})
           = e - k + 1
<1> DEFINE S == {l \in k .. Len(line) : \A j \in k .. l : line[j] # Space}
<1>1. /\ k \in 1 .. Len(line) /\ e \in k .. Len(line)
      /\ \A j \in k .. e : line[j] # Space
      /\ e = Len(line) \/ line[e + 1] = Space
  BY DEF WordAt
<1>2. S = k .. e
  <2>1. ASSUME NEW l \in S PROVE l \in k .. e
    <3>1. SUFFICES ASSUME l > e PROVE FALSE
      BY <1>1
    <3>2. e + 1 \in k .. l /\ line[e + 1] = Space
      BY <1>1, <3>1
    <3> QED
      BY <3>2
  <2>2. \A l \in k .. e : l \in S
    BY <1>1
  <2> QED
    BY <2>1, <2>2
<1>3. k \in Int /\ e \in Int /\ ~(k > e)
  BY <1>1
<1>4. Cardinality(k .. e) = (e - k) + 1
  <2>1. Cardinality(k .. e) = IF k > e THEN 0 ELSE (e - k) + 1
    BY <1>3, FS_Interval, Zenon
  <2> QED
    BY <1>3, <2>1
<1> QED
  BY <1>2, <1>4

\* A word whose number is n is the one word of that number.
LEMMA WordIs ==
  ASSUME NEW line, Len(line) \in Nat, DOMAIN line = 1 .. Len(line), NEW n,
         NEW k, NEW e, WordAt(line, k, e),
         Cardinality(UpTo(WordStarts(line), k)) = n,
         \A l \in WordStarts(line) \ {k} : Cardinality(UpTo(WordStarts(line), l)) # n
  PROVE  Word(line, n) = SubSeq(line, k, e)
<1>0. /\ k \in 1 .. Len(line) /\ e \in k .. Len(line) /\ k \in Int /\ e \in Int
      /\ k \in k .. e
      /\ k = 1 \/ line[k - 1] = Space
      /\ \A j \in k .. e : line[j] # Space
  <2>1. /\ k \in 1 .. Len(line) /\ e \in k .. Len(line)
        /\ k = 1 \/ line[k - 1] = Space
        /\ \A j \in k .. e : line[j] # Space
    BY Zenon DEF WordAt
  <2> QED
    BY <2>1
<1> DEFINE first == {l \in DOMAIN line : line[l] # Space /\ (l = 1 \/ line[l - 1] = Space)}
           nth == {l \in first : Cardinality({j \in first : j <= l}) = n}
           end(l) == {m \in l .. Len(line) : \A j \in l .. m : line[j] # Space}
           chosen == CHOOSE l \in nth : TRUE
<1>1. first = WordStarts(line)
  BY DEF WordStarts
<1>2. k \in first
  BY <1>0
<1>3. \A l \in first : {j \in first : j <= l} = UpTo(WordStarts(line), l)
  BY <1>1 DEF UpTo
<1>4. nth = {k}
  BY <1>1, <1>2, <1>3
<1>5. chosen = k
  BY <1>4
<1>6. Word(line, n) = SubSeq(line, chosen, chosen + Cardinality(end(chosen)) - 1)
  <2>1. nth # {}
    BY <1>4
  <2> QED
    BY <2>1, Zenon DEF Word
<1>7. Cardinality(end(k)) = e - k + 1
  BY WordEnd
<1>8. k + (e - k + 1) - 1 = e
  BY <1>0
<1> QED
  BY <1>5, <1>6, <1>7, <1>8

LEMMA NoWordIs ==
  ASSUME NEW line, NEW n,
         \A l \in WordStarts(line) : Cardinality(UpTo(WordStarts(line), l)) # n
  PROVE  Word(line, n) = << >>
<1> DEFINE first == {l \in DOMAIN line : line[l] # Space /\ (l = 1 \/ line[l - 1] = Space)}
           nth == {l \in first : Cardinality({j \in first : j <= l}) = n}
<1>1. first = WordStarts(line)
  BY DEF WordStarts
<1>2. nth = {}
  BY <1>1 DEF UpTo
<1> QED
  BY <1>2, Zenon DEF Word

\* Sets of few numbers.
AreFew(a, b, c) == Cardinality({a, b}) = 2 /\ Cardinality({a, b, c}) = 3

LEMMA Few ==
  ASSUME NEW a, NEW b, NEW c, a # b, a # c, b # c
  PROVE  AreFew(a, b, c)
<1>1. IsFiniteSet({a}) /\ Cardinality({a}) = 1
  BY FS_Singleton
<1>2. IsFiniteSet({a} \cup {b}) /\ Cardinality({a} \cup {b}) = 1 + 1
  BY <1>1, FS_AddElement
<1>3. {a} \cup {b} = {a, b}
  OBVIOUS
<1>4. IsFiniteSet({a, b}) /\ Cardinality({a, b}) = 2
  BY <1>2, <1>3
<1>5. /\ IsFiniteSet({a, b} \cup {c}) /\ Cardinality({a, b} \cup {c}) = 2 + 1
  <2>1. c \notin {a, b}
    OBVIOUS
  <2> QED
    BY <1>4, <2>1, FS_AddElement
<1>6. {a, b} \cup {c} = {a, b, c}
  OBVIOUS
<1> QED
  BY <1>4, <1>5, <1>6 DEF AreFew

\* The words of a line are finitely many, up to each place.
LEMMA StartsFinite ==
  ASSUME NEW line, Len(line) \in Nat, DOMAIN line = 1 .. Len(line), NEW k,
         NEW S \in SUBSET UpTo(WordStarts(line), k)
  PROVE  /\ Cardinality(S) <= Cardinality(UpTo(WordStarts(line), k))
         /\ Cardinality(UpTo(WordStarts(line), k)) \in Nat
<1>1. IsFiniteSet(1 .. Len(line))
  <2>1. 1 \in Int /\ Len(line) \in Int
    OBVIOUS
  <2> QED
    BY <2>1, FS_Interval, Zenon
<1>2. UpTo(WordStarts(line), k) \in SUBSET (1 .. Len(line))
  BY DEF UpTo, WordStarts
<1>3. IsFiniteSet(UpTo(WordStarts(line), k))
  BY <1>1, <1>2, FS_Subset, Zenon
<1> QED
  BY <1>3, FS_Subset, FS_CardinalityType, Zenon

\* The first word of a line that begins with one.
LEMMA FirstWord ==
  ASSUME NEW line, Len(line) \in Nat, DOMAIN line = 1 .. Len(line),
         NEW e, WordAt(line, 1, e)
  PROVE  /\ Word(line, 1) = SubSeq(line, 1, e)
         /\ 1 \in WordStarts(line)
         /\ Cardinality(UpTo(WordStarts(line), 1)) = 1
<1> DEFINE W == WordStarts(line)
<1>1. 1 \in W
  <2>1. 1 \in 1 .. Len(line) /\ e \in 1 .. Len(line) /\ \A j \in 1 .. e : line[j] # Space
    BY Zenon DEF WordAt
  <2>2. 1 \in 1 .. e
    BY <2>1
  <2>3. line[1] # Space
    BY <2>1, <2>2, Zenon
  <2> QED
    BY <2>1, <2>3 DEF WordStarts
<1>2. UpTo(W, 1) = {1}
  BY <1>1 DEF UpTo, WordStarts
<1>3. Cardinality(UpTo(W, 1)) = 1
  BY <1>2, FS_Singleton
<1>4. ASSUME NEW l \in W \ {1}
      PROVE  Cardinality(UpTo(W, l)) # 1
  <2>1. {1, l} \in SUBSET UpTo(W, l)
    BY <1>1 DEF UpTo, WordStarts
  <2>2. Cardinality({1, l}) = 2
    <3>1. \E c : c # 1 /\ c # l
      <4>1. l \in Int
        BY DEF WordStarts
      <4>2. (l + 1 # 1 /\ l + 1 # l) \/ (l + 2 # 1 /\ l + 2 # l)
        BY <4>1
      <4> QED
        BY <4>2
    <3>2. PICK c : c # 1 /\ c # l
      BY <3>1
    <3>3. 1 # l
      OBVIOUS
    <3>4. AreFew(1, l, c)
      BY <3>2, <3>3, Few, Zenon
    <3> QED
      BY <3>4 DEF AreFew
  <2>3. 2 <= Cardinality(UpTo(W, l)) /\ Cardinality(UpTo(W, l)) \in Nat
    BY <2>1, <2>2, StartsFinite
  <2> QED
    BY <2>3
<1>5. Word(line, 1) = SubSeq(line, 1, e)
  BY <1>3, <1>4, WordIs
<1> QED
  BY <1>1, <1>3, <1>5

\* The second word, behind spaces.
LEMMA SecondWord ==
  ASSUME NEW line, Len(line) \in Nat, DOMAIN line = 1 .. Len(line),
         NEW e, WordAt(line, 1, e), NEW k, NEW f, WordAt(line, k, f),
         e < k, \A j \in e + 1 .. k - 1 : line[j] = Space
  PROVE  Word(line, 2) = SubSeq(line, k, f)
<1> DEFINE W == WordStarts(line)
<1>1. /\ e \in 1 .. Len(line) /\ k \in 1 .. Len(line) /\ k # 1
      /\ \A j \in 1 .. e : line[j] # Space
      /\ line[k] # Space
  <2>1. /\ e \in 1 .. Len(line) /\ \A j \in 1 .. e : line[j] # Space
        /\ k \in 1 .. Len(line) /\ f \in k .. Len(line)
        /\ \A j \in k .. f : line[j] # Space
    BY Zenon DEF WordAt
  <2> QED
    BY <2>1
<1>2. 1 \in W /\ k \in W /\ W \in SUBSET (1 .. Len(line))
  BY <1>1, FirstWord, Zenon DEF WordAt, WordStarts
<1>3. ASSUME NEW j \in W, j <= k PROVE j = 1 \/ j = k
  <2>1. SUFFICES ASSUME j # 1, j # k PROVE FALSE
    OBVIOUS
  <2>2. j \in 1 .. Len(line) /\ line[j] # Space /\ line[j - 1] = Space
    BY <2>1 DEF WordStarts
  <2>3. CASE j <= e
    BY <1>1, <2>1, <2>2, <2>3
  <2>4. CASE ~(j <= e)
    BY <1>1, <1>3, <2>1, <2>2, <2>4
  <2> QED
    BY <2>3, <2>4
<1>4. UpTo(W, k) = {1, k}
  BY <1>1, <1>2, <1>3 DEF UpTo
<1>5. Cardinality({1, k}) = 2 /\ \A l : l # 1 /\ l # k => Cardinality({1, k, l}) = 3
  <2>1. \E c : c # 1 /\ c # k
    <3>1. k \in Int
      BY <1>1
    <3>2. (k + 1 # 1 /\ k + 1 # k) \/ (k + 2 # 1 /\ k + 2 # k)
      BY <3>1
    <3> QED
      BY <3>2
  <2>2. 1 # k
    BY <1>1
  <2>3. PICK c : 1 # c /\ k # c
    BY <2>1
  <2>4. Cardinality({1, k}) = 2
    <3>1. AreFew(1, k, c)
      BY <2>2, <2>3, Few, Zenon
    <3> QED
      BY <3>1 DEF AreFew
  <2>5. ASSUME NEW l, l # 1, l # k PROVE Cardinality({1, k, l}) = 3
    <3>1. 1 # l /\ k # l
      BY <2>5
    <3>2. AreFew(1, k, l)
      BY <2>2, <3>1, Few, Zenon
    <3> QED
      BY <3>2 DEF AreFew
  <2> QED
    BY <2>4, <2>5
<1>6. ASSUME NEW l \in W \ {k}
      PROVE  Cardinality(UpTo(W, l)) # 2
  <2>1. CASE l = 1
    BY <2>1, FirstWord
  <2>2. CASE l # 1
    <3>1. l \in 1 .. Len(line) /\ ~(l <= k)
      BY <1>2, <1>3, <2>2
    <3>2. {1, k, l} \in SUBSET UpTo(W, l)
      BY <1>1, <1>2, <3>1 DEF UpTo
    <3>3. 3 <= Cardinality(UpTo(W, l)) /\ Cardinality(UpTo(W, l)) \in Nat
      BY <1>5, <2>2, <3>2, StartsFinite
    <3> QED
      BY <3>3
  <2> QED
    BY <2>1, <2>2
<1>7. Cardinality(UpTo(W, k)) = 2
  BY <1>4, <1>5
<1> QED
  BY <1>6, <1>7, WordIs

\* No second word.
LEMMA OneWord ==
  ASSUME NEW line, Len(line) \in Nat, DOMAIN line = 1 .. Len(line),
         NEW e, WordAt(line, 1, e), \A j \in e + 1 .. Len(line) : line[j] = Space
  PROVE  Word(line, 2) = << >>
<1> DEFINE W == WordStarts(line)
<1>1. e \in 1 .. Len(line) /\ \A j \in 1 .. e : line[j] # Space
  BY Zenon DEF WordAt
<1>2. ASSUME NEW l \in W PROVE Cardinality(UpTo(W, l)) # 2
  <2>1. l \in 1 .. Len(line) /\ line[l] # Space /\ (l = 1 \/ line[l - 1] = Space)
    BY DEF WordStarts
  <2>2. l = 1
    <3>1. SUFFICES ASSUME l # 1 PROVE FALSE
      OBVIOUS
    <3>2. CASE l <= e
      BY <1>1, <2>1, <3>1, <3>2
    <3>3. CASE ~(l <= e)
      BY <1>1, <2>1, <3>3
    <3> QED
      BY <3>2, <3>3
  <2> QED
    BY <2>2, FirstWord
<1> QED
  BY <1>2, NoWordIs

-----------------------------------------------------------------------------
(* From the line in the shell's buf to the name and argument of execute.   *)

\* Buf holds the line that execute is called with, and its NUL.
LineInv ==
  /\ world \in DOMAIN Worlds
  /\ buf \in [0 .. BufLen - 1 -> Bytes]
  /\ pc = "execute" =>
       /\ typed \in Worlds[world].lines /\ typed # << >> /\ Plain(typed)
       /\ \A k \in 0 .. Len(typed) :
            buf[k] = IF k < Len(typed) THEN typed[k + 1] ELSE NUL

\* The line, as a sequence and in the array.
LEMMA LineIs ==
  ASSUME LineInv, pc = "execute"
  PROVE  /\ BufLen \in Nat /\ DOMAIN buf = 0 .. BufLen - 1
         /\ typed \in Seq(Bytes \ {NUL, NL, Junk})
         /\ Len(typed) \in Nat /\ 1 <= Len(typed) /\ Len(typed) + 1 < BufLen
         /\ DOMAIN typed = 1 .. Len(typed)
         /\ \A j \in 1 .. Len(typed) : /\ typed[j] \in Bytes \ {NUL, NL, Junk}
                                       /\ buf[j - 1] = typed[j]
         /\ buf[Len(typed)] = NUL
<1>1. /\ typed \in Seq(Bytes \ {NUL, NL, Junk}) /\ Len(typed) + 1 < BufLen
      /\ typed # << >> /\ BufLen \in Nat /\ buf \in [0 .. BufLen - 1 -> Bytes]
  BY WorldsAssumption, ConstantsAssumption, Zenon DEF LineInv
<1>2. \A k \in 0 .. Len(typed) :
        buf[k] = IF k < Len(typed) THEN typed[k + 1] ELSE NUL
  BY Zenon DEF LineInv
<1>3. /\ Len(typed) \in Nat /\ DOMAIN typed = 1 .. Len(typed) /\ 1 <= Len(typed)
      /\ \A j \in 1 .. Len(typed) : typed[j] \in Bytes \ {NUL, NL, Junk}
  BY <1>1
<1>4. \A j \in 1 .. Len(typed) : buf[j - 1] = typed[j]
  <2>1. SUFFICES ASSUME NEW j \in 1 .. Len(typed) PROVE buf[j - 1] = typed[j]
    OBVIOUS
  <2>2. j - 1 \in 0 .. Len(typed) /\ j - 1 < Len(typed) /\ (j - 1) + 1 = j
    BY <1>3
  <2> QED
    BY <1>2, <2>2
<1>5. buf[Len(typed)] = NUL
  <2>1. Len(typed) \in 0 .. Len(typed) /\ ~(Len(typed) < Len(typed))
    BY <1>3
  <2> QED
    BY <1>2, <2>1
<1> QED
  BY <1>1, <1>3, <1>4, <1>5

\* The name lies in the line.
LEMMA StopIs ==
  ASSUME LineInv, pc = "execute"
  PROVE  /\ Lead \in 0 .. Len(typed) /\ Stop \in Lead .. Len(typed)
         /\ buf[Stop] \in {Space, NUL}
         /\ \A j \in Lead .. Stop - 1 : buf[j] \notin {Space, NUL}
<1>1. /\ BufLen \in Nat /\ DOMAIN buf = 0 .. BufLen - 1
      /\ Len(typed) \in Nat /\ Len(typed) + 1 < BufLen /\ buf[Len(typed)] = NUL
      /\ 0 \in 0 .. BufLen /\ Len(typed) \in DOMAIN buf
  BY LineIs
<1>2. Lead \in 0 .. BufLen /\ \A j \in 0 .. Lead - 1 : buf[j] \notin NonSpace
  BY <1>1, FindIs, Zenon DEF Lead
<1>3. buf[Len(typed)] \in NonSpace
  BY <1>1 DEF NonSpace, NUL, Space
<1>4. Lead \in 0 .. Len(typed)
  BY <1>1, <1>2, <1>3
<1>5. /\ Stop \in Lead .. BufLen
      /\ Stop < BufLen => buf[Stop] \in {Space, NUL}
      /\ \A j \in Lead .. Stop - 1 : buf[j] \notin {Space, NUL}
  BY <1>1, <1>2, FindIs, Zenon DEF Stop
<1>6. Stop \in Lead .. Len(typed)
  BY <1>1, <1>4, <1>5
<1> QED
  BY <1>1, <1>4, <1>5, <1>6

\* A line that does not begin with a space begins with the name.
LEMMA NameIs ==
  ASSUME LineInv, pc = "execute", "leading" \notin Hazards
  PROVE  /\ Lead = 0 /\ Stop \in 1 .. Len(typed)
         /\ WordAt(typed, 1, Stop)
         /\ Word(typed, 1) = SubSeq(typed, 1, Stop)
<1>1. /\ BufLen \in Nat /\ DOMAIN buf = 0 .. BufLen - 1
      /\ Len(typed) \in Nat /\ 1 <= Len(typed) /\ Len(typed) + 1 < BufLen
      /\ DOMAIN typed = 1 .. Len(typed)
      /\ \A j \in 1 .. Len(typed) : /\ typed[j] \in Bytes \ {NUL, NL, Junk}
                                    /\ buf[j - 1] = typed[j]
      /\ typed \in Seq(Bytes \ {NUL, NL, Junk})
      /\ 0 \in 0 .. BufLen /\ 0 \in DOMAIN buf
  BY LineIs
<1>2. typed[1] # Space
  <2>1. typed # << >> /\ Head(typed) # Space
    BY Zenon DEF LineInv, Plain
  <2> QED
    BY <1>1, <2>1
<1>3. buf[0] = typed[1] /\ typed[1] # NUL
  BY <1>1
<1>4. Lead = 0
  <2>1. buf[0] \in NonSpace
    BY <1>1, <1>2, <1>3 DEF NonSpace
  <2>2. 0 \in 0 .. BufLen /\ \A j \in 0 .. 0 - 1 : buf[j] \notin NonSpace
    BY <1>1
  <2> QED
    BY <1>1, <2>1, <2>2, FindAt, Zenon DEF Lead
<1>5. /\ Stop \in 0 .. Len(typed) /\ buf[Stop] \in {Space, NUL}
      /\ \A j \in 0 .. Stop - 1 : buf[j] \notin {Space, NUL}
  BY <1>4, StopIs
<1>6. Stop \in 1 .. Len(typed)
  BY <1>1, <1>2, <1>3, <1>5
<1>7. ASSUME NEW j \in 1 .. Stop PROVE typed[j] # Space
  <2>1. j \in 1 .. Len(typed) /\ j - 1 \in 0 .. Stop - 1
    BY <1>1, <1>6
  <2> QED
    BY <1>1, <1>5, <2>1
<1>8. Stop = Len(typed) \/ typed[Stop + 1] = Space
  <2>1. SUFFICES ASSUME Stop # Len(typed) PROVE typed[Stop + 1] = Space
    OBVIOUS
  <2>2. Stop + 1 \in 1 .. Len(typed) /\ (Stop + 1) - 1 = Stop
    <3>1. Len(typed) \in Nat /\ Stop \in 1 .. Len(typed)
      BY <1>1, <1>6, Zenon
    <3> QED
      BY <2>1, <3>1
  <2>3. buf[Stop] = typed[Stop + 1] /\ typed[Stop + 1] # NUL
    BY <1>1, <2>2
  <2> QED
    BY <1>5, <2>3
<1>9. WordAt(typed, 1, Stop)
  <2>1. 1 \in 1 .. Len(typed)
    BY <1>1
  <2> QED
    BY <1>6, <1>7, <1>8, <2>1, Zenon DEF WordAt
<1> QED
  BY <1>1, <1>4, <1>6, <1>9, FirstWord, Zenon

\* If there is room for its NUL, it is the name that is looked for.
LEMMA NameParsed ==
  ASSUME LineInv, pc = "execute", "leading" \notin Hazards, Stop < MaxParsed
  PROVE  name = SubSeq(typed, 1, Stop)
<1>1. /\ Lead = 0 /\ Stop \in 1 .. Len(typed) /\ MaxParsed \in Nat
      /\ Len(typed) \in Nat
      /\ typed \in Seq(Bytes \ {NUL, NL, Junk})
      /\ \A j \in 1 .. Len(typed) : typed[j] # NUL /\ buf[j - 1] = typed[j]
  BY NameIs, LineIs, ConstantsAssumption
<1> DEFINE P == parsed_command
<1>2. P = [k \in 0 .. MaxParsed - 1 |-> IF k < Stop - Lead THEN buf[Lead + k]
                                        ELSE IF k >= Stop THEN NUL ELSE Junk]
  BY Zenon DEF parsed_command
<1>3. DOMAIN P = 0 .. MaxParsed - 1
  BY <1>2
<1>4. \A k \in 0 .. Stop - 1 : P[k] = typed[k + 1]
  <2>1. SUFFICES ASSUME NEW k \in 0 .. Stop - 1 PROVE P[k] = typed[k + 1]
    OBVIOUS
  <2>2. /\ k \in 0 .. MaxParsed - 1 /\ k < Stop - Lead /\ Lead + k = k
        /\ k + 1 \in 1 .. Len(typed) /\ (k + 1) - 1 = k
    BY <1>1
  <2>3. P[k] = buf[k]
    BY <1>2, <2>2
  <2> QED
    BY <1>1, <2>2, <2>3
<1>5. P[Stop] = NUL
  <2>1. Stop \in 0 .. MaxParsed - 1 /\ ~(Stop < Stop - Lead) /\ Stop >= Stop
    BY <1>1
  <2> QED
    BY <1>2, <2>1
<1> HIDE DEF P
<1>6. Find(P, 0, {NUL}) = Stop
  <2>1. /\ 0 \in 0 .. MaxParsed /\ Stop \in 0 .. MaxParsed
        /\ P[Stop] \in {NUL}
    BY <1>1, <1>5
  <2>2. \A j \in 0 .. Stop - 1 : P[j] \notin {NUL}
    BY <1>1, <1>4
  <2> QED
    BY <1>1, <1>3, <2>1, <2>2, FindAt, Zenon
<1>7. Str(P, 0) = SubSeq(typed, 1, Stop)
  <2>1. Str(P, 0) = [j \in 1 .. Stop - 0 |-> P[0 + j - 1]]
    BY <1>6, Zenon DEF Str, Cut
  <2>2. /\ SubSeq(typed, 1, Stop) = [j \in 1 .. Stop |-> typed[1 + j - 1]]
    BY <1>1
  <2>3. Stop - 0 = Stop
    BY <1>1
  <2>4. ASSUME NEW j \in 1 .. Stop PROVE P[0 + j - 1] = typed[1 + j - 1]
    <3>1. 0 + j - 1 = j - 1 /\ j - 1 \in 0 .. Stop - 1 /\ 1 + j - 1 = j /\ (j - 1) + 1 = j
      BY <1>1
    <3> QED
      BY <1>4, <3>1
  <2> QED
    BY <2>1, <2>2, <2>3, <2>4
<1>8. Len(SubSeq(typed, 1, Stop)) # MaxParsed
  BY <1>1
<1> QED
  BY <1>7, <1>8, Zenon DEF name, P

\* What execute parses is what the line says.
LEMMA ArgumentIs ==
  ASSUME LineInv, pc = "execute", "leading" \notin Hazards
  PROVE  argument = Word(typed, 2) \/ Word(typed, 2) = << >>
<1>1. /\ BufLen \in Nat /\ DOMAIN buf = 0 .. BufLen - 1
      /\ Len(typed) \in Nat /\ Len(typed) + 1 < BufLen
      /\ DOMAIN typed = 1 .. Len(typed)
      /\ \A j \in 1 .. Len(typed) : typed[j] # NUL /\ buf[j - 1] = typed[j]
      /\ buf[Len(typed)] = NUL
      /\ typed \in Seq(Bytes \ {NUL, NL, Junk})
  BY LineIs, Zenon DEF LineInv
<1>2. Stop \in 1 .. Len(typed) /\ WordAt(typed, 1, Stop)
  BY NameIs
<1>3. CASE \A j \in Stop + 1 .. Len(typed) : typed[j] = Space
  <2>1. Word(typed, 2) = << >>
    BY <1>1, <1>2, <1>3, OneWord, Zenon
  <2> QED
    BY <2>1
<1>4. ASSUME NEW m \in Stop + 1 .. Len(typed), typed[m] # Space
      PROVE  argument = Word(typed, 2)
  <2> DEFINE start == Find(buf, Stop + 1, NonSpace)
             f == Find(buf, start, {Space, NUL})
  <2>0. argument = Cut(buf, start, f)
    BY Zenon DEF argument
  <2>1. Stop < Len(typed) /\ typed[Stop + 1] = Space
    <3>1. Stop = Len(typed) \/ typed[Stop + 1] = Space
      BY <1>2, Zenon DEF WordAt
    <3>2. Stop < Len(typed)
      BY <1>1, <1>2, <1>4
    <3>3. Stop # Len(typed)
      <4>1. Stop \in Nat /\ Len(typed) \in Nat
        BY <1>1, <1>2
      <4> QED
        BY <3>2, <4>1
    <3> QED
      BY <3>1, <3>2, <3>3, Zenon
  <2>2. /\ start \in Stop + 1 .. BufLen
        /\ start < BufLen => buf[start] \in NonSpace
        /\ \A j \in Stop + 1 .. start - 1 : buf[j] \notin NonSpace
    <3>1. Stop + 1 \in 0 .. BufLen
      BY <1>1, <1>2
    <3> QED
      BY <1>1, <3>1, FindIs, Zenon
  <2>3. \A j \in 0 .. BufLen - 1 : buf[j] \in NonSpace <=> buf[j] # Space
    BY <1>1 DEF NonSpace
  <2>4. m # Stop + 1 /\ m - 1 \in Stop + 1 .. Len(typed) - 1 /\ buf[m - 1] # Space
    BY <1>1, <1>2, <1>4, <2>1
  <2> HIDE DEF start, f
  <2>5. start \in Stop + 1 .. Len(typed) - 1
    <3>1. buf[m - 1] \in NonSpace
      BY <1>1, <1>2, <2>3, <2>4
    <3> QED
      BY <1>1, <1>2, <2>2, <2>4, <3>1
  <2>6. buf[start] # Space /\ buf[start] = typed[start + 1]
    <3>1. /\ start \in 0 .. BufLen - 1 /\ start < BufLen
          /\ start + 1 \in 1 .. Len(typed) /\ (start + 1) - 1 = start
      BY <1>1, <1>2, <2>5
    <3> QED
      BY <1>1, <2>2, <2>3, <3>1
  <2>7. \A j \in Stop + 1 .. start : typed[j] = Space
    <3>1. SUFFICES ASSUME NEW j \in Stop + 1 .. start PROVE typed[j] = Space
      OBVIOUS
    <3>2. CASE j = Stop + 1
      BY <2>1, <3>2
    <3>3. CASE j # Stop + 1
      <4>1. /\ j - 1 \in Stop + 1 .. start - 1 /\ j - 1 \in 0 .. BufLen - 1
            /\ j \in 1 .. Len(typed)
        BY <1>1, <1>2, <2>5, <3>1, <3>3
      <4> QED
        BY <1>1, <2>2, <2>3, <4>1
    <3> QED
      BY <3>2, <3>3
  <2>8. /\ f \in start .. BufLen
        /\ f < BufLen => buf[f] \in {Space, NUL}
        /\ \A j \in start .. f - 1 : buf[j] \notin {Space, NUL}
    <3>1. start \in 0 .. BufLen
      BY <1>1, <1>2, <2>5
    <3> QED
      BY <1>1, <3>1, FindIs, Zenon DEF f
  <2>9. f \in start + 1 .. Len(typed)
    <3>1. typed[start + 1] # NUL
      BY <1>1, <1>2, <2>5
    <3>2. f # start
      BY <1>1, <1>2, <2>5, <2>6, <2>8, <3>1
    <3>3. f <= Len(typed)
      BY <1>1, <1>2, <2>5, <2>8
    <3> QED
      BY <1>1, <1>2, <2>5, <2>8, <3>2, <3>3
  <2>10. WordAt(typed, start + 1, f)
    <3>1. start + 1 \in 1 .. Len(typed) /\ f \in start + 1 .. Len(typed)
      BY <1>1, <1>2, <2>5, <2>9
    <3>2. typed[(start + 1) - 1] = Space
      BY <1>1, <1>2, <2>5, <2>7
    <3>3. ASSUME NEW j \in start + 1 .. f PROVE typed[j] # Space
      <4>1. j \in 1 .. Len(typed) /\ j - 1 \in start .. f - 1
        BY <1>1, <1>2, <2>5, <2>9
      <4> QED
        BY <1>1, <2>8, <4>1
    <3>4. f = Len(typed) \/ typed[f + 1] = Space
      <4>1. SUFFICES ASSUME f # Len(typed) PROVE typed[f + 1] = Space
        OBVIOUS
      <4>2. f + 1 \in 1 .. Len(typed) /\ (f + 1) - 1 = f /\ f < BufLen
        BY <1>1, <1>2, <2>5, <2>9, <4>1
      <4> QED
        BY <1>1, <2>8, <4>2
    <3> QED
      BY <3>1, <3>2, <3>3, <3>4, Zenon DEF WordAt
  <2>11. Word(typed, 2) = SubSeq(typed, start + 1, f)
    <3>1. Stop < start + 1 /\ (start + 1) - 1 = start
      BY <1>1, <1>2, <2>5
    <3>2. /\ Len(typed) \in Nat /\ DOMAIN typed = 1 .. Len(typed)
          /\ WordAt(typed, 1, Stop)
      BY <1>1, <1>2, Zenon
    <3>3. \A j \in Stop + 1 .. (start + 1) - 1 : typed[j] = Space
      BY <2>7, <3>1
    <3> QED
      BY <2>10, <3>1, <3>2, <3>3, SecondWord, Zenon
  <2>12. argument = SubSeq(typed, start + 1, f)
    <3>1. argument = [j \in 1 .. f - start |-> buf[start + j - 1]]
      BY <2>0, Zenon DEF Cut
    <3>2. /\ Stop \in Nat /\ start \in Nat /\ f \in Nat /\ start + 1 >= 1 /\ f <= Len(typed)
          /\ f - start = f - (start + 1) + 1
      BY <1>1, <1>2, <2>5, <2>9
    <3>3. SubSeq(typed, start + 1, f) = [j \in 1 .. f - start |-> typed[(start + 1) + j - 1]]
      <4>1. \A m1, n1 \in Int : SubSeq(typed, m1, n1) = [j \in 1 .. n1 - m1 + 1 |-> typed[m1 + j - 1]]
        BY <1>1
      <4>2. start + 1 \in Int /\ f \in Int
        BY <3>2
      <4> QED
        BY <3>2, <4>1, <4>2
    <3>4. ASSUME NEW j \in 1 .. f - start PROVE buf[start + j - 1] = typed[(start + 1) + j - 1]
      <4>1. /\ start + j - 1 = (start + j) - 1 /\ (start + 1) + j - 1 = start + j
            /\ start + j \in 1 .. Len(typed)
        BY <1>1, <3>2
      <4> QED
        BY <1>1, <4>1
    <3> QED
      BY <3>1, <3>3, <3>4
  <2> QED
    BY <2>11, <2>12
<1> QED
  BY <1>3, <1>4

\* A line that is read is in buf when execute is called.
LEMMA LineInvInit == Init => LineInv
  <1> SUFFICES ASSUME Init PROVE LineInv
    OBVIOUS
  <1>1. buf \in [0 .. BufLen - 1 -> Bytes]
    <2>1. buf = [k \in 0 .. BufLen - 1 |-> Junk] /\ Junk \in Bytes
      BY ConstantsAssumption, Zenon DEF Init
    <2> QED
      BY <2>1
  <1>2. world \in DOMAIN Worlds /\ pc = "prompt"
    BY Zenon DEF Init
  <1>3. "prompt" # "execute"
    OBVIOUS
  <1> QED
    BY <1>1, <1>2, <1>3, Zenon DEF LineInv

LEMMA LineInvStep == LineInv /\ [Next]_vars => LineInv'
<1> SUFFICES ASSUME LineInv, [Next]_vars PROVE LineInv'
  OBVIOUS
<1>0. /\ "prompt" # "execute" /\ "main" # "execute" /\ "dir" # "execute"
      /\ "read" # "execute" /\ "lines" # "execute"
  OBVIOUS
<1>1. CASE ReadLine
  <2>1. PICK line \in Worlds[world].lines :
          /\ Plain(line) /\ typed' = line
          /\ buf' = IF line = exit THEN [k \in DOMAIN buf |-> Junk]
                    ELSE [k \in DOMAIN buf |-> IF k < Len(line) THEN line[k + 1]
                                               ELSE IF k = Len(line) THEN NUL
                                               ELSE buf[k]]
          /\ pc' = IF line \in {<< >>, exit} THEN "prompt" ELSE "execute"
    BY <1>1, Zenon DEF ReadLine
  <2>2. world' = world
    BY <1>1, Zenon DEF ReadLine
  <2>3. /\ line \in Seq(Bytes \ {NUL, NL, Junk}) /\ Len(line) + 1 < BufLen
        /\ BufLen \in Nat /\ {NUL, NL, Space, Junk} \subseteq Bytes
        /\ buf \in [0 .. BufLen - 1 -> Bytes]
    BY WorldsAssumption, ConstantsAssumption, Zenon DEF LineInv
  <2>4. /\ Len(line) \in Nat /\ DOMAIN buf = 0 .. BufLen - 1 /\ NUL \in Bytes /\ Junk \in Bytes
        /\ \A k \in 0 .. BufLen - 1 : buf[k] \in Bytes
        /\ \A k \in 1 .. Len(line) : line[k] \in Bytes
    BY <2>3
  <2>5. buf' \in [0 .. BufLen - 1 -> Bytes]
    <3>1. CASE line = exit
      BY <2>1, <2>4, <3>1
    <3>2. CASE line # exit
      <4>1. buf' = [k \in 0 .. BufLen - 1 |-> IF k < Len(line) THEN line[k + 1]
                                              ELSE IF k = Len(line) THEN NUL
                                              ELSE buf[k]]
        BY <2>1, <2>4, <3>2
      <4>2. ASSUME NEW k \in 0 .. BufLen - 1, k < Len(line) PROVE line[k + 1] \in Bytes
        <5>1. k + 1 \in 1 .. Len(line)
          BY <2>4, <4>2
        <5> QED
          BY <2>4, <5>1
      <4> QED
        BY <2>4, <4>1, <4>2
    <3> QED
      BY <3>1, <3>2
  <2>6. ASSUME pc' = "execute"
        PROVE  /\ typed' \in Worlds[world].lines /\ typed' # << >> /\ Plain(typed')
               /\ \A k \in 0 .. Len(typed') :
                    buf'[k] = IF k < Len(typed') THEN typed'[k + 1] ELSE NUL
    <3>1. line # << >> /\ line # exit
      BY <1>0, <2>1, <2>6
    <3>2. buf' = [k \in 0 .. BufLen - 1 |-> IF k < Len(line) THEN line[k + 1]
                                            ELSE IF k = Len(line) THEN NUL
                                            ELSE buf[k]]
      BY <2>1, <2>4, <3>1
    <3>3. ASSUME NEW k \in 0 .. Len(line)
          PROVE  buf'[k] = IF k < Len(line) THEN line[k + 1] ELSE NUL
      <4>1. k \in 0 .. BufLen - 1 /\ (k < Len(line) \/ k = Len(line))
        BY <2>3, <2>4
      <4> QED
        BY <3>2, <4>1
    <3> QED
      BY <2>1, <3>1, <3>3, Zenon
  <2>7. Plain(typed)' <=> Plain(typed')
    BY DEF Plain
  <2> QED
    BY <2>2, <2>5, <2>6, <2>7, Zenon DEF LineInv
<1>2. ASSUME pc' # "execute" \/ UNCHANGED << pc, typed >>, UNCHANGED << world, buf >>
      PROVE  LineInv'
  <2>1. CASE pc' # "execute"
    BY <1>2, <2>1, Zenon DEF LineInv
  <2>2. CASE UNCHANGED << pc, typed >>
    BY <1>2, <2>2 DEF LineInv, Plain
  <2> QED
    BY <1>2, <2>1, <2>2, Zenon
<1>3. CASE Execute
  <2>1. pc' # "execute" /\ UNCHANGED << world, buf >>
    BY <1>0, <1>3, Zenon DEF Execute
  <2> QED
    BY <1>2, <2>1
<1>4. CASE Main
  <2>1. pc' # "execute" /\ UNCHANGED << world, buf >>
    BY <1>0, <1>4, Zenon DEF Main
  <2> QED
    BY <1>2, <2>1
<1>5. CASE NextEntry
  <2>1. pc' # "execute" /\ UNCHANGED << world, buf >>
    BY <1>0, <1>5, Zenon DEF NextEntry
  <2> QED
    BY <1>2, <2>1
<1>6. CASE Read \/ Carry
  <2>1. pc' # "execute" /\ UNCHANGED << world, buf >>
    BY <1>0, <1>6, Zenon DEF Read, Carry, shell
  <2> QED
    BY <1>2, <2>1
<1>7. CASE Search
  <2>1. pc = "lines" /\ (pc' \in {"dir", "read"} \/ pc' = pc) /\ UNCHANGED << world, buf >>
    BY <1>7, Zenon DEF Search, shell
  <2>2. pc' # "execute"
    BY <1>0, <2>1
  <2> QED
    BY <1>2, <2>1, <2>2
<1>8. CASE Idle \/ UNCHANGED vars
  <2>1. UNCHANGED << pc, typed >> /\ UNCHANGED << world, buf >>
    BY <1>8, Zenon DEF Idle, vars, shell
  <2> QED
    BY <1>2, <2>1
<1> QED
  BY <1>1, <1>3, <1>4, <1>5, <1>6, <1>7, <1>8, Zenon DEF Next, Program

\* What execute_func reads of a line in which every command has its
\* argument, no space leads and no name fills parsed_command.
CommandInv == LineInv /\ CommandTyped

LEMMA CommandInvStep ==
  ASSUME Hazards \cap {"noarg", "leading", "full"} = {}
  PROVE  CommandInv /\ [Next]_vars => CommandInv'
<1> SUFFICES ASSUME CommandInv, [Next]_vars PROVE CommandTyped'
  BY LineInvStep DEF CommandInv
<1>0. /\ LineInv
      /\ pc = "main" => Word(typed, 1) \in Executables /\ arg = Word(typed, 2)
      /\ outcome = "no such command" => Word(typed, 1) \notin Executables
      /\ "noarg" \notin Hazards /\ "leading" \notin Hazards /\ "full" \notin Hazards
  BY DEF CommandInv, CommandTyped
<1>a. CommandTyped' <=>
        /\ pc' = "main" => Word(typed', 1) \in Executables /\ arg' = Word(typed', 2)
        /\ outcome' = "no such command" => Word(typed', 1) \notin Executables
  BY DEF CommandTyped, Word
<1>b. ASSUME pc' # "main",
             outcome' # "no such command" \/ UNCHANGED << typed, outcome >>
      PROVE  CommandTyped'
  <2>1. CASE outcome' # "no such command"
    BY <1>a, <1>b, <2>1, Zenon
  <2>2. CASE UNCHANGED << typed, outcome >>
    BY <1>0, <1>a, <1>b, <2>2
  <2> QED
    BY <1>b, <2>1, <2>2, Zenon
<1>c. /\ "prompt" # "main" /\ "execute" # "main" /\ "dir" # "main"
      /\ "read" # "main" /\ "lines" # "main"
      /\ "none" # "no such command" /\ "terminated abnormally" # "no such command"
      /\ "done" # "no such command"
  OBVIOUS
<1>1. CASE ReadLine
  <2>1. pc' # "main" /\ outcome' # "no such command"
    BY <1>1, <1>c, Zenon DEF ReadLine
  <2> QED
    BY <1>b, <2>1
<1>2. CASE Execute
  <2>1. /\ pc = "execute" /\ typed' = typed
        /\ Plain(typed)
    BY <1>0, <1>2, Zenon DEF Execute, LineInv
  <2>2. /\ Lead = 0 /\ Stop \in 1 .. Len(typed) /\ Len(typed) \in Nat
        /\ Word(typed, 1) = SubSeq(typed, 1, Stop)
        /\ typed \in Seq(Bytes \ {NUL, NL, Junk})
    BY <1>0, <2>1, NameIs, LineIs, Zenon
  <2>3. Len(Word(typed, 1)) = Stop
    <3>1. Len(SubSeq(typed, 1, Stop)) = Stop
      BY <2>2
    <3> QED
      BY <2>2, <3>1
  <2>4. Stop # MaxParsed
    BY <1>0, <2>1, <2>3, Zenon DEF Plain
  <2>5. MaxParsed \in Nat /\ Stop \in Nat /\ Stop - Lead = Stop
    BY <2>2, ConstantsAssumption
  <2>6. CASE Stop - Lead <= MaxParsed /\ name \in Executables
    <3>1. Stop < MaxParsed
      BY <2>4, <2>5, <2>6
    <3>2. name = Word(typed, 1)
      BY <1>0, <2>1, <2>2, <3>1, NameParsed, Zenon
    <3>3. Word(typed, 2) # << >>
      BY <1>0, <2>1, <2>6, <3>2, Zenon DEF Plain
    <3>4. argument = Word(typed, 2)
      BY <1>0, <2>1, <3>3, ArgumentIs, Zenon
    <3>5. arg' = argument /\ outcome' = outcome
      BY <1>2, <2>6, Zenon DEF Execute
    <3> QED
      BY <1>0, <1>a, <2>1, <2>6, <3>2, <3>4, <3>5, Zenon
  <2>7. CASE ~(Stop - Lead <= MaxParsed /\ name \in Executables)
    <3>1. pc' # "main"
      BY <1>2, <1>c, <2>7, Zenon DEF Execute
    <3>2. Word(typed, 1) \notin Executables
      <4>1. CASE Stop < MaxParsed
        <5>1. name = Word(typed, 1)
          BY <1>0, <2>1, <2>2, <4>1, NameParsed, Zenon
        <5>2. Stop - Lead <= MaxParsed
          BY <2>5, <4>1
        <5> QED
          BY <2>7, <5>1, <5>2, Zenon
      <4>2. CASE ~(Stop < MaxParsed)
        <5>1. ~(Len(Word(typed, 1)) <= MaxParsed)
          BY <2>3, <2>4, <2>5, <4>2
        <5> QED
          BY <5>1, WorldsAssumption, Zenon
      <4> QED
        BY <4>1, <4>2
    <3> QED
      BY <1>a, <2>1, <3>1, <3>2, Zenon
  <2> QED
    BY <2>6, <2>7
<1>3. CASE Main
  <2>1. /\ pc' # "main" /\ typed' = typed
        /\ outcome' = "terminated abnormally" \/ outcome' = outcome
    BY <1>3, <1>c, Zenon DEF Main
  <2> QED
    BY <1>b, <1>c, <2>1
<1>4. CASE NextEntry
  <2>1. /\ pc = "dir" /\ (pc' \in {"prompt", "read"} \/ pc' = pc) /\ typed' = typed
        /\ outcome' = "done" \/ outcome' = outcome
    BY <1>4, Zenon DEF NextEntry
  <2> QED
    BY <1>b, <1>c, <2>1
<1>5. CASE Read \/ Carry \/ Search
  <2>1. /\ pc = "lines" \/ pc = "read"
        /\ pc' \in {"lines", "read", "dir"} \/ pc' = pc
        /\ UNCHANGED << typed, outcome >>
    BY <1>5, Zenon DEF Read, Carry, Search, shell
  <2> QED
    BY <1>b, <1>c, <2>1
<1>6. CASE Idle \/ UNCHANGED vars
  <2>1. UNCHANGED << pc, typed, arg, outcome >>
    BY <1>6, Zenon DEF Idle, vars, shell
  <2> QED
    BY <1>0, <1>a, <2>1
<1> QED
  BY <1>1, <1>2, <1>3, <1>4, <1>5, <1>6, Zenon DEF Next, Program

\* The program that runs is the one named first in the line that is typed,
\* and its argument the second word, though buf and what is behind the NUL
\* in it stay from line to line, however long the lines and names: if every
\* command has an argument, no line begins with a space and no name is as
\* long as parsed_command (execute_func).
THEOREM CommandIsTyped ==
  ASSUME Hazards \cap {"noarg", "leading", "full"} = {}
  PROVE  Spec => []CommandTyped
<1>1. Init => CommandInv
  <2>1. Init => CommandTyped
    BY DEF Init, CommandTyped
  <2> QED
    BY <2>1, LineInvInit DEF CommandInv
<1>2. CommandInv /\ [Next]_vars => CommandInv'
  BY CommandInvStep
<1>3. CommandInv => CommandTyped
  BY DEF CommandInv
<1> QED
  BY <1>1, <1>2, <1>3, PTL DEF Spec

-----------------------------------------------------------------------------
(* Functions that are defined from their value before.                     *)

\* A function that is defined from its value before.
Follows(f, n, T, b, step) ==
  /\ f \in [0 .. n -> T]
  /\ f[0] = b
  /\ \A k \in 1 .. n : f[k] = step[<< f[k - 1], k >>]

LEMMA Recursion ==
  ASSUME NEW n \in Nat, NEW T, NEW b \in T, NEW step \in [T \X (1 .. n) -> T]
  PROVE  \E f : Follows(f, n, T, b, step)
<1> DEFINE S == {m \in 0 .. n : \E f : Follows(f, m, T, b, step)}
<1>1. 0 \in S
  <2> DEFINE f == [k \in 0 .. 0 |-> b]
  <2>1. f \in [0 .. 0 -> T] /\ f[0] = b /\ \A k \in 1 .. 0 : FALSE
    OBVIOUS
  <2> HIDE DEF f
  <2>2. Follows(f, 0, T, b, step)
    BY <2>1 DEF Follows
  <2> QED
    BY <2>2
<1>2. ASSUME NEW m \in 1 .. n, m - 1 \in S PROVE m \in S
  <2>1. PICK f : Follows(f, m - 1, T, b, step)
    BY <1>2
  <2>2. /\ f \in [0 .. m - 1 -> T] /\ f[0] = b
        /\ \A k \in 1 .. m - 1 : f[k] = step[<< f[k - 1], k >>]
    BY <2>1 DEF Follows
  <2> DEFINE newest == step[<< f[m - 1], m >>]
             g == [k \in 0 .. m |-> IF k = m THEN newest ELSE f[k]]
  <2>3. newest \in T
    BY <1>2, <2>2
  <2> HIDE DEF newest
  <2>4. g \in [0 .. m -> T]
    BY <2>2, <2>3
  <2>5. g[0] = b /\ g[m] = newest /\ \A k \in 0 .. m - 1 : g[k] = f[k]
    BY <2>2
  <2> HIDE DEF g
  <2>6. ASSUME NEW k \in 1 .. m PROVE g[k] = step[<< g[k - 1], k >>]
    <3>1. CASE k = m
      BY <2>5, <3>1 DEF newest
    <3>2. CASE k # m
      <4>1. k \in 1 .. m - 1 /\ k \in 0 .. m - 1 /\ k - 1 \in 0 .. m - 1
        BY <3>2
      <4> QED
        BY <2>2, <2>5, <4>1
    <3> QED
      BY <3>1, <3>2
  <2>7. Follows(g, m, T, b, step)
    BY <2>4, <2>5, <2>6 DEF Follows
  <2> QED
    BY <2>7
<1> HIDE DEF S
<1>3. n \in S
  BY <1>1, <1>2, Along
<1> QED
  BY <1>3 DEF S

-----------------------------------------------------------------------------
(* What is found in files.                                                 *)

Entries == [name : Bytes, text : Seq(Bytes)]
\* What can be found in the files of directory d.
Hits(d) == {<< k, LineAt(d[k].text, p) >> : k \in DOMAIN d, p \in Nat}

\* FoundTo and AllFound, of a word w, in file k of text t and in directory d.
HitsTo(t, k, w) ==
  LET upto[p \in 0 .. Len(t)] ==
        IF p = 0 THEN << >>
        ELSE IF p \in Starts(t) /\ Occurs(LineAt(t, p), w)
        THEN Append(upto[p - 1], << k, LineAt(t, p) >>)
        ELSE upto[p - 1]
  IN upto
HitsOf(d, k, w) == IF d[k].name = Dot THEN << >> ELSE HitsTo(d[k].text, k, w)[Len(d[k].text)]
AllHits(d, w) ==
  LET all[k \in 0 .. Len(d)] == IF k = 0 THEN << >> ELSE all[k - 1] \o HitsOf(d, k, w)
  IN all

LEMMA AllFoundIs == AllFound = AllHits(dir, arg)
  BY DEF AllFound, AllHits, Found, FoundTo, HitsOf, HitsTo

\* A sequence that grows or stays.
LEMMA HitsToIs ==
  ASSUME NEW d \in Seq(Entries), NEW k \in DOMAIN d, NEW w
  PROVE  LET t == d[k].text
             H == HitsTo(t, k, w)
         IN /\ H \in [0 .. Len(t) -> Seq(Hits(d))]
            /\ H[0] = << >>
            /\ \A p \in 1 .. Len(t) :
                 H[p] = IF p \in Starts(t) /\ Occurs(LineAt(t, p), w)
                        THEN Append(H[p - 1], << k, LineAt(t, p) >>)
                        ELSE H[p - 1]
<1> DEFINE t == d[k].text
           H == HitsTo(t, k, w)
           n == Len(t)
           T == Seq(Hits(d))
           hit(p) == p \in Starts(t) /\ Occurs(LineAt(t, p), w)
           step == [x \in T \X (1 .. n) |->
                      IF hit(x[2]) THEN Append(x[1], << k, LineAt(t, x[2]) >>) ELSE x[1]]
<1>1. n \in Nat
  <2>1. d[k] \in Entries
    OBVIOUS
  <2>2. t \in Seq(Bytes)
    BY <2>1 DEF Entries
  <2> QED
    BY <2>2
<1>2. \A p \in 1 .. n : << k, LineAt(t, p) >> \in Hits(d)
  <2> HIDE DEF t
  <2>1. SUFFICES ASSUME NEW p \in 1 .. n PROVE << k, LineAt(t, p) >> \in Hits(d)
    OBVIOUS
  <2>2. p \in Nat
    BY <1>1
  <2>3. << k, LineAt(d[k].text, p) >> \in Hits(d)
    BY <2>2 DEF Hits
  <2> QED
    BY <2>3 DEF t
<1>3. step \in [T \X (1 .. n) -> T]
  <2> HIDE DEF hit, t, n
  <2>1. ASSUME NEW x \in T \X (1 .. n)
        PROVE  (IF hit(x[2]) THEN Append(x[1], << k, LineAt(t, x[2]) >>) ELSE x[1]) \in T
    <3>1. x[1] \in T /\ x[2] \in 1 .. n
      OBVIOUS
    <3>2. Append(x[1], << k, LineAt(t, x[2]) >>) \in T
      BY <1>2, <3>1
    <3> QED
      BY <3>1, <3>2
  <2> QED
    BY <2>1
<1>4. << >> \in T
  OBVIOUS
<1>5. PICK f \in [0 .. n -> T] :
        f[0] = << >> /\ \A p \in 1 .. n : f[p] = step[<< f[p - 1], p >>]
  <2> HIDE DEF step, n
  <2>1. \E f : Follows(f, n, T, << >>, step)
    BY <1>1, <1>3, <1>4, Recursion
  <2> QED
    BY <2>1 DEF Follows
<1> DEFINE next(s, p) == IF hit(p) THEN Append(s, << k, LineAt(t, p) >>) ELSE s
<1>6. \A s \in T, p \in 1 .. n : next(s, p) \in T /\ step[<< s, p >>] = next(s, p)
  <2> HIDE DEF hit, t, n
  <2>1. ASSUME NEW s \in T, NEW p \in 1 .. n PROVE next(s, p) \in T
    <3>1. << k, LineAt(t, p) >> \in Hits(d)
      BY <1>2
    <3>2. Append(s, << k, LineAt(t, p) >>) \in T
      BY <3>1
    <3> QED
      BY <3>2
  <2>2. \A s \in T, p \in 1 .. n : step[<< s, p >>] = next(s, p)
    OBVIOUS
  <2> QED
    BY <2>1, <2>2
<1>7. H = CHOOSE g : g = [p \in 0 .. n |-> IF p = 0 THEN << >> ELSE next(g[p - 1], p)]
  <2>1. \A g, p : next(g[p - 1], p) = IF p \in Starts(t) /\ Occurs(LineAt(t, p), w)
                                      THEN Append(g[p - 1], << k, LineAt(t, p) >>)
                                      ELSE g[p - 1]
    BY Zenon
  <2> QED
    BY Zenon DEF HitsTo
<1> HIDE DEF H, n, T, step, next
<1>8. f = [p \in 0 .. n |-> IF p = 0 THEN << >> ELSE next(f[p - 1], p)]
  <2>1. ASSUME NEW p \in 1 .. n PROVE f[p] = next(f[p - 1], p)
    <3>1. p - 1 \in 0 .. n
      BY <1>1
    <3>2. f[p - 1] \in T
      BY <1>5, <3>1
    <3> QED
      BY <1>5, <1>6, <3>2
  <2>2. \A p \in 0 .. n : p = 0 \/ p \in 1 .. n
    BY <1>1
  <2>3. \A p \in 0 .. n : f[p] = IF p = 0 THEN << >> ELSE next(f[p - 1], p)
    BY <1>5, <2>1, <2>2
  <2> QED
    BY <1>5, <2>3
<1>9. H = [p \in 0 .. n |-> IF p = 0 THEN << >> ELSE next(H[p - 1], p)]
  BY <1>7, <1>8, Zenon
<1>10. H[0] = << >> /\ \A p \in 1 .. n : H[p] = next(H[p - 1], p)
  <2>1. 0 \in 0 .. n /\ \A p \in 1 .. n : p \in 0 .. n /\ p # 0
    BY <1>1
  <2> QED
    BY <1>9, <2>1, Zenon
<1>11. \A p \in 0 .. n : H[p] \in T
  <2> DEFINE S == {p \in 0 .. n : H[p] \in T}
  <2>1. 0 \in S
    BY <1>1, <1>4, <1>10
  <2>2. ASSUME NEW p \in 1 .. n, p - 1 \in S PROVE p \in S
    <3>1. H[p - 1] \in T /\ H[p] = next(H[p - 1], p)
      BY <1>10, <2>2
    <3>2. H[p] \in T
      BY <1>6, <3>1
    <3>3. p \in 0 .. n
      BY <1>1
    <3> QED
      BY <3>2, <3>3
  <2> HIDE DEF S
  <2>3. \A p \in 0 .. n : p \in S
    BY <1>1, <2>1, <2>2, Along
  <2> QED
    BY <2>3 DEF S
<1>12. H \in [0 .. n -> T]
  <2> DEFINE h == [p \in 0 .. n |-> IF p = 0 THEN << >> ELSE next(H[p - 1], p)]
  <2>1. h = [p \in 0 .. n |-> h[p]] /\ H = h
    BY <1>9
  <2> HIDE DEF h
  <2> QED
    BY <1>11, <2>1
<1> QED
  BY <1>10, <1>12, Zenon DEF H, n, T, next

\* In the files of a directory, one after another.
LEMMA AllHitsIs ==
  ASSUME NEW d \in Seq(Entries), NEW w
  PROVE  LET A == AllHits(d, w)
         IN /\ A \in [0 .. Len(d) -> Seq(Hits(d))]
            /\ A[0] = << >>
            /\ \A k \in 1 .. Len(d) : A[k] = A[k - 1] \o HitsOf(d, k, w)
<1> DEFINE A == AllHits(d, w)
           n == Len(d)
           T == Seq(Hits(d))
           step == [x \in T \X (1 .. n) |-> x[1] \o HitsOf(d, x[2], w)]
<1>1. n \in Nat /\ DOMAIN d = 1 .. n
  OBVIOUS
<1>2. ASSUME NEW k \in 1 .. n PROVE HitsOf(d, k, w) \in T
  <2> DEFINE H == HitsTo(d[k].text, k, w)
  <2>1. H \in [0 .. Len(d[k].text) -> T]
    BY <1>1, <1>2, HitsToIs
  <2>2. Len(d[k].text) \in 0 .. Len(d[k].text)
    <3>1. d[k] \in Entries
      BY <1>1, <1>2
    <3>2. d[k].text \in Seq(Bytes)
      BY <3>1 DEF Entries
    <3> QED
      BY <3>2
  <2> HIDE DEF H
  <2>3. H[Len(d[k].text)] \in T
    BY <2>1, <2>2
  <2>4. << >> \in T
    OBVIOUS
  <2> QED
    BY <2>3, <2>4, Zenon DEF HitsOf, H
<1>3. step \in [T \X (1 .. n) -> T]
  <2> HIDE DEF n
  <2>1. ASSUME NEW x \in T \X (1 .. n) PROVE x[1] \o HitsOf(d, x[2], w) \in T
    <3>1. x[1] \in T /\ HitsOf(d, x[2], w) \in T
      BY <1>2
    <3> QED
      BY <3>1
  <2> QED
    BY <2>1
<1>4. << >> \in T
  OBVIOUS
<1>5. PICK f \in [0 .. n -> T] :
        f[0] = << >> /\ \A k \in 1 .. n : f[k] = step[<< f[k - 1], k >>]
  <2> HIDE DEF step, n, T
  <2>1. \E f : Follows(f, n, T, << >>, step)
    BY <1>1, <1>3, <1>4, Recursion
  <2> QED
    BY <2>1 DEF Follows
<1> DEFINE next(s, k) == s \o HitsOf(d, k, w)
<1>6. \A s \in T, k \in 1 .. n : next(s, k) \in T /\ step[<< s, k >>] = next(s, k)
  <2> HIDE DEF n
  <2>1. \A s \in T, k \in 1 .. n : next(s, k) \in T
    BY <1>2
  <2>2. \A s \in T, k \in 1 .. n : step[<< s, k >>] = next(s, k)
    OBVIOUS
  <2> QED
    BY <2>1, <2>2
<1>7. A = CHOOSE g : g = [k \in 0 .. n |-> IF k = 0 THEN << >> ELSE next(g[k - 1], k)]
  BY Zenon DEF AllHits
<1> HIDE DEF A, n, T, step, next
<1>8. f = [k \in 0 .. n |-> IF k = 0 THEN << >> ELSE next(f[k - 1], k)]
  <2>1. ASSUME NEW k \in 1 .. n PROVE f[k] = next(f[k - 1], k)
    <3>1. k - 1 \in 0 .. n
      BY <1>1
    <3>2. f[k - 1] \in T
      BY <1>5, <3>1
    <3> QED
      BY <1>5, <1>6, <3>2
  <2>2. \A k \in 0 .. n : k = 0 \/ k \in 1 .. n
    BY <1>1
  <2>3. \A k \in 0 .. n : f[k] = IF k = 0 THEN << >> ELSE next(f[k - 1], k)
    BY <1>5, <2>1, <2>2
  <2> QED
    BY <1>5, <2>3
<1>9. A = [k \in 0 .. n |-> IF k = 0 THEN << >> ELSE next(A[k - 1], k)]
  BY <1>7, <1>8, Zenon
<1>10. A[0] = << >> /\ \A k \in 1 .. n : A[k] = next(A[k - 1], k)
  <2>1. 0 \in 0 .. n /\ \A k \in 1 .. n : k \in 0 .. n /\ k # 0
    BY <1>1
  <2> QED
    BY <1>9, <2>1, Zenon
<1>11. \A k \in 0 .. n : A[k] \in T
  <2> DEFINE S == {k \in 0 .. n : A[k] \in T}
  <2>1. 0 \in S
    BY <1>1, <1>4, <1>10
  <2>2. ASSUME NEW k \in 1 .. n, k - 1 \in S PROVE k \in S
    <3>1. A[k - 1] \in T /\ A[k] = next(A[k - 1], k)
      BY <1>10, <2>2
    <3>2. A[k] \in T
      BY <1>6, <3>1
    <3>3. k \in 0 .. n
      BY <1>1
    <3> QED
      BY <3>2, <3>3
  <2> HIDE DEF S
  <2>3. \A k \in 0 .. n : k \in S
    BY <1>1, <2>1, <2>2, Along
  <2> QED
    BY <2>3 DEF S
<1>12. A \in [0 .. n -> T]
  <2> DEFINE h == [k \in 0 .. n |-> IF k = 0 THEN << >> ELSE next(A[k - 1], k)]
  <2>1. h = [k \in 0 .. n |-> h[k]] /\ A = h
    BY <1>9
  <2> HIDE DEF h
  <2> QED
    BY <1>11, <2>1
<1> QED
  BY <1>10, <1>12, Zenon DEF A, n, T, next

\* Where a line of a text begins.
Boundary(t, p) == p = 0 \/ p = Len(t) \/ t[p] = NL

\* A line goes on to the newline or the end of the text.
LEMMA LineAtIs ==
  ASSUME NEW t, Len(t) \in Nat, NEW k \in 1 .. Len(t), NEW e \in k - 1 .. Len(t),
         \A j \in k .. e : t[j] # NL, e = Len(t) \/ t[e + 1] = NL
  PROVE  LineAt(t, k) = SubSeq(t, k, e)
<1> DEFINE S == {l \in k .. Len(t) : \A j \in k .. l : t[j] # NL}
<1>1. S = k .. e
  <2>1. ASSUME NEW l \in S PROVE l \in k .. e
    <3>1. SUFFICES ASSUME l > e PROVE FALSE
      OBVIOUS
    <3>2. e + 1 \in k .. l /\ e # Len(t)
      BY <3>1
    <3> QED
      BY <3>2
  <2>2. \A l \in k .. e : l \in S
    OBVIOUS
  <2> QED
    BY <2>1, <2>2
<1>2. Cardinality(k .. e) = (e - k) + 1
  <2>1. k \in Int /\ e \in Int /\ e >= k - 1
    OBVIOUS
  <2>2. Cardinality(k .. e) = IF k > e THEN 0 ELSE (e - k) + 1
    BY <2>1, FS_Interval, Zenon
  <2> QED
    BY <2>1, <2>2
<1>3. LineAt(t, k) = SubSeq(t, k, k - 1 + Cardinality(S))
  BY Zenon DEF LineAt
<1>4. k - 1 + ((e - k) + 1) = e
  OBVIOUS
<1> QED
  BY <1>1, <1>2, <1>3, <1>4

\* Between two lines nothing is found.
LEMMA HitsStay ==
  ASSUME NEW d \in Seq(Entries), NEW k \in DOMAIN d, NEW w,
         NEW p \in 0 .. Len(d[k].text), NEW q \in p .. Len(d[k].text),
         \A j \in p + 1 .. q : j \notin Starts(d[k].text)
  PROVE  HitsTo(d[k].text, k, w)[q] = HitsTo(d[k].text, k, w)[p]
<1> DEFINE t == d[k].text
           H == HitsTo(t, k, w)
           S == {j \in 0 .. q - p : H[p + j] = H[p]}
<1>0. Len(t) \in Nat
  <2>1. d[k] \in Entries
    OBVIOUS
  <2>2. t \in Seq(Bytes)
    BY <2>1 DEF Entries
  <2> QED
    BY <2>2
<1>a. \A j \in 1 .. Len(t) : H[j] = IF j \in Starts(t) /\ Occurs(LineAt(t, j), w)
                                    THEN Append(H[j - 1], << k, LineAt(t, j) >>)
                                    ELSE H[j - 1]
  BY HitsToIs, Zenon
<1> HIDE DEF H, t
<1>1. ASSUME NEW j \in 1 .. Len(t), j \notin Starts(t)
      PROVE  H[j] = H[j - 1]
  BY <1>a, <1>1
<1>2. 0 \in S
  BY <1>0 DEF t
<1>3. ASSUME NEW j \in 1 .. q - p, j - 1 \in S PROVE j \in S
  <2>1. p + j \in 1 .. Len(t) /\ p + j \in p + 1 .. q /\ (p + j) - 1 = p + (j - 1)
    BY <1>0 DEF t
  <2>2. p + j \notin Starts(t)
    BY <2>1 DEF t
  <2>3. H[p + j] = H[p + (j - 1)]
    BY <1>1, <2>1, <2>2
  <2> QED
    BY <1>3, <2>3
<1>4. q - p \in Nat /\ p + (q - p) = q
  BY <1>0 DEF t
<1> HIDE DEF S
<1>5. \A j \in 0 .. q - p : j \in S
  BY <1>2, <1>3, <1>4, Along
<1>6. q - p \in S
  BY <1>4, <1>5
<1>7. H[p + (q - p)] = H[p]
  BY <1>6 DEF S
<1> QED
  BY <1>4, <1>7 DEF H, t

\* The line behind place p of t goes on to place e, the next begins behind q.
LineOf(t, p, e, q) ==
  /\ p \in Nat /\ p < Len(t) /\ Boundary(t, p)
  /\ e \in p .. Len(t) /\ \A j \in p + 1 .. e : t[j] # NL
  /\ \/ e = Len(t) /\ q = e
     \/ e < Len(t) /\ t[e + 1] = NL /\ q = e + 1

\* Then this is found, if h was before.
HitsWith(h, t, k, w, p, e) ==
  IF Occurs(SubSeq(t, p + 1, e), w) THEN Append(h, << k, SubSeq(t, p + 1, e) >>) ELSE h

FoundNext(d, k, w, p, e, q) ==
  HitsTo(d[k].text, k, w)[q] = HitsWith(HitsTo(d[k].text, k, w)[p], d[k].text, k, w, p, e)

\* A line is all that is found in it, once, when it contains the word.
LEMMA LineHits ==
  ASSUME NEW d \in Seq(Entries), NEW k \in DOMAIN d, NEW w,
         NEW p, NEW e, NEW q, LineOf(d[k].text, p, e, q)
  PROVE  /\ q \in p .. Len(d[k].text) /\ Boundary(d[k].text, q)
         /\ FoundNext(d, k, w, p, e, q)
<1> DEFINE t == d[k].text
           line == SubSeq(t, p + 1, e)
           H == HitsTo(t, k, w)
<1>1. t \in Seq(Bytes) /\ Len(t) \in Nat /\ DOMAIN t = 1 .. Len(t)
  <2>1. d[k] \in Entries
    OBVIOUS
  <2>2. t \in Seq(Bytes)
    BY <2>1 DEF Entries
  <2> QED
    BY <2>2
<1>2. /\ p \in Nat /\ p < Len(t) /\ e \in p .. Len(t) /\ (\A j \in p + 1 .. e : t[j] # NL)
      /\ \/ e = Len(t) /\ q = e
         \/ e < Len(t) /\ t[e + 1] = NL /\ q = e + 1
  BY Zenon DEF LineOf
<1>a. \A j \in 1 .. Len(t) : H[j] = IF j \in Starts(t) /\ Occurs(LineAt(t, j), w)
                                    THEN Append(H[j - 1], << k, LineAt(t, j) >>)
                                    ELSE H[j - 1]
  BY HitsToIs, Zenon
<1>3. p = 0 \/ t[p] = NL
  <2>1. p = 0 \/ p = Len(t) \/ t[p] = NL
    BY Zenon DEF LineOf, Boundary
  <2>2. p # Len(t)
    BY <1>1, <1>2
  <2> QED
    BY <2>1, <2>2, Zenon
<1> HIDE DEF t
<1>b. /\ Len(t) \in Nat /\ p \in Nat /\ p < Len(t) /\ e \in p .. Len(t)
      /\ (e = Len(t) /\ q = e) \/ (e < Len(t) /\ q = e + 1)
  BY <1>1, <1>2, Zenon
<1>4. q \in p + 1 .. Len(t) /\ q \in Nat /\ p + 1 \in 1 .. Len(t)
  BY <1>b
<1>5. Boundary(t, q)
  BY <1>2, Zenon DEF Boundary
<1>6. LineAt(t, p + 1) = line
  <2>1. e \in (p + 1) - 1 .. Len(t)
    BY <1>b
  <2>2. e = Len(t) \/ t[e + 1] = NL
    BY <1>2, Zenon
  <2>3. \A j \in p + 1 .. e : t[j] # NL
    BY <1>2, Zenon
  <2>4. Len(t) \in Nat /\ p + 1 \in 1 .. Len(t)
    BY <1>b
  <2> QED
    BY <2>1, <2>2, <2>3, <2>4, LineAtIs, Zenon
<1>7. p + 1 \in Starts(t)
  <2>1. (p + 1) - 1 = p /\ (p = 0 => p + 1 = 1)
    BY <1>b
  <2>2. p + 1 \in DOMAIN t
    BY <1>1, <1>4, Zenon
  <2> QED
    BY <1>3, <2>1, <2>2 DEF Starts
<1>8. \A j \in (p + 1) + 1 .. q : j \notin Starts(t)
  <2>1. ASSUME NEW j \in (p + 1) + 1 .. q PROVE j \notin Starts(t)
    <3>1. j - 1 \in p + 1 .. e /\ j # 1
      BY <1>b
    <3>2. t[j - 1] # NL
      BY <1>2, <3>1
    <3> QED
      BY <3>1, <3>2 DEF Starts
  <2> QED
    BY <2>1
<1>9. H[q] = H[p + 1]
  <2>1. p + 1 \in 0 .. Len(t) /\ q \in p + 1 .. Len(t)
    BY <1>1, <1>4
  <2> QED
    BY <1>8, <2>1, HitsStay, Zenon DEF t
<1>10. H[p + 1] = IF p + 1 \in Starts(t) /\ Occurs(LineAt(t, p + 1), w)
                  THEN Append(H[(p + 1) - 1], << k, LineAt(t, p + 1) >>)
                  ELSE H[(p + 1) - 1]
  BY <1>4, <1>a, Zenon
<1>11. (p + 1) - 1 = p /\ q \in p .. Len(t)
  BY <1>b
<1>12. H[q] = IF Occurs(line, w) THEN Append(H[p], << k, line >>) ELSE H[p]
  BY <1>6, <1>7, <1>9, <1>10, <1>11
<1>13. H[q] = HitsWith(H[p], t, k, w, p, e)
  BY <1>12, Zenon DEF HitsWith
<1> QED
  BY <1>5, <1>11, <1>13, Zenon DEF t, H, FoundNext

-----------------------------------------------------------------------------
(* What grep has in its data and has printed.                              *)

\* No NUL in the text, and a newline in each part as long as grep's data.
Fits(t) ==
  /\ \A j \in 1 .. Len(t) : t[j] # NUL
  /\ \A k \in 1 .. Len(t) + 1 - BufSize : \E j \in k .. k + BufSize - 1 : t[j] = NL

NoLines(da) == \A k \in 0 .. BufSize : da[k] # NL

\* Of w in the first f - 1 files of d and in file f in the lines before p.
Printed(d, w, f, p) == AllHits(d, w)[f - 1] \o HitsTo(d[f].text, f, w)[p]

OnFile(d, w, f) == w # << >> /\ f <= Len(d) /\ d[f].name # Dot

\* Before a read, data has l bytes of a line of t that began before place p.
Reads(t, da, l, p) ==
  /\ l < BufSize /\ l <= p /\ p <= Len(t) /\ Boundary(t, p - l)
  /\ \A k \in 0 .. l - 1 : da[k] = t[(p - l) + k + 1]
  /\ NoLines(da)

\* After it, it has the bytes up to place p, and the next line is at ls.
Lines(t, da, l, p, ls, c) ==
  /\ l <= p /\ p <= Len(t) /\ ls <= l /\ Boundary(t, (p - l) + ls)
  /\ \A k \in ls .. l - 1 : da[k] = t[(p - l) + k + 1]
  /\ \A k \in 0 .. BufSize : da[k] = NL => k \in ls .. l - 1
  /\ c = 0 => p = Len(t)
  /\ p < Len(t) => l = BufSize

GrepTypes ==
  /\ dir \in Seq(Entries) /\ \A k \in DOMAIN dir : Fits(dir[k].text)
  /\ data \in [0 .. BufSize -> Bytes]
  /\ arg \in Seq(Bytes \ {NUL})
  /\ file \in Nat \ {0} /\ last \in 0 .. BufSize /\ pos \in Nat /\ line_start \in Nat

GrepInv ==
  /\ LineInv
  /\ GrepTypes
  /\ outcome = "done" => pc = "prompt" /\ printed = AllHits(dir, arg)[Len(dir)]
  /\ pc # "lines" => NoLines(data)
  /\ pc = "dir" => /\ arg # << >> /\ file <= Len(dir) + 1
                   /\ printed = AllHits(dir, arg)[file - 1]
  /\ pc = "read" => /\ OnFile(dir, arg, file)
                    /\ Reads(dir[file].text, data, last, pos)
                    /\ printed = Printed(dir, arg, file, pos - last)
  /\ pc = "lines" => /\ OnFile(dir, arg, file)
                     /\ Lines(dir[file].text, data, last, pos, line_start, cnt)
                     /\ printed = Printed(dir, arg, file, (pos - last) + line_start)

\* The file that grep is at.
LEMMA FileIs ==
  ASSUME GrepTypes, OnFile(dir, arg, file)
  PROVE  /\ file \in DOMAIN dir /\ file \in 1 .. Len(dir) /\ dir \in Seq(Entries)
         /\ dir[file].text \in Seq(Bytes)
         /\ Len(dir[file].text) \in Nat /\ Fits(dir[file].text)
         /\ arg # << >>
<1>1. /\ dir \in Seq(Entries) /\ (\A k \in DOMAIN dir : Fits(dir[k].text))
      /\ file \in Nat \ {0} /\ file <= Len(dir) /\ arg # << >>
  BY Zenon DEF GrepTypes, OnFile
<1>2. file \in DOMAIN dir /\ file \in 1 .. Len(dir)
  BY <1>1
<1>3. dir[file] \in Entries
  BY <1>1, <1>2
<1>4. dir[file].text \in Seq(Bytes)
  BY <1>3 DEF Entries
<1>5. Len(dir[file].text) \in Nat
  BY <1>4
<1> QED
  BY <1>1, <1>2, <1>4, <1>5, Zenon

\* So many bytes are read, of t from place p on, behind the first l of data.
Room(t, l, p) == IF BufSize - l < Len(t) - p THEN BufSize - l ELSE Len(t) - p
Filled(t, da, l, p, n) ==
  [k \in DOMAIN da |-> IF k \in l .. l + n - 1 THEN t[p + k - l + 1] ELSE da[k]]

\* A read appends to what is there.
LEMMA ReadFills ==
  ASSUME NEW t \in Seq(Bytes), NEW da \in [0 .. BufSize -> Bytes],
         NEW l \in Nat, NEW p \in Nat, Reads(t, da, l, p), NEW n, n = Room(t, l, p),
         NEW da2, da2 = Filled(t, da, l, p, n)
  PROVE  /\ da2 \in [0 .. BufSize -> Bytes] /\ l + n \in 0 .. BufSize /\ p + n \in Nat
         /\ Lines(t, da2, l + n, p + n, 0, n)
         /\ n \in Nat
<1>1. /\ l < BufSize /\ l <= p /\ p <= Len(t) /\ Boundary(t, p - l)
      /\ (\A k \in 0 .. l - 1 : da[k] = t[(p - l) + k + 1])
      /\ \A k \in 0 .. BufSize : da[k] # NL
  BY Zenon DEF Reads, NoLines
<1>2. BufSize \in Nat /\ Len(t) \in Nat
  BY ConstantsAssumption
<1>3. /\ n \in Nat /\ l + n <= BufSize /\ p + n <= Len(t)
      /\ (n = BufSize - l \/ n = Len(t) - p)
  BY <1>1, <1>2 DEF Room
<1>4. ASSUME NEW k \in 0 .. BufSize
      PROVE  da2[k] = IF k \in l .. l + n - 1 THEN t[(p - l) + k + 1] ELSE da[k]
  <2>1. da2[k] = IF k \in l .. l + n - 1 THEN t[p + k - l + 1] ELSE da[k]
    BY DEF Filled
  <2>2. p + k - l + 1 = (p - l) + k + 1
    BY <1>2
  <2> QED
    BY <2>1, <2>2
<1>5. da2 \in [0 .. BufSize -> Bytes]
  <2>1. DOMAIN da2 = 0 .. BufSize /\ da2 = [k \in 0 .. BufSize |-> da2[k]]
    BY DEF Filled
  <2>2. ASSUME NEW k \in 0 .. BufSize PROVE da2[k] \in Bytes
    <3>1. CASE k \in l .. l + n - 1
      <4>1. (p - l) + k + 1 \in 1 .. Len(t)
        <5>1. l <= p /\ p + n <= Len(t) /\ n \in Nat /\ Len(t) \in Nat
          BY <1>1, <1>2, <1>3, Zenon
        <5> QED
          BY <3>1, <5>1
      <4>2. t[(p - l) + k + 1] \in Bytes
        BY <4>1
      <4> QED
        BY <1>4, <3>1, <4>2
    <3>2. CASE k \notin l .. l + n - 1
      BY <1>4, <3>2
    <3> QED
      BY <3>1, <3>2
  <2> QED
    BY <2>1, <2>2
<1>6. (p + n) - (l + n) = p - l /\ (p - l) + 0 = p - l
  BY <1>3
<1>7. Lines(t, da2, l + n, p + n, 0, n)
  <2>1. \A k \in 0 .. (l + n) - 1 : da2[k] = t[((p + n) - (l + n)) + k + 1]
    <3>1. ASSUME NEW k \in 0 .. (l + n) - 1
          PROVE  da2[k] = t[(p - l) + k + 1]
      <4>1. k \in 0 .. BufSize /\ (k \in l .. l + n - 1 \/ k \in 0 .. l - 1)
            /\ (k \in 0 .. l - 1 => k \notin l .. l + n - 1)
        BY <1>2, <1>3
      <4> QED
        BY <1>1, <1>4, <4>1
    <3> QED
      BY <1>6, <3>1
  <2>2. ASSUME NEW k \in 0 .. BufSize, da2[k] = NL PROVE k \in 0 .. (l + n) - 1
    <3>1. k \in l .. l + n - 1
      BY <1>1, <1>4, <2>2
    <3> QED
      BY <1>3, <3>1
  <2>3. l + n <= p + n /\ 0 <= l + n /\ p + n <= Len(t)
    BY <1>1, <1>3
  <2>4. (n = 0 => p + n = Len(t)) /\ (p + n < Len(t) => l + n = BufSize)
    BY <1>1, <1>2, <1>3
  <2>5. Boundary(t, ((p + n) - (l + n)) + 0)
    BY <1>1, <1>6
  <2> QED
    BY <2>1, <2>2, <2>3, <2>4, <2>5, Zenon DEF Lines
<1>8. l + n \in 0 .. BufSize /\ p + n \in Nat
  BY <1>2, <1>3
<1> QED
  BY <1>3, <1>5, <1>7, <1>8

\* Where the next line ends, or what there is of it.
LEMMA LineEnd ==
  ASSUME GrepInv, pc = "lines"
  PROVE  /\ line_end \in line_start .. last /\ line_end \in 0 .. BufSize
         /\ \A j \in line_start .. line_end - 1 : data[j] # NL
         /\ data[line_end] = NL <=> line_end < last
<1>1. /\ BufSize \in Nat /\ data \in [0 .. BufSize -> Bytes] /\ line_start \in Nat
      /\ last \in 0 .. BufSize /\ line_start <= last
      /\ \A k \in 0 .. BufSize : data[k] = NL => k \in line_start .. last - 1
  BY ConstantsAssumption, Zenon DEF GrepInv, GrepTypes, Lines
<1> DEFINE f == Find(data, line_start, {NL})
<1>2. /\ f \in line_start .. BufSize + 1
      /\ f < BufSize + 1 => data[f] \in {NL}
      /\ \A j \in line_start .. f - 1 : data[j] \notin {NL}
  <2>1. /\ BufSize + 1 \in Nat /\ DOMAIN data = 0 .. (BufSize + 1) - 1
        /\ line_start \in 0 .. BufSize + 1
    BY <1>1
  <2> QED
    BY <2>1, FindIs, Zenon
<1>3. line_end = IF f > last THEN last ELSE f
  BY Zenon DEF line_end
<1> HIDE DEF f
<1> QED
  BY <1>1, <1>2, <1>3

\* The line in data, ended, as a string.
LEMMA EndedIs ==
  ASSUME GrepInv, pc = "lines"
  PROVE  /\ Ended \in [0 .. BufSize -> Bytes] /\ Ended[line_end] = NUL
         /\ \A k \in 0 .. BufSize : k # line_end => Ended[k] = data[k]
         /\ Find(Ended, line_start, {NUL}) = line_end
         /\ \A k \in line_start .. last - 1 :
              /\ k \in 0 .. BufSize
              /\ data[k] = dir[file].text[(pos - last) + k + 1]
              /\ data[k] # NUL
<1> DEFINE t == dir[file].text
<1>1. /\ BufSize \in Nat /\ data \in [0 .. BufSize -> Bytes] /\ line_start \in Nat
      /\ last \in 0 .. BufSize /\ line_start <= last /\ pos \in Nat
      /\ last <= pos /\ pos <= Len(t)
      /\ (\A k \in line_start .. last - 1 : data[k] = t[(pos - last) + k + 1])
      /\ GrepTypes /\ OnFile(dir, arg, file)
      /\ NUL \in Bytes
  BY ConstantsAssumption, Zenon DEF GrepInv, GrepTypes, Lines
<1>2. Len(t) \in Nat /\ \A j \in 1 .. Len(t) : t[j] # NUL
  BY <1>1, FileIs, Zenon DEF Fits
<1>3. line_end \in line_start .. last /\ line_end \in 0 .. BufSize
  BY LineEnd
<1> HIDE DEF t
<1>4. ASSUME NEW k \in line_start .. last - 1
      PROVE  k \in 0 .. BufSize /\ data[k] # NUL
  <2>1. (pos - last) + k + 1 \in 1 .. Len(t) /\ k \in 0 .. BufSize
    BY <1>1, <1>2
  <2> QED
    BY <1>1, <1>2, <2>1
<1>5. Ended = [data EXCEPT ![line_end] = NUL]
  BY Zenon DEF Ended
<1>6. /\ Ended \in [0 .. BufSize -> Bytes] /\ Ended[line_end] = NUL
      /\ \A k \in 0 .. BufSize : k # line_end => Ended[k] = data[k]
  BY <1>1, <1>3, <1>5
<1>7. Find(Ended, line_start, {NUL}) = line_end
  <2>1. /\ BufSize + 1 \in Nat /\ DOMAIN Ended = 0 .. (BufSize + 1) - 1
        /\ line_start \in 0 .. BufSize + 1 /\ line_end \in line_start .. BufSize + 1
        /\ Ended[line_end] \in {NUL}
    BY <1>1, <1>3, <1>6
  <2>2. ASSUME NEW j \in line_start .. line_end - 1 PROVE Ended[j] \notin {NUL}
    <3>1. j \in line_start .. last - 1 /\ j # line_end
      BY <1>1, <1>3
    <3> QED
      BY <1>4, <1>6, <3>1
  <2> QED
    BY <2>1, <2>2, FindAt, Zenon
<1> QED
  BY <1>1, <1>4, <1>6, <1>7, Zenon DEF t

\* Carry keeps the line that is not complete.
LEMMA CarryKeeps ==
  ASSUME GrepInv, Carry
  PROVE  /\ data' \in [0 .. BufSize -> Bytes] /\ last' \in 0 .. BufSize
         /\ Reads(dir[file].text, data', last', pos)
         /\ pos - last' = (pos - last) + line_start
<1> DEFINE t == dir[file].text
           n == Find(Ended, line_start, {NUL}) - line_start
<1>1. /\ pc = "lines" /\ data[line_end] # NL /\ line_start # 0
      /\ data' = [k \in DOMAIN data |-> IF k <= n THEN Ended[line_start + k] ELSE Ended[k]]
      /\ last' = last - line_start
  BY Zenon DEF Carry
<1>2. /\ BufSize \in Nat /\ DOMAIN data = 0 .. BufSize /\ line_start \in Nat
      /\ last \in 0 .. BufSize /\ line_start <= last /\ pos \in Nat
      /\ last <= pos /\ pos <= Len(t) /\ Boundary(t, (pos - last) + line_start)
      /\ \A k \in 0 .. BufSize : data[k] = NL => k \in line_start .. last - 1
  <2>1. data \in [0 .. BufSize -> Bytes]
    BY Zenon DEF GrepInv, GrepTypes
  <2>2. DOMAIN data = 0 .. BufSize
    BY <2>1
  <2> QED
    BY <1>1, <2>2, ConstantsAssumption, Zenon DEF GrepInv, GrepTypes, Lines
<1>3. /\ line_end \in line_start .. last /\ line_end \in 0 .. BufSize
      /\ \A j \in line_start .. line_end - 1 : data[j] # NL
      /\ data[line_end] = NL <=> line_end < last
  BY <1>1, LineEnd
<1>4. /\ Ended \in [0 .. BufSize -> Bytes] /\ Ended[line_end] = NUL
      /\ \A k \in 0 .. BufSize : k # line_end => Ended[k] = data[k]
      /\ n = line_end - line_start
      /\ \A k \in line_start .. last - 1 :
           k \in 0 .. BufSize /\ data[k] = t[(pos - last) + k + 1]
  BY <1>1, EndedIs, Zenon
<1> HIDE DEF t, n
<1>5. line_end = last /\ n = last - line_start /\ n = last' /\ n \in 0 .. BufSize - 1
  BY <1>1, <1>2, <1>3, <1>4
<1>6. \A k \in 0 .. BufSize : Ended[k] # NL
  <2>1. SUFFICES ASSUME NEW k \in 0 .. BufSize PROVE Ended[k] # NL
    OBVIOUS
  <2>2. CASE k = line_end
    BY <1>4, <2>2 DEF NUL, NL
  <2>3. CASE k # line_end
    <3>1. Ended[k] = data[k] /\ (k \in line_start .. last - 1 => k \in line_start .. line_end - 1)
      BY <1>4, <1>5, <2>3
    <3> QED
      BY <1>2, <1>3, <3>1
  <2> QED
    BY <2>2, <2>3
<1>7. ASSUME NEW k \in 0 .. BufSize
      PROVE  /\ k <= n => data'[k] = Ended[line_start + k] /\ line_start + k \in 0 .. BufSize
             /\ ~(k <= n) => data'[k] = Ended[k]
  BY <1>1, <1>2, <1>5
<1>8. \A k \in 0 .. BufSize : data'[k] \in Bytes /\ data'[k] # NL
  BY <1>4, <1>6, <1>7
<1>9. data' \in [0 .. BufSize -> Bytes]
  <2>1. data' = [k \in 0 .. BufSize |-> data'[k]]
    BY <1>1, <1>2
  <2> QED
    BY <1>8, <2>1
<1>10. pos - last' = (pos - last) + line_start
  BY <1>1, <1>2
<1>11. ASSUME NEW k \in 0 .. last' - 1 PROVE data'[k] = t[(pos - last') + k + 1]
  <2>1. /\ k \in 0 .. BufSize /\ k <= n /\ line_start + k # line_end
        /\ line_start + k \in line_start .. last - 1
        /\ (pos - last) + (line_start + k) + 1 = (pos - last') + k + 1
    <3>1. /\ BufSize \in Nat /\ line_start \in Nat /\ last \in 0 .. BufSize
          /\ line_start <= last /\ pos \in Nat
      BY <1>2, Zenon
    <3>2. last' = last - line_start /\ n = last' /\ line_end = last
      BY <1>1, <1>5, Zenon
    <3>3. k \in Nat /\ k < last - line_start
      BY <3>1, <3>2
    <3>4. k \in 0 .. BufSize /\ k <= n /\ line_start + k # line_end
      BY <3>1, <3>2, <3>3
    <3>5. line_start + k \in line_start .. last - 1
      BY <3>1, <3>3
    <3>6. (pos - last) + (line_start + k) + 1 = (pos - last') + k + 1
      BY <3>1, <3>2, <3>3
    <3> QED
      BY <3>4, <3>5, <3>6
  <2>2. data'[k] = Ended[line_start + k] /\ line_start + k \in 0 .. BufSize
    BY <1>7, <2>1
  <2> QED
    BY <1>4, <2>1, <2>2
<1>12. last' < BufSize /\ last' <= pos /\ pos <= Len(t) /\ Boundary(t, pos - last')
  BY <1>1, <1>2, <1>5, <1>10
<1>13. Reads(t, data', last', pos)
  BY <1>8, <1>11, <1>12, Zenon DEF Reads, NoLines
<1> QED
  BY <1>1, <1>2, <1>5, <1>9, <1>10, <1>13 DEF t

\* The string at a place of the line begins with the argument.
LEMMA MatchesIs ==
  ASSUME GrepInv, pc = "lines"
  PROVE  LET s == SubSeq(dir[file].text, (pos - last) + line_start + 1, (pos - last) + line_end)
         IN /\ Str(Ended, line_start) = s
            /\ Occurs(s, arg) <=> \E k \in line_start .. line_end - 1 : Matches(k)
<1> DEFINE t == dir[file].text
           base == pos - last
           s == SubSeq(t, base + line_start + 1, base + line_end)
           n == line_end - line_start
<1>1. /\ BufSize \in Nat /\ line_start \in Nat
      /\ last \in 0 .. BufSize /\ line_start <= last /\ pos \in Nat
      /\ last <= pos /\ pos <= Len(t) /\ arg \in Seq(Bytes \ {NUL})
      /\ GrepTypes /\ OnFile(dir, arg, file)
  BY ConstantsAssumption, Zenon DEF GrepInv, GrepTypes, Lines
<1>2. t \in Seq(Bytes) /\ Len(t) \in Nat /\ arg # << >>
  BY <1>1, FileIs, Zenon
<1>3. line_end \in line_start .. last /\ line_end \in 0 .. BufSize
  BY LineEnd
<1>4. /\ Ended[line_end] = NUL
      /\ \A k \in 0 .. BufSize : k # line_end => Ended[k] = data[k]
      /\ Find(Ended, line_start, {NUL}) = line_end
      /\ \A k \in line_start .. last - 1 :
           k \in 0 .. BufSize /\ data[k] = t[base + k + 1] /\ data[k] # NUL
  BY EndedIs, Zenon
<1> HIDE DEF t
<1>5. base \in Nat /\ n \in Nat /\ base + line_end <= Len(t)
  BY <1>1, <1>2, <1>3
<1>6. /\ s \in Seq(Bytes) /\ Len(s) = n
      /\ s = [j \in 1 .. n |-> t[base + line_start + j]]
      /\ \A j \in 1 .. n : s[j] = t[base + line_start + j]
  <2>1. base + line_start + 1 \in Nat /\ base + line_end \in Nat
    BY <1>1, <1>3, <1>5
  <2>2. \A a, b \in Nat : a >= 1 /\ b <= Len(t) /\ a <= b + 1 =>
          /\ SubSeq(t, a, b) \in Seq(Bytes) /\ Len(SubSeq(t, a, b)) = b - a + 1
          /\ SubSeq(t, a, b) = [j \in 1 .. b - a + 1 |-> t[a + j - 1]]
    BY <1>2
  <2>3. /\ base + line_start + 1 >= 1 /\ base + line_start + 1 <= (base + line_end) + 1
        /\ (base + line_end) - (base + line_start + 1) + 1 = n
    BY <1>1, <1>3, <1>5
  <2>4. /\ s \in Seq(Bytes) /\ Len(s) = n
        /\ s = [j \in 1 .. n |-> t[(base + line_start + 1) + j - 1]]
    BY <1>5, <2>1, <2>2, <2>3
  <2>5. \A j \in 1 .. n : (base + line_start + 1) + j - 1 = base + line_start + j
    BY <1>1, <1>5
  <2>6. s = [j \in 1 .. n |-> t[base + line_start + j]]
    BY <2>4, <2>5
  <2> HIDE DEF s, n, base
  <2> QED
    BY <2>4, <2>6
<1> HIDE DEF s
<1>7. ASSUME NEW j \in 1 .. n
      PROVE  /\ line_start + j - 1 \in line_start .. last - 1
             /\ line_start + j - 1 \in 0 .. BufSize
             /\ Ended[line_start + j - 1] = s[j] /\ s[j] # NUL
  <2>1. /\ line_start + j - 1 \in line_start .. last - 1
        /\ line_start + j - 1 # line_end
        /\ base + (line_start + j - 1) + 1 = base + line_start + j
    BY <1>1, <1>3, <1>5
  <2>2. /\ line_start + j - 1 \in 0 .. BufSize
        /\ data[line_start + j - 1] = t[base + line_start + j]
        /\ data[line_start + j - 1] # NUL
    BY <1>4, <2>1
  <2>3. Ended[line_start + j - 1] = data[line_start + j - 1]
    BY <1>4, <2>1, <2>2
  <2> QED
    BY <1>6, <2>1, <2>2, <2>3
<1>8. Str(Ended, line_start) = s
  <2>1. Str(Ended, line_start) = [j \in 1 .. n |-> Ended[line_start + j - 1]]
    BY <1>4, Zenon DEF Str, Cut
  <2>2. s = [j \in 1 .. n |-> s[j]]
    BY <1>6
  <2> QED
    BY <1>7, <2>1, <2>2
<1> DEFINE m == Len(arg)
<1>9. m \in Nat \ {0} /\ \A j \in 1 .. m : arg[j] # NUL
  BY <1>1, <1>2
<1>10. ASSUME NEW k \in line_start .. line_end - 1, Matches(k)
       PROVE  Occurs(s, arg)
  <2>1. \A j \in 1 .. m : k + j - 1 <= BufSize /\ Ended[k + j - 1] = arg[j]
    BY <1>10, Zenon DEF Matches
  <2>2. k + m <= line_end
    <3>1. SUFFICES ASSUME ~(k + m <= line_end) PROVE FALSE
      OBVIOUS
    <3>2. (line_end - k) + 1 \in 1 .. m /\ k + ((line_end - k) + 1) - 1 = line_end
      BY <1>1, <1>3, <1>9, <3>1
    <3>3. Ended[line_end] = arg[(line_end - k) + 1]
      BY <2>1, <3>2
    <3> QED
      BY <1>4, <1>9, <3>2, <3>3
  <2> DEFINE i == k - line_start
  <2>3. i \in 0 .. n - m /\ i \in Nat /\ i + m <= n
    BY <1>1, <1>3, <1>9, <2>2
  <2>4. SubSeq(s, i + 1, i + m) = [j \in 1 .. m |-> s[i + j]]
    <3> HIDE DEF i, m, n
    <3>1. i + 1 \in Nat /\ i + m \in Nat /\ m \in Nat
      BY <1>9, <2>3
    <3> QED
      BY <1>6, <2>3, <3>1
  <2>5. ASSUME NEW j \in 1 .. m PROVE s[i + j] = arg[j]
    <3>1. i + j \in 1 .. n /\ line_start + (i + j) - 1 = k + j - 1
      BY <1>1, <1>3, <1>9, <2>3
    <3>2. Ended[line_start + (i + j) - 1] = s[i + j]
      BY <1>7, <3>1
    <3> QED
      BY <2>1, <3>1, <3>2
  <2>6. arg = [j \in 1 .. m |-> arg[j]]
    BY <1>1
  <2>7. SubSeq(s, i + 1, i + m) = arg
    <3> HIDE DEF i, m
    <3> QED
      BY <2>4, <2>5, <2>6
  <2>8. i \in 0 .. Len(s) - m
    BY <1>6, <2>3
  <2> QED
    BY <2>7, <2>8, Zenon DEF Occurs
<1>11. ASSUME Occurs(s, arg)
       PROVE  \E k \in line_start .. line_end - 1 : Matches(k)
  <2>1. PICK i \in 0 .. Len(s) - m : SubSeq(s, i + 1, i + m) = arg
    BY <1>11, Zenon DEF Occurs
  <2>2. i \in Nat /\ i + m <= n /\ line_start + i \in line_start .. line_end - 1
    BY <1>1, <1>3, <1>6, <1>9, <2>1
  <2>3. SubSeq(s, i + 1, i + m) = [j \in 1 .. m |-> s[i + j]]
    <3> HIDE DEF m, n
    <3>1. i + 1 \in Nat /\ i + m \in Nat /\ m \in Nat
      BY <1>9, <2>2
    <3> QED
      BY <1>6, <2>2, <3>1
  <2>4. ASSUME NEW j \in 1 .. m
        PROVE  (line_start + i) + j - 1 <= BufSize /\ Ended[(line_start + i) + j - 1] = arg[j]
    <3>1. i + j \in 1 .. n /\ line_start + (i + j) - 1 = (line_start + i) + j - 1
      BY <1>1, <1>3, <1>9, <2>2
    <3>2. Ended[line_start + (i + j) - 1] = s[i + j] /\ line_start + (i + j) - 1 \in 0 .. BufSize
      BY <1>7, <3>1
    <3>3. arg[j] = s[i + j]
      BY <2>1, <2>3
    <3> QED
      BY <1>1, <3>1, <3>2, <3>3
  <2>5. Matches(line_start + i)
    BY <2>4, Zenon DEF Matches
  <2> QED
    BY <2>2, <2>5
<1>12. s = SubSeq(dir[file].text, (pos - last) + line_start + 1, (pos - last) + line_end)
  BY DEF s, t
<1> HIDE DEF base, n, m
<1> QED
  BY <1>8, <1>10, <1>11, <1>12, Zenon

\* Search prints the line if it contains the argument, and only then.
LEMMA SearchPrints ==
  ASSUME GrepInv, Search
  PROVE  LET q == IF line_end < last THEN ((pos - last) + line_end) + 1 ELSE pos
         IN /\ printed' = Printed(dir, arg, file, q)
            /\ Boundary(dir[file].text, q)
            /\ ~(line_end < last) => pos = Len(dir[file].text)
<1> DEFINE t == dir[file].text
           base == pos - last
           p == base + line_start
           e == base + line_end
           line == SubSeq(t, p + 1, e)
           q == IF line_end < last THEN e + 1 ELSE pos
           H == HitsTo(t, file, arg)
           A == AllHits(dir, arg)[file - 1]
           found == \E k \in line_start .. line_end - 1 : Matches(k)
<1>1. /\ BufSize \in Nat /\ line_start \in Nat /\ data \in [0 .. BufSize -> Bytes]
      /\ last \in 0 .. BufSize /\ line_start <= last /\ pos \in Nat
      /\ last <= pos /\ pos <= Len(t) /\ Boundary(t, p)
      /\ (cnt = 0 => pos = Len(t)) /\ (pos < Len(t) => last = BufSize)
      /\ GrepTypes /\ OnFile(dir, arg, file)
      /\ printed = A \o H[p]
  BY ConstantsAssumption, Zenon DEF GrepInv, GrepTypes, Lines, Search, Printed
<1>2. /\ t \in Seq(Bytes) /\ Len(t) \in Nat /\ Fits(t)
      /\ file \in DOMAIN dir /\ file \in 1 .. Len(dir) /\ dir \in Seq(Entries)
  BY <1>1, FileIs, Zenon
<1>3. /\ line_end \in line_start .. last
      /\ \A j \in line_start .. line_end - 1 : data[j] # NL
      /\ data[line_end] = NL <=> line_end < last
  BY LineEnd, Zenon DEF Search
<1>4. \A k \in line_start .. last - 1 : k \in 0 .. BufSize /\ data[k] = t[base + k + 1]
  BY EndedIs, Zenon DEF Search
<1>5. Str(Ended, line_start) = line /\ (Occurs(line, arg) <=> found)
  BY MatchesIs, Zenon DEF Search
<1>6. printed' = IF found THEN Append(printed, << file, Str(Ended, line_start) >>) ELSE printed
  BY Zenon DEF Search
<1>7. (data[line_end] = NL \/ cnt = 0 \/ line_start = 0)
  BY Zenon DEF Search
<1>t. H \in [0 .. Len(t) -> Seq(Hits(dir))] /\ A \in Seq(Hits(dir))
  <2>1. H \in [0 .. Len(t) -> Seq(Hits(dir))]
    BY <1>2, HitsToIs, Zenon
  <2>2. AllHits(dir, arg) \in [0 .. Len(dir) -> Seq(Hits(dir))]
    BY <1>2, AllHitsIs, Zenon
  <2>3. file - 1 \in 0 .. Len(dir)
    BY <1>2
  <2> QED
    BY <2>1, <2>2, <2>3
<1> HIDE DEF t, H, A, found, line
<1>8. /\ base \in Nat /\ p \in Nat /\ e \in p .. Len(t) /\ p <= pos
      /\ (line_end = last => e = pos) /\ (line_start = last => p = pos)
      /\ (line_end < last => e < Len(t))
  BY <1>1, <1>2, <1>3
<1>9. ASSUME NEW j \in p + 1 .. e PROVE t[j] # NL
  <2>1. /\ (j - base) - 1 \in line_start .. line_end - 1
        /\ (j - base) - 1 \in line_start .. last - 1
        /\ base + ((j - base) - 1) + 1 = j
    BY <1>1, <1>3, <1>8
  <2> QED
    BY <1>3, <1>4, <2>1
<1>10. ASSUME ~(line_end < last) PROVE pos = Len(t)
  <2>1. SUFFICES ASSUME pos # Len(t) PROVE FALSE
    OBVIOUS
  <2>2. line_end = last /\ cnt # 0 /\ data[line_end] # NL
    BY <1>1, <1>3, <1>10, <2>1
  <2>3. line_start = 0 /\ pos < Len(t) /\ last = BufSize
    BY <1>1, <1>2, <1>7, <2>1, <2>2
  <2>4. base + 1 \in 1 .. Len(t) + 1 - BufSize
    BY <1>1, <1>2, <1>8, <2>3
  <2>5. PICK j \in base + 1 .. (base + 1) + BufSize - 1 : t[j] = NL
    BY <1>2, <2>4, Zenon DEF Fits
  <2>6. j \in p + 1 .. e
    BY <1>1, <1>8, <2>2, <2>3
  <2> QED
    BY <1>9, <2>5, <2>6
<1>11. H[q] = (IF found THEN Append(H[p], << file, line >>) ELSE H[p]) /\ Boundary(t, q)
       /\ q \in 0 .. Len(t)
  <2>1. CASE line_start = last
    <3>1. line_end = last /\ q = pos /\ p = pos /\ q \in 0 .. Len(t)
      BY <1>1, <1>2, <1>3, <1>8, <2>1
    <3>2. ~found
      <4>1. line_start .. line_end - 1 = {}
        BY <1>1, <2>1, <3>1
      <4> QED
        BY <4>1 DEF found
    <3> QED
      BY <1>1, <3>1, <3>2
  <2>2. CASE line_start # last
    <3>1. p < Len(t)
      BY <1>1, <1>2, <2>2
    <3>2. \/ e = Len(t) /\ q = e
          \/ e < Len(t) /\ t[e + 1] = NL /\ q = e + 1
      <4>1. CASE line_end < last
        <5>1. line_end \in line_start .. last - 1 /\ base + line_end + 1 = e + 1
          BY <1>1, <1>3, <1>8, <4>1
        <5>2. t[e + 1] = NL
          BY <1>3, <1>4, <4>1, <5>1
        <5> QED
          BY <1>8, <4>1, <5>2
      <4>2. CASE ~(line_end < last)
        <5>1. e = Len(t) /\ q = e
          <6>1. line_end \in line_start .. last /\ last \in 0 .. BufSize /\ BufSize \in Nat
                /\ line_start \in Nat /\ (line_end = last => e = pos)
            BY <1>1, <1>3, <1>8, Zenon
          <6>2. line_end = last
            BY <4>2, <6>1
          <6>3. pos = Len(t) /\ q = pos
            BY <1>10, <4>2, Zenon
          <6> QED
            BY <6>1, <6>2, <6>3, Zenon
        <5> QED
          BY <5>1
      <4> QED
        BY <4>1, <4>2
    <3>3. /\ q \in p .. Len(t) /\ Boundary(t, q)
          /\ H[q] = IF Occurs(line, arg) THEN Append(H[p], << file, line >>) ELSE H[p]
      <4> HIDE DEF p, e, q
      <4>1. p \in Nat /\ e \in p .. Len(t) /\ \A j \in p + 1 .. e : t[j] # NL
        BY <1>8, <1>9, Zenon
      <4>2. Boundary(t, p) /\ p < Len(t)
        BY <1>1, <3>1, Zenon
      <4>3. LineOf(t, p, e, q)
        BY <3>2, <4>1, <4>2, Zenon DEF LineOf
      <4>4. q \in p .. Len(t) /\ Boundary(t, q) /\ FoundNext(dir, file, arg, p, e, q)
        BY <1>2, <4>3, LineHits, Zenon DEF t
      <4>5. H[q] = HitsWith(H[p], t, file, arg, p, e)
        BY <4>4, Zenon DEF FoundNext, t, H
      <4> QED
        BY <4>4, <4>5, Zenon DEF HitsWith, line
    <3>4. q \in 0 .. Len(t)
      BY <1>8, <3>3
    <3> QED
      BY <1>5, <3>3, <3>4
  <2> QED
    BY <2>1, <2>2
<1> HIDE DEF q
<1>12. printed' = A \o H[q]
  <2>1. p \in 0 .. Len(t)
    BY <1>1, <1>2, <1>8
  <2> HIDE DEF p
  <2>2. H[p] \in Seq(Hits(dir)) /\ H[q] \in Seq(Hits(dir))
    BY <1>t, <1>11, <2>1
  <2>3. CASE found
    <3>1. printed' = Append(A \o H[p], << file, line >>) /\ H[q] = Append(H[p], << file, line >>)
      BY <1>1, <1>5, <1>6, <1>11, <2>3
    <3> HIDE DEF e
    <3>2. Append(A \o H[p], << file, line >>) = A \o Append(H[p], << file, line >>)
      <4> DEFINE S == Hits(dir) \cup {<< file, line >>}
      <4>1. A \in Seq(S) /\ H[p] \in Seq(S)
        BY <1>t, <2>2
      <4>2. << file, line >> \in S
        OBVIOUS
      <4> HIDE DEF S
      <4>3. \A a, h \in Seq(S), x \in S : Append(a \o h, x) = a \o Append(h, x)
        OBVIOUS
      <4> QED
        BY <4>1, <4>2, <4>3, Zenon
    <3> QED
      BY <3>1, <3>2
  <2>4. CASE ~found
    BY <1>1, <1>6, <1>11, <2>4
  <2> QED
    BY <2>3, <2>4
<1> QED
  BY <1>10, <1>11, <1>12, Zenon DEF q, e, base, t, H, A, Printed

-----------------------------------------------------------------------------
(* Steps of the shell and of grep.                                         *)

\* An argument has no NUL, whatever is behind the command in buf.
LEMMA ArgumentTyped ==
  ASSUME LineInv, pc = "execute"
  PROVE  argument \in Seq(Bytes \ {NUL})
<1> DEFINE start == Find(buf, Stop + 1, NonSpace)
           f == Find(buf, start, {Space, NUL})
<1>1. /\ BufLen \in Nat /\ DOMAIN buf = 0 .. BufLen - 1
      /\ Len(typed) \in Nat /\ Len(typed) + 1 < BufLen
      /\ buf \in [0 .. BufLen - 1 -> Bytes]
  BY LineIs, Zenon DEF LineInv
<1>2. Stop + 1 \in 0 .. BufLen
  <2>1. Lead \in 0 .. Len(typed) /\ Stop \in Lead .. Len(typed)
    BY StopIs
  <2> QED
    BY <1>1, <2>1
<1>3. start \in 0 .. BufLen
  <2>1. start \in Stop + 1 .. BufLen
    BY <1>1, <1>2, FindIs, Zenon
  <2> HIDE DEF start
  <2> QED
    BY <1>1, <1>2, <2>1
<1> HIDE DEF start
<1>4. f \in start .. BufLen /\ \A j \in start .. f - 1 : buf[j] \notin {Space, NUL}
  BY <1>1, <1>3, FindIs, Zenon
<1>5. argument = [j \in 1 .. f - start |-> buf[start + j - 1]]
  BY Zenon DEF argument, Cut, start
<1> HIDE DEF f
<1>6. ASSUME NEW j \in 1 .. f - start PROVE buf[start + j - 1] \in Bytes \ {NUL}
  <2>1. start + j - 1 \in start .. f - 1 /\ start + j - 1 \in 0 .. BufLen - 1
    BY <1>1, <1>3, <1>4
  <2> QED
    BY <1>1, <1>4, <2>1
<1>7. f - start \in Nat
  BY <1>1, <1>3, <1>4
<1> QED
  BY <1>5, <1>6, <1>7

\* A step outside grep.
LEMMA GrepRests ==
  ASSUME GrepInv, LineInv', UNCHANGED << dir, file, one_file, printed >>,
         arg' \in Seq(Bytes \ {NUL}), pc # "lines",
         pc' \in {"prompt", "execute", "main"},
         outcome' # "done" \/ UNCHANGED << outcome, pc, arg >>
  PROVE  GrepInv'
<1>1. UNCHANGED << dir, file, data, last, pos, line_start, printed >>
  BY Zenon DEF one_file
<1>2. GrepTypes'
  BY <1>1 DEF GrepInv, GrepTypes
<1>3. (outcome = "done" => pc = "prompt" /\ printed = AllHits(dir, arg)[Len(dir)]) /\ NoLines(data)
  BY Zenon DEF GrepInv
<1>4. outcome' = "done" => pc' = "prompt" /\ printed' = AllHits(dir', arg')[Len(dir')]
  BY <1>1, <1>3
<1>5. NoLines(data')
  BY <1>1, <1>3
<1>6. pc' # "dir" /\ pc' # "read" /\ pc' # "lines"
  OBVIOUS
<1> QED
  BY <1>2, <1>4, <1>5, <1>6, Zenon DEF GrepInv

LEMMA NextEntryStep == GrepInv /\ LineInv' /\ NextEntry => GrepInv'
<1> SUFFICES ASSUME GrepInv, LineInv', NextEntry PROVE GrepInv'
  OBVIOUS
<1>1. /\ pc = "dir" /\ UNCHANGED << dir, arg, data, line_start, printed >>
      /\ GrepTypes /\ NoLines(data)
      /\ arg # << >> /\ file <= Len(dir) + 1 /\ printed = AllHits(dir, arg)[file - 1]
      /\ (outcome = "done" => pc = "prompt")
  <2>1. pc = "dir" /\ UNCHANGED << dir, arg, data, line_start, printed >>
    BY Zenon DEF NextEntry
  <2>2. pc # "lines" /\ pc # "prompt"
    BY <2>1
  <2> QED
    BY <2>1, <2>2, Zenon DEF GrepInv
<1>2. /\ dir \in Seq(Entries) /\ file \in Nat \ {0} /\ Len(dir) \in Nat
      /\ BufSize \in Nat \ {0}
  <2>1. dir \in Seq(Entries) /\ file \in Nat \ {0} /\ BufSize \in Nat \ {0}
    BY <1>1, ConstantsAssumption, Zenon DEF GrepTypes
  <2> QED
    BY <2>1
<1>3. NoLines(data') /\ outcome # "done" /\ printed' = printed
  BY <1>1
<1>4. AllHits(dir, arg) \in [0 .. Len(dir) -> Seq(Hits(dir))]
      /\ \A k \in 1 .. Len(dir) : AllHits(dir, arg)[k] = AllHits(dir, arg)[k - 1] \o HitsOf(dir, k, arg)
  BY <1>2, AllHitsIs, Zenon
<1>5. file - 1 \in 0 .. Len(dir) /\ AllHits(dir, arg)[file - 1] \in Seq(Hits(dir))
  <2>1. file - 1 \in 0 .. Len(dir)
    BY <1>1, <1>2
  <2> QED
    BY <1>4, <2>1
<1>6. CASE file > Len(dir)
  <2>1. outcome' = "done" /\ pc' = "prompt" /\ UNCHANGED << file, last, pos >>
    BY <1>6, Zenon DEF NextEntry
  <2>2. GrepTypes'
    BY <1>1, <2>1 DEF GrepTypes
  <2>3. file - 1 = Len(dir)
    BY <1>1, <1>2, <1>6
  <2>4. printed' = AllHits(dir', arg')[Len(dir')]
    BY <1>1, <2>3
  <2>5. pc' # "dir" /\ pc' # "read" /\ pc' # "lines"
    BY <2>1
  <2> QED
    BY <1>3, <2>1, <2>2, <2>4, <2>5, Zenon DEF GrepInv
<1>7. CASE ~(file > Len(dir)) /\ dir[file].name = Dot
  <2>1. file' = file + 1 /\ pc' = pc /\ last' = 0 /\ pos' = 0 /\ outcome' = outcome
    BY <1>7, Zenon DEF NextEntry
  <2>2. GrepTypes'
    <3>1. file' \in Nat \ {0} /\ last' \in 0 .. BufSize /\ pos' \in Nat
      BY <1>2, <2>1
    <3> QED
      BY <1>1, <3>1 DEF GrepTypes
  <2>3. file \in 1 .. Len(dir) /\ file' - 1 = file /\ file' <= Len(dir) + 1
    BY <1>2, <1>7, <2>1
  <2>4. HitsOf(dir, file, arg) = << >>
    BY <1>7, Zenon DEF HitsOf
  <2>5. AllHits(dir, arg)[file] = AllHits(dir, arg)[file - 1] \o << >>
    BY <1>4, <2>3, <2>4
  <2>6. AllHits(dir, arg)[file - 1] \o << >> = AllHits(dir, arg)[file - 1]
    BY <1>5
  <2>7. printed' = AllHits(dir', arg')[file' - 1]
    BY <1>1, <2>3, <2>5, <2>6
  <2>8. arg' # << >> /\ file' <= Len(dir') + 1
    BY <1>1, <2>3
  <2>9. pc' # "read" /\ pc' # "lines" /\ outcome' # "done"
    BY <1>1, <1>3, <2>1
  <2> QED
    BY <1>3, <2>2, <2>7, <2>8, <2>9, Zenon DEF GrepInv
<1>8. CASE ~(file > Len(dir)) /\ dir[file].name # Dot
  <2>1. pc' = "read" /\ file' = file /\ last' = 0 /\ pos' = 0 /\ outcome' = outcome
    BY <1>8, Zenon DEF NextEntry
  <2>2. GrepTypes'
    <3>1. file' \in Nat \ {0} /\ last' \in 0 .. BufSize /\ pos' \in Nat
      BY <1>2, <2>1
    <3> QED
      BY <1>1, <3>1 DEF GrepTypes
  <2>3. OnFile(dir, arg, file) /\ file \in 1 .. Len(dir)
    BY <1>1, <1>2, <1>8 DEF OnFile
  <2>4. Len(dir[file].text) \in Nat /\ file \in DOMAIN dir
    BY <1>1, <2>3, FileIs, Zenon
  <2>5. Reads(dir[file].text, data, 0, 0)
    <3>1. 0 - 0 = 0 /\ 0 < BufSize /\ 0 <= 0 /\ 0 <= Len(dir[file].text)
      BY <1>2, <2>4
    <3>2. Boundary(dir[file].text, 0 - 0)
      BY <3>1, Zenon DEF Boundary
    <3>3. \A k \in 0 .. 0 - 1 : FALSE
      OBVIOUS
    <3> QED
      BY <1>1, <3>1, <3>2, <3>3, Zenon DEF Reads
  <2>6. HitsTo(dir[file].text, file, arg)[0] = << >>
    BY <1>2, <2>4, HitsToIs, Zenon
  <2>7. printed = Printed(dir, arg, file, 0 - 0)
    <3>1. 0 - 0 = 0
      OBVIOUS
    <3>2. Printed(dir, arg, file, 0) = AllHits(dir, arg)[file - 1] \o << >>
      BY <2>6, Zenon DEF Printed
    <3> QED
      BY <1>1, <1>5, <3>1, <3>2
  <2>8. OnFile(dir', arg', file') /\ Reads(dir'[file'].text, data', last', pos')
        /\ printed' = Printed(dir', arg', file', pos' - last')
    BY <1>1, <2>1, <2>3, <2>5, <2>7
  <2>9. pc' # "dir" /\ pc' # "lines" /\ outcome' # "done"
    BY <1>3, <2>1
  <2> QED
    BY <1>3, <2>2, <2>8, <2>9, Zenon DEF GrepInv
<1> QED
  BY <1>6, <1>7, <1>8

LEMMA ReadStep == GrepInv /\ LineInv' /\ Read => GrepInv'
<1> SUFFICES ASSUME GrepInv, LineInv', Read PROVE GrepInv'
  OBVIOUS
<1> DEFINE t == dir[file].text
           n == Room(t, last, pos)
<1>1. /\ pc = "read" /\ pc' = "lines" /\ line_start' = 0
      /\ data' = Filled(t, data, last, pos, n)
      /\ cnt' = n /\ last' = last + n /\ pos' = pos + n
      /\ UNCHANGED << dir, arg, file, outcome, printed >>
  BY Zenon DEF Read, text, shell, Room, Filled
<1>2. /\ GrepTypes /\ OnFile(dir, arg, file) /\ Reads(t, data, last, pos)
      /\ printed = Printed(dir, arg, file, pos - last)
      /\ (outcome = "done" => pc = "prompt")
  BY <1>1, Zenon DEF GrepInv
<1>3. t \in Seq(Bytes) /\ data \in [0 .. BufSize -> Bytes] /\ last \in Nat /\ pos \in Nat
  <2>1. /\ data \in [0 .. BufSize -> Bytes] /\ last \in 0 .. BufSize /\ pos \in Nat
        /\ t \in Seq(Bytes)
    BY <1>2, FileIs, Zenon DEF GrepTypes
  <2> QED
    BY <2>1, ConstantsAssumption
<1>n. n = Room(t, last, pos)
  OBVIOUS
<1> HIDE DEF n, t
<1>4. /\ data' \in [0 .. BufSize -> Bytes] /\ last + n \in 0 .. BufSize /\ pos + n \in Nat
      /\ Lines(t, data', last + n, pos + n, 0, n)
      /\ n \in Nat
  BY <1>1, <1>2, <1>3, <1>n, ReadFills, Zenon
<1>e. ((pos + n) - (last + n)) + 0 = pos - last
  BY <1>3, <1>4
<1>5. GrepTypes'
  <2>1. line_start' \in Nat
    BY <1>1
  <2> QED
    BY <1>1, <1>2, <1>4, <2>1 DEF GrepTypes
<1>6. /\ OnFile(dir', arg', file')
      /\ Lines(dir'[file'].text, data', last', pos', line_start', cnt')
      /\ printed' = Printed(dir', arg', file', (pos' - last') + line_start')
  BY <1>1, <1>2, <1>4, <1>e DEF t
<1>7. pc' # "dir" /\ pc' # "read" /\ outcome' # "done"
  BY <1>1, <1>2
<1> QED
  BY <1>1, <1>5, <1>6, <1>7, Zenon DEF GrepInv

LEMMA CarryStep == GrepInv /\ LineInv' /\ Carry => GrepInv'
<1> SUFFICES ASSUME GrepInv, LineInv', Carry PROVE GrepInv'
  OBVIOUS
<1>1. /\ pc = "lines" /\ pc' = "read" /\ UNCHANGED << dir, arg, file, outcome, pos, line_start, printed >>
  BY Zenon DEF Carry, shell
<1>2. /\ GrepTypes /\ OnFile(dir, arg, file)
      /\ printed = Printed(dir, arg, file, (pos - last) + line_start)
      /\ (outcome = "done" => pc = "prompt")
  BY <1>1, Zenon DEF GrepInv
<1>3. /\ data' \in [0 .. BufSize -> Bytes] /\ last' \in 0 .. BufSize
      /\ Reads(dir[file].text, data', last', pos)
      /\ pos - last' = (pos - last) + line_start
  BY CarryKeeps
<1>4. GrepTypes'
  BY <1>1, <1>2, <1>3 DEF GrepTypes
<1>5. NoLines(data')
  BY <1>3, Zenon DEF Reads
<1>6. /\ OnFile(dir', arg', file') /\ Reads(dir'[file'].text, data', last', pos')
      /\ printed' = Printed(dir', arg', file', pos' - last')
  BY <1>1, <1>2, <1>3
<1>7. pc' # "dir" /\ pc' # "lines" /\ outcome' # "done"
  BY <1>1, <1>2
<1> QED
  BY <1>4, <1>5, <1>6, <1>7, Zenon DEF GrepInv

LEMMA SearchStep == GrepInv /\ LineInv' /\ Search => GrepInv'
<1> SUFFICES ASSUME GrepInv, LineInv', Search PROVE GrepInv'
  OBVIOUS
<1> DEFINE t == dir[file].text
           q == IF line_end < last THEN ((pos - last) + line_end) + 1 ELSE pos
<1>1. /\ pc = "lines" /\ data' = Ended /\ line_start' = line_end + 1
      /\ UNCHANGED << dir, arg, outcome, cnt, pos >>
      /\ IF line_end + 1 < last THEN UNCHANGED << last, pc, file >>
         ELSE /\ last' = 0
              /\ pc' = IF cnt = 0 THEN "dir" ELSE "read"
              /\ file' = IF cnt = 0 THEN file + 1 ELSE file
  BY Zenon DEF Search, shell
<1>2. /\ GrepTypes /\ OnFile(dir, arg, file)
      /\ (outcome = "done" => pc = "prompt")
      /\ Lines(t, data, last, pos, line_start, cnt)
  BY <1>1, Zenon DEF GrepInv
<1>3. /\ BufSize \in Nat \ {0} /\ line_start \in Nat /\ last \in 0 .. BufSize /\ pos \in Nat
      /\ file \in Nat \ {0} /\ last <= pos /\ pos <= Len(t)
      /\ (cnt = 0 => pos = Len(t)) /\ (pos < Len(t) => last = BufSize)
      /\ \A k \in 0 .. BufSize : data[k] = NL => k \in line_start .. last - 1
  BY <1>2, ConstantsAssumption, Zenon DEF GrepTypes, Lines
<1>4. /\ t \in Seq(Bytes) /\ Len(t) \in Nat
      /\ file \in DOMAIN dir /\ file \in 1 .. Len(dir) /\ dir \in Seq(Entries) /\ arg # << >>
  BY <1>2, FileIs, Zenon
<1>5. /\ line_end \in line_start .. last /\ line_end \in 0 .. BufSize
      /\ \A j \in line_start .. line_end - 1 : data[j] # NL
      /\ data[line_end] = NL <=> line_end < last
  BY <1>1, LineEnd
<1>6. /\ Ended \in [0 .. BufSize -> Bytes] /\ Ended[line_end] = NUL
      /\ \A k \in 0 .. BufSize : k # line_end => Ended[k] = data[k]
      /\ \A k \in line_start .. last - 1 :
           k \in 0 .. BufSize /\ data[k] = t[(pos - last) + k + 1]
  BY <1>1, EndedIs, Zenon
<1>7. /\ printed' = Printed(dir, arg, file, q) /\ Boundary(t, q)
      /\ ~(line_end < last) => pos = Len(t)
  BY SearchPrints, Zenon
<1>8. outcome' # "done"
  BY <1>1, <1>2
<1>9. ASSUME NEW k \in 0 .. BufSize, Ended[k] = NL
      PROVE  k \in line_end + 1 .. last - 1
  <2>1. k # line_end
    BY <1>6, <1>9 DEF NUL, NL
  <2>2. k \in line_start .. last - 1 /\ ~(k \in line_start .. line_end - 1)
    BY <1>3, <1>5, <1>6, <1>9, <2>1
  <2> QED
    BY <1>3, <1>5, <2>1, <2>2
<1> HIDE DEF t
<1>10. CASE line_end + 1 < last
  <2>1. UNCHANGED << last, pc, file >>
    BY <1>1, <1>10, Zenon
  <2>2. q = (pos - last) + (line_end + 1) /\ line_end + 1 \in Nat /\ line_end + 1 <= last
    BY <1>3, <1>5, <1>10
  <2>3. \A k \in line_end + 1 .. last - 1 : Ended[k] = t[(pos - last) + k + 1]
    <3>1. ASSUME NEW k \in line_end + 1 .. last - 1
          PROVE  k \in line_start .. last - 1 /\ k \in 0 .. BufSize /\ k # line_end
      BY <1>3, <1>5
    <3> QED
      BY <1>6, <3>1
  <2>4. Lines(t, Ended, last, pos, line_end + 1, cnt)
    <3>1. Boundary(t, (pos - last) + (line_end + 1))
      BY <1>7, <2>2
    <3> QED
      BY <1>3, <1>9, <2>2, <2>3, <3>1, Zenon DEF Lines
  <2>5. GrepTypes'
    BY <1>1, <1>2, <1>6, <2>1, <2>2 DEF GrepTypes
  <2>6. /\ OnFile(dir', arg', file')
        /\ Lines(dir'[file'].text, data', last', pos', line_start', cnt')
        /\ printed' = Printed(dir', arg', file', (pos' - last') + line_start')
    <3> HIDE DEF q
    <3> QED
      BY <1>1, <1>2, <1>7, <2>1, <2>2, <2>4 DEF t
  <2>7. pc' # "dir" /\ pc' # "read" /\ pc' = "lines"
    BY <1>1, <2>1
  <2> QED
    BY <1>8, <2>5, <2>6, <2>7, Zenon DEF GrepInv
<1>11. CASE ~(line_end + 1 < last)
  <2>1. /\ last' = 0
        /\ pc' = IF cnt = 0 THEN "dir" ELSE "read"
        /\ file' = IF cnt = 0 THEN file + 1 ELSE file
    BY <1>1, <1>11, Zenon
  <2>2. q = pos
    BY <1>3, <1>5, <1>11
  <2> HIDE DEF q
  <2>3. NoLines(data')
    <3>1. \A k \in 0 .. BufSize : Ended[k] # NL
      <4>1. line_end + 1 .. last - 1 = {}
        BY <1>3, <1>5, <1>11
      <4> QED
        BY <1>9, <4>1
    <3> QED
      BY <1>1, <3>1, Zenon DEF NoLines
  <2>4. GrepTypes'
    <3>1. last' \in 0 .. BufSize /\ line_start' \in Nat /\ file' \in Nat \ {0}
      BY <1>1, <1>3, <1>5, <2>1
    <3> QED
      BY <1>1, <1>2, <1>6, <3>1 DEF GrepTypes
  <2>5. CASE cnt = 0
    <3>1. pc' = "dir" /\ file' = file + 1 /\ pos = Len(t)
      BY <1>3, <2>1, <2>5
    <3>2. file' - 1 = file /\ file' <= Len(dir) + 1
      BY <1>3, <1>4, <3>1
    <3>3. \A k \in 1 .. Len(dir) : AllHits(dir, arg)[k] = AllHits(dir, arg)[k - 1] \o HitsOf(dir, k, arg)
      BY <1>4, AllHitsIs, Zenon
    <3>4. HitsOf(dir, file, arg) = HitsTo(t, file, arg)[Len(t)]
      BY <1>2, Zenon DEF HitsOf, OnFile, t
    <3>5. AllHits(dir, arg)[file] = Printed(dir, arg, file, pos)
      <4>1. AllHits(dir, arg)[file] = AllHits(dir, arg)[file - 1] \o HitsOf(dir, file, arg)
        BY <1>4, <3>3, Zenon
      <4> QED
        BY <3>1, <3>4, <4>1, Zenon DEF Printed, t
    <3>6. arg' # << >> /\ file' <= Len(dir') + 1 /\ printed' = AllHits(dir', arg')[file' - 1]
      BY <1>1, <1>4, <1>7, <2>2, <3>2, <3>5
    <3>7. pc' # "lines" /\ pc' # "read"
      BY <3>1
    <3> QED
      BY <1>8, <2>3, <2>4, <3>6, <3>7, Zenon DEF GrepInv
  <2>6. CASE cnt # 0
    <3>1. pc' = "read" /\ file' = file
      BY <2>1, <2>6
    <3>2. Reads(t, data', 0, pos)
      <4>1. pos - 0 = pos /\ 0 < BufSize /\ 0 <= pos /\ pos <= Len(t)
        BY <1>3
      <4>2. \A k \in 0 .. 0 - 1 : FALSE
        OBVIOUS
      <4> QED
        BY <1>7, <2>2, <2>3, <4>1, <4>2, Zenon DEF Reads
    <3>3. printed' = Printed(dir, arg, file, pos - 0)
      <4>1. pos - 0 = pos
        BY <1>3
      <4> QED
        BY <1>7, <2>2, <4>1
    <3>4. /\ OnFile(dir', arg', file') /\ Reads(dir'[file'].text, data', last', pos')
          /\ printed' = Printed(dir', arg', file', pos' - last')
      BY <1>1, <1>2, <2>1, <3>1, <3>2, <3>3 DEF t
    <3>5. pc' # "lines" /\ pc' # "dir"
      BY <3>1
    <3> QED
      BY <1>8, <2>3, <2>4, <3>4, <3>5, Zenon DEF GrepInv
  <2> QED
    BY <2>5, <2>6
<1> QED
  BY <1>10, <1>11

LEMMA GrepInvStep == GrepInv /\ [Next]_vars => GrepInv'
<1> SUFFICES ASSUME GrepInv, [Next]_vars PROVE GrepInv'
  OBVIOUS
<1>0. LineInv' /\ GrepTypes /\ (outcome = "done" => pc = "prompt") /\ arg \in Seq(Bytes \ {NUL})
  <2>1. LineInv /\ GrepTypes /\ (outcome = "done" => pc = "prompt") /\ arg \in Seq(Bytes \ {NUL})
    BY Zenon DEF GrepInv, GrepTypes
  <2> QED
    BY <2>1, LineInvStep
<1>1. CASE ReadLine
  <2>1. /\ pc = "prompt" /\ pc' \in {"prompt", "execute", "main"} /\ outcome' = "none"
        /\ UNCHANGED << arg, dir, file, one_file, printed >>
    BY <1>1, Zenon DEF ReadLine
  <2>2. pc # "lines" /\ outcome' # "done" /\ arg' \in Seq(Bytes \ {NUL})
    BY <1>0, <2>1
  <2> QED
    BY <1>0, <2>1, <2>2, GrepRests, Zenon
<1>2. CASE Execute
  <2>1. /\ pc = "execute" /\ pc' \in {"prompt", "execute", "main"}
        /\ outcome' = "no such command" \/ outcome' = outcome
        /\ arg' = argument \/ arg' = arg
        /\ UNCHANGED << dir, file, one_file, printed >>
    BY <1>2, Zenon DEF Execute
  <2>2. pc # "lines" /\ outcome' # "done"
    BY <1>0, <2>1
  <2>3. arg' \in Seq(Bytes \ {NUL})
    BY <1>0, <2>1, ArgumentTyped, Zenon DEF GrepInv
  <2> QED
    BY <1>0, <2>1, <2>2, <2>3, GrepRests, Zenon
<1>3. CASE Main /\ arg = << >>
  <2>1. /\ pc = "main" /\ pc' = "prompt" /\ outcome' = "terminated abnormally"
        /\ UNCHANGED << arg, dir, file, one_file, printed >>
    BY <1>3, Zenon DEF Main
  <2>2. /\ pc # "lines" /\ outcome' # "done" /\ arg' \in Seq(Bytes \ {NUL})
        /\ pc' \in {"prompt", "execute", "main"}
    BY <1>0, <2>1
  <2> QED
    BY <1>0, <2>1, <2>2, GrepRests, Zenon
<1>4. CASE Main /\ arg # << >>
  <2>1. /\ pc = "main" /\ pc' = "dir" /\ outcome' = outcome /\ file' = 1 /\ printed' = << >>
        /\ UNCHANGED << arg, dir, data, last, pos, line_start >>
    BY <1>4, Zenon DEF Main, one_file
  <2>2. /\ pc # "lines" /\ outcome' # "done" /\ pc' # "lines" /\ pc' # "read"
    BY <1>0, <2>1
  <2>3. NoLines(data') /\ dir \in Seq(Entries)
    <3>1. NoLines(data) /\ dir \in Seq(Entries)
      BY <2>2, Zenon DEF GrepInv, GrepTypes
    <3> QED
      BY <2>1, <3>1
  <2>4. GrepTypes'
    <3>1. file' \in Nat \ {0}
      BY <2>1
    <3> QED
      BY <1>0, <2>1, <3>1 DEF GrepTypes
  <2>5. AllHits(dir, arg)[0] = << >>
    BY <2>3, AllHitsIs, Zenon
  <2>6. arg' # << >> /\ file' <= Len(dir') + 1 /\ printed' = AllHits(dir', arg')[file' - 1]
    <3>1. 1 - 1 = 0 /\ 1 <= Len(dir) + 1
      BY <2>3
    <3> QED
      BY <1>4, <2>1, <2>5, <3>1
  <2> QED
    BY <1>0, <2>2, <2>3, <2>4, <2>6, Zenon DEF GrepInv
<1>5. CASE Idle \/ UNCHANGED vars
  <2>1. /\ UNCHANGED << pc, dir, file, printed, arg, outcome >>
        /\ UNCHANGED << data, last, cnt, pos, line_start >>
    BY <1>5, Zenon DEF Idle, vars, shell, one_file
  <2>2. GrepTypes'
    BY <1>0, <2>1 DEF GrepTypes
  <2> QED
    BY <1>0, <2>1, <2>2 DEF GrepInv
<1> QED
  BY <1>0, <1>1, <1>2, <1>3, <1>4, <1>5, NextEntryStep, ReadStep, CarryStep, SearchStep, Zenon
     DEF Next, Program

LEMMA GrepInvInit ==
  ASSUME Hazards \cap {"longline", "binary", "garbage"} = {}
  PROVE  Init => GrepInv
<1> SUFFICES ASSUME Init PROVE GrepInv
  OBVIOUS
<1>0. "longline" \notin Hazards /\ "binary" \notin Hazards /\ Hazards \cap {"garbage"} = {}
  OBVIOUS
<1>1. /\ pc = "prompt" /\ outcome = "none" /\ arg = << >> /\ file = 1 /\ last = 0 /\ pos = 0
      /\ line_start = 0 /\ world \in DOMAIN Worlds
      /\ dir \in Worlds[world].dirs /\ \A k \in DOMAIN dir : Fit(dir[k].text)
  BY Zenon DEF Init
<1>2. dir \in Seq(Entries)
  BY <1>1, WorldsAssumption, Zenon DEF Entries
<1>3. ASSUME NEW k \in DOMAIN dir PROVE Fits(dir[k].text)
  <2> DEFINE t == dir[k].text
  <2>1. t \in Seq(Bytes)
    <3>1. dir[k] \in Entries
      BY <1>2, <1>3
    <3> QED
      BY <3>1 DEF Entries
  <2>2. Fit(t)
    BY <1>1, <1>3, Zenon
  <2> HIDE DEF t
  <2>3. /\ NUL \notin Range(t)
        /\ ~ \E l \in 1 .. Len(t) + 1 - BufSize : \A j \in l .. l + BufSize - 1 : t[j] # NL
    BY <1>0, <2>2, Zenon DEF Fit
  <2>4. \A j \in 1 .. Len(t) : t[j] # NUL
    <3>1. DOMAIN t = 1 .. Len(t)
      BY <2>1
    <3> QED
      BY <2>3, <3>1, Zenon DEF Range
  <2>5. Fits(t)
    BY <2>3, <2>4, Zenon DEF Fits
  <2> QED
    BY <2>5 DEF t
<1>4. data = [k \in 0 .. BufSize |-> Junk]
  <2>1. data \in {[k \in 0 .. BufSize |-> b] : b \in {Junk} \cup {NL : h \in Hazards \cap {"garbage"}}}
    BY Zenon DEF Init
  <2> QED
    BY <1>0, <2>1
<1>5. BufSize \in Nat \ {0} /\ Junk \in Bytes
  BY ConstantsAssumption, Zenon
<1>6. data \in [0 .. BufSize -> Bytes] /\ \A k \in 0 .. BufSize : data[k] # NL
  BY <1>4, <1>5 DEF Junk, NL
<1>7. GrepTypes
  <2>1. /\ arg \in Seq(Bytes \ {NUL}) /\ file \in Nat \ {0} /\ last \in 0 .. BufSize
        /\ pos \in Nat /\ line_start \in Nat
    BY <1>1, <1>5
  <2> QED
    BY <1>2, <1>3, <1>6, <2>1, Zenon DEF GrepTypes
<1>8. NoLines(data)
  BY <1>6, Zenon DEF NoLines
<1>9. outcome # "done" /\ pc # "dir" /\ pc # "read" /\ pc # "lines"
  BY <1>1
<1> QED
  BY <1>7, <1>8, <1>9, LineInvInit, Zenon DEF GrepInv

\* Grep prints every line that contains its argument, whole, in order and
\* once, in each file that it reads, for every length of data and wherever
\* the reads divide a text: if no line is too long for data, no text has
\* NULs, and nothing before grep left a newline in data (do_one_file).
THEOREM GrepFinds ==
  ASSUME Hazards \cap {"longline", "binary", "garbage"} = {}
  PROVE  Spec => []GrepPrints
<1>1. Init => GrepInv
  BY GrepInvInit
<1>2. GrepInv /\ [Next]_vars => GrepInv'
  BY GrepInvStep
<1>3. GrepInv => GrepPrints
  BY AllFoundIs, Zenon DEF GrepInv, GrepPrints
<1> QED
  BY <1>1, <1>2, <1>3, PTL DEF Spec
=============================================================================
