---------------------------- MODULE ProgramProofs -----------------------------
(***************************************************************************)
(* From the command line and the file to the printed answer: the bit sets, *)
(* the options, the readers, the driver and the functions for the tasks,   *)
(* for every file, number of arguments and length of a word.  The run goes *)
(* through phases, and each has an invariant that its steps keep and whose *)
(* end gives the next: OptionsInv, AskedInv, ReadingInv, LoadedInv and     *)
(* RunInv, joined by PInv.                                                 *)
(***************************************************************************)
EXTENDS Program, EncodingProofs, SequenceTheorems, FunctionTheorems,
        WellFoundedInduction, NaturalsInduction

-----------------------------------------------------------------------------
(* The bit set: words, places and the walk over the set bits.              *)

(* A set of numbers that is not empty has a least one.                      *)
LEMMA LeastNat ==
  ASSUME NEW S \in SUBSET Nat, S # {}
  PROVE  \E m \in S : \A k \in S : m <= k
<1>. DEFINE lt == {p \in Nat \X Nat : p[1] < p[2]}
<1>1. IsWellFoundedOn(lt, Nat)
  BY NatLessThanWellFounded DEF OpToRel
<1>2. PICK m \in S : \A k \in S : ~(<<k, m>> \in lt)
  <2>. HIDE DEF lt
  <2>. QED  BY <1>1, WFMin
<1>3. ASSUME NEW k \in S
      PROVE  m <= k
  <2>1. k \in Nat /\ m \in Nat /\ <<k, m>> \notin lt
    BY <1>2
  <2>. QED  BY <2>1
<1>. QED  BY <1>3

(* FirstOf picks the least number.                                          *)
LEMMA FirstOfSpec ==
  ASSUME NEW S \in SUBSET Nat, S # {}
  PROVE  FirstOf(S) \in S /\ \A k \in S : FirstOf(S) <= k
<1>1. \E v \in S : \A u \in S : v <= u
  BY LeastNat
<1>. QED  BY <1>1 DEF FirstOf

-----------------------------------------------------------------------------
(* Words and places. *)

(* A place is a word and a place in it.                                     *)
LEMMA DivModSpec ==
  ASSUME NEW a \in Nat
  PROVE  /\ a \div WORD_BITS \in Nat /\ a % WORD_BITS \in 0 .. WORD_BITS - 1
         /\ a = (WORD_BITS * (a \div WORD_BITS)) + (a % WORD_BITS)
BY WordAssumption, SMTT(30)

(* Two places in the same word with the same remainder are one.             *)
LEMMA DivModUnique ==
  ASSUME NEW a \in Nat, NEW b \in Nat,
         a \div WORD_BITS = b \div WORD_BITS, a % WORD_BITS = b % WORD_BITS
  PROVE  a = b
BY DivModSpec

(* Later places are in later words or the same.                             *)
LEMMA DivMonotonic ==
  ASSUME NEW a \in Nat, NEW b \in Nat, a <= b
  PROVE  a \div WORD_BITS <= b \div WORD_BITS
BY WordAssumption, SMTT(30)

(* The places of word w are those from w * WORD_BITS up to the next word. *)
LEMMA WordPlaces ==
  ASSUME NEW a \in Nat, NEW w \in Nat
  PROVE  /\ a \div WORD_BITS = w <=> w * WORD_BITS <= a /\ a < (w + 1) * WORD_BITS
         /\ a \div WORD_BITS >= w <=> w * WORD_BITS <= a
         /\ w * WORD_BITS \in Nat /\ (w + 1) * WORD_BITS \in Nat
BY WordAssumption, SMTT(30)

-----------------------------------------------------------------------------
(* The scan inside a word stops at the first set bit, at the bound or at    *)
(* the end.                                                                 *)
LEMMA ScanFromSpec ==
  ASSUME NEW n \in Nat, NEW s \in BitSets(n), NEW j \in Nat, NEW bound \in Nat
  PROVE  LET k == ScanFrom(s, j, bound)
         IN  /\ k \in Nat /\ k >= j
             /\ k >= bound \/ k >= n \/ bitset__get(s, k)
             /\ \A l \in j .. k - 1 : l < bound /\ l < n /\ ~bitset__get(s, l)
<1>. DEFINE k == ScanFrom(s, j, bound)
<1>. DEFINE Stop(i) == i >= bound \/ i >= s.length \/ bitset__get(s, i)
            Stops == {i \in j .. j + bound + s.length : Stop(i)}
<1>0. s.length = n
  BY DEF BitSets
<1>1. j + bound + n \in Stops
  BY <1>0
<1>2. PICK m \in Stops : \A i \in Stops : m <= i
  <2>1. Stops \in SUBSET Nat
    BY <1>0
  <2>. HIDE DEF Stops
  <2>. QED  BY <1>1, <2>1, LeastNat
<1>3. \A l \in j .. m - 1 : ~Stop(l)
  BY <1>0, <1>2
<1>4. \E i \in j .. j + bound + s.length :
        /\ i >= bound \/ i >= s.length \/ bitset__get(s, i)
        /\ \A l \in j .. i - 1 : l < bound /\ l < s.length /\ ~bitset__get(s, l)
  BY <1>0, <1>2, <1>3
<1>5. /\ k \in j .. j + bound + s.length
      /\ k >= bound \/ k >= s.length \/ bitset__get(s, k)
      /\ \A l \in j .. k - 1 : l < bound /\ l < s.length /\ ~bitset__get(s, l)
  BY <1>4 DEF ScanFrom
<1>. QED  BY <1>0, <1>5

(* The search of the later words finds the first set bit of them, or there  *)
(* is none.                                                                 *)
LEMMA InLaterWordSpec ==
  ASSUME NEW n \in Nat, NEW s \in BitSets(n), NEW w \in Nat
  PROVE  LET a == InLaterWord(s, w)
         IN  \/ /\ a = -1
                /\ \A k \in 0 .. n - 1 : k >= (w + 1) * WORD_BITS => ~bitset__get(s, k)
             \/ /\ a \in 0 .. n - 1 /\ a >= (w + 1) * WORD_BITS /\ bitset__get(s, a)
                /\ \A k \in 0 .. a - 1 : k >= (w + 1) * WORD_BITS => ~bitset__get(s, k)
<1>. DEFINE a     == InLaterWord(s, w)
            words == NonZeroWords(s, w + 1)
            v     == FirstOf(words)
            j     == ScanFrom(s, v * WORD_BITS, n)
<1>0. /\ s.length = n
      /\ words \in SUBSET Nat
      /\ \A k \in 0 .. n - 1 : k \div WORD_BITS \in WordsOf(s)
      /\ WordsOf(s) \subseteq Nat
  <2>1. s.length = n /\ WordsOf(s) = 0 .. (n \div WORD_BITS)
    BY DivModSpec DEF BitSets, WordsOf, num_elements
  <2>2. \A k \in 0 .. n - 1 : k \div WORD_BITS \in 0 .. (n \div WORD_BITS)
    BY DivMonotonic, DivModSpec
  <2>3. n \div WORD_BITS \in Nat
    BY DivModSpec
  <2>4. words \in SUBSET WordsOf(s)
    BY DEF NonZeroWords
  <2>. QED  BY <2>1, <2>2, <2>3, <2>4
<1>1. ASSUME NEW k \in 0 .. n - 1, k >= (w + 1) * WORD_BITS, bitset__get(s, k)
      PROVE  k \div WORD_BITS \in words
  <2>1. k \div WORD_BITS >= w + 1
    BY <1>1, WordPlaces
  <2>. QED  BY <1>0, <1>1, <2>1 DEF NonZeroWords, bitset__get
<1>2. CASE words = {}
  <2>1. a = -1
    BY <1>2 DEF InLaterWord
  <2>. QED  BY <1>1, <1>2, <2>1
<1>3. CASE words # {}
  <2>1. v \in words /\ \A u \in words : v <= u
    <3>. HIDE DEF words
    <3>. QED  BY <1>0, <1>3, FirstOfSpec
  <2>2. v \in Nat /\ v >= w + 1 /\ v * WORD_BITS \in Nat
    BY <2>1, <1>0, WordPlaces DEF NonZeroWords
  <2>3. v * WORD_BITS >= (w + 1) * WORD_BITS
    BY <2>2, WordAssumption
  <2>4. a = IF j >= n THEN -1 ELSE j
    BY <1>0, <1>3 DEF InLaterWord
  <2>5. ASSUME NEW k \in 0 .. n - 1, k >= (w + 1) * WORD_BITS, bitset__get(s, k)
        PROVE  k >= v * WORD_BITS
    <3>1. k \div WORD_BITS >= v
      BY <1>1, <2>1, <2>5
    <3>. QED  BY <3>1, <2>2, WordPlaces
  <2>. HIDE DEF v
  <2>6. /\ j \in Nat /\ j >= v * WORD_BITS
        /\ j >= n \/ bitset__get(s, j)
        /\ \A l \in v * WORD_BITS .. j - 1 : l < n /\ ~bitset__get(s, l)
    BY <2>2, ScanFromSpec
  <2>. HIDE DEF j
  <2>7. CASE j >= n
    BY <2>2, <2>4, <2>5, <2>6, <2>7
  <2>8. CASE j < n
    <3>1. \A k \in 0 .. j - 1 : k >= (w + 1) * WORD_BITS => ~bitset__get(s, k)
      BY <2>2, <2>5, <2>6, <2>8
    <3>2. a = j /\ j \in 0 .. n - 1 /\ bitset__get(s, j)
      BY <2>4, <2>6, <2>8
    <3>3. j >= (w + 1) * WORD_BITS
      BY <2>2, <2>3, <2>6, WordPlaces
    <3>. QED  BY <3>1, <3>2, <3>3
  <2>. QED  BY <2>6, <2>7, <2>8
<1>. QED  BY <1>2, <1>3

(* bitset__next_set_bit returns the first set bit from idx on, and -1 if    *)
(* there is none.                                                           *)
THEOREM NextSetBitSpec ==
  ASSUME NEW n \in Nat, NEW s \in BitSets(n), NEW idx \in 0 .. n
  PROVE  LET a == bitset__next_set_bit(s, idx)
         IN  \/ a = -1 /\ \A k \in idx .. n - 1 : ~bitset__get(s, k)
             \/ /\ a \in idx .. n - 1 /\ bitset__get(s, a)
                /\ \A k \in idx .. a - 1 : ~bitset__get(s, k)
<1>. DEFINE a    == bitset__next_set_bit(s, idx)
            elem == idx \div WORD_BITS
            next == (elem + 1) * WORD_BITS
            j    == ScanFrom(s, idx, next)
<1>. SUFFICES \/ a = -1 /\ \A k \in idx .. n - 1 : ~bitset__get(s, k)
              \/ /\ a \in idx .. n - 1 /\ bitset__get(s, a)
                 /\ \A k \in idx .. a - 1 : ~bitset__get(s, k)
  OBVIOUS
<1>1. /\ s.length = n /\ elem \in Nat /\ next \in Nat /\ idx < next /\ idx \in Nat
      /\ \A k \in idx .. next - 1 : k \div WORD_BITS = elem
  <2>0. idx \in Nat
    OBVIOUS
  <2>9. s.length = n /\ elem \in Nat
    BY <2>0, DivModSpec DEF BitSets
  <2>. HIDE DEF elem
  <2>1. s.length = n /\ elem \in Nat /\ next \in Nat
    BY <2>9, WordPlaces
  <2>. USE DEF elem
  <2>2. idx < next /\ elem * WORD_BITS <= idx
    BY <2>1, WordPlaces
  <2>3. ASSUME NEW k \in idx .. next - 1
        PROVE  k \div WORD_BITS = elem
    <3>. HIDE DEF elem, next
    <3>1. elem * WORD_BITS \in Nat
      BY <2>1, WordPlaces
    <3>2. k \in Nat /\ elem * WORD_BITS <= k /\ k < next
      BY <2>0, <2>1, <2>2, <3>1
    <3>3. k < (elem + 1) * WORD_BITS
      BY <3>2 DEF next
    <3>. QED  BY <2>1, <3>2, <3>3, WordPlaces
  <2>. QED  BY <2>0, <2>1, <2>2, <2>3
<1>2. a = IF s.data[elem] = {} THEN InLaterWord(s, elem)
          ELSE IF j >= n THEN -1
          ELSE IF j < next THEN j
          ELSE InLaterWord(s, elem)
  BY <1>1 DEF bitset__next_set_bit
<1>3. /\ j \in Nat /\ j >= idx
      /\ j >= next \/ j >= n \/ bitset__get(s, j)
      /\ \A l \in idx .. j - 1 : l < next /\ l < n /\ ~bitset__get(s, l)
  BY <1>1, ScanFromSpec
<1>4. s.data[elem] = {} => \A k \in idx .. next - 1 : ~bitset__get(s, k)
  BY <1>1 DEF bitset__get
<1>. HIDE DEF a, elem, next, j
<1>5. ASSUME \A k \in idx .. next - 1 : ~bitset__get(s, k), a = InLaterWord(s, elem),
             next = (elem + 1) * WORD_BITS
      PROVE  \/ a = -1 /\ \A k \in idx .. n - 1 : ~bitset__get(s, k)
             \/ /\ a \in idx .. n - 1 /\ bitset__get(s, a)
                /\ \A k \in idx .. a - 1 : ~bitset__get(s, k)
  <2>1. \/ /\ a = -1
           /\ \A k \in 0 .. n - 1 : k >= next => ~bitset__get(s, k)
        \/ /\ a \in 0 .. n - 1 /\ a >= next /\ bitset__get(s, a)
           /\ \A k \in 0 .. a - 1 : k >= next => ~bitset__get(s, k)
    BY <1>1, <1>5, InLaterWordSpec
  <2>. QED  BY <1>1, <1>5, <2>1
<1>6. CASE s.data[elem] = {}
  BY <1>2, <1>4, <1>5, <1>6 DEF next
<1>7. CASE s.data[elem] # {} /\ j >= n
  BY <1>1, <1>2, <1>3, <1>7
<1>8. CASE s.data[elem] # {} /\ j < n /\ j < next
  BY <1>1, <1>2, <1>3, <1>8
<1>9. CASE s.data[elem] # {} /\ j < n /\ j >= next
  <2>1. \A k \in idx .. next - 1 : ~bitset__get(s, k)
    BY <1>1, <1>3, <1>9
  <2>2. a = InLaterWord(s, elem)
    BY <1>1, <1>2, <1>3, <1>9
  <2>. QED  BY <2>1, <2>2, <1>5 DEF next
<1>. QED  BY <1>1, <1>3, <1>6, <1>7, <1>8, <1>9

-----------------------------------------------------------------------------
(* The bits after a change. *)
LEMMA PlaceInWords ==
  ASSUME NEW n \in Nat, NEW k \in 0 .. n - 1
  PROVE  k \div WORD_BITS \in 0 .. num_elements(n) - 1 /\ k % WORD_BITS \in 0 .. WORD_BITS - 1
<1>1. k \in Nat /\ k <= n
  OBVIOUS
<1>2. /\ k \div WORD_BITS \in Nat /\ k \div WORD_BITS <= n \div WORD_BITS
      /\ n \div WORD_BITS \in Nat /\ k % WORD_BITS \in 0 .. WORD_BITS - 1
  BY <1>1, DivMonotonic, DivModSpec
<1>. QED  BY <1>2 DEF num_elements

(* After bitset__setAll every bit below the length is set, after            *)
(* bitset__unsetAll none.                                                   *)
LEMMA SetAllSpec ==
  ASSUME NEW n \in Nat, NEW s \in BitSets(n)
  PROVE  /\ bitset__setAll(s) \in BitSets(n)
         /\ \A k \in 0 .. n - 1 : bitset__get(bitset__setAll(s), k)
         /\ bitset__unsetAll(s) \in BitSets(n)
         /\ \A k \in 0 .. n - 1 : ~bitset__get(bitset__unsetAll(s), k)
<1>1. /\ WordsOf(s) = 0 .. num_elements(n) - 1 /\ num_elements(n) - 1 = n \div WORD_BITS
      /\ n \div WORD_BITS \in Nat
  BY DivModSpec DEF BitSets, WordsOf, num_elements
<1>2. \A k \in 0 .. n - 1 : k \div WORD_BITS \in WordsOf(s) /\ k % WORD_BITS \in 0 .. WORD_BITS - 1
  BY <1>1, PlaceInWords
<1>3. /\ bitset__setAll(s) \in BitSets(n) /\ bitset__unsetAll(s) \in BitSets(n)
  BY <1>1 DEF bitset__setAll, bitset__unsetAll, BitSets, Word
<1>4. \A w \in WordsOf(s) : bitset__setAll(s).data[w] = 0 .. WORD_BITS - 1 /\ bitset__unsetAll(s).data[w] = {}
  BY DEF bitset__setAll, bitset__unsetAll, BitSets
<1>. QED  BY <1>2, <1>3, <1>4 DEF bitset__get

(* bitset__set and bitset__unset change one bit and no other.               *)
LEMMA SetSpec ==
  ASSUME NEW n \in Nat, NEW s \in BitSets(n), NEW b \in 0 .. n - 1
  PROVE  /\ bitset__set(s, b) \in BitSets(n)
         /\ \A k \in 0 .. n - 1 : bitset__get(bitset__set(s, b), k) <=> bitset__get(s, k) \/ k = b
         /\ bitset__unset(s, b) \in BitSets(n)
         /\ \A k \in 0 .. n - 1 : bitset__get(bitset__unset(s, b), k) <=> bitset__get(s, k) /\ k # b
<1>1. /\ DOMAIN s.data = 0 .. num_elements(n) - 1 /\ num_elements(n) - 1 = n \div WORD_BITS
      /\ n \div WORD_BITS \in Nat
  BY DivModSpec DEF BitSets, num_elements
<1>2. \A k \in 0 .. n - 1 : k \div WORD_BITS \in DOMAIN s.data /\ k % WORD_BITS \in 0 .. WORD_BITS - 1
  BY <1>1, PlaceInWords
<1>3. /\ bitset__set(s, b) \in BitSets(n) /\ bitset__unset(s, b) \in BitSets(n)
  BY <1>1, <1>2 DEF bitset__set, bitset__unset, BitSets, Word
<1>4. ASSUME NEW k \in 0 .. n - 1
      PROVE  /\ bitset__get(bitset__set(s, b), k) <=> bitset__get(s, k) \/ k = b
             /\ bitset__get(bitset__unset(s, b), k) <=> bitset__get(s, k) /\ k # b
  <2>1. k \div WORD_BITS = b \div WORD_BITS /\ k % WORD_BITS = b % WORD_BITS => k = b
    BY DivModUnique
  <2>2. /\ bitset__set(s, b).data[k \div WORD_BITS] =
             IF k \div WORD_BITS = b \div WORD_BITS THEN s.data[k \div WORD_BITS] \cup {b % WORD_BITS}
             ELSE s.data[k \div WORD_BITS]
        /\ bitset__unset(s, b).data[k \div WORD_BITS] =
             IF k \div WORD_BITS = b \div WORD_BITS THEN s.data[k \div WORD_BITS] \ {b % WORD_BITS}
             ELSE s.data[k \div WORD_BITS]
    BY <1>2 DEF bitset__set, bitset__unset, BitSets
  <2>. QED  BY <2>1, <2>2 DEF bitset__get
<1>. QED  BY <1>3, <1>4

-----------------------------------------------------------------------------
(* A set of numbers up to n that has n, and with a number the one below.    *)
LEMMA DownToZero ==
  ASSUME NEW n \in Nat, NEW S \in SUBSET (0 .. n), n \in S,
         \A m \in S : m > 0 => m - 1 \in S
  PROVE  0 \in S
<1>0. S \in SUBSET Nat
  OBVIOUS
<1>1. PICK m \in S : \A k \in S : m <= k
  BY <1>0, LeastNat
<1>2. m = 0
  BY <1>1
<1>. QED  BY <1>2

(* A sequence with one more element in front.                               *)
LEMMA ConsSpec ==
  ASSUME NEW S, NEW a \in S, NEW q \in Seq(S)
  PROVE  /\ <<a>> \o q \in Seq(S)
         /\ Len(<<a>> \o q) = Len(q) + 1
         /\ (<<a>> \o q)[1] = a
         /\ \A i \in 1 .. Len(q) : (<<a>> \o q)[i + 1] = q[i]
         /\ \A i \in 2 .. Len(q) + 1 : (<<a>> \o q)[i] = q[i - 1]
<1>1. <<a>> \in Seq(S) /\ Len(<<a>>) = 1 /\ <<a>>[1] = a /\ Len(q) \in Nat
  OBVIOUS
<1>2. /\ <<a>> \o q \in Seq(S) /\ Len(<<a>> \o q) = 1 + Len(q)
      /\ \A i \in 1 .. 1 + Len(q) :
           (<<a>> \o q)[i] = IF i <= 1 THEN <<a>>[i] ELSE q[i - 1]
  BY <1>1, ConcatProperties
<1>. QED  BY <1>1, <1>2

(* One turn of the walk, when the rest of it is given by f.                 *)
WalkStep(s, f, k) ==
  LET a == bitset__next_set_bit(s, k)
  IN  IF a = -1 THEN << >> ELSE <<a>> \o f[a + 1]

(* A walk over the set bits from k on.                                      *)
Lists(q, S) ==
  /\ q \in Seq(S)
  /\ \A b \in S : \E i \in 1 .. Len(q) : q[i] = b
  /\ \A i, j \in 1 .. Len(q) : q[i] = q[j] => i = j

(* There is a function that satisfies the equation of the walk: the largest *)
(* number up to which there is one can be exceeded, so it is the length.    *)
LEMMA WalkExists ==
  ASSUME NEW n \in Nat, NEW s \in BitSets(n)
  PROVE  \E f : f = [k \in 0 .. n |-> WalkStep(s, f, k)]
<1>. DEFINE next(k) == bitset__next_set_bit(s, k)
            Good == {m \in 0 .. n : \E f : \A k \in m .. n : f[k] = WalkStep(s, f, k)}
<1>1. \A k \in 0 .. n : next(k) = -1 \/ next(k) \in k .. n - 1
  BY NextSetBitSpec
<1>2. n \in Good
  <2>1. next(n) = -1
    BY <1>1
  <2>. DEFINE f == [k \in {n} |-> << >>]
  <2>2. \A k \in n .. n : f[k] = WalkStep(s, f, k)
    BY <2>1 DEF WalkStep
  <2>. HIDE DEF f
  <2>3. \E g : \A k \in n .. n : g[k] = WalkStep(s, g, k)
    BY <2>2
  <2>. QED  BY <2>3
<1>3. ASSUME NEW m \in Good, m > 0
      PROVE  m - 1 \in Good
  <2>1. PICK f : \A k \in m .. n : f[k] = WalkStep(s, f, k)
    OBVIOUS
  <2>. DEFINE g == [k \in m - 1 .. n |-> IF k = m - 1 THEN WalkStep(s, f, k) ELSE f[k]]
  <2>2. m \in 1 .. n
    BY <1>3
  <2>3. ASSUME NEW k \in m - 1 .. n
        PROVE  g[k] = WalkStep(s, g, k)
    <3>1. next(k) # -1 => next(k) + 1 \in m .. n
      BY <1>1, <2>2
    <3>. HIDE DEF next
    <3>2. next(k) # -1 => g[next(k) + 1] = f[next(k) + 1]
      BY <3>1, <2>2
    <3>3. g[k] = WalkStep(s, f, k)
      BY <2>1, <2>2
    <3>. HIDE DEF g
    <3>4. WalkStep(s, g, k) = WalkStep(s, f, k)
      BY <3>2 DEF WalkStep, next
    <3>. QED  BY <3>3, <3>4
  <2>. HIDE DEF g
  <2>4. \E h : \A k \in m - 1 .. n : h[k] = WalkStep(s, h, k)
    BY <2>3
  <2>5. m - 1 \in 0 .. n
    BY <2>2
  <2>. QED  BY <2>4, <2>5
<1>4. 0 \in Good
  <2>1. Good \in SUBSET (0 .. n)
    OBVIOUS
  <2>. HIDE DEF Good
  <2>. QED  BY <1>2, <1>3, <2>1, DownToZero
<1>5. PICK f : \A k \in 0 .. n : f[k] = WalkStep(s, f, k)
  BY <1>4
<1>. DEFINE h == [k \in 0 .. n |-> f[k]]
<1>6. ASSUME NEW k \in 0 .. n
      PROVE  h[k] = WalkStep(s, h, k)
  <2>1. next(k) # -1 => next(k) + 1 \in 0 .. n
    BY <1>1
  <2>. HIDE DEF next
  <2>2. next(k) # -1 => h[next(k) + 1] = f[next(k) + 1]
    BY <2>1
  <2>3. h[k] = WalkStep(s, f, k)
    BY <1>5
  <2>. HIDE DEF h
  <2>. QED  BY <2>2, <2>3 DEF WalkStep, next
<1>7. h = [k \in 0 .. n |-> h[k]]
  OBVIOUS
<1>. HIDE DEF h
<1>8. h = [k \in 0 .. n |-> WalkStep(s, h, k)]
  BY <1>6, <1>7
<1>. QED  BY <1>8

(* The walk visits every set bit below the length once.                     *)
THEOREM WalkSpec ==
  ASSUME NEW n \in Nat, NEW s \in BitSets(n)
  PROVE  Lists(WalkOf(s), {k \in 0 .. n - 1 : bitset__get(s, k)})
<1>. DEFINE next(k)  == bitset__next_set_bit(s, k)
            From(m)  == {k \in m .. n - 1 : bitset__get(s, k)}
            f == CHOOSE g : g = [k \in 0 .. n |-> WalkStep(s, g, k)]
            Good == {m \in 0 .. n : \A k \in m .. n : Lists(f[k], From(k))}
<1>0. s.length = n
  BY DEF BitSets
<1>1. WalkOf(s) = f[0]
  BY <1>0 DEF WalkOf, WalkStep
<1>2. \A k \in 0 .. n : f[k] = WalkStep(s, f, k)
  <2>1. f = [k \in 0 .. n |-> WalkStep(s, f, k)]
    BY WalkExists
  <2>. HIDE DEF f
  <2>. QED  BY <2>1
<1>. HIDE DEF f
<1>3. \A k \in 0 .. n :
         \/ next(k) = -1 /\ From(k) = {}
         \/ /\ next(k) \in k .. n - 1
            /\ From(k) = {next(k)} \cup From(next(k) + 1)
  <2>1. TAKE k \in 0 .. n
  <2>2. \/ next(k) = -1 /\ \A l \in k .. n - 1 : ~bitset__get(s, l)
        \/ /\ next(k) \in k .. n - 1 /\ bitset__get(s, next(k))
           /\ \A l \in k .. next(k) - 1 : ~bitset__get(s, l)
    BY NextSetBitSpec
  <2>. HIDE DEF next
  <2>3. CASE next(k) = -1 /\ \A l \in k .. n - 1 : ~bitset__get(s, l)
    BY <2>3
  <2>4. CASE /\ next(k) \in k .. n - 1 /\ bitset__get(s, next(k))
             /\ \A l \in k .. next(k) - 1 : ~bitset__get(s, l)
    <3>1. ASSUME NEW l
          PROVE  l \in From(k) <=> l \in {next(k)} \cup From(next(k) + 1)
      BY <2>4
    <3>2. From(k) = {next(k)} \cup From(next(k) + 1)
      <4>. HIDE DEF From
      <4>. QED  BY <3>1
    <3>. QED  BY <2>4, <3>2
  <2>. QED  BY <2>2, <2>3, <2>4
<1>4. ASSUME NEW k \in 0 .. n, next(k) # -1 => Lists(f[next(k) + 1], From(next(k) + 1))
      PROVE  Lists(f[k], From(k))
  <2>1. CASE next(k) = -1
    <3>1. f[k] = << >>
      BY <1>2, <2>1 DEF WalkStep
    <3>. HIDE DEF From, next
    <3>2. From(k) = {}
      BY <1>3, <2>1
    <3>. QED  BY <3>1, <3>2 DEF Lists
  <2>2. CASE next(k) # -1
    <3>. DEFINE a == next(k)
                q == f[a + 1]
                S == From(k)
    <3>1. f[k] = <<a>> \o q
      BY <1>2, <2>2 DEF WalkStep
    <3>2. S = {a} \cup From(a + 1) /\ a \notin From(a + 1)
      <4>1. a \in k .. n - 1 /\ S = {a} \cup From(a + 1)
        BY <1>3, <2>2
      <4>. HIDE DEF a, S
      <4>. QED  BY <4>1
    <3>3. Lists(q, From(a + 1))
      BY <1>4, <2>2
    <3>. HIDE DEF a, q, S, From
    <3>4. q \in Seq(S) /\ q \in Seq(From(a + 1)) /\ a \in S
      BY <3>2, <3>3 DEF Lists
    <3>5. /\ <<a>> \o q \in Seq(S)
          /\ Len(<<a>> \o q) = Len(q) + 1 /\ Len(q) \in Nat
          /\ (<<a>> \o q)[1] = a
          /\ \A i \in 1 .. Len(q) : (<<a>> \o q)[i + 1] = q[i]
          /\ \A i \in 2 .. Len(q) + 1 : (<<a>> \o q)[i] = q[i - 1] /\ i - 1 \in 1 .. Len(q)
          /\ \A i \in 1 .. Len(q) : q[i] \in From(a + 1) /\ i + 1 \in 1 .. Len(q) + 1
      BY <3>4, ConsSpec
    <3>. DEFINE r == <<a>> \o q
    <3>6. \A b \in S : \E i \in 1 .. Len(r) : r[i] = b
      <4>1. 1 \in 1 .. Len(q) + 1
        BY <3>5
      <4>2. TAKE b \in S
      <4>3. CASE b = a
        BY <3>5, <4>1, <4>3
      <4>4. CASE b \in From(a + 1)
        <5>1. PICK i \in 1 .. Len(q) : q[i] = b
          BY <3>3, <4>4 DEF Lists
        <5>2. r[i + 1] = b /\ i + 1 \in 1 .. Len(r)
          BY <3>5, <5>1
        <5>. QED  BY <5>2
      <4>. QED  BY <3>2, <4>3, <4>4
    <3>7. \A i, j \in 1 .. Len(r) : r[i] = r[j] => i = j
      <4>1. TAKE i, j \in 1 .. Len(r)
      <4>2. HAVE r[i] = r[j]
      <4>3. (i = 1 \/ i \in 2 .. Len(q) + 1) /\ (j = 1 \/ j \in 2 .. Len(q) + 1)
        BY <3>5
      <4>4. CASE i = 1 \/ j = 1
        BY <3>2, <3>5, <4>2, <4>3, <4>4
      <4>5. CASE i \in 2 .. Len(q) + 1 /\ j \in 2 .. Len(q) + 1
        <5>1. q[i - 1] = q[j - 1] /\ i - 1 \in 1 .. Len(q) /\ j - 1 \in 1 .. Len(q)
          BY <3>5, <4>2, <4>5
        <5>2. i - 1 = j - 1
          BY <3>3, <5>1 DEF Lists
        <5>. QED  BY <4>5, <5>2, <3>5
      <4>. QED  BY <4>3, <4>4, <4>5
    <3>8. Lists(r, S)
      BY <3>5, <3>6, <3>7 DEF Lists
    <3>. QED  BY <3>1, <3>8 DEF S
  <2>. QED  BY <2>1, <2>2
<1>5. n \in Good
  <2>1. n \in 0 .. n /\ next(n) = -1
    BY <1>3
  <2>2. Lists(f[n], From(n))
    BY <1>4, <2>1
  <2>. HIDE DEF next, From
  <2>. QED  BY <2>2
<1>6. ASSUME NEW m \in Good, m > 0
      PROVE  m - 1 \in Good
  <2>1. m \in 1 .. n /\ \A k \in m .. n : Lists(f[k], From(k))
    BY <1>6
  <2>2. next(m - 1) # -1 => next(m - 1) + 1 \in m .. n
    BY <1>3, <2>1
  <2>. HIDE DEF next, From
  <2>3. next(m - 1) # -1 => Lists(f[next(m - 1) + 1], From(next(m - 1) + 1))
    BY <2>1, <2>2
  <2>4. m - 1 \in 0 .. n
    BY <2>1
  <2>5. Lists(f[m - 1], From(m - 1))
    BY <1>4, <2>3, <2>4
  <2>6. \A k \in m - 1 .. n : k = m - 1 \/ k \in m .. n
    BY <2>1
  <2>. QED  BY <2>1, <2>4, <2>5, <2>6
<1>7. 0 \in Good
  <2>1. Good \in SUBSET (0 .. n)
    OBVIOUS
  <2>. HIDE DEF Good
  <2>. QED  BY <1>5, <1>6, <2>1, DownToZero
<1>8. Lists(f[0], From(0))
  <2>. HIDE DEF From
  <2>. QED  BY <1>7
<1>. QED  BY <1>1, <1>8

(* LastOf picks the greatest of some places.                                *)
LEMMA LastSpec ==
  ASSUME NEW n \in Nat, NEW S \in SUBSET (1 .. n), S # {}
  PROVE  LastOf(S) \in S /\ \A l \in S : l <= LastOf(S)
<1>. DEFINE Mirror == {n - k : k \in S}
<1>0. ASSUME NEW l \in S
      PROVE  l \in Nat /\ n - l \in Nat
  <2>1. l \in 1 .. n
    OBVIOUS
  <2>. QED  BY <2>1
<1>1. Mirror \in SUBSET Nat /\ Mirror # {}
  BY <1>0
<1>2. PICK m \in Mirror : \A k \in Mirror : m <= k
  <2>. HIDE DEF Mirror
  <2>. QED  BY <1>1, LeastNat
<1>3. PICK k \in S : m = n - k
  BY <1>2
<1>4. \A l \in S : n - l \in Mirror
  OBVIOUS
<1>5. ASSUME NEW l \in S
      PROVE  l <= k
  <2>1. m <= n - l
    BY <1>2, <1>4
  <2>. QED  BY <1>0, <1>3, <2>1
<1>. QED  BY <1>5 DEF LastOf

-----------------------------------------------------------------------------
(* The command line.  The options before the token looked at, and what the  *)
(* field of an option holds after those at S.                               *)
Before(o)   == {k \in Places(o) : k < at}
Value(o, S) ==
  IF S = {} THEN (IF o = "-fo" THEN NULL ELSE Unset)
  ELSE Token(1 + LastOf(S))

(* The fields and the counter after the options before the token looked at. *)
OptionsInv ==
  /\ at \in Nat \ {0} /\ at % 2 = 1
  /\ task = [track       |-> Value("-p", Before("-p")), file   |-> Value("-f", Before("-f")),
              argAsString |-> Value("-a", Before("-a")), format |-> Value("-fo", Before("-fo"))]
  /\ param \in Nat
  /\ Before("-p") # {} \/ Before("-f") # {} => param >= 1
  /\ Before("-p") # {} /\ Before("-f") # {} => param >= 2
  /\ Before("--formats") \cup Before("--problems") = {}

(* The fields after the last option. *)
AskedInv ==
  /\ task.file = Value("-f", Places("-f"))
  /\ task.argAsString = Value("-a", Places("-a"))
  /\ task.format = Value("-fo", Places("-fo"))
  /\ IsGiven("-p")
  /\ Places("--formats") \cup Places("--problems") = {}

(* The field of an option after the last token: its value, or what it was   *)
(* set to before.                                                           *)
LEMMA ValueSpec ==
  ASSUME NEW o, argv \in Seq(STRING \ {Unset, NULL})
  PROVE  /\ IsGiven(o) => Value(o, Places(o)) = Given(o) /\ Given(o) \in STRING \ {Unset, NULL}
         /\ ~IsGiven(o) => Value(o, Places(o)) \in {Unset, NULL}
<1>. DEFINE S == Places(o)
            last == LastOf(S)
<1>1. S \in SUBSET (1 .. Len(argv)) /\ Len(argv) \in Nat
  BY DEF Places
<1>. HIDE DEF S
<1>9. \A k \in S : k \in 1 .. Len(argv)
  BY <1>1
<1>2. S # {} => last \in S /\ \A l \in S : l <= last
  BY <1>1, LastSpec
<1>. HIDE DEF last
<1>3. S # {} => Value(o, S) = Token(1 + last) /\ Given(o) = argv[1 + last]
  BY DEF Value, Given, last, S
<1>4. S = {} => Value(o, S) \in {Unset, NULL} /\ ~IsGiven(o)
  BY DEF Value, IsGiven, S
<1>5. CASE S # {} /\ Len(argv) \in S
  <2>0. last \in Nat /\ last <= Len(argv) /\ Len(argv) <= last
    <3>1. last \in S
      BY <1>2, <1>5
    <3>2. last \in 1 .. Len(argv)
      BY <1>9, <3>1
    <3>3. Len(argv) <= last
      BY <1>2, <1>5
    <3>. QED  BY <1>1, <3>2, <3>3
  <2>1. last = Len(argv)
    BY <1>1, <2>0
  <2>2. Value(o, S) = NULL
    BY <1>1, <1>3, <1>5, <2>1 DEF Token
  <2>. QED  BY <1>5, <2>2 DEF IsGiven, S
<1>6. CASE S # {} /\ Len(argv) \notin S
  <2>0. last \in S /\ last # Len(argv)
    BY <1>2, <1>6
  <2>9. last \in 1 .. Len(argv)
    BY <1>9, <2>0
  <2>1. 1 + last \in 1 .. Len(argv)
    BY <1>1, <2>0, <2>9
  <2>2. Value(o, S) = argv[1 + last]
    BY <1>1, <1>3, <1>6, <2>1 DEF Token
  <2>3. argv[1 + last] \in STRING \ {Unset, NULL}
    BY <2>1
  <2>. QED  BY <1>3, <1>6, <2>2, <2>3 DEF IsGiven, S
<1>. QED  BY <1>4, <1>5, <1>6 DEF S

(* One option further: what was seen of each kind, and its field.           *)
LEMMA NextPlaces ==
  ASSUME argv \in Seq(STRING \ {Unset, NULL}), argv' = argv, at \in Nat \ {0}, at % 2 = 1, at' = at + 2,
         at <= Len(argv), NEW o
  PROVE  /\ Before(o)' = Before(o) \cup (IF argv[at] = o THEN {at} ELSE {})
         /\ Value(o, Before(o))' = IF argv[at] = o THEN Token(at + 1) ELSE Value(o, Before(o))
<1>0. at + 1 \in Nat /\ (at + 1) % 2 = 0 /\ at \in 1 .. Len(argv)
  BY SMTT(20)
<1>1. Before(o)' = {k \in Places(o) : k < at + 2}
  BY DEF Before, Places
<1>2. ASSUME NEW k
      PROVE  k \in Before(o)' <=> k \in Before(o) \cup (IF argv[at] = o THEN {at} ELSE {})
  <2>1. k \in Places(o) => k \in Nat /\ k # at + 1
    BY <1>0 DEF Places
  <2>2. k \in Places(o) => (k < at + 2 <=> k < at \/ k = at)
    BY <2>1
  <2>3. at \in Places(o) <=> argv[at] = o
    BY <1>0 DEF Places
  <2>. QED  BY <1>1, <2>2, <2>3 DEF Before
<1>3. Before(o)' = Before(o) \cup (IF argv[at] = o THEN {at} ELSE {})
  BY <1>2
<1>4. CASE argv[at] = o
  <2>1. \A k \in Before(o)' : k \in Nat /\ k <= at
    BY <1>3, <1>4 DEF Before, Places
  <2>2. LastOf(Before(o)') = at
    BY <1>3, <1>4, <2>1 DEF LastOf
  <2>3. Before(o)' # {}
    BY <1>3, <1>4
  <2>4. Value(o, Before(o))' = Token(1 + at)
    BY <2>2, <2>3 DEF Value, Token
  <2>. QED  BY <1>3, <1>4, <2>4
<1>5. CASE argv[at] # o
  <2>1. Before(o)' = Before(o)
    BY <1>3, <1>5
  <2>2. Value(o, Before(o))' = Value(o, Before(o))
    BY <2>1 DEF Value, Token
  <2>. QED  BY <1>3, <1>5, <2>2
<1>. QED  BY <1>4, <1>5

(* An option with a value keeps the invariant of the options.               *)
LEMMA ReadOptionKeeps ==
  ASSUME argv \in Seq(STRING \ {Unset, NULL}), OptionsInv, ReadOption
  PROVE  OptionsInv'
<1>1. /\ argv' = argv /\ at \in Nat \ {0} /\ at % 2 = 1 /\ at' = at + 2 /\ at <= Len(argv)
      /\ argv[at] \in {"-p", "-f", "-a", "-fo"}
      /\ task' = [task EXCEPT ![Field[argv[at]]] = Token(at + 1)]
      /\ param' = (IF argv[at] = "-a" THEN param ELSE param + 1) /\ param \in Nat
  BY DEF OptionsInv, ReadOption, Field
<1>2. at' \in Nat \ {0} /\ at' % 2 = 1
  BY <1>1, SMTT(20)
<1>3. \A o \in {"-p", "-f", "-a", "-fo", "--formats", "--problems"} :
         /\ Before(o)' = Before(o) \cup (IF argv[at] = o THEN {at} ELSE {})
         /\ Value(o, Before(o))' = IF argv[at] = o THEN Token(at + 1) ELSE Value(o, Before(o))
  BY <1>1, NextPlaces
<1>4. task' = [track       |-> Value("-p", Before("-p"))', file   |-> Value("-f", Before("-f"))',
               argAsString |-> Value("-a", Before("-a"))', format |-> Value("-fo", Before("-fo"))']
  BY <1>1, <1>3 DEF OptionsInv, Field
<1>5. param' \in Nat /\ ((Before("-p") # {})' \/ (Before("-f") # {})' => param' >= 1)
  BY <1>1, <1>3 DEF OptionsInv
<1>6. (Before("-p") # {})' /\ (Before("-f") # {})' => param' >= 2
  BY <1>1, <1>3 DEF OptionsInv
<1>7. (Before("--formats") \cup Before("--problems") = {})'
  BY <1>1, <1>3 DEF OptionsInv
<1>. QED  BY <1>2, <1>4, <1>5, <1>6, <1>7 DEF OptionsInv

(* An option the program does not know keeps the invariant of the options.  *)
LEMMA AdditionalOptionKeeps ==
  ASSUME argv \in Seq(STRING \ {Unset, NULL}), OptionsInv, AdditionalOption
  PROVE  OptionsInv'
<1>1. /\ argv' = argv /\ at \in Nat \ {0} /\ at % 2 = 1 /\ at' = at + 2 /\ at <= Len(argv)
      /\ argv[at] \notin {"-p", "-f", "-a", "-fo", "--formats", "--problems"}
      /\ task' = task /\ param' = param
  BY DEF OptionsInv, AdditionalOption, Field
<1>2. at' \in Nat \ {0} /\ at' % 2 = 1
  BY <1>1, SMTT(20)
<1>3. \A o \in {"-p", "-f", "-a", "-fo", "--formats", "--problems"} :
         Before(o)' = Before(o) /\ Value(o, Before(o))' = Value(o, Before(o))
  BY <1>1, NextPlaces
<1>. QED  BY <1>1, <1>2, <1>3 DEF OptionsInv

(* The information printed instead of an answer was asked for.              *)
LEMMA InfoOptionAsked ==
  ASSUME argv \in Seq(STRING \ {Unset, NULL}), OptionsInv, InfoOption
  PROVE  ~WellAsked
<1>1. at \in 1 .. Len(argv) /\ at % 2 = 1 /\ argv[at] \in {"--formats", "--problems"}
  BY DEF OptionsInv, InfoOption
<1>2. at \in Places("--formats") \cup Places("--problems")
  BY <1>1 DEF Places
<1>. QED  BY <1>2 DEF WellAsked

(* After the last option either every option a task needs was seen, or the  *)
(* call was not a proper one.                                               *)
LEMMA OptionsReadSpec ==
  ASSUME argv \in Seq(STRING \ {Unset, NULL}), OptionsInv, OptionsRead
  PROVE  \/ pc' = "open" /\ AskedInv' /\ task'.track = Given("-p")'
         \/ pc' \in {"info", "undefined"} /\ ~WellAsked
<1>1. UNCHANGED cmd /\ at \in Nat /\ at > Len(argv) /\ Len(argv) \in Nat
  BY DEF OptionsRead, OptionsInv
<1>2. \A o : Before(o) = Places(o)
  BY <1>1 DEF Before, Places
<1>3. /\ task = [track       |-> Value("-p", Places("-p")), file   |-> Value("-f", Places("-f")),
                  argAsString |-> Value("-a", Places("-a")), format |-> Value("-fo", Places("-fo"))]
      /\ Places("-p") # {} /\ Places("-f") # {} => param >= 2
      /\ Places("--formats") \cup Places("--problems") = {}
      /\ param \in Nat
  BY <1>2 DEF OptionsInv
<1>4. CASE param < 2
  BY <1>3, <1>4 DEF OptionsRead, WellAsked, IsGiven
<1>5. CASE param >= 2 /\ task.track \in {Unset, NULL}
  <2>1. ~IsGiven("-p")
    BY <1>3, <1>5, ValueSpec
  <2>. QED  BY <1>3, <1>5, <2>1 DEF OptionsRead, WellAsked
<1>6. CASE param >= 2 /\ task.track \notin {Unset, NULL}
  <2>1. IsGiven("-p") /\ task.track = Given("-p")
    BY <1>3, <1>6, ValueSpec
  <2>2. AskedInv
    BY <1>3, <2>1 DEF AskedInv
  <2>3. AskedInv' /\ task'.track = Given("-p")'
    BY <1>1, <2>1, <2>2 DEF cmd, AskedInv, Value, Token, Places, IsGiven, Given
  <2>4. pc' = "open"
    BY <1>3, <1>6 DEF OptionsRead
  <2>. QED  BY <2>3, <2>4
<1>. QED  BY <1>3, <1>4, <1>5, <1>6

-----------------------------------------------------------------------------
(* The framework.                                                          *)

(* The number of arguments.                                                 *)
N == Cardinality(Arg)

(* The arguments are the numbers below N.                                   *)
LEMMA ArgSpec == N \in Nat /\ Arg = 0 .. N - 1 /\ IsFiniteSet(Arg \X Arg)
BY FiniteArgAssumption, IdsAssumption, FS_CardinalityType, FS_Product DEF N

-----------------------------------------------------------------------------
(* The lists of a framework, and what an attack line changes in them.       *)
LEMMA OccurrencesEmpty == \A x : Occurrences(<< >>, x) = 0
<1>. TAKE x
<1>1. {k \in DOMAIN << >> : << >>[k] = x} = {}
  OBVIOUS
<1>. QED  BY <1>1, FS_EmptySet DEF Occurrences

(* A list counts one more of what was put in front.                         *)
LEMMA OccurrencesCons ==
  ASSUME NEW S, NEW b \in S, NEW q \in Seq(S), NEW x
  PROVE  /\ Occurrences(q, x) \in Nat
         /\ Occurrences(<<b>> \o q, x) = Occurrences(q, x) + (IF b = x THEN 1 ELSE 0)
<1>. DEFINE r == <<b>> \o q
            D == {k \in 1 .. Len(q) : q[k] = x}
            E == {k \in 1 .. Len(r) : r[k] = x}
            U == {k + 1 : k \in D}
            f == [k \in D |-> k + 1]
<1>1. /\ Len(q) \in Nat /\ Len(r) = Len(q) + 1 /\ r[1] = b
      /\ \A i \in 2 .. Len(q) + 1 : r[i] = q[i - 1]
      /\ DOMAIN q = 1 .. Len(q) /\ DOMAIN r = 1 .. Len(r)
  BY ConsSpec
<1>2. Occurrences(q, x) = Cardinality(D) /\ Occurrences(r, x) = Cardinality(E)
  BY <1>1 DEF Occurrences
<1>3. IsFiniteSet(D) /\ Cardinality(D) \in Nat
  <2>1. IsFiniteSet(1 .. Len(q)) /\ D \in SUBSET (1 .. Len(q))
    BY <1>1, FS_Interval
  <2>. QED  BY <2>1, FS_Subset, FS_CardinalityType
<1>. HIDE DEF r
<1>4. f \in Bijection(D, U)
  BY <1>1 DEF Bijection, Injection, Surjection, IsInjective
<1>5. IsFiniteSet(U) /\ Cardinality(U) = Cardinality(D)
  <2>. HIDE DEF f, D, U
  <2>. QED  BY <1>3, <1>4, FS_Bijection DEF ExistsBijection
<1>6. 1 \notin U
  BY <1>1
<1>7. E = IF b = x THEN U \cup {1} ELSE U
  <2>1. ASSUME NEW k
        PROVE  k \in E <=> k \in (IF b = x THEN U \cup {1} ELSE U)
    <3>1. k \in U <=> k \in 2 .. Len(q) + 1 /\ q[k - 1] = x
      <4>1. ASSUME k \in U PROVE k \in 2 .. Len(q) + 1 /\ q[k - 1] = x
        BY <1>1, <4>1
      <4>2. ASSUME k \in 2 .. Len(q) + 1, q[k - 1] = x PROVE k \in U
        <5>1. k - 1 \in D /\ k = (k - 1) + 1
          BY <1>1, <4>2
        <5>. QED  BY <5>1
      <4>. QED  BY <4>1, <4>2
    <3>2. k \in E <=> (k = 1 /\ b = x) \/ (k \in 2 .. Len(q) + 1 /\ q[k - 1] = x)
      BY <1>1
    <3>. HIDE DEF U, E
    <3>. QED  BY <3>1, <3>2
  <2>. HIDE DEF U, E
  <2>. QED  BY <2>1
<1>8. Cardinality(E) = Cardinality(D) + (IF b = x THEN 1 ELSE 0)
  <2>. HIDE DEF U, D, E
  <2>1. Cardinality(U \cup {1}) = Cardinality(U) + 1
    BY <1>5, <1>6, FS_AddElement
  <2>. QED  BY <1>3, <1>5, <1>7, <2>1
<1>. QED  BY <1>2, <1>3, <1>8 DEF r

(* The frameworks with the names ids.                                       *)
Frames(ids) ==
  [number_of_arguments : {N}, ids2arguments : {ids},
   children : [Arg -> Seq(Arg)], parents : [Arg -> Seq(Arg)],
   number_of_attackers : [Arg -> Nat], initial : BitSets(N), loops : BitSets(N)]

(* The attack lines of a framework; A attacker, attacked, and the row it    *)
(* was read from.                                                          *)
LinesOf(F) == UNION {{<<e[1], e[2], k>> : k \in 1 .. Occurrences(F.children[e[1]], e[2])} : e \in Arg \X Arg}

(* F says of the attack lines in A what they say.                           *)
Reflects(F, A) ==
  /\ \A a, b \in Arg :
       /\ Occurrences(F.children[a], b) = Cardinality({e \in A : e[1] = a /\ e[2] = b})
       /\ Occurrences(F.parents[b], a) = Cardinality({e \in A : e[1] = a /\ e[2] = b})
  /\ \A b \in Arg : Len(F.parents[b]) = Cardinality({e \in A : e[2] = b})
  /\ IsFiniteSet(LinesOf(F))
  /\ \A b \in Arg : F.number_of_attackers[b] = Cardinality({e \in LinesOf(F) : e[2] = b})
  /\ \A a \in Arg : bitset__get(F.initial, a) <=> \A e \in A : e[2] # a
  /\ \A a \in Arg : bitset__get(F.loops, a) <=> \E e \in A : e[1] = a /\ e[2] = a

(* A new framework reflects no attack at all.                               *)
LEMMA NewAAFSpec ==
  ASSUME NEW ids
  PROVE  NewAAF(N, ids) \in Frames(ids) /\ Reflects(NewAAF(N, ids), {})
<1>. DEFINE F == NewAAF(N, ids)
            b0 == [length |-> N, data |-> [w \in 0 .. num_elements(N) - 1 |-> {}]]
<1>1. b0 \in BitSets(N) /\ N \in Nat
  BY ArgSpec DEF BitSets, Word
<1>2. /\ F.initial = bitset__setAll(b0) /\ F.loops = bitset__unsetAll(b0)
      /\ F.children = [a \in Arg |-> << >>] /\ F.parents = [a \in Arg |-> << >>]
      /\ F.number_of_attackers = [a \in Arg |-> 0]
      /\ F.number_of_arguments = N /\ F.ids2arguments = ids
      /\ F = [number_of_arguments |-> F.number_of_arguments, ids2arguments |-> F.ids2arguments,
              children |-> F.children, parents |-> F.parents,
              number_of_attackers |-> F.number_of_attackers, initial |-> F.initial, loops |-> F.loops]
  BY ArgSpec DEF NewAAF
<1>. HIDE DEF F, b0
<1>3. /\ F.initial \in BitSets(N) /\ F.loops \in BitSets(N)
      /\ \A k \in Arg : bitset__get(F.initial, k) /\ ~bitset__get(F.loops, k)
  BY <1>1, <1>2, SetAllSpec, ArgSpec
<1>4. F \in Frames(ids)
  <2>1. << >> \in Seq(Arg)
    OBVIOUS
  <2>2. F.children \in [Arg -> Seq(Arg)] /\ F.parents \in [Arg -> Seq(Arg)] /\ F.number_of_attackers \in [Arg -> Nat]
    BY <1>2, <2>1
  <2>. QED  BY <1>2, <1>3, <2>2 DEF Frames
<1>5. \A a, b \in Arg : Occurrences(F.children[a], b) = 0 /\ Occurrences(F.parents[b], a) = 0
  BY <1>2, OccurrencesEmpty
<1>6. LinesOf(F) = {}
  BY <1>5 DEF LinesOf
<1>7. \A b \in Arg : F.number_of_attackers[b] = 0
  BY <1>2
<1>8. \A b \in Arg : {e \in LinesOf(F) : e[2] = b} = {}
  BY <1>6
<1>9. \A a, b \in Arg : {e \in {} : e[1] = a /\ e[2] = b} = {}
  OBVIOUS
<1>10. Reflects(F, {})
  <2>1. \A a, b \in Arg : Cardinality({e \in {} : e[1] = a /\ e[2] = b}) = 0
    BY <1>9, FS_EmptySet
  <2>2. \A b \in Arg : Cardinality({e \in LinesOf(F) : e[2] = b}) = 0
    BY <1>8, FS_EmptySet
  <2>3. \A b \in Arg : Len(F.parents[b]) = Cardinality({e \in {} : e[2] = b})
    <3>1. \A b \in Arg : {e \in {} : e[2] = b} = {}
      OBVIOUS
    <3>2. \A b \in Arg : Len(F.parents[b]) = 0
      BY <1>2
    <3>. QED  BY <3>1, <3>2, FS_EmptySet
  <2>. QED  BY <1>3, <1>5, <1>6, <1>7, <2>1, <2>2, <2>3, FS_EmptySet DEF Reflects
<1>. QED  BY <1>4, <1>10 DEF F

(* G is F with the attack of a on b.                                        *)
OneMore(G, F, a, b) ==
  /\ \A x, y \in Arg :
       /\ Occurrences(F.children[x], y) \in Nat
       /\ Occurrences(G.children[x], y) = Occurrences(F.children[x], y) + (IF x = a /\ y = b THEN 1 ELSE 0)
       /\ Occurrences(F.parents[y], x) \in Nat
       /\ Occurrences(G.parents[y], x) = Occurrences(F.parents[y], x) + (IF x = a /\ y = b THEN 1 ELSE 0)
  /\ \A y \in Arg : Len(G.parents[y]) = Len(F.parents[y]) + (IF y = b THEN 1 ELSE 0)
  /\ \A y \in Arg : G.number_of_attackers[y] = F.number_of_attackers[y] + (IF y = b THEN 1 ELSE 0)
  /\ \A x \in Arg : bitset__get(G.initial, x) <=> bitset__get(F.initial, x) /\ x # b
  /\ \A x \in Arg : bitset__get(G.loops, x) <=> bitset__get(F.loops, x) \/ (x = a /\ a = b)

(* add_attack puts one more line into both lists, counts it, and sets the   *)
(* two bits; everything else stays.                                         *)
LEMMA WithAttackSpec ==
  ASSUME NEW ids, NEW F \in Frames(ids), NEW a \in Arg, NEW b \in Arg
  PROVE  WithAttack(F, a, b) \in Frames(ids) /\ OneMore(WithAttack(F, a, b), F, a, b)
<1>. DEFINE G == WithAttack(F, a, b)
<1>1. /\ F.children \in [Arg -> Seq(Arg)] /\ F.parents \in [Arg -> Seq(Arg)]
      /\ F.number_of_attackers \in [Arg -> Nat] /\ F.initial \in BitSets(N) /\ F.loops \in BitSets(N)
  BY DEF Frames
<1>2. /\ G.children = [F.children EXCEPT ![a] = <<b>> \o F.children[a]]
      /\ G.parents = [F.parents EXCEPT ![b] = <<a>> \o F.parents[b]]
      /\ G.number_of_attackers = [F.number_of_attackers EXCEPT ![b] = F.number_of_attackers[b] + 1]
      /\ G.initial = bitset__unset(F.initial, b)
      /\ G.loops = IF a = b THEN bitset__set(F.loops, a) ELSE F.loops
      /\ G.number_of_arguments = N /\ G.ids2arguments = ids
  <2>1. DOMAIN F = {"number_of_arguments", "ids2arguments", "children", "parents",
                    "number_of_attackers", "initial", "loops"}
    BY DEF Frames
  <2>2. F.number_of_arguments = N /\ F.ids2arguments = ids
    BY DEF Frames
  <2>. QED  BY <2>1, <2>2 DEF WithAttack
<1>. HIDE DEF G
<1>3. <<b>> \o F.children[a] \in Seq(Arg) /\ <<a>> \o F.parents[b] \in Seq(Arg)
  BY <1>1, ConsSpec
<1>4. /\ \A x \in Arg : G.children[x] = IF x = a THEN <<b>> \o F.children[x] ELSE F.children[x]
      /\ \A y \in Arg : G.parents[y] = IF y = b THEN <<a>> \o F.parents[y] ELSE F.parents[y]
      /\ \A y \in Arg : G.number_of_attackers[y] = F.number_of_attackers[y] + (IF y = b THEN 1 ELSE 0)
  <2>1. \A x \in Arg : G.children[x] = IF x = a THEN <<b>> \o F.children[x] ELSE F.children[x]
    BY <1>1, <1>2
  <2>2. \A y \in Arg : G.parents[y] = IF y = b THEN <<a>> \o F.parents[y] ELSE F.parents[y]
    BY <1>1, <1>2
  <2>3. \A y \in Arg : G.number_of_attackers[y] = F.number_of_attackers[y] + (IF y = b THEN 1 ELSE 0)
    BY <1>1, <1>2
  <2>. QED  BY <2>1, <2>2, <2>3
<1>40. /\ G.children \in [Arg -> Seq(Arg)] /\ G.parents \in [Arg -> Seq(Arg)]
       /\ G.number_of_attackers \in [Arg -> Nat]
  <2>1. G.children \in [Arg -> Seq(Arg)]
    BY <1>1, <1>2, <1>3
  <2>2. G.parents \in [Arg -> Seq(Arg)]
    BY <1>1, <1>2, <1>3
  <2>3. G.number_of_attackers \in [Arg -> Nat]
    BY <1>1, <1>2
  <2>. QED  BY <2>1, <2>2, <2>3
<1>5. /\ bitset__unset(F.initial, b) \in BitSets(N) /\ bitset__set(F.loops, a) \in BitSets(N)
      /\ \A x \in Arg : bitset__get(bitset__unset(F.initial, b), x) <=> bitset__get(F.initial, x) /\ x # b
      /\ \A x \in Arg : bitset__get(bitset__set(F.loops, a), x) <=> bitset__get(F.loops, x) \/ x = a
  BY <1>1, ArgSpec, SetSpec
<1>6. G \in Frames(ids)
  <2>. DEFINE H == [number_of_arguments |-> G.number_of_arguments, ids2arguments |-> G.ids2arguments,
                    children |-> G.children, parents |-> G.parents,
                    number_of_attackers |-> G.number_of_attackers, initial |-> G.initial, loops |-> G.loops]
  <2>1. H \in Frames(ids)
    BY <1>1, <1>2, <1>40, <1>5 DEF Frames
  <2>2. G = H
    <3>1. DOMAIN F = {"number_of_arguments", "ids2arguments", "children", "parents",
                      "number_of_attackers", "initial", "loops"} /\ F = [k \in DOMAIN F |-> F[k]]
      BY DEF Frames
    <3>2. DOMAIN G = DOMAIN F /\ G = [k \in DOMAIN G |-> G[k]]
      BY <3>1 DEF G, WithAttack
    <3>. QED  BY <3>1, <3>2
  <2>. QED  BY <2>1, <2>2
<1>7. ASSUME NEW x \in Arg, NEW y \in Arg
      PROVE  /\ Occurrences(F.children[x], y) \in Nat
             /\ Occurrences(G.children[x], y) = Occurrences(F.children[x], y) + (IF x = a /\ y = b THEN 1 ELSE 0)
             /\ Occurrences(F.parents[y], x) \in Nat
             /\ Occurrences(G.parents[y], x) = Occurrences(F.parents[y], x) + (IF x = a /\ y = b THEN 1 ELSE 0)
  <2>1. /\ Occurrences(F.children[x], y) \in Nat /\ Occurrences(F.parents[y], x) \in Nat
        /\ Occurrences(<<b>> \o F.children[x], y) = Occurrences(F.children[x], y) + (IF b = y THEN 1 ELSE 0)
        /\ Occurrences(<<a>> \o F.parents[y], x) = Occurrences(F.parents[y], x) + (IF a = x THEN 1 ELSE 0)
    <3>1. F.children[x] \in Seq(Arg) /\ F.parents[y] \in Seq(Arg)
      BY <1>1
    <3>. QED  BY <3>1, OccurrencesCons
  <2>2. Occurrences(G.children[x], y) = Occurrences(F.children[x], y) + (IF x = a /\ y = b THEN 1 ELSE 0)
    <3>1. CASE x = a
      BY <2>1, <1>4, <3>1
    <3>2. CASE x # a
      BY <2>1, <1>4, <3>2
    <3>. QED  BY <3>1, <3>2
  <2>3. Occurrences(G.parents[y], x) = Occurrences(F.parents[y], x) + (IF x = a /\ y = b THEN 1 ELSE 0)
    <3>1. CASE y = b
      BY <2>1, <1>4, <3>1
    <3>2. CASE y # b
      BY <2>1, <1>4, <3>2
    <3>. QED  BY <3>1, <3>2
  <2>. QED  BY <2>1, <2>2, <2>3
<1>8. /\ \A x \in Arg : bitset__get(G.initial, x) <=> bitset__get(F.initial, x) /\ x # b
      /\ \A x \in Arg : bitset__get(G.loops, x) <=> bitset__get(F.loops, x) \/ (x = a /\ a = b)
  BY <1>2, <1>5
<1>80. \A y \in Arg : Len(G.parents[y]) = Len(F.parents[y]) + (IF y = b THEN 1 ELSE 0)
  <2>1. \A y \in Arg : Len(F.parents[y]) \in Nat
    BY <1>1
  <2>2. Len(<<a>> \o F.parents[b]) = Len(F.parents[b]) + 1
    BY <1>1, ConsSpec
  <2>. SUFFICES ASSUME NEW y \in Arg
                PROVE  Len(G.parents[y]) = Len(F.parents[y]) + (IF y = b THEN 1 ELSE 0)
    OBVIOUS
  <2>3. CASE y = b
    BY <1>4, <2>2, <2>3
  <2>4. CASE y # b
    <3>1. G.parents[y] = F.parents[y] /\ Len(F.parents[y]) \in Nat
      BY <1>4, <2>1, <2>4
    <3>. QED  BY <2>4, <3>1
  <2>. QED  BY <2>3, <2>4
<1>9. OneMore(G, F, a, b)
  BY <1>4, <1>7, <1>8, <1>80 DEF OneMore
<1>. QED  BY <1>6, <1>9 DEF G

(* What the lines of a framework are.                                       *)
LEMMA InLines ==
  ASSUME NEW F, NEW e
  PROVE  e \in LinesOf(F) <=>
           \E x, y \in Arg : \E k \in 1 .. Occurrences(F.children[x], y) : e = <<x, y, k>>
<1>1. ASSUME e \in LinesOf(F)
      PROVE  \E x, y \in Arg : \E k \in 1 .. Occurrences(F.children[x], y) : e = <<x, y, k>>
  <2>1. PICK p \in Arg \X Arg : \E k \in 1 .. Occurrences(F.children[p[1]], p[2]) : e = <<p[1], p[2], k>>
    BY <1>1 DEF LinesOf
  <2>2. p[1] \in Arg /\ p[2] \in Arg
    OBVIOUS
  <2>. QED  BY <2>1, <2>2
<1>2. ASSUME NEW x \in Arg, NEW y \in Arg, NEW k \in 1 .. Occurrences(F.children[x], y), e = <<x, y, k>>
      PROVE  e \in LinesOf(F)
  <2>. DEFINE p == <<x, y>>
  <2>1. p \in Arg \X Arg /\ p[1] = x /\ p[2] = y
    OBVIOUS
  <2>. HIDE DEF p
  <2>2. e \in {<<p[1], p[2], l>> : l \in 1 .. Occurrences(F.children[p[1]], p[2])}
    BY <1>2, <2>1
  <2>. QED  BY <2>1, <2>2 DEF LinesOf
<1>. QED  BY <1>1, <1>2

(* add_attack with the attack of the next row reflects one row more.        *)
LEMMA ReflectsNext ==
  ASSUME NEW ids, NEW F \in Frames(ids), NEW a \in Arg, NEW b \in Arg, NEW A, NEW r,
         IsFiniteSet(A), <<a, b, r>> \notin A, Reflects(F, A)
  PROVE  WithAttack(F, a, b) \in Frames(ids) /\ Reflects(WithAttack(F, a, b), A \cup {<<a, b, r>>})
<1>. DEFINE G == WithAttack(F, a, b)
            B == A \cup {<<a, b, r>>}
            Of(S, x, y) == {e \in S : e[1] = x /\ e[2] = y}
            On(S, y) == {e \in S : e[2] = y}
            l == <<a, b, Occurrences(F.children[a], b) + 1>>
<1>0. G \in Frames(ids) /\ OneMore(G, F, a, b)
  BY WithAttackSpec
<1>. HIDE DEF G
<1>1. /\ \A x, y \in Arg :
           /\ Occurrences(F.children[x], y) \in Nat
           /\ Occurrences(G.children[x], y) = Occurrences(F.children[x], y) + (IF x = a /\ y = b THEN 1 ELSE 0)
           /\ Occurrences(F.parents[y], x) \in Nat
           /\ Occurrences(G.parents[y], x) = Occurrences(F.parents[y], x) + (IF x = a /\ y = b THEN 1 ELSE 0)
      /\ \A y \in Arg : G.number_of_attackers[y] = F.number_of_attackers[y] + (IF y = b THEN 1 ELSE 0)
      /\ \A x \in Arg : bitset__get(G.initial, x) <=> bitset__get(F.initial, x) /\ x # b
      /\ \A x \in Arg : bitset__get(G.loops, x) <=> bitset__get(F.loops, x) \/ (x = a /\ a = b)
  BY <1>0 DEF OneMore
<1>2. ASSUME NEW x \in Arg, NEW y \in Arg
      PROVE  Cardinality(Of(B, x, y)) = Cardinality(Of(A, x, y)) + (IF x = a /\ y = b THEN 1 ELSE 0)
  <2>1. IsFiniteSet(Of(A, x, y)) /\ Cardinality(Of(A, x, y)) \in Nat
    BY FS_Subset, FS_CardinalityType
  <2>2. CASE x = a /\ y = b
    <3>1. Of(B, x, y) = Of(A, x, y) \cup {<<a, b, r>>} /\ <<a, b, r>> \notin Of(A, x, y)
      BY <2>2
    <3>. HIDE DEF Of, B
    <3>2. Cardinality(Of(B, x, y)) = Cardinality(Of(A, x, y)) + 1
      BY <2>1, <3>1, FS_AddElement
    <3>. QED  BY <2>2, <3>2
  <2>3. CASE ~(x = a /\ y = b)
    <3>1. Of(B, x, y) = Of(A, x, y)
      BY <2>3
    <3>. HIDE DEF Of
    <3>. QED  BY <2>1, <2>3, <3>1
  <2>. QED  BY <2>2, <2>3
<1>3. LinesOf(G) = LinesOf(F) \cup {l} /\ l \notin LinesOf(F)
  <2>1. ASSUME NEW e
        PROVE  e \in LinesOf(G) <=> e \in LinesOf(F) \/ e = l
    <3>1. ASSUME e \in LinesOf(G) PROVE e \in LinesOf(F) \/ e = l
      <4>1. PICK x \in Arg, y \in Arg : \E k \in 1 .. Occurrences(G.children[x], y) : e = <<x, y, k>>
        BY <3>1, InLines
      <4>2. PICK k \in 1 .. Occurrences(G.children[x], y) : e = <<x, y, k>>
        BY <4>1
      <4>3. k \in 1 .. Occurrences(F.children[x], y) \/ (x = a /\ y = b /\ k = Occurrences(F.children[a], b) + 1)
        BY <1>1
      <4>. QED  BY <4>2, <4>3, InLines
    <3>2. ASSUME e \in LinesOf(F) PROVE e \in LinesOf(G)
      <4>1. PICK x \in Arg, y \in Arg : \E k \in 1 .. Occurrences(F.children[x], y) : e = <<x, y, k>>
        BY <3>2, InLines
      <4>2. PICK k \in 1 .. Occurrences(F.children[x], y) : e = <<x, y, k>>
        BY <4>1
      <4>3. k \in 1 .. Occurrences(G.children[x], y)
        BY <1>1
      <4>. QED  BY <4>2, <4>3, InLines
    <3>3. l \in LinesOf(G)
      <4>1. Occurrences(F.children[a], b) + 1 \in 1 .. Occurrences(G.children[a], b)
        BY <1>1
      <4>. QED  BY <4>1, InLines
    <3>. QED  BY <3>1, <3>2, <3>3
  <2>2. l \notin LinesOf(F)
    <3>1. SUFFICES ASSUME NEW x \in Arg, NEW y \in Arg, NEW k \in 1 .. Occurrences(F.children[x], y),
                          l = <<x, y, k>>
                   PROVE  FALSE
      BY InLines
    <3>2. x = a /\ y = b /\ k = Occurrences(F.children[a], b) + 1
      BY <3>1
    <3>. QED  BY <1>1, <3>2
  <2>. HIDE DEF l
  <2>. QED  BY <2>1, <2>2
<1>4. IsFiniteSet(LinesOf(G))
  <2>1. IsFiniteSet(LinesOf(F))
    BY DEF Reflects
  <2>. HIDE DEF l
  <2>. QED  BY <1>3, <2>1, FS_AddElement
<1>5. ASSUME NEW y \in Arg
      PROVE  Cardinality(On(LinesOf(G), y)) = Cardinality(On(LinesOf(F), y)) + (IF y = b THEN 1 ELSE 0)
  <2>1. IsFiniteSet(On(LinesOf(F), y)) /\ Cardinality(On(LinesOf(F), y)) \in Nat
    BY FS_Subset, FS_CardinalityType DEF Reflects
  <2>2. CASE y = b
    <3>1. On(LinesOf(G), y) = On(LinesOf(F), y) \cup {l} /\ l \notin On(LinesOf(F), y)
      BY <1>3, <2>2
    <3>. HIDE DEF On, l
    <3>2. Cardinality(On(LinesOf(G), y)) = Cardinality(On(LinesOf(F), y)) + 1
      BY <2>1, <3>1, FS_AddElement
    <3>. QED  BY <2>2, <3>2
  <2>3. CASE y # b
    <3>1. On(LinesOf(G), y) = On(LinesOf(F), y)
      BY <1>3, <2>3
    <3>. HIDE DEF On
    <3>. QED  BY <2>1, <2>3, <3>1
  <2>. QED  BY <2>2, <2>3
<1>6. /\ \A x \in Arg : (\A e \in B : e[2] # x) <=> (\A e \in A : e[2] # x) /\ x # b
      /\ \A x \in Arg : (\E e \in B : e[1] = x /\ e[2] = x) <=> (\E e \in A : e[1] = x /\ e[2] = x) \/ (x = a /\ a = b)
  OBVIOUS
<1>7. \A x, y \in Arg :
        /\ Occurrences(F.children[x], y) = Cardinality(Of(A, x, y))
        /\ Occurrences(F.parents[y], x) = Cardinality(Of(A, x, y))
  BY DEF Reflects
<1>8. \A y \in Arg : F.number_of_attackers[y] = Cardinality(On(LinesOf(F), y))
  BY DEF Reflects
<1>9. \A x, y \in Arg :
        /\ Occurrences(G.children[x], y) = Cardinality(Of(B, x, y))
        /\ Occurrences(G.parents[y], x) = Cardinality(Of(B, x, y))
  <2>. HIDE DEF Of, B
  <2>. QED  BY <1>1, <1>2, <1>7
<1>10. \A y \in Arg : G.number_of_attackers[y] = Cardinality(On(LinesOf(G), y))
  <2>. HIDE DEF On
  <2>. QED  BY <1>1, <1>5, <1>8
<1>11. /\ \A x \in Arg : bitset__get(G.initial, x) <=> \A e \in B : e[2] # x
       /\ \A x \in Arg : bitset__get(G.loops, x) <=> \E e \in B : e[1] = x /\ e[2] = x
  <2>1. /\ \A x \in Arg : bitset__get(F.initial, x) <=> \A e \in A : e[2] # x
        /\ \A x \in Arg : bitset__get(F.loops, x) <=> \E e \in A : e[1] = x /\ e[2] = x
    BY DEF Reflects
  <2>. HIDE DEF B
  <2>. QED  BY <1>1, <1>6, <2>1
<1>100. \A y \in Arg : Len(G.parents[y]) = Len(F.parents[y]) + (IF y = b THEN 1 ELSE 0)
  BY <1>0 DEF OneMore
<1>110. \A y \in Arg : Len(G.parents[y]) = Cardinality(On(B, y))
  <2>1. \A y \in Arg : Len(F.parents[y]) = Cardinality(On(A, y))
    BY DEF Reflects
  <2>2. ASSUME NEW y \in Arg
        PROVE  Cardinality(On(B, y)) = Cardinality(On(A, y)) + (IF y = b THEN 1 ELSE 0)
    <3>1. IsFiniteSet(On(A, y)) /\ Cardinality(On(A, y)) \in Nat
      BY FS_Subset, FS_CardinalityType
    <3>2. CASE y = b
      <4>1. On(B, y) = On(A, y) \cup {<<a, b, r>>} /\ <<a, b, r>> \notin On(A, y)
        BY <3>2
      <4>. HIDE DEF On, B
      <4>2. Cardinality(On(B, y)) = Cardinality(On(A, y)) + 1
        BY <3>1, <4>1, FS_AddElement
      <4>. QED  BY <3>2, <4>2
    <3>3. CASE y # b
      <4>1. On(B, y) = On(A, y)
        BY <3>3
      <4>. HIDE DEF On
      <4>. QED  BY <3>1, <3>3, <4>1
    <3>. QED  BY <3>2, <3>3
  <2>. HIDE DEF On, B
  <2>. QED  BY <1>100, <2>1, <2>2
<1>12. Reflects(G, B)
  BY <1>4, <1>9, <1>10, <1>11, <1>110 DEF Reflects
<1>. QED  BY <1>0, <1>12 DEF G

-----------------------------------------------------------------------------
(* The file.                                                               *)
Shape(h) ==
  /\ h \in DOMAIN Content
  /\ \A k \in DOMAIN Content : Content[k][1] \in {"name", "p", "#", "comment", "blank", "att"}

(* A tgf file with its separator in row h.                                  *)
TgfShape(h) ==
  /\ Shape(h) /\ RowsOf("p") = {} /\ RowsOf("comment") = {} /\ RowsOf("#") = {h}
  /\ \A k \in RowsOf("name") : k < h /\ Content[k][2] \notin {Unset, NULL}
  /\ \A k, l \in RowsOf("name") : Content[k][2] = Content[l][2] => k = l
  /\ IsFiniteSet(RowsOf("name")) /\ Cardinality(RowsOf("name")) = N
  /\ \A k \in RowsOf("att") :
       /\ h < k
       /\ \E l, m \in RowsOf("name") : Content[k][2] = Content[l][2] /\ Content[k][3] = Content[m][2]

(* An i23 file with its header in row h.                                    *)
I23Shape(h) ==
  /\ Shape(h) /\ RowsOf("p") = {h} /\ RowsOf("name") = {} /\ Content[h][2] = N
  /\ \A k \in RowsOf("att") :
       /\ h < k
       /\ \E a, b \in Arg : Content[k][2] = Number(a) /\ Content[k][3] = Number(b)

(* The file asked for is there. *)
FileInv ==
  /\ argv \in Seq(STRING \ {Unset, NULL}) /\ disk \in Disks
  /\ AskedInv /\ task.file \in DOMAIN disk

(* The file that is read is the one asked for, in its format.               *)
LEMMA FileInvSpec ==
  ASSUME FileInv
  PROVE  /\ IsGiven("-f") /\ task.file = Given("-f") /\ Given("-f") \in DOMAIN disk
         /\ lines = Content
         /\ task.format = "tgf" <=> InTgf
         /\ DOMAIN Content = 1 .. Len(Content) /\ Len(Content) \in Nat
         /\ I23File(Content) \/ TgfFile(Content)
<1>1. Unset \notin DOMAIN disk /\ NULL \notin DOMAIN disk
  BY FileAssumption DEF FileInv
<1>2. IsGiven("-f") /\ task.file = Given("-f")
  BY <1>1, ValueSpec DEF FileInv, AskedInv
<1>3. task.format = "tgf" <=> InTgf
  <2>1. "tgf" # Unset /\ "tgf" # NULL
    BY DEF Unset, NULL
  <2>2. CASE IsGiven("-fo")
    BY <2>2, ValueSpec DEF FileInv, AskedInv, InTgf
  <2>3. CASE ~IsGiven("-fo")
    BY <2>1, <2>3, ValueSpec DEF FileInv, AskedInv, InTgf
  <2>. QED  BY <2>2, <2>3
<1>4. /\ Content \in Seq({Content[k] : k \in DOMAIN Content})
      /\ I23File(Content) \/ TgfFile(Content)
  <2>1. PICK f : f = Given("-f")
    OBVIOUS
  <2>2. f \in DOMAIN disk /\ disk \in Disks
    BY <1>2, <2>1 DEF FileInv
  <2>3. /\ disk[f] \in Seq({disk[f][k] : k \in DOMAIN disk[f]})
        /\ I23File(disk[f]) \/ TgfFile(disk[f])
    BY <2>2, FileAssumption
  <2>. QED  BY <2>1, <2>3 DEF Content
<1>5. DOMAIN Content = 1 .. Len(Content) /\ Len(Content) \in Nat
  BY <1>4
<1>. QED  BY <1>2, <1>3, <1>4, <1>5 DEF FileInv, lines, Content

(* The shape of an i23 file, as the reader meets its rows.                  *)
LEMMA I23Content ==
  ASSUME FileInv, I23File(Content)
  PROVE  \E h \in DOMAIN Content : I23Shape(h)
<1>1. PICK h \in DOMAIN Content :
        /\ Content[h] = <<"p", N>>
        /\ \A k \in DOMAIN Content \ {h} :
             \/ Content[k][1] \in {"blank", "#", "comment"}
             \/ h < k /\ \E a, b \in Arg : Content[k] = <<"att", Number(a), Number(b)>>
  BY DEF I23File, N
<1>2. Content[h][1] = "p" /\ Content[h][2] = N
  <2>1. Content[h] = <<"p", N>>
    BY <1>1
  <2>. QED  BY <2>1
<1>3. ASSUME NEW k \in DOMAIN Content, k # h
      PROVE  /\ Content[k][1] \in {"blank", "#", "comment", "att"}
             /\ Content[k][1] = "att" =>
                  h < k /\ \E a, b \in Arg : Content[k][2] = Number(a) /\ Content[k][3] = Number(b)
  <2>1. CASE Content[k][1] \in {"blank", "#", "comment"}
    BY <2>1
  <2>2. CASE h < k /\ \E a, b \in Arg : Content[k] = <<"att", Number(a), Number(b)>>
    BY <2>2
  <2>. QED  BY <1>1, <1>3, <2>1, <2>2
<1>. QED  BY <1>2, <1>3 DEF I23Shape, Shape, RowsOf

(* The shape of a tgf file, as the reader meets its rows.                   *)
LEMMA TgfContent ==
  ASSUME FileInv, TgfFile(Content)
  PROVE  \E h \in DOMAIN Content : TgfShape(h)
<1>1. PICK h \in DOMAIN Content :
        LET names == {k \in 1 .. h - 1 : Content[k][1] = "name"}
        IN  /\ Content[h] = <<"#">>
            /\ Cardinality(names) = N
            /\ \A k \in names : Content[k][2] \notin {Unset, NULL}
            /\ \A k, l \in names : Content[k][2] = Content[l][2] => k = l
            /\ \A k \in DOMAIN Content \ (names \cup {h}) :
                 \/ Content[k] = <<"blank">>
                 \/ h < k /\ \E l, m \in names : Content[k] = <<"att", Content[l][2], Content[m][2]>>
  BY DEF TgfFile, N
<1>. DEFINE names == {k \in 1 .. h - 1 : Content[k][1] = "name"}
<1>2. h \in Nat /\ names \subseteq DOMAIN Content /\ \A k \in names : k < h /\ Content[k][1] = "name"
  BY FileInvSpec
<1>3. Content[h][1] = "#" /\ h \notin names
  <2>1. Content[h] = <<"#">>
    BY <1>1
  <2>2. Content[h][1] = "#"
    BY <2>1
  <2>. QED  BY <1>2, <2>2
<1>4. ASSUME NEW k \in DOMAIN Content, k \notin names, k # h
      PROVE  /\ Content[k][1] \in {"blank", "att"}
             /\ Content[k][1] = "att" =>
                  h < k /\ \E l, m \in names : Content[k][2] = Content[l][2] /\ Content[k][3] = Content[m][2]
  <2>1. CASE Content[k] = <<"blank">>
    <3>1. Content[k][1] = "blank"
      BY <2>1
    <3>. QED  BY <3>1
  <2>2. CASE h < k /\ \E l, m \in names : Content[k] = <<"att", Content[l][2], Content[m][2]>>
    BY <2>2
  <2>. QED  BY <1>1, <1>4, <2>1, <2>2
<1>5. /\ \A k \in names : Content[k][2] \notin {Unset, NULL}
      /\ \A k, l \in names : Content[k][2] = Content[l][2] => k = l
      /\ Cardinality(names) = N
  BY <1>1
<1>6. IsFiniteSet(names)
  <2>1. IsFiniteSet(1 .. h - 1) /\ names \in SUBSET (1 .. h - 1)
    BY <1>2, FS_Interval
  <2>. QED  BY <2>1, FS_Subset
<1>. HIDE DEF names
<1>7. RowsOf("name") = names
  BY <1>2, <1>3, <1>4 DEF RowsOf
<1>8. \A k \in DOMAIN Content :
        /\ Content[k][1] \in {"name", "#", "blank", "att"}
        /\ Content[k][1] = "#" => k = h
        /\ Content[k][1] = "att" =>
             h < k /\ \E l, m \in names : Content[k][2] = Content[l][2] /\ Content[k][3] = Content[m][2]
  <2>1. TAKE k \in DOMAIN Content
  <2>2. CASE k \in names
    BY <1>2, <2>2
  <2>3. CASE k = h
    BY <1>3, <2>3
  <2>4. CASE k \notin names /\ k # h
    BY <1>4, <2>4
  <2>. QED  BY <2>2, <2>3, <2>4
<1>9. Shape(h) /\ RowsOf("p") = {} /\ RowsOf("comment") = {} /\ RowsOf("#") = {h}
  BY <1>3, <1>8 DEF Shape, RowsOf
<1>10. \A k \in RowsOf("att") :
         /\ h < k
         /\ \E l, m \in names : Content[k][2] = Content[l][2] /\ Content[k][3] = Content[m][2]
  BY <1>8 DEF RowsOf
<1>11. \A k \in names : k < h
  BY <1>2
<1>12. TgfShape(h)
  BY <1>5, <1>6, <1>7, <1>9, <1>10, <1>11 DEF TgfShape
<1>. QED  BY <1>12

(* What was asked depends on the command line and the disk only.            *)
LEMMA InputKept ==
  ASSUME UNCHANGED <<argv, disk>>
  PROVE  /\ UNCHANGED <<Content, InTgf, Attacks, Query, WellAsked>>
         /\ \A o : Given(o)' = Given(o) /\ (IsGiven(o)' <=> IsGiven(o)) /\ Places(o)' = Places(o) /\ RowsOf(o)' = RowsOf(o)
         /\ \A i : NameOf(i)' = NameOf(i) /\ IdOf(i)' = IdOf(i) /\ AttackOf(i)' = AttackOf(i)
         /\ \A h : (TgfShape(h)' <=> TgfShape(h)) /\ (I23Shape(h)' <=> I23Shape(h))
         /\ (AsMeant' <=> AsMeant) /\ (Misread' <=> Misread) /\ (Overfull' <=> Overfull)
<1>1. /\ UNCHANGED <<Content, InTgf, Query>>
      /\ \A o : Given(o)' = Given(o) /\ (IsGiven(o)' <=> IsGiven(o)) /\ Places(o)' = Places(o) /\ RowsOf(o)' = RowsOf(o)
  BY DEF Content, InTgf, Query, Given, IsGiven, Places, RowsOf
<1>2. \A i : NameOf(i)' = NameOf(i) /\ IdOf(i)' = IdOf(i) /\ AttackOf(i)' = AttackOf(i)
  BY DEF NameOf, IdOf, AttackOf, Content, InTgf, Given, IsGiven, Places, RowsOf
<1>3. \A h : (TgfShape(h)' <=> TgfShape(h)) /\ (I23Shape(h)' <=> I23Shape(h))
  BY <1>1 DEF TgfShape, I23Shape, Shape
<1>4. (AsMeant' <=> AsMeant) /\ (Misread' <=> Misread)
  BY <1>1 DEF AsMeant, Misread
<1>5. Overfull' <=> Overfull
  BY <1>1, <1>2 DEF Overfull
<1>6. UNCHANGED <<Attacks, WellAsked>>
  BY <1>1, <1>2, <1>4 DEF Attacks, WellAsked
<1>. QED  BY <1>1, <1>2, <1>3, <1>4, <1>5, <1>6

-----------------------------------------------------------------------------
(* What the rows before r say: the names of the arguments, and the attacks. *)
NamesBefore(r) == {k \in RowsOf("name") : k < r}
Rank(k)        == Cardinality(NamesBefore(k))
AttacksRead(r) == {<<AttackOf(k)[1], AttackOf(k)[2], k>> : k \in {l \in RowsOf("att") : l < r}}

(* The names in the file are good for the arguments. *)
NamesOK ==
  /\ \A i, j \in Arg : NameOf(i) = NameOf(j) => i = j
  /\ \A i \in Arg : NameOf(i) \notin {Unset, NULL}
  /\ \A k \in RowsOf("att") :
       /\ AttackOf(k) \in Arg \X Arg
       /\ Content[k][2] = NameOf(AttackOf(k)[1])
       /\ Content[k][3] = NameOf(AttackOf(k)[2])

(* The framework after the rows before r.                                   *)
FrameInv(r) ==
  /\ aaf \in Frames([i \in Arg |-> NameOf(i)])
  /\ Reflects(aaf, AttacksRead(r))

(* The arguments of a tgf file read so far. *)
IsArray(f, n) == f = [i \in 0 .. n - 1 |-> f[i]]
ArgumentsInv(n) ==
  /\ n = Cardinality(NamesBefore(row))
  /\ aaf = NewAAF(n, aaf.ids2arguments)
  /\ IsArray(aaf.ids2arguments, n)
  /\ \A i \in 0 .. n - 1 :
       \E k \in NamesBefore(row) : Rank(k) = i /\ aaf.ids2arguments[i] = Content[k][2]

(* The reader, in either section of a file of the format asked for.         *)
ReadingInv ==
  /\ FileInv /\ AsMeant /\ row \in Nat \ {0}
  /\ pc = "arguments" =>
       InTgf /\ \E h \in DOMAIN Content : TgfShape(h) /\ row <= h /\ \E n \in Nat : ArgumentsInv(n)
  /\ pc = "attacks" =>
       /\ NamesOK /\ FrameInv(row)
       /\ \E h \in DOMAIN Content : row > h /\ IF InTgf THEN TgfShape(h) ELSE I23Shape(h)

(* The names are numbered in the order of the file, each with a number of   *)
(* its own.                                                                 *)
LEMMA RankSpec ==
  ASSUME FileInv, IsFiniteSet(RowsOf("name"))
  PROVE  /\ \A r : IsFiniteSet(NamesBefore(r)) /\ Cardinality(NamesBefore(r)) \in Nat
         /\ \A r \in Nat : \A k \in NamesBefore(r) : Rank(k) < Cardinality(NamesBefore(r))
         /\ \A k, l \in RowsOf("name") : Rank(k) = Rank(l) => k = l
<1>1. ASSUME NEW r
      PROVE  IsFiniteSet(NamesBefore(r)) /\ Cardinality(NamesBefore(r)) \in Nat
  <2>1. NamesBefore(r) \in SUBSET RowsOf("name")
    BY DEF NamesBefore
  <2>. QED  BY <2>1, FS_Subset, FS_CardinalityType
<1>2. \A k \in RowsOf("name") : k \in Nat
  BY FileInvSpec DEF RowsOf
<1>3. ASSUME NEW r \in Nat, NEW k \in NamesBefore(r)
      PROVE  Rank(k) < Cardinality(NamesBefore(r))
  <2>1. k \in Nat /\ k < r /\ k \in RowsOf("name")
    BY <1>2 DEF NamesBefore
  <2>2. NamesBefore(k) \in SUBSET NamesBefore(r) /\ k \notin NamesBefore(k)
    <3>1. \A m \in NamesBefore(k) : m \in RowsOf("name") /\ m \in Nat /\ m < k
      BY <1>2 DEF NamesBefore
    <3>2. \A m \in NamesBefore(k) : m \in RowsOf("name") /\ m < r
      BY <2>1, <3>1
    <3>3. k \notin NamesBefore(k)
      BY <2>1, <3>1
    <3>4. \A m \in NamesBefore(k) : m \in NamesBefore(r)
      BY <3>2 DEF NamesBefore
    <3>. QED  BY <3>3, <3>4
  <2>3. Cardinality(NamesBefore(k)) <= Cardinality(NamesBefore(r)) /\ Cardinality(NamesBefore(k)) # Cardinality(NamesBefore(r))
    BY <1>1, <2>2, FS_Subset
  <2>. QED  BY <1>1, <2>3 DEF Rank
<1>4. ASSUME NEW k \in RowsOf("name"), NEW l \in RowsOf("name"), Rank(k) = Rank(l)
      PROVE  k = l
  <2>1. k \in Nat /\ l \in Nat
    BY <1>2
  <2>2. k < l => k \in NamesBefore(l)
    BY DEF NamesBefore
  <2>3. l < k => l \in NamesBefore(k)
    BY DEF NamesBefore
  <2>4. Rank(k) \in Nat /\ Rank(l) \in Nat
    BY <1>1 DEF Rank
  <2>5. k < l => Rank(k) < Rank(l)
    BY <1>3, <2>1, <2>2 DEF Rank
  <2>6. l < k => Rank(l) < Rank(k)
    BY <1>3, <2>1, <2>3 DEF Rank
  <2>. QED  BY <1>4, <2>1, <2>4, <2>5, <2>6
<1>. QED  BY <1>1, <1>3, <1>4

(* The name with number i is NameOf(i).                                     *)
LEMMA NameOfRank ==
  ASSUME FileInv, InTgf, IsFiniteSet(RowsOf("name")), NEW k \in RowsOf("name")
  PROVE  NameOf(Rank(k)) = Content[k][2]
<1>. DEFINE at0 == CHOOSE l \in RowsOf("name") : Cardinality({m \in RowsOf("name") : m < l}) = Rank(k)
<1>1. NameOf(Rank(k)) = Content[at0][2]
  BY DEF NameOf
<1>2. at0 \in RowsOf("name") /\ Rank(at0) = Rank(k)
  BY DEF Rank, NamesBefore
<1>3. at0 = k
  BY <1>2, RankSpec
<1>. QED  BY <1>1, <1>3

(* The last name has been read. *)
LEMMA TgfNamesOK ==
  ASSUME FileInv, InTgf, NEW h \in DOMAIN Content, TgfShape(h), row = h,
         NEW n \in Nat, ArgumentsInv(n)
  PROVE  /\ n = N /\ NamesOK
         /\ aaf = NewAAF(N, [i \in Arg |-> NameOf(i)])
<1>1. /\ IsFiniteSet(RowsOf("name")) /\ Cardinality(RowsOf("name")) = N /\ N \in Nat /\ Arg = 0 .. N - 1
      /\ h \in Nat
  BY ArgSpec, FileInvSpec DEF TgfShape
<1>2. NamesBefore(row) = RowsOf("name")
  BY DEF NamesBefore, TgfShape
<1>3. n = N
  BY <1>1, <1>2 DEF ArgumentsInv, IsArray
<1>4. \A i \in Arg : \E k \in RowsOf("name") : Rank(k) = i /\ aaf.ids2arguments[i] = Content[k][2]
  BY <1>1, <1>2, <1>3 DEF ArgumentsInv, IsArray
<1>5. \A i \in Arg : NameOf(i) = aaf.ids2arguments[i] /\ \E k \in RowsOf("name") : Rank(k) = i /\ NameOf(i) = Content[k][2]
  BY <1>1, <1>4, NameOfRank
<1>6. aaf.ids2arguments = [i \in Arg |-> NameOf(i)]
  <2>1. aaf.ids2arguments = [i \in Arg |-> aaf.ids2arguments[i]]
    BY <1>1, <1>3 DEF ArgumentsInv, IsArray
  <2>. QED  BY <1>5, <2>1
<1>7. \A i, j \in Arg : NameOf(i) = NameOf(j) => i = j
  BY <1>5 DEF TgfShape
<1>8. \A i \in Arg : NameOf(i) \notin {Unset, NULL}
  BY <1>5 DEF TgfShape
<1>9. ASSUME NEW k \in RowsOf("name")
      PROVE  Rank(k) \in Arg /\ IdOf(Content[k][2]) \in Arg /\ NameOf(IdOf(Content[k][2])) = Content[k][2]
  <2>1. Rank(k) \in Nat /\ Rank(k) < N
    <3>1. k \in NamesBefore(row) /\ row \in Nat
      BY <1>1, <1>2
    <3>. QED  BY <1>1, <1>2, <3>1, RankSpec DEF Rank
  <2>2. Rank(k) \in Arg /\ NameOf(Rank(k)) = Content[k][2]
    BY <1>1, <2>1, NameOfRank
  <2>. QED  BY <2>2 DEF IdOf
<1>10. ASSUME NEW k \in RowsOf("att")
       PROVE  /\ AttackOf(k) \in Arg \X Arg
              /\ Content[k][2] = NameOf(AttackOf(k)[1])
              /\ Content[k][3] = NameOf(AttackOf(k)[2])
  <2>1. PICK l \in RowsOf("name"), m \in RowsOf("name") : Content[k][2] = Content[l][2] /\ Content[k][3] = Content[m][2]
    BY DEF TgfShape
  <2>2. AttackOf(k) = <<IdOf(Content[l][2]), IdOf(Content[m][2])>>
    BY <2>1 DEF AttackOf
  <2>. QED  BY <1>9, <2>1, <2>2
<1>11. NamesOK
  BY <1>7, <1>8, <1>10 DEF NamesOK
<1>12. aaf = NewAAF(N, aaf.ids2arguments)
  BY <1>3 DEF ArgumentsInv, IsArray
<1>. QED  BY <1>3, <1>6, <1>11, <1>12

(* The names of an i23 file are the numbers.                                *)
LEMMA I23NamesOK ==
  ASSUME ~InTgf, NEW h \in DOMAIN Content, I23Shape(h)
  PROVE  NamesOK /\ \A i \in Arg : NameOf(i) = Number(i)
<1>1. \A i \in Arg : NameOf(i) = Number(i) /\ i \in Nat
  BY ArgSpec DEF NameOf
<1>2. /\ \A i, j \in Arg : NameOf(i) = NameOf(j) => i = j
      /\ \A i \in Arg : NameOf(i) \notin {Unset, NULL}
  BY <1>1, NumberAssumption
<1>3. \A a \in Arg : IdOf(NameOf(a)) = a
  BY <1>2 DEF IdOf
<1>4. ASSUME NEW k \in RowsOf("att")
      PROVE  /\ AttackOf(k) \in Arg \X Arg
             /\ Content[k][2] = NameOf(AttackOf(k)[1])
             /\ Content[k][3] = NameOf(AttackOf(k)[2])
  <2>1. PICK a \in Arg, b \in Arg : Content[k][2] = Number(a) /\ Content[k][3] = Number(b)
    BY DEF I23Shape
  <2>2. Content[k][2] = NameOf(a) /\ Content[k][3] = NameOf(b)
    BY <1>1, <2>1
  <2>3. AttackOf(k) = <<a, b>>
    BY <1>3, <2>2 DEF AttackOf
  <2>. QED  BY <2>2, <2>3
<1>. QED  BY <1>1, <1>2, <1>4 DEF NamesOK

-----------------------------------------------------------------------------
(* The steps of the readers.                                                *)
LEMMA FileKept ==
  ASSUME UNCHANGED <<argv, task, disk>>
  PROVE  /\ (AskedInv <=> AskedInv') /\ (FileInv <=> FileInv')
         /\ \A r : NamesBefore(r)' = NamesBefore(r) /\ Rank(r)' = Rank(r) /\ AttacksRead(r)' = AttacksRead(r)
         /\ (AsMeant' <=> AsMeant) /\ (NamesOK' <=> NamesOK) /\ (Overfull' <=> Overfull)
         /\ UNCHANGED <<lines, InTgf, Content>>
         /\ \A h : (TgfShape(h)' <=> TgfShape(h)) /\ (I23Shape(h)' <=> I23Shape(h))
         /\ \A o : RowsOf(o)' = RowsOf(o)
         /\ \A i : NameOf(i)' = NameOf(i) /\ AttackOf(i)' = AttackOf(i)
<1>1. /\ UNCHANGED <<Content, InTgf, Attacks, Query, WellAsked>>
      /\ \A o : Given(o)' = Given(o) /\ (IsGiven(o)' <=> IsGiven(o)) /\ Places(o)' = Places(o) /\ RowsOf(o)' = RowsOf(o)
      /\ \A i : NameOf(i)' = NameOf(i) /\ IdOf(i)' = IdOf(i) /\ AttackOf(i)' = AttackOf(i)
      /\ \A h : (TgfShape(h)' <=> TgfShape(h)) /\ (I23Shape(h)' <=> I23Shape(h))
      /\ (AsMeant' <=> AsMeant) /\ (Overfull' <=> Overfull)
  BY InputKept
<1>2. (AskedInv <=> AskedInv') /\ (FileInv <=> FileInv')
  BY DEF FileInv, AskedInv, Value, Token, IsGiven, Places
<1>3. \A r : NamesBefore(r)' = NamesBefore(r) /\ Rank(r)' = Rank(r) /\ AttacksRead(r)' = AttacksRead(r)
  BY <1>1 DEF NamesBefore, Rank, AttacksRead
<1>4. NamesOK' <=> NamesOK
  BY <1>1 DEF NamesOK
<1>. QED  BY <1>1, <1>2, <1>3, <1>4 DEF lines

(* An i23 file has a header and a tgf file has none.                        *)
LEMMA FileKinds ==
  ASSUME FileInv
  PROVE  \/ I23File(Content) /\ (\E h \in DOMAIN Content : I23Shape(h)) /\ RowsOf("p") # {} /\ ~TgfFile(Content)
         \/ TgfFile(Content) /\ (\E h \in DOMAIN Content : TgfShape(h)) /\ RowsOf("p") = {} /\ ~I23File(Content)
<1>1. I23File(Content) => (\E h \in DOMAIN Content : I23Shape(h)) /\ RowsOf("p") # {}
  BY I23Content DEF I23Shape
<1>2. TgfFile(Content) => (\E h \in DOMAIN Content : TgfShape(h)) /\ RowsOf("p") = {}
  BY TgfContent DEF TgfShape
<1>. QED  BY <1>1, <1>2, FileInvSpec

(* A file or a format that the program gives up on was not properly asked   *)
(* for.                                                                     *)
LEMMA CannotReadSpec ==
  ASSUME argv \in Seq(STRING \ {Unset, NULL}), disk \in Disks, AskedInv, CannotRead
  PROVE  ~WellAsked
<1>1. SUFFICES ASSUME WellAsked
               PROVE  FALSE
  OBVIOUS
<1>2. FileInv
  BY <1>1, ValueSpec DEF FileInv, WellAsked, AskedInv
<1>3. task.format # "tgf" /\ RowsOf("p") = {}
  BY <1>2, FileInvSpec DEF CannotRead, FileInv, Rows, RowsOf
<1>4. I23File(Content)
  BY <1>1, <1>2, <1>3, FileInvSpec DEF WellAsked, AsMeant
<1>. QED  BY <1>2, <1>3, <1>4, FileKinds

(* Opening a tgf file establishes the invariant of the reader.              *)
LEMMA OpenTgfSpec ==
  ASSUME argv \in Seq(STRING \ {Unset, NULL}), disk \in Disks, AskedInv, ~Misread, row = 1, OpenTgf
  PROVE  ReadingInv'
<1>1. /\ FileInv /\ InTgf /\ AsMeant
      /\ pc' = "arguments" /\ UNCHANGED <<argv, task, disk, row>> /\ aaf' = NewAAF(0, << >>)
  <2>1. FileInv
    BY DEF FileInv, OpenTgf
  <2>. QED  BY <2>1, FileInvSpec DEF OpenTgf, cmd, Misread
<1>2. \A h \in DOMAIN Content : 1 <= h /\ h \in Nat
  BY <1>1, FileInvSpec
<1>3. NamesBefore(1) = {}
  BY <1>2 DEF NamesBefore, RowsOf
<1>4. ArgumentsInv(0)'
  <2>1. (0 = Cardinality(NamesBefore(row)))'
    BY <1>1, <1>3, FileKept, FS_EmptySet
  <2>2. aaf'.ids2arguments = << >>
    BY <1>1 DEF NewAAF
  <2>3. << >> = [i \in 0 .. 0 - 1 |-> << >>[i]]
    OBVIOUS
  <2>4. \A i \in 0 .. 0 - 1 : FALSE
    OBVIOUS
  <2>. QED  BY <1>1, <2>1, <2>2, <2>3, <2>4 DEF ArgumentsInv, IsArray
<1>5. InTgf' /\ \E h \in DOMAIN Content' : TgfShape(h)' /\ row' <= h /\ \E n \in Nat : ArgumentsInv(n)'
  <2>1. TgfFile(Content)
    BY <1>1 DEF AsMeant
  <2>2. PICK h \in DOMAIN Content : TgfShape(h)
    BY <1>1, <2>1, TgfContent
  <2>. QED  BY <1>1, <1>2, <1>4, <2>2, FileKept
<1>6. FileInv' /\ AsMeant' /\ row' \in Nat \ {0}
  BY <1>1, FileKept
<1>. QED  BY <1>1, <1>5, <1>6 DEF ReadingInv

(* Opening an i23 file and making the framework establishes the invariant   *)
(* of the reader.                                                           *)
LEMMA OpenI23Spec ==
  ASSUME argv \in Seq(STRING \ {Unset, NULL}), disk \in Disks, AskedInv, ~Misread, OpenI23
  PROVE  ReadingInv'
<1>1. /\ FileInv /\ ~InTgf /\ AsMeant /\ lines = Content /\ Rows("p") = RowsOf("p") /\ Rows("p") # {}
      /\ pc' = "attacks" /\ UNCHANGED <<argv, task, disk>>
  <2>1. FileInv
    BY DEF FileInv, OpenI23
  <2>. QED  BY <2>1, FileInvSpec DEF OpenI23, cmd, Rows, RowsOf, Misread
<1>2. I23File(Content)
  BY <1>1 DEF AsMeant
<1>3. PICK h \in DOMAIN Content : I23Shape(h)
  BY <1>1, <1>2, FileKinds
<1>4. FirstOf(Rows("p")) = h /\ h \in Nat \ {0}
  <2>1. Rows("p") = {h}
    BY <1>1, <1>3 DEF I23Shape
  <2>2. h \in Nat \ {0}
    BY <1>1, FileInvSpec
  <2>. QED  BY <2>1, <2>2 DEF FirstOf
<1>5. row' = h + 1 /\ aaf' = NewAAF(N, [i \in Arg |-> NameOf(i)]) /\ NamesOK
  <2>1. lines[h][2] = N
    BY <1>1, <1>3 DEF I23Shape
  <2>2. NamesOK /\ [i \in 0 .. N - 1 |-> Number(i)] = [i \in Arg |-> NameOf(i)]
    BY <1>1, <1>3, I23NamesOK, ArgSpec
  <2>3. row' = h + 1 /\ aaf' = NewAAF(N, [i \in 0 .. N - 1 |-> Number(i)])
    BY <1>4, <2>1 DEF OpenI23
  <2>. QED  BY <2>2, <2>3
<1>6. AttacksRead(h + 1) = {}
  <2>1. \A k \in RowsOf("att") : ~(k < h + 1)
    <3>1. \A k \in RowsOf("att") : k \in Nat /\ h < k
      BY <1>1, <1>3, FileInvSpec DEF I23Shape, RowsOf
    <3>. QED  BY <1>4, <3>1
  <2>. QED  BY <2>1 DEF AttacksRead
<1>7. FrameInv(h + 1)'
  <2>1. aaf' \in Frames([i \in Arg |-> NameOf(i)]) /\ Reflects(aaf', AttacksRead(h + 1))
    BY <1>5, <1>6, NewAAFSpec
  <2>2. [i \in Arg |-> NameOf(i)]' = [i \in Arg |-> NameOf(i)] /\ AttacksRead(h + 1)' = AttacksRead(h + 1)
    BY <1>1, FileKept
  <2>. QED  BY <2>1, <2>2 DEF FrameInv
<1>8. AsMeant' /\ NamesOK' /\ FileInv' /\ row' \in Nat \ {0} /\ h \in DOMAIN Content' /\ row' > h /\ I23Shape(h)' /\ ~InTgf'
  BY <1>1, <1>2, <1>3, <1>4, <1>5, FileKept
<1>9. FrameInv(row)'
  BY <1>5, <1>7
<1>. QED  BY <1>1, <1>8, <1>9 DEF ReadingInv

(* A row that is no attack and no name changes nothing.                     *)
LEMMA NextRow ==
  ASSUME FileInv, NEW r \in Nat \ {0}
  PROVE  /\ r \notin RowsOf("att") => AttacksRead(r + 1) = AttacksRead(r)
         /\ r \in RowsOf("att") =>
              AttacksRead(r + 1) = AttacksRead(r) \cup {<<AttackOf(r)[1], AttackOf(r)[2], r>>}
         /\ r \notin RowsOf("name") => NamesBefore(r + 1) = NamesBefore(r)
         /\ r \in RowsOf("name") => NamesBefore(r + 1) = NamesBefore(r) \cup {r}
         /\ IsFiniteSet(AttacksRead(r))
         /\ \A e \in AttacksRead(r) : e[3] # r
<1>1. \A o : \A k \in RowsOf(o) : k \in Nat /\ k \in 1 .. Len(Content)
  BY FileInvSpec DEF RowsOf
<1>2. \A k \in Nat : k < r + 1 <=> k < r \/ k = r
  OBVIOUS
<1>3. ASSUME NEW o
      PROVE  {l \in RowsOf(o) : l < r + 1} = {l \in RowsOf(o) : l < r} \cup (IF r \in RowsOf(o) THEN {r} ELSE {})
  BY <1>1, <1>2
<1>4. /\ r \notin RowsOf("att") => AttacksRead(r + 1) = AttacksRead(r)
      /\ r \in RowsOf("att") =>
           AttacksRead(r + 1) = AttacksRead(r) \cup {<<AttackOf(r)[1], AttackOf(r)[2], r>>}
  <2>. DEFINE Upto(s) == {l \in RowsOf("att") : l < s}
              E(k) == <<AttackOf(k)[1], AttackOf(k)[2], k>>
  <2>1. Upto(r + 1) = Upto(r) \cup (IF r \in RowsOf("att") THEN {r} ELSE {})
    BY <1>3
  <2>2. \A s : AttacksRead(s) = {E(k) : k \in Upto(s)}
    BY DEF AttacksRead
  <2>. HIDE DEF Upto, E
  <2>3. r \in RowsOf("att") => AttacksRead(r + 1) = AttacksRead(r) \cup {E(r)}
    BY <2>1, <2>2
  <2>4. r \notin RowsOf("att") => AttacksRead(r + 1) = AttacksRead(r)
    BY <2>1, <2>2
  <2>. QED  BY <2>3, <2>4 DEF E
<1>5. /\ r \notin RowsOf("name") => NamesBefore(r + 1) = NamesBefore(r)
      /\ r \in RowsOf("name") => NamesBefore(r + 1) = NamesBefore(r) \cup {r}
  BY <1>3 DEF NamesBefore
<1>6. IsFiniteSet(AttacksRead(r))
  <2>. DEFINE Rows0 == {l \in RowsOf("att") : l < r}
              E(k) == <<AttackOf(k)[1], AttackOf(k)[2], k>>
              f == [k \in Rows0 |-> E(k)]
  <2>1. IsFiniteSet(Rows0)
    <3>1. Rows0 \in SUBSET (1 .. Len(Content)) /\ Len(Content) \in Nat
      BY <1>1, FileInvSpec
    <3>2. IsFiniteSet(1 .. Len(Content))
      BY <3>1, FS_Interval
    <3>. HIDE DEF Rows0
    <3>. QED  BY <3>1, <3>2, FS_Subset
  <2>2. AttacksRead(r) = {E(k) : k \in Rows0}
    BY DEF AttacksRead
  <2>. HIDE DEF E, Rows0
  <2>3. f \in Surjection(Rows0, AttacksRead(r))
    BY <2>2 DEF Surjection
  <2>. HIDE DEF f
  <2>. QED  BY <2>1, <2>3, FS_Surjection
<1>7. \A e \in AttacksRead(r) : e[3] # r
  BY <1>1 DEF AttacksRead
<1>. QED  BY <1>4, <1>5, <1>6, <1>7

(* The row read is one of the file.                                         *)
LEMMA RowKind ==
  ASSUME ReadingInv, row <= Len(lines)
  PROVE  /\ FileInv /\ lines = Content /\ row \in DOMAIN Content /\ row \in Nat \ {0}
         /\ \A o : row \in RowsOf(o) <=> line[1] = o
<1>1. FileInv /\ row \in Nat \ {0}
  BY DEF ReadingInv
<1>2. lines = Content /\ DOMAIN Content = 1 .. Len(Content) /\ Len(Content) \in Nat
  BY <1>1, FileInvSpec
<1>3. row \in DOMAIN Content
  BY <1>1, <1>2
<1>. QED  BY <1>1, <1>2, <1>3 DEF RowsOf, line

-----------------------------------------------------------------------------
(* A step to the next row of the same file.                                 *)
LEMMA ToNextRow ==
  ASSUME ReadingInv, row <= Len(lines), row' = row + 1, UNCHANGED <<argv, task, disk>>
  PROVE  /\ AttacksRead(row)' = AttacksRead(row + 1) /\ NamesBefore(row)' = NamesBefore(row + 1)
         /\ FileInv' /\ AsMeant' /\ row' \in Nat \ {0}
         /\ \A h \in DOMAIN Content : row <= h /\ row # h => row' <= h
         /\ \A h \in DOMAIN Content : row > h => row' > h
<1>1. FileInv /\ AsMeant /\ row \in DOMAIN Content /\ row \in Nat \ {0} /\ \A h \in DOMAIN Content : h \in Nat
  BY RowKind, FileInvSpec DEF ReadingInv
<1>2. AttacksRead(row)' = AttacksRead(row + 1) /\ NamesBefore(row)' = NamesBefore(row + 1)
  <2>1. RowsOf("att")' = RowsOf("att") /\ RowsOf("name")' = RowsOf("name") /\ \A i : AttackOf(i)' = AttackOf(i)
    BY FileKept
  <2>. QED  BY <2>1 DEF AttacksRead, NamesBefore
<1>3. /\ \A h \in DOMAIN Content : row <= h /\ row # h => row' <= h
      /\ \A h \in DOMAIN Content : row > h => row' > h
  BY <1>1
<1>4. FileInv' /\ AsMeant' /\ row' \in Nat \ {0}
  BY <1>1, FileKept
<1>. QED  BY <1>2, <1>3, <1>4

(* A row without meaning changes nothing but the place in the file.         *)
LEMMA SkipLineSpec ==
  ASSUME ReadingInv, SkipLine
  PROVE  ReadingInv'
<1>1. /\ row <= Len(lines) /\ pc \in {"arguments", "attacks"} /\ row' = row + 1
      /\ UNCHANGED <<argv, task, disk, aaf, pc>>
      /\ line[1] = "blank" \/ (line[1] \in {"#", "comment"} /\ task.format # "tgf")
  BY DEF SkipLine, cmd
<1>2. /\ FileInv /\ row \in DOMAIN Content /\ row \in Nat \ {0}
      /\ row \notin RowsOf("att") /\ row \notin RowsOf("name")
      /\ InTgf => row \notin RowsOf("#")
  <2>1. FileInv /\ row \in DOMAIN Content /\ row \in Nat \ {0} /\ \A o : row \in RowsOf(o) <=> line[1] = o
    BY <1>1, RowKind
  <2>2. task.format = "tgf" <=> InTgf
    BY <2>1, FileInvSpec
  <2>. QED  BY <1>1, <2>1, <2>2
<1>3. /\ AttacksRead(row)' = AttacksRead(row) /\ NamesBefore(row)' = NamesBefore(row)
      /\ FileInv' /\ AsMeant' /\ row' \in Nat \ {0}
      /\ \A h \in DOMAIN Content : row <= h /\ row # h => row' <= h
      /\ \A h \in DOMAIN Content : row > h => row' > h
  <2>1. AttacksRead(row + 1) = AttacksRead(row) /\ NamesBefore(row + 1) = NamesBefore(row)
    BY <1>2, NextRow
  <2>. QED  BY <1>1, <1>2, <2>1, ToNextRow
<1>4. /\ (NamesOK' <=> NamesOK) /\ Content' = Content /\ (InTgf' <=> InTgf)
      /\ \A h : (TgfShape(h)' <=> TgfShape(h)) /\ (I23Shape(h)' <=> I23Shape(h))
      /\ \A k : Rank(k)' = Rank(k) /\ \A i : NameOf(i)' = NameOf(i)
  BY <1>1, FileKept
<1>5. ASSUME pc = "arguments"
      PROVE  InTgf' /\ \E h \in DOMAIN Content' : TgfShape(h)' /\ row' <= h /\ \E n \in Nat : ArgumentsInv(n)'
  <2>1. PICK h \in DOMAIN Content : InTgf /\ TgfShape(h) /\ row <= h /\ \E n \in Nat : ArgumentsInv(n)
    BY <1>5 DEF ReadingInv
  <2>2. PICK n \in Nat : ArgumentsInv(n)
    BY <2>1
  <2>3. row' <= h
    BY <1>2, <1>3, <2>1 DEF TgfShape
  <2>4. ArgumentsInv(n)'
    <3>1. NamesBefore(row)' = NamesBefore(row) /\ aaf' = aaf
      BY <1>1, <1>3
    <3>2. \A k : Rank(k)' = Rank(k) /\ Content'[k] = Content[k]
      BY <1>4
    <3>3. /\ n = Cardinality(NamesBefore(row)')
          /\ aaf' = NewAAF(n, aaf'.ids2arguments)
          /\ IsArray(aaf'.ids2arguments, n)
      BY <2>2, <3>1 DEF ArgumentsInv
    <3>4. \A i \in 0 .. n - 1 :
            \E k \in NamesBefore(row)' : Rank(k)' = i /\ aaf'.ids2arguments[i] = Content'[k][2]
      BY <2>2, <3>1, <3>2 DEF ArgumentsInv
    <3>. QED  BY <3>3, <3>4 DEF ArgumentsInv
  <2>. QED  BY <1>4, <2>1, <2>3, <2>4
<1>6. ASSUME pc = "attacks"
      PROVE  /\ NamesOK' /\ FrameInv(row)'
             /\ \E h \in DOMAIN Content' : row' > h /\ IF InTgf' THEN TgfShape(h)' ELSE I23Shape(h)'
  <2>1. NamesOK /\ FrameInv(row)
    BY <1>6 DEF ReadingInv
  <2>2. PICK h \in DOMAIN Content : row > h /\ IF InTgf THEN TgfShape(h) ELSE I23Shape(h)
    BY <1>6 DEF ReadingInv
  <2>3. FrameInv(row)'
    BY <1>1, <1>3, <1>4, <2>1 DEF FrameInv
  <2>. QED  BY <1>3, <1>4, <2>1, <2>2, <2>3
<1>. QED  BY <1>1, <1>3, <1>5, <1>6 DEF ReadingInv

(* A row with a name adds the argument of the next number, if the name fits *)
(* into its buffer.                                                         *)
LEMMA ReadArgumentSpec ==
  ASSUME ReadingInv, ReadArgument
  PROVE  \/ pc' = pc /\ ReadingInv'
         \/ pc' = "undefined" /\ Overfull
<1>1. /\ row <= Len(lines) /\ pc = "arguments" /\ row' = row + 1
      /\ pc' = pc \/ (Len(Text(line)) > 8 /\ pc' = "undefined")
      /\ UNCHANGED <<argv, task, disk>> /\ line[1] \notin {"blank", "#"}
      /\ LET n == aaf.number_of_arguments
         IN  aaf' = NewAAF(n + 1, [i \in 0 .. n |-> IF i = n THEN Text(line) ELSE aaf.ids2arguments[i]])
  BY DEF ReadArgument, cmd
<1>2. /\ FileInv /\ row \in Nat \ {0} /\ lines = Content /\ row \in DOMAIN Content
      /\ \A o : row \in RowsOf(o) <=> line[1] = o
  BY <1>1, RowKind
<1>5. PICK h \in DOMAIN Content : InTgf /\ TgfShape(h) /\ row <= h /\ \E n \in Nat : ArgumentsInv(n)
  BY <1>1 DEF ReadingInv
<1>6. PICK n \in Nat : ArgumentsInv(n)
  BY <1>5
<1>3. row \in RowsOf("name") /\ line[1] = "name"
  <2>1. h \in Nat
    BY <1>2, FileInvSpec
  <2>2. line[1] \in {"name", "p", "#", "comment", "blank", "att"}
    BY <1>2, <1>5 DEF TgfShape, Shape, line
  <2>3. row \notin RowsOf("p") /\ row \notin RowsOf("comment")
    BY <1>5 DEF TgfShape
  <2>4. row \notin RowsOf("att")
    BY <1>2, <1>5, <2>1 DEF TgfShape
  <2>. QED  BY <1>1, <1>2, <2>2, <2>3, <2>4
<1>4. Text(line) = line[2]
  BY <1>3 DEF Text
<1>40. CASE Len(Text(line)) > 8 /\ pc' = "undefined"
  <2>1. Len(Content[row][2]) > 8
    BY <1>2, <1>4, <1>40 DEF line
  <2>. QED  BY <1>3, <1>5, <1>40, <2>1 DEF Overfull
<1>7. /\ FileInv' /\ AsMeant' /\ row' \in Nat \ {0} /\ NamesBefore(row)' = NamesBefore(row + 1)
      /\ row' <= h
  <2>1. h \in Nat /\ row < h
    BY <1>2, <1>3, <1>5, FileInvSpec DEF TgfShape
  <2>. QED  BY <1>1, <1>2, <2>1, ToNextRow
<1>8. /\ Content' = Content /\ (InTgf' <=> InTgf) /\ (TgfShape(h)' <=> TgfShape(h)) /\ \A k : Rank(k)' = Rank(k)
  BY <1>1, FileKept
<1>9. NamesBefore(row)' = NamesBefore(row) \cup {row} /\ row \notin NamesBefore(row)
  BY <1>2, <1>3, <1>7, NextRow DEF NamesBefore
<1>10. /\ IsFiniteSet(NamesBefore(row)) /\ Rank(row) = n /\ n = Cardinality(NamesBefore(row))
       /\ n = aaf.number_of_arguments
  <2>1. IsFiniteSet(NamesBefore(row))
    BY <1>2, <1>5, RankSpec DEF TgfShape
  <2>2. aaf = NewAAF(n, aaf.ids2arguments) /\ n = Cardinality(NamesBefore(row))
    BY <1>6 DEF ArgumentsInv, IsArray
  <2>3. NewAAF(n, aaf.ids2arguments).number_of_arguments = n
    BY DEF NewAAF
  <2>. QED  BY <2>1, <2>2, <2>3 DEF Rank
<1>11. ArgumentsInv(n + 1)'
  <2>. DEFINE ids == [i \in 0 .. n |-> IF i = n THEN line[2] ELSE aaf.ids2arguments[i]]
  <2>1. (n + 1 = Cardinality(NamesBefore(row)))'
    <3>1. Cardinality(NamesBefore(row) \cup {row}) = Cardinality(NamesBefore(row)) + 1
      BY <1>9, <1>10, FS_AddElement
    <3>. QED  BY <1>9, <1>10, <3>1
  <2>2. aaf' = NewAAF(n + 1, ids) /\ aaf'.ids2arguments = ids
    <3>1. aaf' = NewAAF(n + 1, ids)
      BY <1>1, <1>4, <1>10
    <3>2. NewAAF(n + 1, ids).ids2arguments = ids
      BY DEF NewAAF
    <3>. QED  BY <3>1, <3>2
  <2>3. ids = [i \in 0 .. (n + 1) - 1 |-> ids[i]]
    OBVIOUS
  <2>4. ASSUME NEW i \in 0 .. n
        PROVE  \E k \in NamesBefore(row)' : Rank(k) = i /\ ids[i] = Content[k][2]
    <3>1. CASE i = n
      BY <1>2, <1>9, <1>10, <3>1 DEF line
    <3>2. CASE i # n
      <4>1. i \in 0 .. n - 1 /\ ids[i] = aaf.ids2arguments[i]
        BY <3>2
      <4>2. PICK k \in NamesBefore(row) : Rank(k) = i /\ aaf.ids2arguments[i] = Content[k][2]
        BY <1>6, <4>1 DEF ArgumentsInv, IsArray
      <4>. QED  BY <1>9, <4>1, <4>2
    <3>. QED  BY <3>1, <3>2
  <2>5. \A i \in 0 .. (n + 1) - 1 : i \in 0 .. n
    OBVIOUS
  <2>. HIDE DEF ids
  <2>6. \A i \in 0 .. (n + 1) - 1 : \E k \in NamesBefore(row)' : Rank(k)' = i /\ aaf'.ids2arguments[i] = Content'[k][2]
    BY <1>8, <2>2, <2>4, <2>5
  <2>. QED  BY <2>1, <2>2, <2>3, <2>6 DEF ArgumentsInv, IsArray
<1>12. n + 1 \in Nat
  OBVIOUS
<1>13. CASE pc' = pc
  BY <1>1, <1>5, <1>7, <1>8, <1>11, <1>12, <1>13 DEF ReadingInv
<1>. QED  BY <1>1, <1>13, <1>40

(* The separator ends the names, and the framework is made for all of them. *)
LEMMA SwitchSectionSpec ==
  ASSUME ReadingInv, SwitchSection
  PROVE  ReadingInv'
<1>1. /\ row <= Len(lines) /\ pc \in {"arguments", "attacks"} /\ row' = row + 1 /\ pc' = "attacks"
      /\ UNCHANGED <<argv, task, disk, aaf>> /\ line[1] = "#" /\ task.format = "tgf"
  BY DEF SwitchSection, cmd
<1>2. /\ FileInv /\ row \in Nat \ {0} /\ lines = Content /\ row \in RowsOf("#") /\ InTgf
  <2>1. FileInv /\ row \in Nat \ {0} /\ lines = Content /\ \A o : row \in RowsOf(o) <=> line[1] = o
    BY <1>1, RowKind
  <2>. QED  BY <1>1, <2>1, FileInvSpec
<1>3. FileInv' /\ AsMeant' /\ row' \in Nat \ {0} /\ AttacksRead(row)' = AttacksRead(row + 1)
  BY <1>1, <1>2, ToNextRow
<1>4. pc = "arguments"
  <2>1. SUFFICES ASSUME pc = "attacks" PROVE FALSE
    BY <1>1
  <2>2. PICK h \in DOMAIN Content : row > h /\ TgfShape(h)
    BY <1>2, <2>1 DEF ReadingInv
  <2>3. row = h /\ h \in Nat
    BY <1>2, <2>2, FileInvSpec DEF TgfShape
  <2>. QED  BY <2>2, <2>3
<1>5. PICK h \in DOMAIN Content : InTgf /\ TgfShape(h) /\ row <= h /\ \E n \in Nat : ArgumentsInv(n)
  BY <1>4 DEF ReadingInv
<1>6. PICK n \in Nat : ArgumentsInv(n)
  BY <1>5
<1>7. row = h
  BY <1>2, <1>5 DEF TgfShape
<1>8. NamesOK /\ aaf = NewAAF(N, [i \in Arg |-> NameOf(i)])
  BY <1>2, <1>5, <1>6, <1>7, TgfNamesOK
<1>9. AttacksRead(row + 1) = {}
  <2>1. \A k \in RowsOf("att") : k \in Nat /\ h < k
    BY <1>2, <1>5, FileInvSpec DEF TgfShape, RowsOf
  <2>2. \A k \in RowsOf("att") : ~(k < row + 1)
    BY <1>2, <1>7, <2>1
  <2>. QED  BY <2>2 DEF AttacksRead
<1>10. NamesOK' /\ Content' = Content /\ InTgf' /\ TgfShape(h)' /\ \A i : NameOf(i)' = NameOf(i)
  BY <1>1, <1>5, <1>8, FileKept
<1>11. FrameInv(row)'
  <2>1. aaf \in Frames([i \in Arg |-> NameOf(i)]) /\ Reflects(aaf, {})
    BY <1>8, NewAAFSpec
  <2>2. aaf' = aaf /\ AttacksRead(row)' = {} /\ [i \in Arg |-> NameOf(i)]' = [i \in Arg |-> NameOf(i)]
    BY <1>1, <1>3, <1>9, <1>10
  <2>. QED  BY <2>1, <2>2 DEF FrameInv
<1>12. row' > h
  BY <1>1, <1>2, <1>7
<1>. QED  BY <1>1, <1>3, <1>10, <1>11, <1>12 DEF ReadingInv

(* A file of the format asked for has a separator.                          *)
LEMMA NoSeparatorSpec ==
  ASSUME ReadingInv, NoSeparator
  PROVE  FALSE
<1>1. pc = "arguments" /\ row > Len(lines) /\ FileInv /\ row \in Nat
  BY DEF NoSeparator, ReadingInv
<1>2. PICK h \in DOMAIN Content : row <= h
  BY <1>1 DEF ReadingInv
<1>. QED  BY <1>1, <1>2, FileInvSpec

(* The ids of the names in a proper file.                                   *)
LEMMA LookupSpec ==
  ASSUME aaf \in Frames([i \in Arg |-> NameOf(i)]), NamesOK, NEW a \in Arg
  PROVE  IdsOf(NameOf(a)) = {a} /\ Lookup(NameOf(a)) = a /\ IdOf(NameOf(a)) = a
<1>1. DOMAIN aaf.ids2arguments = Arg /\ \A i \in Arg : aaf.ids2arguments[i] = NameOf(i)
  BY DEF Frames
<1>2. IdsOf(NameOf(a)) = {a}
  BY <1>1 DEF IdsOf, NamesOK
<1>3. a \in Nat
  BY ArgSpec
<1>4. Lookup(NameOf(a)) = a
  BY <1>2, <1>3 DEF Lookup
<1>5. IdOf(NameOf(a)) = a
  BY DEF IdOf, NamesOK
<1>. QED  BY <1>2, <1>4, <1>5

(* A row with an attack adds it to the framework; both its names are known. *)
LEMMA ReadAttackSpec ==
  ASSUME ReadingInv, ReadAttack
  PROVE  ReadingInv' /\ pc' = pc
<1>1. /\ row <= Len(lines) /\ pc = "attacks" /\ row' = row + 1 /\ UNCHANGED <<argv, task, disk>>
      /\ line[1] \in {"name", "p", "att"} \/ (line[1] = "comment" /\ task.format = "tgf")
      /\ LET w == Words(line)
         IN  IF w = << >> \/ \E k \in DOMAIN w : IdsOf(w[k]) = {}
               THEN pc' = "undefined" /\ aaf' = aaf
               ELSE aaf' = WithAttack(aaf, Lookup(w[1]), Lookup(w[2])) /\ pc' = pc
  BY DEF ReadAttack, cmd
<1>2. /\ FileInv /\ row \in Nat \ {0} /\ lines = Content /\ row \in DOMAIN Content
      /\ \A o : row \in RowsOf(o) <=> line[1] = o
      /\ (task.format = "tgf" <=> InTgf)
  BY <1>1, RowKind, FileInvSpec
<1>4. /\ NamesOK /\ FrameInv(row)
      /\ \E h \in DOMAIN Content : row > h /\ IF InTgf THEN TgfShape(h) ELSE I23Shape(h)
  BY <1>1 DEF ReadingInv
<1>3. row \in RowsOf("att")
  <2>1. PICK h \in DOMAIN Content : row > h /\ IF InTgf THEN TgfShape(h) ELSE I23Shape(h)
    BY <1>4
  <2>2. h \in Nat /\ row # h
    BY <1>2, <2>1, FileInvSpec
  <2>3. row \notin RowsOf("p") /\ row \notin RowsOf("name")
    BY <1>2, <2>1, <2>2 DEF TgfShape, I23Shape
  <2>4. InTgf => row \notin RowsOf("comment")
    BY <2>1 DEF TgfShape
  <2>. QED  BY <1>1, <1>2, <2>3, <2>4
<1>. DEFINE a == AttackOf(row)[1]
            b == AttackOf(row)[2]
            ids == [i \in Arg |-> NameOf(i)]
<1>5. a \in Arg /\ b \in Arg
  BY <1>3, <1>4 DEF NamesOK
<1>6. aaf' = WithAttack(aaf, a, b) /\ pc' = pc
  <2>1. line[2] = NameOf(a) /\ line[3] = NameOf(b) /\ line[1] = "att"
    BY <1>2, <1>3, <1>4 DEF NamesOK, line
  <2>2. /\ IdsOf(line[2]) = {a} /\ Lookup(line[2]) = a
        /\ IdsOf(line[3]) = {b} /\ Lookup(line[3]) = b
    BY <1>4, <1>5, <2>1, LookupSpec DEF FrameInv
  <2>3. Words(line) = <<line[2], line[3]>>
    BY <2>1 DEF Words
  <2>. HIDE DEF a, b
  <2>4. Words(line) # << >> /\ \A k \in DOMAIN Words(line) : IdsOf(Words(line)[k]) # {}
    <3>1. DOMAIN <<line[2], line[3]>> = 1 .. 2 /\ <<line[2], line[3]>> # << >>
      OBVIOUS
    <3>2. \A k \in 1 .. 2 : k = 1 \/ k = 2
      OBVIOUS
    <3>. QED  BY <2>2, <2>3, <3>1, <3>2
  <2>. QED  BY <1>1, <2>2, <2>3, <2>4
<1>7. /\ FileInv' /\ AsMeant' /\ row' \in Nat \ {0} /\ AttacksRead(row)' = AttacksRead(row + 1)
      /\ \A h \in DOMAIN Content : row > h => row' > h
  BY <1>1, ToNextRow
<1>8. /\ AttacksRead(row + 1) = AttacksRead(row) \cup {<<a, b, row>>}
      /\ IsFiniteSet(AttacksRead(row)) /\ <<a, b, row>> \notin AttacksRead(row)
  BY <1>2, <1>3, NextRow
<1>9. aaf \in Frames(ids) /\ Reflects(aaf, AttacksRead(row))
  BY <1>4 DEF FrameInv
<1>10. aaf' \in Frames(ids) /\ Reflects(aaf', AttacksRead(row)')
  <2>. HIDE DEF a, b, ids
  <2>. QED  BY <1>5, <1>6, <1>7, <1>8, <1>9, ReflectsNext
<1>11. /\ (NamesOK' <=> NamesOK) /\ Content' = Content /\ (InTgf' <=> InTgf)
       /\ \A h : (TgfShape(h)' <=> TgfShape(h)) /\ (I23Shape(h)' <=> I23Shape(h))
       /\ \A i : NameOf(i)' = NameOf(i)
  BY <1>1, FileKept
<1>12. FrameInv(row)'
  <2>1. ids' = ids
    BY <1>11
  <2>. HIDE DEF ids
  <2>2. aaf' \in Frames(ids') /\ Reflects(aaf', AttacksRead(row)')
    BY <1>10, <2>1
  <2>. QED  BY <2>2 DEF FrameInv, ids
<1>13. \E h \in DOMAIN Content' : row' > h /\ IF InTgf' THEN TgfShape(h)' ELSE I23Shape(h)'
  BY <1>4, <1>7, <1>11
<1>. QED  BY <1>1, <1>4, <1>6, <1>7, <1>11, <1>12, <1>13 DEF ReadingInv

-----------------------------------------------------------------------------
(* The framework after the last row.                                        *)
LoadedInv ==
  /\ FileInv /\ AsMeant /\ NamesOK
  /\ FrameInv(Len(Content) + 1)

(* After the last row the framework is loaded.                              *)
LEMMA FileReadSpec ==
  ASSUME ReadingInv, FileRead
  PROVE  LoadedInv'
<1>1. /\ row > Len(lines) /\ pc = "attacks" /\ UNCHANGED <<argv, task, disk, aaf>>
  BY DEF FileRead, cmd, load
<1>2. /\ FileInv /\ row \in Nat \ {0} /\ lines = Content /\ Len(Content) \in Nat
      /\ DOMAIN Content = 1 .. Len(Content)
  BY FileInvSpec DEF ReadingInv
<1>4. AsMeant /\ NamesOK /\ FrameInv(row)
  BY <1>1 DEF ReadingInv
<1>5. AttacksRead(row) = AttacksRead(Len(Content) + 1)
  <2>1. \A k \in RowsOf("att") : k < row /\ k < Len(Content) + 1
    BY <1>1, <1>2 DEF RowsOf
  <2>. QED  BY <2>1 DEF AttacksRead
<1>6. FrameInv(Len(Content) + 1)
  BY <1>4, <1>5 DEF FrameInv
<1>. DEFINE last == Len(Content) + 1
<1>7. /\ (FileInv' <=> FileInv) /\ (AsMeant' <=> AsMeant) /\ (NamesOK' <=> NamesOK) /\ Content' = Content
      /\ AttacksRead(last)' = AttacksRead(last)
      /\ [i \in Arg |-> NameOf(i)]' = [i \in Arg |-> NameOf(i)]
  BY <1>1, FileKept
<1>8. FrameInv(last)'
  BY <1>1, <1>6, <1>7 DEF FrameInv
<1>. QED  BY <1>2, <1>4, <1>7, <1>8 DEF LoadedInv

(* The loaded framework stays the one of the file.                          *)
LEMMA LoadedKept ==
  ASSUME LoadedInv, UNCHANGED <<argv, task, disk, aaf>>
  PROVE  LoadedInv'
<1>. DEFINE last == Len(Content) + 1
<1>1. /\ (FileInv' <=> FileInv) /\ (AsMeant' <=> AsMeant) /\ (NamesOK' <=> NamesOK) /\ Content' = Content
      /\ AttacksRead(last)' = AttacksRead(last)
      /\ [i \in Arg |-> NameOf(i)]' = [i \in Arg |-> NameOf(i)]
  BY FileKept
<1>2. FrameInv(last)'
  BY <1>1 DEF LoadedInv, FrameInv
<1>. QED  BY <1>1, <1>2 DEF LoadedInv

(* The attacks read and those of the file.                                  *)
Repeats(a, b) == {k \in RowsOf("att") : AttackOf(k) = <<a, b>>}
Read(a, b)    == {e \in AttacksRead(Len(Content) + 1) : e[1] = a /\ e[2] = b}

(* The attacks read are as many as the rows that repeat them.               *)
LEMMA ReadSpec ==
  ASSUME FileInv, NamesOK, NEW a \in Arg, NEW b \in Arg
  PROVE  /\ IsFiniteSet(Read(a, b)) /\ Cardinality(Read(a, b)) = Cardinality(Repeats(a, b))
         /\ Read(a, b) # {} <=> <<a, b>> \in Attacks
<1>. DEFINE f == [k \in Repeats(a, b) |-> <<a, b, k>>]
<1>1. Read(a, b) = {<<a, b, k>> : k \in Repeats(a, b)}
  <2>1. AttacksRead(Len(Content) + 1) = {<<AttackOf(k)[1], AttackOf(k)[2], k>> : k \in RowsOf("att")}
    <3>1. \A k \in RowsOf("att") : k < Len(Content) + 1
      BY FileInvSpec DEF RowsOf
    <3>. QED  BY <3>1 DEF AttacksRead
  <2>2. ASSUME NEW e \in Read(a, b)
        PROVE  e \in {<<a, b, k>> : k \in Repeats(a, b)}
    <3>1. PICK k \in RowsOf("att") : e = <<AttackOf(k)[1], AttackOf(k)[2], k>>
      BY <2>1 DEF Read
    <3>2. AttackOf(k)[1] = a /\ AttackOf(k)[2] = b /\ AttackOf(k) \in Arg \X Arg
      BY <3>1 DEF Read, NamesOK
    <3>3. AttackOf(k) = <<a, b>>
      BY <3>2
    <3>. QED  BY <3>1, <3>2, <3>3 DEF Repeats
  <2>3. ASSUME NEW k \in Repeats(a, b)
        PROVE  <<a, b, k>> \in Read(a, b)
    <3>1. k \in RowsOf("att") /\ AttackOf(k) = <<a, b>>
      BY DEF Repeats
    <3>2. <<AttackOf(k)[1], AttackOf(k)[2], k>> = <<a, b, k>>
      BY <3>1
    <3>. QED  BY <2>1, <3>1, <3>2 DEF Read
  <2>. QED  BY <2>2, <2>3
<1>2. IsFiniteSet(Repeats(a, b))
  <2>1. Repeats(a, b) \in SUBSET (1 .. Len(Content)) /\ IsFiniteSet(1 .. Len(Content))
    BY FileInvSpec, FS_Interval DEF Repeats, RowsOf
  <2>. QED  BY <2>1, FS_Subset
<1>3. f \in Bijection(Repeats(a, b), Read(a, b))
  BY <1>1 DEF Bijection, Injection, Surjection, IsInjective
<1>4. IsFiniteSet(Read(a, b)) /\ Cardinality(Read(a, b)) = Cardinality(Repeats(a, b))
  <2>. HIDE DEF f
  <2>. QED  BY <1>2, <1>3, FS_Bijection DEF ExistsBijection
<1>5. Read(a, b) # {} <=> <<a, b>> \in Attacks
  <2>1. <<a, b>> \in Attacks <=> Repeats(a, b) # {}
    BY DEF Attacks, Repeats
  <2>. QED  BY <1>1, <2>1
<1>. QED  BY <1>4, <1>5

(* The rows with an attack on an argument, which are as many as the         *)
(* attackers listed for it.                                                 *)
RowsOn(b) == {k \in RowsOf("att") : AttackOf(k)[2] = b}

LEMMA ReadOnSpec ==
  ASSUME FileInv, NEW b \in Arg
  PROVE  Cardinality({e \in AttacksRead(Len(Content) + 1) : e[2] = b}) = Cardinality(RowsOn(b))
<1>. DEFINE A == AttacksRead(Len(Content) + 1)
            On == {e \in A : e[2] = b}
            E(k) == <<AttackOf(k)[1], AttackOf(k)[2], k>>
            f == [k \in RowsOn(b) |-> E(k)]
<1>1. A = {E(k) : k \in RowsOf("att")}
  <2>1. \A k \in RowsOf("att") : k < Len(Content) + 1
    BY FileInvSpec DEF RowsOf
  <2>. QED  BY <2>1 DEF AttacksRead
<1>2. \A k : E(k)[2] = AttackOf(k)[2] /\ E(k)[3] = k
  OBVIOUS
<1>3. On = {E(k) : k \in RowsOn(b)}
  <2>. HIDE DEF E
  <2>. QED  BY <1>1, <1>2 DEF RowsOn
<1>4. IsFiniteSet(RowsOn(b))
  <2>1. RowsOn(b) \in SUBSET (1 .. Len(Content)) /\ IsFiniteSet(1 .. Len(Content))
    BY FileInvSpec, FS_Interval DEF RowsOn, RowsOf
  <2>. QED  BY <2>1, FS_Subset
<1>5. f \in Bijection(RowsOn(b), On)
  <2>. HIDE DEF E, On
  <2>. QED  BY <1>2, <1>3 DEF Bijection, Injection, Surjection, IsInjective
<1>. HIDE DEF f, On
<1>6. Cardinality(On) = Cardinality(RowsOn(b))
  BY <1>4, <1>5, FS_Bijection DEF ExistsBijection
<1>. QED  BY <1>6 DEF On

(* What a list counts is in it.                                             *)
LEMMA OccursSpec ==
  ASSUME NEW S, NEW q \in Seq(S), NEW x
  PROVE  Occurrences(q, x) \in Nat /\ (Occurrences(q, x) # 0 <=> \E k \in DOMAIN q : q[k] = x)
<1>. DEFINE D == {k \in DOMAIN q : q[k] = x}
<1>1. IsFiniteSet(D)
  <2>1. DOMAIN q = 1 .. Len(q) /\ Len(q) \in Nat
    OBVIOUS
  <2>2. IsFiniteSet(1 .. Len(q)) /\ D \in SUBSET (1 .. Len(q))
    BY <2>1, FS_Interval
  <2>. HIDE DEF D
  <2>. QED  BY <2>2, FS_Subset
<1>2. Cardinality(D) \in Nat /\ (Cardinality(D) = 0 <=> D = {})
  <2>. HIDE DEF D
  <2>. QED  BY <1>1, FS_CardinalityType, FS_EmptySet
<1>. QED  BY <1>2 DEF Occurrences

(* The framework is that of the file.                                       *)
LEMMA LoadedAttacks ==
  ASSUME LoadedInv
  PROVE  /\ aaf \in Frames([i \in Arg |-> NameOf(i)])
         /\ \A a, b \in Arg :
              /\ Occurrences(aaf.children[a], b) = Cardinality(Repeats(a, b))
              /\ Occurrences(aaf.parents[b], a) = Cardinality(Repeats(a, b))
              /\ Occurrences(aaf.children[a], b) \in Nat
              /\ Occurrences(aaf.children[a], b) # 0 <=> <<a, b>> \in Attacks
         /\ IsFiniteSet(Lines)
         /\ \A b \in Arg : aaf.number_of_attackers[b] = Cardinality({e \in Lines : e[2] = b})
         /\ \A a \in Arg : bitset__get(aaf.initial, a) <=> \A b \in Arg : <<b, a>> \notin Attacks
         /\ \A a \in Arg : bitset__get(aaf.loops, a) <=> <<a, a>> \in Attacks
         /\ Relation = Attacks
         /\ \A b \in Arg : Len(aaf.parents[b]) = Cardinality(RowsOn(b))
<1>. DEFINE A == AttacksRead(Len(Content) + 1)
<1>1. aaf \in Frames([i \in Arg |-> NameOf(i)]) /\ Reflects(aaf, A)
  BY DEF LoadedInv, FrameInv
<1>2. \A a, b \in Arg : {e \in A : e[1] = a /\ e[2] = b} = Read(a, b)
  BY DEF Read
<1>3. /\ \A a, b \in Arg :
           /\ Occurrences(aaf.children[a], b) = Cardinality(Read(a, b))
           /\ Occurrences(aaf.parents[b], a) = Cardinality(Read(a, b))
      /\ IsFiniteSet(LinesOf(aaf))
      /\ \A b \in Arg : aaf.number_of_attackers[b] = Cardinality({e \in LinesOf(aaf) : e[2] = b})
      /\ \A a \in Arg : bitset__get(aaf.initial, a) <=> \A e \in A : e[2] # a
      /\ \A a \in Arg : bitset__get(aaf.loops, a) <=> \E e \in A : e[1] = a /\ e[2] = a
  <2>. HIDE DEF A
  <2>. QED  BY <1>1, <1>2 DEF Reflects
<1>12. \A b \in Arg : Len(aaf.parents[b]) = Cardinality(RowsOn(b))
  BY <1>1, ReadOnSpec DEF LoadedInv, Reflects
<1>4. Lines = LinesOf(aaf)
  BY DEF Lines, LinesOf
<1>5. ASSUME NEW a \in Arg, NEW b \in Arg
      PROVE  /\ Cardinality(Read(a, b)) = Cardinality(Repeats(a, b))
             /\ Cardinality(Read(a, b)) \in Nat
             /\ Cardinality(Read(a, b)) # 0 <=> <<a, b>> \in Attacks
  BY ReadSpec, FS_CardinalityType, FS_EmptySet DEF LoadedInv
<1>6. \A e \in A : e[1] \in Arg /\ e[2] \in Arg
  <2>1. \A k \in RowsOf("att") : AttackOf(k)[1] \in Arg /\ AttackOf(k)[2] \in Arg
    BY DEF LoadedInv, NamesOK
  <2>. QED  BY <2>1 DEF AttacksRead
<1>7. ASSUME NEW a \in Arg, NEW b \in Arg
      PROVE  (\E e \in A : e[1] = a /\ e[2] = b) <=> <<a, b>> \in Attacks
  <2>1. (\E e \in A : e[1] = a /\ e[2] = b) <=> Read(a, b) # {}
    BY DEF Read
  <2>. QED  BY <2>1, ReadSpec DEF LoadedInv
<1>. HIDE DEF A
<1>8. ASSUME NEW a \in Arg
      PROVE  /\ bitset__get(aaf.initial, a) <=> \A b \in Arg : <<b, a>> \notin Attacks
             /\ bitset__get(aaf.loops, a) <=> <<a, a>> \in Attacks
  <2>1. (\A e \in A : e[2] # a) <=> \A b \in Arg : <<b, a>> \notin Attacks
    <3>1. ASSUME NEW e \in A, e[2] = a
          PROVE  \E b \in Arg : <<b, a>> \in Attacks
      <4>1. e[1] \in Arg /\ \E d \in A : d[1] = e[1] /\ d[2] = a
        BY <1>6, <3>1
      <4>. QED  BY <1>7, <4>1
    <3>2. ASSUME NEW b \in Arg, <<b, a>> \in Attacks
          PROVE  \E e \in A : e[2] = a
      BY <1>7, <3>2
    <3>. QED  BY <3>1, <3>2
  <2>2. (\E e \in A : e[1] = a /\ e[2] = a) <=> <<a, a>> \in Attacks
    BY <1>7
  <2>3. /\ bitset__get(aaf.initial, a) <=> \A e \in A : e[2] # a
        /\ bitset__get(aaf.loops, a) <=> \E e \in A : e[1] = a /\ e[2] = a
    BY <1>3
  <2>. QED  BY <2>1, <2>2, <2>3
<1>9. Relation = Attacks
  <2>1. \A k \in RowsOf("att") : AttackOf(k) \in Arg \X Arg
    BY DEF LoadedInv, NamesOK
  <2>2. Attacks \subseteq Arg \X Arg
    BY <2>1 DEF Attacks
  <2>3. ASSUME NEW a \in Arg, NEW b \in Arg
        PROVE  (\E k \in DOMAIN aaf.parents[b] : aaf.parents[b][k] = a) <=> <<a, b>> \in Attacks
    <3>1. aaf.parents[b] \in Seq(Arg)
      BY <1>1 DEF Frames
    <3>2. Occurrences(aaf.parents[b], a) # 0 <=> <<a, b>> \in Attacks
      BY <1>3, <1>5
    <3>. QED  BY <3>1, <3>2, OccursSpec
  <2>4. ASSUME NEW e \in Arg \X Arg
        PROVE  e \in Relation <=> e \in Attacks
    <3>1. e = <<e[1], e[2]>> /\ e[1] \in Arg /\ e[2] \in Arg
      OBVIOUS
    <3>2. e \in Relation <=> \E k \in DOMAIN aaf.parents[e[2]] : aaf.parents[e[2]][k] = e[1]
      BY DEF Relation
    <3>. QED  BY <2>3, <3>1, <3>2
  <2>5. Relation \subseteq Arg \X Arg
    BY DEF Relation
  <2>. QED  BY <2>2, <2>4, <2>5
<1>10. ASSUME NEW a \in Arg, NEW b \in Arg
       PROVE  /\ Occurrences(aaf.children[a], b) = Cardinality(Repeats(a, b))
              /\ Occurrences(aaf.parents[b], a) = Cardinality(Repeats(a, b))
              /\ Occurrences(aaf.children[a], b) \in Nat
              /\ Occurrences(aaf.children[a], b) # 0 <=> <<a, b>> \in Attacks
  <2>1. /\ Occurrences(aaf.children[a], b) = Cardinality(Read(a, b))
        /\ Occurrences(aaf.parents[b], a) = Cardinality(Read(a, b))
    BY <1>3
  <2>. QED  BY <1>5, <2>1
<1>11. IsFiniteSet(Lines) /\ \A b \in Arg : aaf.number_of_attackers[b] = Cardinality({e \in Lines : e[2] = b})
  BY <1>3, <1>4
<1>. QED  BY <1>1, <1>8, <1>9, <1>10, <1>11, <1>12

(* taas__update_arg_param finds the argument, or there is none.             *)
LEMMA UpdateArgSpec ==
  ASSUME LoadedInv, task.track = Given("-p"), UpdateArg
  PROVE  \/ pc' = "ground" /\ WellAsked /\ (Query => arg' = IdOf(Given("-a")) /\ arg' \in Arg)
         \/ pc' = "undefined" /\ ~WellAsked
<1>. DEFINE asked == task.argAsString
<1>1. /\ FileInv /\ NamesOK /\ IsGiven("-p") /\ IsGiven("-f") /\ Given("-f") \in DOMAIN disk
      /\ Places("--formats") \cup Places("--problems") = {}
      /\ AsMeant
  BY FileInvSpec DEF LoadedInv, FileInv, AskedInv
<1>2. /\ IsGiven("-a") => asked = Given("-a")
      /\ ~IsGiven("-a") => asked \in {Unset, NULL}
  BY <1>1, ValueSpec DEF FileInv, AskedInv
<1>3. aaf \in Frames([i \in Arg |-> NameOf(i)])
  BY DEF LoadedInv, FrameInv
<1>4. IdsOf(asked) = {i \in Arg : NameOf(i) = asked}
  BY <1>3 DEF IdsOf, Frames
<1>5. (IsGiven("-a") /\ \E i \in Arg : NameOf(i) = Given("-a")) <=> IdsOf(asked) # {}
  BY <1>1, <1>2, <1>4 DEF NamesOK
<1>6. AsksForArgument(task.track) <=> Query
  BY DEF Query
<1>7. CASE ~Query
  BY <1>1, <1>6, <1>7 DEF UpdateArg, WellAsked
<1>8. CASE Query /\ IdsOf(asked) = {}
  BY <1>1, <1>5, <1>6, <1>8 DEF UpdateArg, WellAsked
<1>9. CASE Query /\ IdsOf(asked) # {}
  <2>1. PICK i \in Arg : NameOf(i) = asked
    BY <1>4, <1>9
  <2>2. Lookup(asked) = i /\ IdOf(asked) = i
    BY <1>1, <1>3, <2>1, LookupSpec
  <2>3. IsGiven("-a") /\ asked = Given("-a")
    BY <1>2, <1>5, <1>9
  <2>4. pc' = "ground" /\ arg' = Lookup(asked)
    BY <1>6, <1>9 DEF UpdateArg
  <2>5. WellAsked
    BY <1>1, <2>1, <2>3 DEF WellAsked
  <2>. QED  BY <2>1, <2>2, <2>3, <2>4, <2>5
<1>. QED  BY <1>7, <1>8, <1>9

(* A list without repetitions is as long as its set is large.               *)
LEMMA ListLength ==
  ASSUME NEW S, NEW q, Lists(q, S)
  PROVE  IsFiniteSet(S) /\ Len(q) \in Nat /\ Cardinality(S) = Len(q)
<1>1. /\ q \in Seq(S) /\ Len(q) \in Nat /\ q \in [1 .. Len(q) -> S]
      /\ \A b \in S : \E i \in 1 .. Len(q) : q[i] = b
      /\ \A i, j \in 1 .. Len(q) : q[i] = q[j] => i = j
  BY DEF Lists
<1>2. q \in Bijection(1 .. Len(q), S)
  BY <1>1 DEF Bijection, Injection, Surjection, IsInjective
<1>3. ExistsBijection(1 .. Len(q), S)
  BY <1>2 DEF ExistsBijection
<1>. QED  BY <1>1, <1>3, FS_CountingElements, FS_NatBijection

(* The stack, a list read from its end, lists the same set.                 *)
LEMMA ReversedList ==
  ASSUME NEW S, NEW q, Lists(q, S)
  PROVE  [k \in 1 .. Len(q) |-> q[Len(q) + 1 - k]] \in Ground!Listings(S)
<1>. DEFINE r == [k \in 1 .. Len(q) |-> q[Len(q) + 1 - k]]
<1>1. Len(q) \in Nat /\ Cardinality(S) = Len(q)
  BY ListLength
<1>2. /\ \A k \in 1 .. Len(q) : q[k] \in S
      /\ \A i, j \in 1 .. Len(q) : q[i] = q[j] => i = j
  BY DEF Lists
<1>3. \A k \in 1 .. Len(q) : Len(q) + 1 - k \in 1 .. Len(q)
  BY <1>1
<1>4. r \in [1 .. Len(q) -> S]
  BY <1>2, <1>3
<1>5. ASSUME NEW i \in 1 .. Len(q), NEW j \in 1 .. Len(q), r[i] = r[j]
      PROVE  i = j
  <2>1. Len(q) + 1 - i = Len(q) + 1 - j
    BY <1>2, <1>3, <1>5
  <2>. QED  BY <1>1, <2>1
<1>6. Ground!Cardinality(S) = Len(q)
  BY <1>1 DEF Ground!Cardinality, Cardinality
<1>. HIDE DEF r
<1>7. DOMAIN r = 1 .. Len(q)
  BY <1>4
<1>. QED  BY <1>4, <1>5, <1>6, <1>7 DEF Ground!Listings, r

(* The loaded framework is one the grounded computation starts from.        *)
LEMMA GroundStarts ==
  ASSUME LoadedInv
  PROVE  Ground!Init
<1>. DEFINE free == {a \in Arg : bitset__get(aaf.initial, a)}
            q    == WalkOf(aaf.initial)
<1>1. /\ aaf \in Frames([i \in Arg |-> NameOf(i)])
      /\ \A a, b \in Arg :
           /\ Occurrences(aaf.children[a], b) \in Nat
           /\ Occurrences(aaf.children[a], b) # 0 <=> <<a, b>> \in Attacks
      /\ IsFiniteSet(Lines)
      /\ \A b \in Arg : aaf.number_of_attackers[b] = Cardinality({e \in Lines : e[2] = b})
      /\ \A a \in Arg : bitset__get(aaf.initial, a) <=> \A b \in Arg : <<b, a>> \notin Attacks
  BY LoadedAttacks
<1>2. Lines = LinesOf(aaf)
  BY DEF Lines, LinesOf
<1>3. Lines \subseteq Arg \X Arg \X Nat
  <2>1. ASSUME NEW e \in Lines
        PROVE  e \in Arg \X Arg \X Nat
    <3>1. PICK x \in Arg, y \in Arg : \E k \in 1 .. Occurrences(aaf.children[x], y) : e = <<x, y, k>>
      BY <1>2, InLines
    <3>2. PICK k \in 1 .. Occurrences(aaf.children[x], y) : e = <<x, y, k>>
      BY <3>1
    <3>3. k \in Nat
      BY <1>1
    <3>. QED  BY <3>2, <3>3
  <2>. QED  BY <2>1
<1>4. ASSUME NEW a \in Arg
      PROVE  bitset__get(aaf.initial, a) <=> {e \in Lines : e[2] = a} = {}
  <2>1. ASSUME NEW e \in Lines, e[2] = a
        PROVE  \E b \in Arg : <<b, a>> \in Attacks
    <3>1. PICK x \in Arg, y \in Arg : \E k \in 1 .. Occurrences(aaf.children[x], y) : e = <<x, y, k>>
      BY <1>2, InLines
    <3>2. PICK k \in 1 .. Occurrences(aaf.children[x], y) : e = <<x, y, k>>
      BY <3>1
    <3>3. y = a
      BY <2>1, <3>2
    <3>4. Occurrences(aaf.children[x], y) \in Nat
      BY <1>1
    <3>5. Occurrences(aaf.children[x], y) # 0
      BY <3>2, <3>4
    <3>. QED  BY <1>1, <3>3, <3>5
  <2>2. ASSUME NEW b \in Arg, <<b, a>> \in Attacks
        PROVE  \E e \in Lines : e[2] = a
    <3>1. 1 \in 1 .. Occurrences(aaf.children[b], a)
      BY <1>1, <2>2
    <3>2. <<b, a, 1>> \in Lines
      BY <1>2, <3>1, InLines
    <3>. QED  BY <3>2
  <2>3. bitset__get(aaf.initial, a) <=> \A b \in Arg : <<b, a>> \notin Attacks
    BY <1>1
  <2>. QED  BY <2>1, <2>2, <2>3
<1>5. free = {a \in Arg : {e \in Lines : e[2] = a} = {}}
  BY <1>4
<1>6. aaf.number_of_attackers = [a \in Arg |-> Cardinality({e \in Lines : e[2] = a})]
  <2>1. aaf.number_of_attackers \in [Arg -> Nat]
    BY <1>1 DEF Frames
  <2>. QED  BY <1>1, <2>1
<1>7. Lists(q, free)
  <2>1. aaf.initial \in BitSets(N) /\ N \in Nat /\ Arg = 0 .. N - 1
    BY <1>1, ArgSpec DEF Frames
  <2>2. Lists(WalkOf(aaf.initial), {k \in 0 .. N - 1 : bitset__get(aaf.initial, k)})
    BY <2>1, WalkSpec
  <2>. QED  BY <2>1, <2>2
<1>8. [k \in 1 .. Len(q) |-> q[Len(q) + 1 - k]] \in Ground!Listings(free)
  <2>. HIDE DEF q, free
  <2>. QED  BY <1>7, ReversedList
<1>9. \A S : Ground!Cardinality(S) = Cardinality(S)
  BY DEF Ground!Cardinality, Cardinality
<1>10. Ground!None = -1
  BY DEF Ground!None
<1>11. Lines \in {L \in SUBSET (Arg \X Arg \X Nat) : IsFiniteSet(L)}
  BY <1>1, <1>3
<1>12. free = {a \in Arg : Ground!parents(a) = {}}
  BY <1>5 DEF Ground!parents
<1>13. aaf.number_of_attackers = [a \in Arg |-> Ground!Cardinality(Ground!parents(a))]
  BY <1>6, <1>9 DEF Ground!parents
<1>. QED  BY <1>8, <1>10, <1>11, <1>12, <1>13 DEF Ground!Init

(* What holds of a framework on its way to the tasks.                       *)
LEMMA LoadedIsExact ==
  ASSUME LoadedInv, Query => arg = IdOf(Given("-a"))
  PROVE  LoadedExact
<1>1. /\ aaf \in Frames([i \in Arg |-> NameOf(i)])
      /\ \A a, b \in Arg :
           /\ Occurrences(aaf.children[a], b) = Cardinality(Repeats(a, b))
           /\ Occurrences(aaf.parents[b], a) = Cardinality(Repeats(a, b))
      /\ \A a \in Arg : bitset__get(aaf.loops, a) <=> <<a, a>> \in Attacks
  BY LoadedAttacks
<1>2. aaf.number_of_arguments = Cardinality(Arg) /\ \A i \in Arg : aaf.ids2arguments[i] = NameOf(i)
  BY <1>1 DEF Frames, N
<1>3. \A a, b \in Arg :
        /\ Occurrences(aaf.children[a], b) = Cardinality({k \in RowsOf("att") : AttackOf(k) = <<a, b>>})
        /\ Occurrences(aaf.parents[b], a) = Occurrences(aaf.children[a], b)
  BY <1>1 DEF Repeats
<1>4. \A a \in Arg : bitset__get(aaf.loops, a) <=> <<a, a>> \in Attacks
  BY <1>1
<1>. QED  BY <1>2, <1>3, <1>4, GroundStarts DEF LoadedExact

-----------------------------------------------------------------------------
-----------------------------------------------------------------------------
(* The extensions and the grounded labelling.                               *)

(* A semi-stable extension is complete.                                     *)
LEMMA SemiStableIsComplete ==
  ASSUME NEW R, NEW S \in SUBSET Arg, SemiStable(R, S)
  PROVE  Complete(R, S)
<1>1. Admissible(R, S)
  BY DEF SemiStable
<1>2. PICK T \in SUBSET Arg : Preferred(R, T) /\ S \subseteq T
  BY <1>1, PreferredAbove
<1>3. RangeOf(R, T) = RangeOf(R, S)
  <2>1. RangeOf(R, S) \subseteq RangeOf(R, T)
    BY <1>2 DEF RangeOf, Attacked
  <2>. QED  BY <1>2, <2>1 DEF SemiStable, Preferred
<1>4. T \subseteq S
  <2>1. ASSUME NEW a \in T, a \notin S
        PROVE  FALSE
    <3>1. a \in Attacked(R, S)
      BY <1>3, <2>1 DEF RangeOf
    <3>2. PICK b \in S : <<b, a>> \in R
      BY <3>1 DEF Attacked
    <3>. QED  BY <1>2, <3>2 DEF Preferred, Admissible, ConflictFree
  <2>. QED  BY <2>1
<1>5. T = S
  BY <1>2, <1>4
<1>. QED  BY <1>2, <1>5, PreferredIsComplete

(* An ideal extension contains the grounded one, and there is one only.     *)
LEMMA IdealKeepsGrounded ==
  ASSUME NEW R, NEW G \in Assignments, GroundedLabels(R, G.in, G.out),
         NEW S \in SUBSET Arg, IsIdeal(R, S)
  PROVE  /\ G.in \subseteq S
         /\ \A T \in SUBSET Arg : IsIdeal(R, T) => T = S
<1>1. G.in \in SUBSET SkepticallyPreferred(R)
  BY PreferredHasModel DEF SkepticallyPreferred, Assignments
<1>2. Admissible(R, G.in)
  BY DEF GroundedLabels, Complete, Admissible
<1>3. G.in \subseteq S
  BY <1>1, <1>2 DEF IsIdeal
<1>4. ASSUME NEW T \in SUBSET Arg, IsIdeal(R, T)
      PROVE  T = S
  <2>1. S \in SUBSET SkepticallyPreferred(R) /\ T \in SUBSET SkepticallyPreferred(R)
    BY <1>4 DEF IsIdeal
  <2>2. T \subseteq S /\ S \subseteq T
    BY <1>4, <2>1 DEF IsIdeal
  <2>. QED  BY <2>2
<1>. QED  BY <1>3, <1>4

(* A set without conflicts around the grounded extension has nothing of     *)
(* what that attacks.                                                      *)
LEMMA OutIsRejected ==
  ASSUME NEW R, NEW G \in Assignments, GroundedLabels(R, G.in, G.out),
         NEW S \in SUBSET Arg, ConflictFree(R, S), G.in \subseteq S
  PROVE  \A a \in G.out : a \notin S
BY DEF GroundedLabels, Attacked, ConflictFree

(* With nothing undecided the grounded extension is the only semi-stable    *)
(* and the only stage extension.                                           *)
LEMMA DecidedIsOnly ==
  ASSUME NEW R, NEW G \in Assignments, GroundedLabels(R, G.in, G.out), AllGrounded(G),
         NEW S \in SUBSET Arg
  PROVE  /\ SemiStable(R, S) <=> S = G.in
         /\ Stage(R, S) <=> S = G.in
<1>1. G.in \in SUBSET Arg /\ RangeOf(R, G.in) = Arg /\ Admissible(R, G.in) /\ ConflictFree(R, G.in)
  BY DEF GroundedLabels, Complete, Admissible, AllGrounded, RangeOf, Attacked, Assignments
<1>2. \A T \in SUBSET Arg : RangeOf(R, T) \subseteq Arg
  BY DEF RangeOf, Attacked
<1>3. SemiStable(R, G.in) /\ Stage(R, G.in)
  <2>1. \A T \in SUBSET Arg : RangeOf(R, G.in) \subseteq RangeOf(R, T) => RangeOf(R, T) = RangeOf(R, G.in)
    BY <1>1, <1>2
  <2>. QED  BY <1>1, <2>1 DEF SemiStable, Stage
<1>4. ASSUME ConflictFree(R, S), RangeOf(R, S) = Arg
      PROVE  S = G.in
  <2>1. Stable(R, S)
    BY <1>4 DEF Stable
  <2>2. G.in \subseteq S
    BY <2>1, StableIsComplete DEF GroundedLabels
  <2>3. \A a \in G.out : a \notin S
    BY <1>4, <2>2, OutIsRejected
  <2>. QED  BY <2>2, <2>3 DEF AllGrounded
<1>5. ASSUME SemiStable(R, S) \/ Stage(R, S)
      PROVE  ConflictFree(R, S) /\ RangeOf(R, S) = Arg
  <2>1. RangeOf(R, S) \subseteq RangeOf(R, G.in)
    BY <1>1, <1>2
  <2>. QED  BY <1>1, <1>5, <2>1 DEF SemiStable, Stage, Admissible
<1>. QED  BY <1>3, <1>4, <1>5

(* The grounded extension is the only one.                                  *)
LEMMA GroundedIsOnly ==
  ASSUME NEW R, NEW G \in Assignments, GroundedLabels(R, G.in, G.out), NEW S \in SUBSET Arg
  PROVE  GroundedLabels(R, S, Attacked(R, S)) <=> S = G.in
<1>1. G.in \in SUBSET Arg
  BY DEF Assignments
<1>2. ASSUME GroundedLabels(R, S, Attacked(R, S))
      PROVE  S = G.in
  <2>1. S \subseteq G.in /\ G.in \subseteq S
    BY <1>1, <1>2 DEF GroundedLabels
  <2>. QED  BY <2>1
<1>3. GroundedLabels(R, G.in, Attacked(R, G.in))
  BY DEF GroundedLabels
<1>. QED  BY <1>2, <1>3

-----------------------------------------------------------------------------
(* The way from the framework to the answer.                                *)

(* What the tasks rely on: the framework is that of the file, and the       *)
(* argument the one asked for.                                              *)
InputInv ==
  /\ argv \in Seq(STRING \ {Unset, NULL}) /\ disk \in Disks
  /\ WellAsked
  /\ Relation = Attacks
  /\ aaf.ids2arguments = [i \in Arg |-> NameOf(i)]
  /\ aaf.number_of_arguments = N
  /\ \A b \in Arg : Len(aaf.parents[b]) = Cardinality(RowsOn(b))
  /\ Query => arg = IdOf(Given("-a")) /\ arg \in Arg

(* The grounded labelling is that of the framework.                         *)
GroundedInv == grounded \in Assignments /\ GroundedLabels(Attacks, grounded.in, grounded.out)

(* The task still is the one asked for, and nothing is printed.             *)
Asking == "track" \in DOMAIN task /\ task.track = Given("-p") /\ printed = << >>

(* The task is not one the grounded labelling answers in every case.        *)
Unsettled == Given("-p") \notin {"SE-GR", "SE-CO", "DC-GR", "DS-GR", "DS-CO"}

(* The task asked for is one of the queries.                                *)
KnownQuery == Given("-p") \in Credulous \cup Skeptical

(* The grounded labelling has settled a query, and the set to be printed    *)
(* with the answer is searched.                                            *)
Witnessing ==
  /\ Given("-p") \in CredulousIn \cup SkepticalOut
  /\ Given("-p") \in DOMAIN Search /\ task.track = Search[Given("-p")]
  /\ Given("-p") \in Credulous => printed = <<<<"YES">>>> /\ arg \in grounded.in
  /\ Given("-p") \notin Credulous => printed = <<<<"NO">>>> /\ arg \in grounded.out

(* The models of the clauses of a task that calls the solver once or twice. *)
SolverInv ==
  /\ Asking /\ Given("-p") \in SingleShotTasks
  /\ solver \in SolverOver(Assignments)
  /\ solver.db = IF Given("-p") \in {"DC-CO", "DC-PR"} THEN ComModels(Attacks, grounded)
                 ELSE StbModels(Attacks, grounded)

(* The run, from the loaded framework on.                                   *)
RunInv ==
  /\ InputInv
  /\ pc = "ground" => LoadedInv /\ Asking
  /\ pc # "ground" => GroundedInv
  /\ pc = "shortcut" => Asking
  /\ pc = "solve" => (Asking /\ Unsettled) \/ Witnessing
  /\ pc = "first call" => SolverInv
  /\ pc \in {"check", "second call"} =>
       SolverInv /\ Given("-p") = "DS-ST" /\ solver.val \in StbModels(Attacks, grounded)
  /\ pc = "done" => AnswersTask(printed)
  /\ pc \in {"ground", "shortcut", "solve", "first call", "check", "second call", "done", "aborted"}

(* What answers the task depends on the command line and the disk only.     *)
LEMMA AnswersKept ==
  ASSUME UNCHANGED <<argv, disk>>
  PROVE  /\ \A ls : AnswersTask(ls)' <=> AnswersTask(ls)
         /\ Given("-p")' = Given("-p") /\ Attacks' = Attacks
<1>1. /\ UNCHANGED <<Content, InTgf, Attacks, Query, WellAsked>>
      /\ \A o : Given(o)' = Given(o)
      /\ \A i : NameOf(i)' = NameOf(i) /\ IdOf(i)' = IdOf(i)
  BY InputKept
<1>2. \A S : Extension(S)' <=> Extension(S)
  BY <1>1 DEF Extension
<1>3. Extensions' = Extensions
  BY <1>2 DEF Extensions
<1>4. Yes' <=> Yes
  BY <1>1, <1>3 DEF Yes
<1>5. Promised' <=> Promised
  BY <1>1, <1>4 DEF Promised
<1>6. Witnesses' = Witnesses /\ (SettledUnshown' <=> SettledUnshown)
  BY <1>1, <1>3 DEF Witnesses, SettledUnshown, Asked
<1>7. \A S : Shown(S)' = Shown(S)
  BY <1>1 DEF Shown
<1>8. \A ls : AnswersQuery(ls)' <=> AnswersQuery(ls)
  BY <1>1, <1>4, <1>5, <1>6, <1>7 DEF AnswersQuery, YesNo, NumbersLine
<1>9. {NameOf(i) : i \in SkepticallyPreferred(Attacks)}' = {NameOf(i) : i \in SkepticallyPreferred(Attacks)}
  BY <1>1
<1>10. \A ls : AnswersTask(ls)' <=> AnswersTask(ls)
  BY <1>1, <1>3, <1>7, <1>8, <1>9 DEF AnswersTask
<1>. QED  BY <1>1, <1>10

(* The grounded computation changes nothing of the input but a counter.     *)
LEMMA InputStays ==
  ASSUME InputInv, UNCHANGED <<argv, disk, arg>>,
         aaf'.parents = aaf.parents, aaf'.ids2arguments = aaf.ids2arguments,
         aaf'.number_of_arguments = aaf.number_of_arguments
  PROVE  InputInv'
<1>1. /\ UNCHANGED <<Content, InTgf, Attacks, Query, WellAsked>>
      /\ \A o : Given(o)' = Given(o)
      /\ \A i : NameOf(i)' = NameOf(i) /\ IdOf(i)' = IdOf(i)
  BY InputKept
<1>2. Relation' = Relation
  BY DEF Relation
<1>3. [i \in Arg |-> NameOf(i)]' = [i \in Arg |-> NameOf(i)]
  BY <1>1
<1>4. \A b : RowsOn(b)' = RowsOn(b)
  BY InputKept DEF RowsOn
<1>. QED  BY <1>1, <1>2, <1>3, <1>4 DEF InputInv

(* A step of the driver or of a function for a task.                        *)
LEMMA RunStays ==
  ASSUME RunInv, pc # "ground", UNCHANGED <<argv, load, grounded>>
  PROVE  /\ InputInv' /\ GroundedInv' /\ (\A ls : AnswersTask(ls)' <=> AnswersTask(ls))
         /\ Given("-p")' = Given("-p") /\ Attacks' = Attacks
<1>1. UNCHANGED <<argv, disk, arg, aaf, grounded>> /\ InputInv /\ GroundedInv
  BY DEF load, RunInv
<1>2. InputInv'
  BY <1>1, InputStays
<1>3. /\ (\A ls : AnswersTask(ls)' <=> AnswersTask(ls)) /\ Given("-p")' = Given("-p") /\ Attacks' = Attacks
  BY <1>1, AnswersKept
<1>. QED  BY <1>1, <1>2, <1>3 DEF GroundedInv

(* The step prints the last lines and ends.                                 *)
LEMMA Finishes ==
  ASSUME RunInv, pc # "ground", UNCHANGED <<argv, load, grounded>>,
         pc' = "done", AnswersTask(printed')
  PROVE  RunInv'
<1>1. InputInv' /\ GroundedInv' /\ (AnswersTask(printed') => AnswersTask(printed)')
  BY RunStays
<1>. QED  BY <1>1 DEF RunInv

(* What Finish does.                                                        *)
LEMMA FinishStep ==
  ASSUME RunInv, pc # "ground", NEW ls, Finish(ls)
  PROVE  UNCHANGED <<argv, load, grounded>> /\ pc' = "done" /\ printed' = printed \o ls
BY DEF Finish, Say, cmd

(* The two prints of a set, and the answer of a query.                      *)
LEMMA NamesShown ==
  ASSUME InputInv, NEW S \in SUBSET Arg
  PROVE  NamesLine(S) = Shown(S)
<1>1. \A i \in S : aaf.ids2arguments[i] = NameOf(i)
  BY DEF InputInv
<1>. QED  BY <1>1 DEF NamesLine, Names, Shown

(* A query is a known task, and the reader has looked its argument up.      *)
LEMMA KnownQueries == KnownQuery => Query /\ Given("-p") \in Tasks
<1>1. KnownQuery => Given("-p") \in Tasks
  BY DEF KnownQuery, Credulous, Skeptical, Tasks, AdmTasks, ComTasks, StbTasks, CfTasks
<1>. QED  BY <1>1, TaskAssumption DEF KnownQuery, Query

(* What is asked of the lines printed for a query.                          *)
LEMMA QueryAnswer ==
  ASSUME KnownQuery, NEW ls, AnswersQuery(ls)
  PROVE  AnswersTask(ls)
<1>1. /\ Given("-p") \in Tasks /\ Given("-p") \in Credulous \cup Skeptical
      /\ Given("-p") \notin {"EA-PR", "CE-ST", "CE-CO", "CE-PR"}
  BY KnownQueries DEF KnownQuery, Credulous, Skeptical
<1>. QED  BY <1>1 DEF AnswersTask

(* Nothing is asked for an unknown task but that nothing is printed.        *)
LEMMA UnknownAnswer ==
  ASSUME Given("-p") \notin Tasks
  PROVE  AnswersTask(<< >>)
<1>1. Given("-p") \notin Credulous \cup Skeptical \cup {"EA-PR", "CE-ST", "CE-CO", "CE-PR"}
  BY DEF Credulous, Skeptical, Tasks, AdmTasks, ComTasks, StbTasks, CfTasks
<1>. QED  BY <1>1 DEF AnswersTask

(* The answer without a set, where none is promised or the promise is one   *)
(* the grounded labelling breaks.                                          *)
LEMMA AnswerAlone ==
  ASSUME KnownQuery, Promised => SettledUnshown, NEW b \in BOOLEAN, b <=> Yes
  PROVE  AnswersTask(<<YesNo(b)>>)
<1>1. YesNo(b) = YesNo(Yes)
  BY DEF YesNo
<1>2. <<YesNo(b)>>[1] = YesNo(b) /\ Len(<<YesNo(b)>>) = 1
  OBVIOUS
<1>3. AnswersQuery(<<YesNo(b)>>)
  BY <1>1, <1>2 DEF AnswersQuery
<1>. QED  BY <1>3, QueryAnswer

(* The answer with a set that shows it.                                     *)
LEMMA AnswerWithSet ==
  ASSUME KnownQuery, NEW b \in BOOLEAN, b <=> Yes, NEW S \in Witnesses, NEW l,
         \/ l = Shown(S)
         \/ Given("-p") \in {"DC-CO", "DC-PR", "DC-ST", "DS-ST"} /\ l = NumbersLine(S)
  PROVE  AnswersTask(<<YesNo(b), l>>)
<1>. DEFINE ls == <<YesNo(b), l>>
<1>1. YesNo(b) = YesNo(Yes)
  BY DEF YesNo
<1>2. ls[1] = YesNo(b) /\ Len(ls) = 2 /\ ls[2] = l
  OBVIOUS
<1>. HIDE DEF ls
<1>3. AnswersQuery(ls)
  BY <1>1, <1>2 DEF AnswersQuery, Numbered
<1>. QED  BY <1>3, QueryAnswer DEF ls

(* The extensions a task asks about.                                        *)
LEMMA ExtensionsOf ==
  ASSUME NEW S
  PROVE  /\ S \in Extensions => S \in SUBSET Arg
         /\ Given("-p") \in {"SE-GR", "DC-GR", "DS-GR"} =>
              (S \in Extensions <=> S \in SUBSET Arg /\ GroundedLabels(Attacks, S, Attacked(Attacks, S)))
         /\ Given("-p") \in {"SE-CO", "DC-CO", "DS-CO", "CE-CO"} =>
              (S \in Extensions <=> S \in SUBSET Arg /\ Complete(Attacks, S))
         /\ Given("-p") \in {"SE-PR", "DC-PR", "DS-PR", "CE-PR"} =>
              (S \in Extensions <=> S \in SUBSET Arg /\ Preferred(Attacks, S))
         /\ Given("-p") \in {"SE-ST", "DC-ST", "DS-ST", "CE-ST"} =>
              (S \in Extensions <=> S \in SUBSET Arg /\ Stable(Attacks, S))
         /\ Given("-p") \in {"SE-SST", "DC-SST", "DS-SST"} =>
              (S \in Extensions <=> S \in SUBSET Arg /\ SemiStable(Attacks, S))
         /\ Given("-p") \in {"SE-STG", "DC-STG", "DS-STG"} =>
              (S \in Extensions <=> S \in SUBSET Arg /\ Stage(Attacks, S))
         /\ Given("-p") \in {"SE-ID", "DC-ID", "DS-ID"} =>
              (S \in Extensions <=> S \in SUBSET Arg /\ IsIdeal(Attacks, S))
BY DEF Extensions, Extension

(* Every extension of a query the grounded labelling may settle keeps that  *)
(* labelling.                                                               *)
LEMMA KeepsGrounded ==
  ASSUME GroundedInv, NEW S \in Extensions,
         Given("-p") \in CredulousIn \cup CredulousOut \cup SkepticalIn \cup SkepticalOut
  PROVE  grounded.in \subseteq S /\ ConflictFree(Attacks, S) /\ \A a \in grounded.out : a \notin S
<1>1. S \in SUBSET Arg /\ grounded \in Assignments /\ GroundedLabels(Attacks, grounded.in, grounded.out)
  BY ExtensionsOf DEF GroundedInv
<1>2. Complete(Attacks, S) => grounded.in \subseteq S /\ ConflictFree(Attacks, S)
  BY <1>1 DEF GroundedLabels, Complete
<1>3. Complete(Attacks, S) \/ IsIdeal(Attacks, S)
  <2>1. CASE Given("-p") = "DC-CO"
    BY <2>1, ExtensionsOf
  <2>2. CASE Given("-p") \in {"DC-PR", "DS-PR"}
    BY <1>1, <2>2, ExtensionsOf, PreferredIsComplete
  <2>3. CASE Given("-p") \in {"DC-ST", "DS-ST"}
    BY <1>1, <2>3, ExtensionsOf, StableIsComplete
  <2>4. CASE Given("-p") \in {"DC-SST", "DS-SST"}
    BY <1>1, <2>4, ExtensionsOf, SemiStableIsComplete
  <2>5. CASE Given("-p") \in {"DC-ID", "DS-ID"}
    BY <2>5, ExtensionsOf
  <2>. QED  BY <2>1, <2>2, <2>3, <2>4, <2>5 DEF CredulousIn, CredulousOut, SkepticalIn, SkepticalOut
<1>4. grounded.in \subseteq S /\ ConflictFree(Attacks, S)
  BY <1>1, <1>2, <1>3, IdealKeepsGrounded DEF IsIdeal, Admissible
<1>. QED  BY <1>1, <1>4, OutIsRejected

(* Given("-p") is a query, and its argument is that of the task.            *)
LEMMA QueryFacts ==
  ASSUME InputInv, KnownQuery
  PROVE  /\ arg \in Arg
         /\ Given("-p") \in Credulous => (Yes <=> \E S \in Extensions : arg \in S)
         /\ Given("-p") \notin Credulous => (Yes <=> \A S \in Extensions : arg \in S)
         /\ \A S : S \in Witnesses <=>
              \/ Given("-p") \in {"DC-CO", "DC-PR"} /\ S \in SUBSET Arg /\ Complete(Attacks, S) /\ arg \in S
              \/ Given("-p") = "DC-ST" /\ S \in Extensions /\ arg \in S
              \/ Given("-p") \in {"DS-ST", "DS-PR"} /\ S \in Extensions /\ arg \notin S
              \/ Given("-p") \notin {"DC-CO", "DC-PR", "DC-ST", "DS-ST", "DS-PR"} /\ S \in Extensions
<1>1. arg = IdOf(Given("-a")) /\ arg \in Arg
  BY KnownQueries DEF InputInv
<1>2. /\ Given("-p") \in Credulous => (Yes <=> \E S \in Extensions : arg \in S)
      /\ Given("-p") \notin Credulous => (Yes <=> \A S \in Extensions : arg \in S)
  BY <1>1 DEF Yes
<1>3. ASSUME NEW S
      PROVE  S \in Witnesses <=>
              \/ Given("-p") \in {"DC-CO", "DC-PR"} /\ S \in SUBSET Arg /\ Complete(Attacks, S) /\ arg \in S
              \/ Given("-p") = "DC-ST" /\ S \in Extensions /\ arg \in S
              \/ Given("-p") \in {"DS-ST", "DS-PR"} /\ S \in Extensions /\ arg \notin S
              \/ Given("-p") \notin {"DC-CO", "DC-PR", "DC-ST", "DS-ST", "DS-PR"} /\ S \in Extensions
  BY <1>1 DEF Witnesses, Asked
<1>. QED  BY <1>1, <1>2, <1>3

(* The queries about the ideal extension that the grounded labelling        *)
(* settles without it.                                                      *)
LEMMA SettledByGrounded ==
  ASSUME InputInv, GroundedInv, KnownQuery,
         \/ Given("-p") = "DC-ID" /\ arg \in grounded.out
         \/ Given("-p") = "DS-ID" /\ arg \in grounded.in
  PROVE  SettledUnshown
<1>1. arg = Asked
  BY KnownQueries DEF InputInv, Asked
<1>2. /\ grounded.in \in SUBSET Arg /\ grounded.out = Attacked(Attacks, grounded.in)
      /\ GroundedLabels(Attacks, grounded.in, Attacked(Attacks, grounded.in))
  BY DEF GroundedInv, GroundedLabels, Assignments
<1>. QED  BY <1>1, <1>2 DEF SettledUnshown

-----------------------------------------------------------------------------
(* The steps of the driver.                                                 *)
LEMMA ComputeGroundedRuns ==
  ASSUME RunInv, ComputeGrounded
  PROVE  RunInv'
<1>1. pc = "ground" /\ InputInv /\ Asking /\ pc' = "shortcut" /\ UNCHANGED <<argv, task, disk, arg, printed>>
  BY DEF RunInv, ComputeGrounded, cmd
<1>2. grounded' \in Assignments /\ GroundedLabels(Attacks, grounded'.in, grounded'.out)
  BY <1>1 DEF ComputeGrounded, InputInv
<1>3. /\ aaf'.parents = aaf.parents /\ aaf'.ids2arguments = aaf.ids2arguments
      /\ aaf'.number_of_arguments = aaf.number_of_arguments
  <2>1. aaf \in Frames([i \in Arg |-> NameOf(i)])
    BY <1>1 DEF RunInv, LoadedInv, FrameInv
  <2>. QED  BY <2>1 DEF ComputeGrounded, Frames
<1>4. InputInv' /\ Attacks' = Attacks /\ Given("-p")' = Given("-p")
  BY <1>1, <1>3, InputStays, AnswersKept
<1>. QED  BY <1>1, <1>2, <1>4 DEF RunInv, GroundedInv, Asking

(* The grounded extension is the answer of SE-GR and the one of SE-CO.      *)
LEMMA PrintGroundedRuns ==
  ASSUME RunInv, PrintGrounded
  PROVE  RunInv'
<1>1. /\ pc = "shortcut" /\ Given("-p") \in {"SE-GR", "SE-CO"} /\ printed = << >> /\ InputInv /\ GroundedInv
      /\ Finish(<<NamesLine(grounded.in)>>)
  BY DEF PrintGrounded, RunInv, Asking
<1>2. /\ UNCHANGED <<argv, load, grounded>> /\ pc' = "done" /\ printed' = <<NamesLine(grounded.in)>>
  <2>1. printed' = << >> \o <<NamesLine(grounded.in)>>
    BY <1>1, FinishStep
  <2>. QED  BY <1>1, <2>1, FinishStep
<1>3. grounded.in \in SUBSET Arg /\ printed' = <<Shown(grounded.in)>>
  BY <1>1, <1>2, NamesShown DEF GroundedInv, Assignments
<1>4. grounded.in \in Extensions
  BY <1>1, <1>3, ExtensionsOf DEF GroundedInv, GroundedLabels
<1>5. Given("-p") = "SE-CO" => grounded.in = CHOOSE S \in Extensions : \A T \in Extensions : S \subseteq T
  <2>1. ASSUME Given("-p") = "SE-CO"
        PROVE  grounded.in = CHOOSE S \in Extensions : \A T \in Extensions : S \subseteq T
    <3>1. \A T \in Extensions : grounded.in \subseteq T
      BY <1>1, <2>1, ExtensionsOf DEF GroundedInv, GroundedLabels
    <3>2. \A S \in Extensions : (\A T \in Extensions : S \subseteq T) => S = grounded.in
      BY <1>4, <3>1
    <3>. QED  BY <1>4, <3>1, <3>2
  <2>. QED  BY <2>1
<1>6. AnswersTask(printed')
  BY <1>1, <1>3, <1>4, <1>5 DEF AnswersTask, Tasks, AdmTasks, ComTasks, StbTasks, CfTasks, Credulous, Skeptical
<1>. QED  BY <1>1, <1>2, <1>6, Finishes

(* A query about the grounded extension is settled by it.                   *)
LEMMA AnswerFromGroundedRuns ==
  ASSUME RunInv, AnswerFromGrounded
  PROVE  RunInv'
<1>. DEFINE b == arg \in grounded.in
<1>1. /\ pc = "shortcut" /\ Given("-p") \in {"DC-GR", "DS-GR", "DS-CO"} /\ printed = << >>
      /\ InputInv /\ GroundedInv /\ KnownQuery
      /\ Finish(<<YesNo(arg \in grounded.in), NamesLine(grounded.in)>>)
  BY DEF AnswerFromGrounded, RunInv, Asking, KnownQuery, Credulous, Skeptical
<1>2. UNCHANGED <<argv, load, grounded>> /\ pc' = "done" /\ printed' = <<YesNo(b), Shown(grounded.in)>>
  <2>1. grounded.in \in SUBSET Arg /\ NamesLine(grounded.in) = Shown(grounded.in)
    BY <1>1, NamesShown DEF GroundedInv, Assignments
  <2>2. UNCHANGED <<argv, load, grounded>> /\ pc' = "done" /\ printed' = << >> \o <<YesNo(b), Shown(grounded.in)>>
    BY <1>1, <2>1, FinishStep
  <2>. QED  BY <2>2
<1>3. grounded.in \in Extensions
  BY <1>1, ExtensionsOf DEF GroundedInv, GroundedLabels, Assignments
<1>4. Given("-p") \in {"DC-GR", "DS-GR"} => \A S \in Extensions : S = grounded.in
  BY <1>1, ExtensionsOf, GroundedIsOnly DEF GroundedInv
<1>5. Given("-p") = "DS-CO" => \A S \in Extensions : grounded.in \subseteq S
  BY <1>1, ExtensionsOf DEF GroundedInv, GroundedLabels
<1>6. b <=> Yes
  BY <1>1, <1>3, <1>4, <1>5, QueryFacts DEF Credulous
<1>7. grounded.in \in Witnesses
  BY <1>1, <1>3, QueryFacts
<1>8. b \in BOOLEAN
  OBVIOUS
<1>. HIDE DEF b
<1>9. AnswersTask(printed')
  BY <1>1, <1>2, <1>6, <1>7, <1>8, AnswerWithSet
<1>. QED  BY <1>1, <1>2, <1>9, Finishes

(* A step that goes on to the search for the witness.                       *)
LEMMA WitnessNext ==
  ASSUME RunInv, pc = "shortcut", NEW l, SearchWitness(<<l>>),
         Given("-p") \in CredulousIn \cup SkepticalOut, Given("-p") \in DOMAIN Search,
         Given("-p") \in Credulous => l = <<"YES">> /\ arg \in grounded.in,
         Given("-p") \notin Credulous => l = <<"NO">> /\ arg \in grounded.out
  PROVE  RunInv'
<1>1. /\ pc' = "solve" /\ UNCHANGED <<argv, load, grounded>> /\ printed' = printed \o <<l>>
      /\ task' = [task EXCEPT !.track = Search[task.track]]
  BY DEF SearchWitness, Say
<1>2. Asking /\ InputInv /\ GroundedInv
  BY DEF RunInv
<1>3. printed' = <<l>>
  BY <1>1, <1>2 DEF Asking
<1>4. task'.track = Search[Given("-p")]
  <2>1. "track" \in DOMAIN task
    BY <1>2 DEF Asking
  <2>. QED  BY <1>1, <1>2, <2>1 DEF Asking
<1>5. InputInv' /\ GroundedInv' /\ Given("-p")' = Given("-p") /\ UNCHANGED <<arg, grounded>>
  BY <1>1, RunStays DEF load
<1>6. Witnessing'
  BY <1>3, <1>4, <1>5 DEF Witnessing
<1>. QED  BY <1>1, <1>5, <1>6 DEF RunInv

(* An argument of the grounded extension is in every extension, and there   *)
(* is one.                                                                  *)
LEMMA YesCredulousRuns ==
  ASSUME RunInv, YesCredulous
  PROVE  RunInv'
<1>1. /\ pc = "shortcut" /\ Given("-p") \in CredulousIn /\ arg \in grounded.in /\ printed = << >>
      /\ InputInv /\ GroundedInv /\ KnownQuery /\ Given("-p") \in Credulous
      /\ IF Given("-p") = "DC-CO" THEN Finish(<<<<"YES">>, NamesLine(grounded.in)>>)
         ELSE SearchWitness(<<<<"YES">>>>)
  BY DEF YesCredulous, RunInv, Asking, KnownQuery, Credulous, CredulousIn
<1>2. CASE Given("-p") = "DC-CO"
  <2>1. grounded.in \in SUBSET Arg /\ Complete(Attacks, grounded.in)
    BY <1>1 DEF GroundedInv, GroundedLabels, Assignments
  <2>2. NamesLine(grounded.in) = Shown(grounded.in)
    BY <1>1, <2>1, NamesShown
  <2>3. UNCHANGED <<argv, load, grounded>> /\ pc' = "done" /\ printed' = << >> \o <<<<"YES">>, Shown(grounded.in)>>
    BY <1>1, <1>2, <2>2, FinishStep
  <2>4. printed' = <<YesNo(TRUE), Shown(grounded.in)>>
    BY <2>3 DEF YesNo
  <2>5. grounded.in \in Extensions /\ grounded.in \in Witnesses /\ Yes
    BY <1>1, <1>2, <2>1, ExtensionsOf, QueryFacts
  <2>6. AnswersTask(printed')
    BY <1>1, <2>4, <2>5, AnswerWithSet
  <2>. QED  BY <1>1, <2>3, <2>6, Finishes
<1>3. CASE Given("-p") # "DC-CO"
  <2>1. Given("-p") \in DOMAIN Search
    BY <1>1, <1>3 DEF Search, CredulousIn
  <2>. QED  BY <1>1, <1>3, <2>1, WitnessNext
<1>. QED  BY <1>2, <1>3

(* An argument the grounded extension attacks is in no extension.           *)
LEMMA NoCredulousRuns ==
  ASSUME RunInv, NoCredulous
  PROVE  RunInv'
<1>1. /\ pc = "shortcut" /\ Given("-p") \in CredulousOut /\ arg \in grounded.out /\ printed = << >>
      /\ InputInv /\ GroundedInv /\ KnownQuery /\ Given("-p") \in Credulous
      /\ Finish(<<<<"NO">>>>)
  BY DEF NoCredulous, RunInv, Asking, KnownQuery, Credulous, CredulousIn, CredulousOut
<1>2. ~Yes
  BY <1>1, QueryFacts, KeepsGrounded
<1>3. Promised => SettledUnshown
  BY <1>1, <1>2, SettledByGrounded DEF Promised, Credulous
<1>4. UNCHANGED <<argv, load, grounded>> /\ pc' = "done" /\ printed' = << >> \o <<<<"NO">>>>
  BY <1>1, FinishStep
<1>5. printed' = <<YesNo(FALSE)>>
  BY <1>4 DEF YesNo
<1>6. AnswersTask(printed')
  BY <1>1, <1>2, <1>3, <1>5, AnswerAlone
<1>. QED  BY <1>1, <1>4, <1>6, Finishes

(* An argument of the grounded extension is in every extension.             *)
LEMMA YesSkepticalRuns ==
  ASSUME RunInv, YesSkeptical
  PROVE  RunInv'
<1>1. /\ pc = "shortcut" /\ Given("-p") \in SkepticalIn /\ arg \in grounded.in /\ printed = << >>
      /\ InputInv /\ GroundedInv /\ KnownQuery /\ Given("-p") \notin Credulous
      /\ Finish(<<<<"YES">>>>)
  BY DEF YesSkeptical, RunInv, Asking, KnownQuery, Credulous, Skeptical, SkepticalIn
<1>2. Yes
  BY <1>1, QueryFacts, KeepsGrounded
<1>3. Promised => SettledUnshown
  BY <1>1, <1>2, SettledByGrounded DEF Promised, SkepticalIn
<1>4. UNCHANGED <<argv, load, grounded>> /\ pc' = "done" /\ printed' = << >> \o <<<<"YES">>>>
  BY <1>1, FinishStep
<1>5. printed' = <<YesNo(TRUE)>>
  BY <1>4 DEF YesNo
<1>6. AnswersTask(printed')
  BY <1>1, <1>2, <1>3, <1>5, AnswerAlone
<1>. QED  BY <1>1, <1>4, <1>6, Finishes

(* An argument the grounded extension attacks is missing from an extension. *)
LEMMA NoSkepticalRuns ==
  ASSUME RunInv, NoSkeptical
  PROVE  RunInv'
<1>1. /\ pc = "shortcut" /\ Given("-p") \in SkepticalOut /\ arg \in grounded.out
      /\ SearchWitness(<<<<"NO">>>>)
  BY DEF NoSkeptical, RunInv, Asking
<1>2. Given("-p") \in DOMAIN Search /\ Given("-p") \notin Credulous
  BY <1>1 DEF Search, SkepticalOut, Credulous
<1>. QED  BY <1>1, <1>2, WitnessNext

(* What is not settled goes to the function for the task.                   *)
LEMMA DoSolveRuns ==
  ASSUME RunInv, DoSolve
  PROVE  RunInv'
<1>1. pc = "shortcut" /\ pc' = "solve" /\ Asking /\ UNCHANGED <<argv, task, load, grounded, printed>>
  BY DEF DoSolve, RunInv, state, cmd, shot
<1>2. InputInv' /\ GroundedInv' /\ Given("-p")' = Given("-p")
  BY <1>1, RunStays
<1>3. Unsettled'
  BY <1>1, <1>2 DEF DoSolve, Settled, Asking, Unsettled
<1>. QED  BY <1>1, <1>2, <1>3 DEF RunInv, Asking

-----------------------------------------------------------------------------
(* The functions for the tasks.                                             *)
LEMMA TwoLines == \A x, y : <<x>> \o <<y>> = <<x, y>>
<1>. TAKE x, y
<1>. DEFINE S == {x, y}
<1>1. <<x>> \in Seq(S) /\ <<y>> \in Seq(S) /\ <<x, y>> \in Seq(S)
  OBVIOUS
<1>2. Len(<<x>> \o <<y>>) = 2 /\ <<x>> \o <<y>> \in Seq(S)
  BY <1>1
<1>3. (<<x>> \o <<y>>)[1] = x /\ (<<x>> \o <<y>>)[2] = y
  BY <1>1
<1>4. Len(<<x, y>>) = 2 /\ <<x, y>>[1] = x /\ <<x, y>>[2] = y
  OBVIOUS
<1>5. \A i \in 1 .. 2 : i = 1 \/ i = 2
  OBVIOUS
<1>. QED  BY <1>1, <1>2, <1>3, <1>4, <1>5, SeqEqual

(* No other task is a search for a witness.                                 *)
LEMMA NoWitness ==
  ASSUME RunInv, pc = "solve", task.track \notin {"SE-PR", "SE-SST", "SE-ID"}
  PROVE  Asking /\ Unsettled
<1>1. Witnessing => task.track \in {"SE-PR", "SE-SST", "SE-ID"}
  BY DEF Witnessing, Search, CredulousIn, SkepticalOut
<1>. QED  BY <1>1 DEF RunInv

(* A function that finishes answers the task asked for.                     *)
LEMMA AskedFor ==
  ASSUME RunInv, pc = "solve", task.track \notin {"SE-PR", "SE-SST", "SE-ID"}, NEW ls, Finish(ls)
  PROVE  /\ task.track = Given("-p") /\ InputInv /\ GroundedInv /\ Relation = Attacks
         /\ UNCHANGED <<argv, load, grounded>> /\ pc' = "done" /\ printed' = << >> \o ls
<1>1. Asking
  BY NoWitness
<1>. QED  BY <1>1, FinishStep DEF RunInv, Asking, InputInv

(* An unknown task prints nothing.                                          *)
LEMMA UnknownTaskRuns ==
  ASSUME RunInv, UnknownTask
  PROVE  RunInv'
<1>1. /\ pc = "solve" /\ task.track \notin AdmTasks \cup ComTasks \cup StbTasks \cup CfTasks
      /\ Finish(<< >>)
  BY DEF UnknownTask
<1>2. task.track \notin {"SE-PR", "SE-SST", "SE-ID"}
  BY <1>1 DEF AdmTasks
<1>3. /\ task.track = Given("-p") /\ UNCHANGED <<argv, load, grounded>>
      /\ pc' = "done" /\ printed' = << >> \o << >> /\ Unsettled
  BY <1>1, <1>2, AskedFor, NoWitness
<1>4. Given("-p") \notin Tasks
  BY <1>1, <1>3 DEF Tasks, Unsettled
<1>5. printed' = << >>
  BY <1>3
<1>6. AnswersTask(printed')
  BY <1>4, <1>5, UnknownAnswer
<1>. QED  BY <1>1, <1>3, <1>6, Finishes

(* A buffer that is too small is one for an argument with more attack lines *)
(* than there are arguments.                                                *)
LEMMA OverrunSpec ==
  ASSUME RunInv, Overrun
  PROVE  Overfull
<1>1. PICK a \in Arg : Len(aaf.parents[a]) > aaf.number_of_arguments
  BY DEF Overrun
<1>2. Cardinality({k \in RowsOf("att") : AttackOf(k)[2] = a}) > Cardinality(Arg)
  BY <1>1 DEF RunInv, InputInv, RowsOn, N
<1>. QED  BY <1>2 DEF Overfull

(* The set found answers a search, and shows the answer already printed.    *)
LEMMA SolveSearchRuns ==
  ASSUME RunInv, SolveSearch
  PROVE  RunInv'
<1>1. PICK S \in SUBSET Arg :
        /\ CASE task.track = "SE-PR"  -> Preferred(Relation, S)
             [] task.track = "SE-SST" -> SemiStable(Relation, S)
             [] task.track = "SE-STG" -> Stage(Relation, S)
             [] OTHER                 -> IsIdeal(Relation, S)
        /\ Finish(<<NamesLine(S)>>)
  BY DEF SolveSearch
<1>2. /\ pc = "solve" /\ task.track \in {"SE-PR", "SE-SST", "SE-STG", "SE-ID"}
      /\ InputInv /\ GroundedInv /\ Relation = Attacks /\ (Asking \/ Witnessing)
  BY DEF SolveSearch, RunInv, InputInv
<1>3. /\ task.track = "SE-PR" => Preferred(Attacks, S)
      /\ task.track = "SE-SST" => SemiStable(Attacks, S)
      /\ task.track = "SE-STG" => Stage(Attacks, S)
      /\ task.track = "SE-ID" => IsIdeal(Attacks, S)
  BY <1>1, <1>2
<1>4. UNCHANGED <<argv, load, grounded>> /\ pc' = "done" /\ printed' = printed \o <<Shown(S)>>
  <2>1. NamesLine(S) = Shown(S)
    BY <1>2, NamesShown
  <2>. QED  BY <1>1, <1>2, <2>1, FinishStep
<1>5. CASE Asking
  <2>1. Given("-p") \in {"SE-PR", "SE-SST", "SE-STG", "SE-ID"} /\ printed' = <<Shown(S)>>
    BY <1>2, <1>4, <1>5 DEF Asking
  <2>2. S \in Extensions
    BY <1>2, <1>3, <1>5, ExtensionsOf DEF Asking
  <2>3. AnswersTask(printed')
    BY <2>1, <2>2 DEF AnswersTask, Tasks, AdmTasks, ComTasks, StbTasks, CfTasks, Credulous, Skeptical
  <2>. QED  BY <1>2, <1>4, <2>3, Finishes
<1>6. CASE Witnessing
  <2>. DEFINE b == Given("-p") \in Credulous
  <2>1. /\ Given("-p") \in {"DC-PR", "DS-PR", "DC-SST", "DS-SST", "DC-ID", "DS-ID"}
        /\ task.track = Search[Given("-p")]
        /\ Given("-p") \in CredulousIn \cup SkepticalOut
    BY <1>6 DEF Witnessing, Search
  <2>2. /\ Given("-p") \in {"DC-PR", "DS-PR"} => Preferred(Attacks, S)
        /\ Given("-p") \in {"DC-SST", "DS-SST"} => SemiStable(Attacks, S)
        /\ Given("-p") \in {"DC-ID", "DS-ID"} => IsIdeal(Attacks, S)
    BY <1>3, <2>1 DEF Search
  <2>3. S \in Extensions
    BY <2>1, <2>2, ExtensionsOf
  <2>4. grounded.in \subseteq S /\ \A a \in grounded.out : a \notin S
    BY <1>2, <2>1, <2>3, KeepsGrounded
  <2>5. (b => arg \in S) /\ (~b => arg \notin S)
    BY <1>6, <2>4 DEF Witnessing
  <2>6. KnownQuery
    BY <2>1 DEF KnownQuery, Credulous, Skeptical
  <2>7. b <=> Yes
    BY <1>2, <2>3, <2>5, <2>6, QueryFacts
  <2>8. S \in Witnesses
    <3>1. Given("-p") = "DC-PR" => Complete(Attacks, S)
      BY <2>2, PreferredIsComplete
    <3>2. (Given("-p") = "DC-PR" => b) /\ (Given("-p") = "DS-PR" => ~b)
      BY DEF Credulous
    <3>. HIDE DEF b
    <3>. QED  BY <1>2, <2>1, <2>3, <2>5, <2>6, <3>1, <3>2, QueryFacts
  <2>9. printed = <<YesNo(b)>>
    BY <1>6 DEF Witnessing, YesNo
  <2>10. b \in BOOLEAN
    OBVIOUS
  <2>. HIDE DEF b
  <2>11. printed' = <<YesNo(b), Shown(S)>>
    BY <1>4, <2>9, TwoLines
  <2>12. AnswersTask(printed')
    BY <2>6, <2>7, <2>8, <2>10, <2>11, AnswerWithSet
  <2>. QED  BY <1>2, <1>4, <2>12, Finishes
<1>. QED  BY <1>2, <1>5, <1>6

(* The ideal extension settles both queries about it.                       *)
LEMMA SolveIdealQueryRuns ==
  ASSUME RunInv, SolveIdealQuery
  PROVE  RunInv'
<1>1. PICK S \in SUBSET Arg : IsIdeal(Relation, S) /\ Finish(<<YesNo(arg \in S), NamesLine(S)>>)
  BY DEF SolveIdealQuery
<1>. DEFINE b == arg \in S
<1>2. /\ pc = "solve" /\ Given("-p") \in {"DC-ID", "DS-ID"} /\ InputInv /\ GroundedInv /\ Relation = Attacks
      /\ UNCHANGED <<argv, load, grounded>> /\ pc' = "done" /\ printed' = << >> \o <<YesNo(b), NamesLine(S)>>
  BY <1>1, AskedFor DEF SolveIdealQuery
<1>3. printed' = <<YesNo(b), Shown(S)>>
  BY <1>2, NamesShown
<1>4. KnownQuery
  BY <1>2 DEF KnownQuery, Credulous, Skeptical
<1>5. S \in Extensions /\ \A T \in Extensions : T = S
  BY <1>1, <1>2, ExtensionsOf, IdealKeepsGrounded DEF GroundedInv
<1>6. (b <=> Yes) /\ S \in Witnesses /\ b \in BOOLEAN
  BY <1>2, <1>4, <1>5, QueryFacts
<1>. HIDE DEF b
<1>7. AnswersTask(printed')
  BY <1>3, <1>4, <1>6, AnswerWithSet
<1>. QED  BY <1>2, <1>7, Finishes

(* The set printed is the one EA-PR asks for.                               *)
LEMMA SolveEnumerationRuns ==
  ASSUME RunInv, SolveEnumeration
  PROVE  RunInv'
<1>. DEFINE ls == <<<<"[", Names(SkepticallyPreferred(Relation))>>>>
<1>1. /\ pc = "solve" /\ Given("-p") = "EA-PR" /\ InputInv /\ Relation = Attacks
      /\ UNCHANGED <<argv, load, grounded>> /\ pc' = "done" /\ printed' = << >> \o ls
  BY AskedFor DEF SolveEnumeration
<1>2. Names(SkepticallyPreferred(Attacks)) = {NameOf(i) : i \in SkepticallyPreferred(Attacks)}
  <2>1. \A i \in SkepticallyPreferred(Attacks) : aaf.ids2arguments[i] = NameOf(i)
    BY <1>1 DEF InputInv, SkepticallyPreferred
  <2>. QED  BY <2>1 DEF Names
<1>3. AnswersTask(printed')
  BY <1>1, <1>2 DEF AnswersTask, Tasks, AdmTasks, ComTasks, StbTasks, CfTasks, Credulous, Skeptical
<1>. QED  BY <1>1, <1>3, Finishes

(* The number printed is that of the extensions.                            *)
LEMMA SolveCountingRuns ==
  ASSUME RunInv, SolveCounting
  PROVE  RunInv'
<1>. DEFINE counted == {S \in SUBSET Arg :
                          CASE task.track = "CE-ST" -> Stable(Relation, S)
                            [] task.track = "CE-CO" -> Complete(Relation, S)
                            [] OTHER                -> Preferred(Relation, S)}
<1>1. Finish(<<<<"count", Cardinality(counted)>>>>)
  BY DEF SolveCounting
<1>2. task.track \in {"CE-ST", "CE-CO", "CE-PR"} /\ pc = "solve"
  BY DEF SolveCounting
<1>3. /\ Given("-p") = task.track /\ InputInv /\ Relation = Attacks
      /\ UNCHANGED <<argv, load, grounded>> /\ pc' = "done" /\ printed' = << >> \o <<<<"count", Cardinality(counted)>>>>
  <2>. HIDE DEF counted
  <2>. QED  BY <1>1, <1>2, AskedFor
<1>4. counted = Extensions
  BY <1>2, <1>3, ExtensionsOf
<1>. HIDE DEF counted
<1>5. AnswersTask(printed')
  BY <1>2, <1>3, <1>4 DEF AnswersTask, Tasks, AdmTasks, ComTasks, StbTasks, CfTasks, Credulous, Skeptical
<1>. QED  BY <1>2, <1>3, <1>5, Finishes

(* solve_dspr prints a counterexample with NO.                              *)
LEMMA SolveDsPrRuns ==
  ASSUME RunInv, SolveDsPr
  PROVE  RunInv'
<1>1. /\ pc = "solve" /\ task.track = "DS-PR"
      /\ \/ (\A S \in SUBSET Arg : Preferred(Relation, S) => arg \in S) /\ Finish(<<<<"YES">>>>)
         \/ \E S \in SUBSET Arg : Preferred(Relation, S) /\ arg \notin S /\ Finish(<<<<"NO">>, NamesLine(S)>>)
  BY DEF SolveDsPr
<1>2. Given("-p") = "DS-PR" /\ InputInv /\ Relation = Attacks
  BY <1>1, NoWitness DEF RunInv, Asking, InputInv
<1>3. KnownQuery /\ Given("-p") \notin Credulous
  BY <1>2 DEF KnownQuery, Credulous, Skeptical
<1>4. CASE (\A S \in SUBSET Arg : Preferred(Relation, S) => arg \in S) /\ Finish(<<<<"YES">>>>)
  <2>1. UNCHANGED <<argv, load, grounded>> /\ pc' = "done" /\ printed' = << >> \o <<<<"YES">>>>
    BY <1>1, <1>4, AskedFor
  <2>2. Yes
    BY <1>2, <1>3, <1>4, ExtensionsOf, QueryFacts
  <2>3. ~Promised
    BY <1>2, <2>2 DEF Promised
  <2>4. printed' = <<YesNo(TRUE)>>
    BY <2>1 DEF YesNo
  <2>5. AnswersTask(printed')
    BY <1>3, <2>2, <2>3, <2>4, AnswerAlone
  <2>. QED  BY <1>1, <2>1, <2>5, Finishes
<1>5. ASSUME NEW S \in SUBSET Arg, Preferred(Relation, S), arg \notin S, Finish(<<<<"NO">>, NamesLine(S)>>)
      PROVE  RunInv'
  <2>1. UNCHANGED <<argv, load, grounded>> /\ pc' = "done" /\ printed' = << >> \o <<<<"NO">>, NamesLine(S)>>
    BY <1>1, <1>5, AskedFor
  <2>2. S \in Extensions
    BY <1>2, <1>5, ExtensionsOf
  <2>3. ~Yes /\ S \in Witnesses
    BY <1>2, <1>3, <1>5, <2>2, QueryFacts
  <2>4. printed' = <<YesNo(FALSE), Shown(S)>>
    BY <1>2, <2>1, NamesShown DEF YesNo
  <2>5. AnswersTask(printed')
    BY <1>3, <2>3, <2>4, AnswerWithSet
  <2>. QED  BY <1>1, <2>1, <2>5, Finishes
<1>. QED  BY <1>1, <1>4, <1>5

(* With nothing undecided the grounded extension settles a query by range.  *)
LEMMA SolveRangeGroundedRuns ==
  ASSUME RunInv, SolveRangeGrounded
  PROVE  RunInv'
<1>. DEFINE b     == arg \in grounded.in
            short == task.track = "DS-SST" /\ arg \in grounded.in
            ls    == <<YesNo(b)>> \o IF short THEN << >> ELSE <<NamesLine(grounded.in)>>
<1>1. /\ pc = "solve" /\ task.track \in {"DC-SST", "DS-SST", "DC-STG", "DS-STG"}
      /\ AllGrounded(grounded) /\ Finish(ls)
  BY DEF SolveRangeGrounded
<1>2. /\ Given("-p") = task.track /\ InputInv /\ GroundedInv /\ Relation = Attacks
      /\ UNCHANGED <<argv, load, grounded>> /\ pc' = "done" /\ printed' = << >> \o ls
  <2>. HIDE DEF ls
  <2>. QED  BY <1>1, AskedFor
<1>3. grounded.in \in SUBSET Arg /\ NamesLine(grounded.in) = Shown(grounded.in)
  BY <1>2, NamesShown DEF GroundedInv, Assignments
<1>4. KnownQuery
  BY <1>1, <1>2 DEF KnownQuery, Credulous, Skeptical
<1>5. \A S : S \in Extensions <=> S = grounded.in
  BY <1>1, <1>2, <1>3, ExtensionsOf, DecidedIsOnly DEF GroundedInv
<1>6. (b <=> Yes) /\ b \in BOOLEAN /\ ~Promised /\ grounded.in \in Witnesses
  BY <1>1, <1>2, <1>4, <1>5, QueryFacts DEF Promised
<1>7. CASE short
  <2>1. \A x : << >> \o (<<x>> \o << >>) = <<x>>
    OBVIOUS
  <2>2. printed' = <<YesNo(b)>>
    BY <1>2, <1>7, <2>1
  <2>. HIDE DEF b
  <2>3. AnswersTask(printed')
    BY <1>4, <1>6, <2>2, AnswerAlone
  <2>. QED  BY <1>1, <1>2, <2>3, Finishes
<1>8. CASE ~short
  <2>1. \A x, y : << >> \o (<<x>> \o <<y>>) = <<x, y>>
    <3>1. \A x, y : << >> \o <<x, y>> = <<x, y>>
      OBVIOUS
    <3>. QED  BY <3>1, TwoLines
  <2>2. printed' = <<YesNo(b), Shown(grounded.in)>>
    BY <1>2, <1>3, <1>8, <2>1
  <2>. HIDE DEF b
  <2>3. AnswersTask(printed')
    BY <1>4, <1>6, <2>2, AnswerWithSet
  <2>. QED  BY <1>1, <1>2, <2>3, Finishes
<1>. QED  BY <1>7, <1>8

(* A set that settles a query by range is one of its extensions.            *)
LEMMA SolveRangeQueryRuns ==
  ASSUME RunInv, SolveRangeQuery
  PROVE  RunInv'
<1>. DEFINE dc         == task.track \in Credulous
            Settles(S) == RangeExtension(S) /\ ((arg \in S) = dc)
<1>1. /\ pc = "solve" /\ task.track \in {"DC-SST", "DS-SST", "DC-STG", "DS-STG"}
      /\ \/ \E S \in SUBSET Arg : Settles(S) /\ Finish(<<YesNo(dc), NamesLine(S)>>)
         \/ (\A S \in SUBSET Arg : ~Settles(S)) /\ Finish(<<YesNo(~dc)>>)
  BY DEF SolveRangeQuery
<1>2. Given("-p") = task.track /\ InputInv /\ Relation = Attacks
  BY <1>1, NoWitness DEF RunInv, Asking, InputInv
<1>3. KnownQuery /\ ~Promised
  BY <1>1, <1>2 DEF KnownQuery, Promised, Credulous, Skeptical
<1>4. \A S : S \in Extensions <=> S \in SUBSET Arg /\ RangeExtension(S)
  BY <1>1, <1>2, ExtensionsOf DEF RangeExtension
<1>5. ASSUME NEW S \in SUBSET Arg, Settles(S), Finish(<<YesNo(dc), NamesLine(S)>>)
      PROVE  RunInv'
  <2>1. UNCHANGED <<argv, load, grounded>> /\ pc' = "done" /\ printed' = << >> \o <<YesNo(dc), NamesLine(S)>>
    <3>. HIDE DEF dc
    <3>. QED  BY <1>1, <1>5, AskedFor
  <2>2. S \in Extensions /\ (arg \in S <=> dc)
    BY <1>4, <1>5
  <2>3. (dc <=> Yes) /\ S \in Witnesses /\ dc \in BOOLEAN
    BY <1>1, <1>2, <1>3, <2>2, QueryFacts
  <2>4. printed' = <<YesNo(dc), Shown(S)>>
    BY <1>2, <2>1, NamesShown
  <2>. HIDE DEF dc
  <2>5. AnswersTask(printed')
    BY <1>3, <2>3, <2>4, AnswerWithSet
  <2>. QED  BY <1>1, <2>1, <2>5, Finishes
<1>6. ASSUME \A S \in SUBSET Arg : ~Settles(S), Finish(<<YesNo(~dc)>>)
      PROVE  RunInv'
  <2>1. UNCHANGED <<argv, load, grounded>> /\ pc' = "done" /\ printed' = << >> \o <<YesNo(~dc)>>
    <3>. HIDE DEF dc
    <3>. QED  BY <1>1, <1>6, AskedFor
  <2>2. \A S \in Extensions : ~(arg \in S <=> dc)
    BY <1>4, <1>6
  <2>. DEFINE other == ~dc
  <2>3. (other <=> Yes) /\ other \in BOOLEAN
    BY <1>2, <1>3, <2>2, QueryFacts
  <2>. HIDE DEF dc
  <2>4. printed' = <<YesNo(other)>>
    BY <2>1
  <2>. HIDE DEF other
  <2>5. AnswersTask(printed')
    BY <1>3, <2>3, <2>4, AnswerAlone
  <2>. QED  BY <1>1, <2>1, <2>5, Finishes
<1>. QED  BY <1>1, <1>5, <1>6

(* A run the library ends has printed no answer.                            *)
LEMMA StageAbortRuns ==
  ASSUME RunInv, StageAbort
  PROVE  RunInv'
<1>1. pc = "solve" /\ pc' = "aborted" /\ UNCHANGED <<argv, load, grounded>>
  BY DEF StageAbort, state, cmd, shot
<1>2. InputInv' /\ GroundedInv'
  BY <1>1, RunStays
<1>. QED  BY <1>1, <1>2 DEF RunInv

-----------------------------------------------------------------------------
(* The functions that call the solver once or twice.                        *)
LEMMA ModelsOfTask ==
  ASSUME GroundedInv
  PROVE  /\ ComModels(Attacks, grounded) \in SUBSET Assignments
         /\ StbModels(Attacks, grounded) \in SUBSET Assignments
         /\ Nothing \in Assignments
         /\ \A m \in ComModels(Attacks, grounded) : Complete(Attacks, m.in) /\ m.in \in SUBSET Arg
         /\ \A m \in StbModels(Attacks, grounded) : Stable(Attacks, m.in) /\ m.in \in SUBSET Arg
<1>1. /\ \A m \in ComModels(Attacks, grounded) : m \in Assignments /\ Complete(Attacks, m.in)
      /\ \A m \in StbModels(Attacks, grounded) : m \in Assignments /\ Stable(Attacks, m.in)
  BY ComModelIsComplete, StbModelIsStable DEF GroundedInv
<1>2. \A m \in Assignments : m.in \in SUBSET Arg
  BY DEF Assignments
<1>3. Nothing \in Assignments
  BY DEF Nothing, Assignments
<1>. QED  BY <1>1, <1>2, <1>3

(* The clauses have the extensions of the task for models.                  *)
LEMMA EncodeRuns ==
  ASSUME RunInv, Encode
  PROVE  RunInv'
<1>1. /\ pc = "solve" /\ task.track \in {"DC-CO", "DC-PR", "SE-ST", "DC-ST", "DS-ST"}
      /\ pc' = "first call" /\ UNCHANGED <<argv, task, load, grounded, printed>>
      /\ solver' = NewSolver(IF task.track \in {"DC-CO", "DC-PR"} THEN ComModels(Relation, grounded)
                             ELSE StbModels(Relation, grounded), Nothing)
  BY DEF Encode, SingleShotTasks, cmd
<1>2. Asking /\ GroundedInv /\ Relation = Attacks
  BY <1>1, NoWitness DEF RunInv, InputInv
<1>3. PICK D \in SUBSET Assignments :
        /\ D = IF Given("-p") \in {"DC-CO", "DC-PR"} THEN ComModels(Attacks, grounded)
               ELSE StbModels(Attacks, grounded)
        /\ solver' = NewSolver(D, Nothing)
  BY <1>1, <1>2, ModelsOfTask DEF Asking
<1>4. solver' \in SolverOver(Assignments) /\ solver'.db = D
  BY <1>2, <1>3, ModelsOfTask, NewSolverSpec
<1>5. InputInv' /\ GroundedInv' /\ Given("-p")' = Given("-p") /\ Attacks' = Attacks
  BY <1>1, RunStays
<1>6. SolverInv'
  BY <1>1, <1>2, <1>3, <1>4, <1>5 DEF SolverInv, Asking, SingleShotTasks
<1>. QED  BY <1>1, <1>5, <1>6 DEF RunInv

(* The answer of the first call, and what it says of the task.              *)
LEMMA FirstCall ==
  ASSUME InputInv, GroundedInv, SolverInv, NEW s \in Results(Assume(solver, FirstQuery))
  PROVE  /\ s \in SolverOver(Assignments) /\ s.db = solver.db
         /\ s.st \in {"SAT", "UNSAT"}
         /\ s.st = "SAT" => s.val \in s.db /\ s.val.in \in SUBSET Arg
         /\ Given("-p") \in {"DC-CO", "DC-PR"} =>
              /\ s.st = "SAT" => Complete(Attacks, s.val.in) /\ arg \in s.val.in
              /\ s.st = "UNSAT" => \A S \in SUBSET Arg : Complete(Attacks, S) => arg \notin S
         /\ Given("-p") \in {"SE-ST", "DS-ST"} =>
              /\ s.st = "SAT" => Stable(Attacks, s.val.in)
              /\ s.st = "UNSAT" => \A S \in SUBSET Arg : ~Stable(Attacks, S)
         /\ Given("-p") = "DC-ST" =>
              /\ s.st = "SAT" => Stable(Attacks, s.val.in) /\ arg \in s.val.in
              /\ s.st = "UNSAT" => \A S \in SUBSET Arg : Stable(Attacks, S) => arg \notin S
<1>. DEFINE com == ComModels(Attacks, grounded)
            stb == StbModels(Attacks, grounded)
<1>1. /\ task.track = Given("-p") /\ Given("-p") \in {"DC-CO", "DC-PR", "SE-ST", "DC-ST", "DS-ST"}
      /\ solver \in SolverOver(Assignments)
      /\ solver.db = IF Given("-p") \in {"DC-CO", "DC-PR"} THEN com ELSE stb
  BY DEF SolverInv, Asking, SingleShotTasks
<1>2. /\ \A m \in com : Complete(Attacks, m.in) /\ m.in \in SUBSET Arg
      /\ \A m \in stb : Stable(Attacks, m.in) /\ m.in \in SUBSET Arg
      /\ \A S \in SUBSET Arg : Complete(Attacks, S) => \E m \in com : m.in = S
      /\ \A S \in SUBSET Arg : Stable(Attacks, S) => \E m \in stb : m.in = S
  BY ModelsOfTask, CompleteHasModel, StableHasModel DEF GroundedInv
<1>. HIDE DEF com, stb
<1>3. CASE Given("-p") \in {"SE-ST", "DS-ST"}
  <2>1. s \in Results(solver)
    BY <1>1, <1>3 DEF FirstQuery, Assume
  <2>2. /\ s \in SolverOver(Assignments) /\ s.db = solver.db
        /\ \/ s.st = "UNSAT" /\ solver.db = {}
           \/ s.st = "SAT" /\ s.val \in solver.db
    BY <1>1, <2>1, PlainSolveSpec
  <2>3. solver.db = stb
    BY <1>1, <1>3
  <2>. QED  BY <1>2, <1>3, <2>2, <2>3
<1>4. CASE Given("-p") \in {"DC-CO", "DC-PR", "DC-ST"}
  <2>1. FirstQuery = Pos("in", {arg})
    BY <1>1, <1>4 DEF FirstQuery
  <2>2. /\ s \in SolverOver(Assignments) /\ s.db = solver.db
        /\ \/ s.st = "UNSAT" /\ \A m \in solver.db : ~({arg} \subseteq m["in"])
           \/ s.st = "SAT" /\ s.val \in solver.db /\ {arg} \subseteq s.val["in"]
    BY <1>1, <2>1, AskSpec
  <2>3. /\ s \in SolverOver(Assignments) /\ s.db = solver.db
        /\ \/ s.st = "UNSAT" /\ \A m \in solver.db : arg \notin m.in
           \/ s.st = "SAT" /\ s.val \in solver.db /\ arg \in s.val.in
    BY <2>2
  <2>4. CASE Given("-p") \in {"DC-CO", "DC-PR"}
    <3>1. solver.db = com
      BY <1>1, <2>4
    <3>. QED  BY <1>2, <2>3, <2>4, <3>1
  <2>5. CASE Given("-p") = "DC-ST"
    <3>1. solver.db = stb
      BY <1>1, <2>5
    <3>. QED  BY <1>2, <2>3, <2>5, <3>1
  <2>. QED  BY <1>4, <2>4, <2>5
<1>. QED  BY <1>1, <1>3, <1>4

(* The first call of the solver settles every task but DS-ST.               *)
LEMMA SolveRuns ==
  ASSUME RunInv, Solve
  PROVE  RunInv'
<1>1. PICK s \in Results(Assume(solver, FirstQuery)) :
        /\ solver' = s
        /\ IF s.st = "UNSAT"
             THEN Say(IF task.track = "DS-ST" THEN <<<<"YES">>>> ELSE <<<<"NO">>>>) /\ pc' = "done"
           ELSE IF task.track = "DS-ST"
             THEN printed' = printed /\ pc' = "check"
           ELSE /\ Say(IF task.track = "SE-ST" THEN <<NamesLine(s.val.in)>>
                       ELSE <<<<"YES">>, NumbersLine(s.val.in)>>)
                /\ pc' = "done"
  BY DEF Solve
<1>2. /\ pc = "first call" /\ UNCHANGED <<argv, task, load, grounded, arg>>
      /\ InputInv /\ GroundedInv /\ SolverInv /\ printed = << >> /\ task.track = Given("-p")
      /\ Given("-p") \in {"DC-CO", "DC-PR", "SE-ST", "DC-ST", "DS-ST"}
  BY DEF Solve, RunInv, SolverInv, Asking, SingleShotTasks, cmd, load
<1>3. /\ s \in SolverOver(Assignments) /\ s.db = solver.db
      /\ s.st \in {"SAT", "UNSAT"}
      /\ s.st = "SAT" => s.val \in s.db /\ s.val.in \in SUBSET Arg
      /\ Given("-p") \in {"DC-CO", "DC-PR"} =>
           /\ s.st = "SAT" => Complete(Attacks, s.val.in) /\ arg \in s.val.in
           /\ s.st = "UNSAT" => \A S \in SUBSET Arg : Complete(Attacks, S) => arg \notin S
      /\ Given("-p") \in {"SE-ST", "DS-ST"} =>
           /\ s.st = "SAT" => Stable(Attacks, s.val.in)
           /\ s.st = "UNSAT" => \A S \in SUBSET Arg : ~Stable(Attacks, S)
      /\ Given("-p") = "DC-ST" =>
           /\ s.st = "SAT" => Stable(Attacks, s.val.in) /\ arg \in s.val.in
           /\ s.st = "UNSAT" => \A S \in SUBSET Arg : Stable(Attacks, S) => arg \notin S
  BY <1>2, FirstCall
<1>4. KnownQuery <=> Given("-p") # "SE-ST"
  BY <1>2 DEF KnownQuery, Credulous, Skeptical
<1>5. Given("-p") \in {"DC-CO", "DC-PR", "DC-ST"} => Given("-p") \in Credulous
  BY DEF Credulous
<1>6. Given("-p") = "DS-ST" => Given("-p") \notin Credulous
  BY DEF Credulous
<1>7. CASE s.st = "UNSAT"
  <2>1. pc' = "done" /\ printed' = << >> \o (IF Given("-p") = "DS-ST" THEN <<<<"YES">>>> ELSE <<<<"NO">>>>)
    BY <1>1, <1>2, <1>7 DEF Say
  <2>2. AnswersTask(printed')
    <3>1. CASE Given("-p") = "SE-ST"
      <4>1. printed' = <<<<"NO">>>>
        BY <2>1, <3>1
      <4>2. Extensions = {}
        BY <1>3, <1>7, <3>1, ExtensionsOf
      <4>. QED  BY <3>1, <4>1, <4>2 DEF AnswersTask, Tasks, AdmTasks, ComTasks, StbTasks, CfTasks, Credulous, Skeptical
    <3>2. CASE Given("-p") = "DS-ST"
      <4>1. printed' = <<YesNo(TRUE)>>
        BY <2>1, <3>2 DEF YesNo
      <4>2. Yes
        BY <1>2, <1>3, <1>4, <1>6, <1>7, <3>2, ExtensionsOf, QueryFacts
      <4>3. ~Promised
        BY <3>2, <4>2 DEF Promised
      <4>. QED  BY <1>4, <3>2, <4>1, <4>2, <4>3, AnswerAlone
    <3>3. CASE Given("-p") \in {"DC-CO", "DC-PR", "DC-ST"}
      <4>1. printed' = <<YesNo(FALSE)>>
        BY <2>1, <3>3 DEF YesNo
      <4>2. \A S \in Extensions : arg \notin S
        <5>1. CASE Given("-p") = "DC-CO"
          BY <1>3, <1>7, <5>1, ExtensionsOf
        <5>2. CASE Given("-p") = "DC-PR"
          BY <1>3, <1>7, <5>2, ExtensionsOf, PreferredIsComplete
        <5>3. CASE Given("-p") = "DC-ST"
          BY <1>3, <1>7, <5>3, ExtensionsOf
        <5>. QED  BY <3>3, <5>1, <5>2, <5>3
      <4>3. ~Yes
        BY <1>2, <1>4, <1>5, <3>3, <4>2, QueryFacts
      <4>4. ~Promised
        BY <3>3, <4>3 DEF Promised
      <4>. QED  BY <1>4, <3>3, <4>1, <4>3, <4>4, AnswerAlone
    <3>. QED  BY <1>2, <3>1, <3>2, <3>3
  <2>. QED  BY <1>2, <2>1, <2>2, Finishes
<1>8. CASE s.st = "SAT" /\ Given("-p") = "DS-ST"
  <2>1. pc' = "check" /\ printed' = printed /\ solver' = s
    BY <1>1, <1>2, <1>8
  <2>2. InputInv' /\ GroundedInv' /\ Given("-p")' = Given("-p") /\ Attacks' = Attacks
    BY <1>2, RunStays
  <2>3. s.db = StbModels(Attacks, grounded)
    BY <1>2, <1>3, <1>8 DEF SolverInv
  <2>4. SolverInv' /\ solver'.val \in StbModels(Attacks', grounded')
    BY <1>2, <1>3, <1>8, <2>1, <2>2, <2>3 DEF SolverInv, Asking
  <2>. QED  BY <1>8, <2>1, <2>2, <2>4 DEF RunInv
<1>9. CASE s.st = "SAT" /\ Given("-p") = "SE-ST"
  <2>1. pc' = "done" /\ printed' = << >> \o <<NamesLine(s.val.in)>>
    BY <1>1, <1>2, <1>9 DEF Say
  <2>2. printed' = <<Shown(s.val.in)>>
    <3>1. NamesLine(s.val.in) = Shown(s.val.in)
      BY <1>2, <1>3, <1>9, NamesShown
    <3>. QED  BY <2>1, <3>1
  <2>3. s.val.in \in Extensions
    BY <1>3, <1>9, ExtensionsOf
  <2>4. AnswersTask(printed')
    BY <1>9, <2>2, <2>3 DEF AnswersTask, Tasks, AdmTasks, ComTasks, StbTasks, CfTasks, Credulous, Skeptical
  <2>. QED  BY <1>2, <2>1, <2>4, Finishes
<1>10. CASE s.st = "SAT" /\ Given("-p") \in {"DC-CO", "DC-PR", "DC-ST"}
  <2>1. pc' = "done" /\ printed' = << >> \o <<<<"YES">>, NumbersLine(s.val.in)>>
    BY <1>1, <1>2, <1>10 DEF Say
  <2>2. printed' = <<YesNo(TRUE), NumbersLine(s.val.in)>>
    BY <2>1 DEF YesNo
  <2>3. s.val.in \in Witnesses
    <3>1. CASE Given("-p") \in {"DC-CO", "DC-PR"}
      BY <1>2, <1>3, <1>4, <1>10, <3>1, QueryFacts
    <3>2. CASE Given("-p") = "DC-ST"
      BY <1>2, <1>3, <1>4, <1>10, <3>2, QueryFacts, ExtensionsOf
    <3>. QED  BY <1>10, <3>1, <3>2
  <2>4. \E S \in Extensions : arg \in S
    <3>1. CASE Given("-p") = "DC-CO"
      BY <1>3, <1>10, <3>1, ExtensionsOf
    <3>2. CASE Given("-p") = "DC-PR"
      <4>1. Admissible(Attacks, s.val.in)
        BY <1>3, <1>10, <3>2 DEF Complete, Admissible
      <4>2. PICK T \in SUBSET Arg : Preferred(Attacks, T) /\ s.val.in \subseteq T
        BY <1>3, <1>10, <4>1, PreferredAbove
      <4>. QED  BY <1>3, <1>10, <3>2, <4>2, ExtensionsOf
    <3>3. CASE Given("-p") = "DC-ST"
      BY <1>3, <1>10, <3>3, ExtensionsOf
    <3>. QED  BY <1>10, <3>1, <3>2, <3>3
  <2>5. Yes
    BY <1>2, <1>4, <1>5, <1>10, <2>4, QueryFacts
  <2>6. AnswersTask(printed')
    BY <1>4, <1>10, <2>2, <2>3, <2>5, AnswerWithSet
  <2>. QED  BY <1>2, <2>1, <2>6, Finishes
<1>. QED  BY <1>2, <1>3, <1>7, <1>8, <1>9, <1>10

(* The grounded labelling settles DS-ST when it decides the argument, and   *)
(* the extension found refutes it when it is out.                           *)
LEMMA CheckGroundedRuns ==
  ASSUME RunInv, CheckGrounded
  PROVE  RunInv'
<1>1. /\ pc = "check" /\ UNCHANGED <<argv, task, load, grounded, solver>>
      /\ IF arg \in grounded.in
           THEN Say(<<<<"YES">>>>) /\ pc' = "done"
         ELSE IF arg \in grounded.out
           THEN Say(<<<<"NO">>, NumbersLine(solver.val.in)>>) /\ pc' = "done"
           ELSE printed' = printed /\ pc' = "second call"
  BY DEF CheckGrounded, cmd
<1>. DEFINE S == solver.val.in
<1>2. /\ InputInv /\ GroundedInv /\ SolverInv /\ Given("-p") = "DS-ST" /\ printed = << >>
      /\ solver.val \in StbModels(Attacks, grounded)
  BY <1>1 DEF RunInv, SolverInv, Asking
<1>3. KnownQuery /\ Given("-p") \notin Credulous /\ Given("-p") \in CredulousOut \cup SkepticalIn
  BY <1>2 DEF KnownQuery, Credulous, Skeptical, SkepticalIn
<1>4. S \in Extensions
  BY <1>2, ModelsOfTask, ExtensionsOf
<1>5. CASE arg \in grounded.in
  <2>1. pc' = "done" /\ printed' = << >> \o <<<<"YES">>>>
    BY <1>1, <1>2, <1>5 DEF Say
  <2>2. printed' = <<YesNo(TRUE)>>
    BY <2>1 DEF YesNo
  <2>3. Yes
    BY <1>2, <1>3, <1>5, QueryFacts, KeepsGrounded
  <2>4. ~Promised
    BY <1>2, <2>3 DEF Promised
  <2>5. AnswersTask(printed')
    BY <1>3, <2>2, <2>3, <2>4, AnswerAlone
  <2>. QED  BY <1>1, <2>1, <2>5, Finishes
<1>6. CASE arg \notin grounded.in /\ arg \in grounded.out
  <2>1. pc' = "done" /\ printed' = << >> \o <<<<"NO">>, NumbersLine(S)>>
    BY <1>1, <1>2, <1>6 DEF Say
  <2>2. printed' = <<YesNo(FALSE), NumbersLine(S)>>
    BY <2>1 DEF YesNo
  <2>3. arg \notin S
    BY <1>2, <1>3, <1>4, <1>6, KeepsGrounded
  <2>4. ~Yes /\ S \in Witnesses
    BY <1>2, <1>3, <1>4, <2>3, QueryFacts
  <2>. HIDE DEF S
  <2>5. AnswersTask(printed')
    BY <1>2, <1>3, <2>2, <2>4, AnswerWithSet
  <2>. QED  BY <1>1, <2>1, <2>5, Finishes
<1>7. CASE arg \notin grounded.in /\ arg \notin grounded.out
  <2>1. pc' = "second call" /\ printed' = printed /\ solver' = solver
    BY <1>1, <1>7
  <2>2. InputInv' /\ GroundedInv' /\ Given("-p")' = Given("-p") /\ Attacks' = Attacks /\ grounded' = grounded
    BY <1>1, RunStays
  <2>3. SolverInv'
    BY <1>1, <1>2, <2>1, <2>2 DEF SolverInv, Asking
  <2>. QED  BY <1>2, <2>1, <2>2, <2>3 DEF RunInv
<1>. QED  BY <1>5, <1>6, <1>7

(* The second call of DS-ST finds a stable extension without the argument   *)
(* or there is none.                                                        *)
LEMMA SolveAgainRuns ==
  ASSUME RunInv, SolveAgain
  PROVE  RunInv'
<1>1. PICK s \in Results(Assume(solver, SecondQuery)) :
        /\ solver' = s
        /\ Say(IF s.st = "UNSAT" THEN <<<<"YES">>>> ELSE <<<<"NO">>, NumbersLine(s.val.in)>>)
  BY DEF SolveAgain
<1>2. /\ pc = "second call" /\ pc' = "done" /\ UNCHANGED <<argv, task, load, grounded>>
      /\ InputInv /\ GroundedInv /\ SolverInv /\ Given("-p") = "DS-ST" /\ printed = << >>
  BY DEF SolveAgain, RunInv, SolverInv, Asking, cmd
<1>3. KnownQuery /\ Given("-p") \notin Credulous
  BY <1>2 DEF KnownQuery, Credulous, Skeptical
<1>. DEFINE stb == StbModels(Attacks, grounded)
<1>4. /\ \A m \in stb : Stable(Attacks, m.in) /\ m.in \in SUBSET Arg
      /\ \A S \in SUBSET Arg : Stable(Attacks, S) => \E m \in stb : m.in = S
  BY <1>2, ModelsOfTask, StableHasModel DEF GroundedInv
<1>5. solver \in SolverOver(Assignments) /\ solver.db = stb
  BY <1>2 DEF SolverInv
<1>. HIDE DEF stb
<1>6. \A m : (\A l \in SecondQuery : Holds(m, l)) <=> arg \notin m["in"]
  <2>1. SecondQuery = {<<"in", arg, FALSE>>}
    BY DEF SecondQuery, Neg
  <2>2. ASSUME NEW m, NEW a PROVE Holds(m, <<"in", a, FALSE>>) <=> a \notin m["in"]
    <3>1. Holds(m, <<"in", a, FALSE>>) <=> (a \in m["in"]) = FALSE
      BY DEF Holds
    <3>. QED  BY <3>1
  <2>. QED  BY <2>1, <2>2
<1>7. \/ s.st = "UNSAT" /\ \A m \in stb : arg \in m.in
      \/ s.st = "SAT" /\ s.val \in stb /\ arg \notin s.val.in
  <2>1. \/ /\ s.st = "UNSAT"
           /\ \A m \in solver.db : ~ \A l \in SecondQuery : Holds(m, l)
        \/ /\ s.st = "SAT" /\ s.val \in solver.db
           /\ \A l \in SecondQuery : Holds(s.val, l)
    BY <1>5, SolveSpec
  <2>. QED  BY <1>5, <1>6, <2>1
<1>8. CASE s.st = "UNSAT" /\ \A m \in stb : arg \in m.in
  <2>1. printed' = << >> \o <<<<"YES">>>>
    BY <1>1, <1>2, <1>8 DEF Say
  <2>2. printed' = <<YesNo(TRUE)>>
    BY <2>1 DEF YesNo
  <2>3. \A S \in Extensions : arg \in S
    BY <1>2, <1>4, <1>8, ExtensionsOf
  <2>4. Yes
    BY <1>2, <1>3, <2>3, QueryFacts
  <2>5. ~Promised
    BY <1>2, <2>4 DEF Promised
  <2>6. AnswersTask(printed')
    BY <1>3, <2>2, <2>4, <2>5, AnswerAlone
  <2>. QED  BY <1>2, <2>6, Finishes
<1>9. CASE s.st = "SAT" /\ s.val \in stb /\ arg \notin s.val.in
  <2>. DEFINE S == s.val.in
  <2>1. printed' = << >> \o <<<<"NO">>, NumbersLine(S)>>
    BY <1>1, <1>2, <1>9 DEF Say
  <2>2. printed' = <<YesNo(FALSE), NumbersLine(S)>>
    BY <2>1 DEF YesNo
  <2>3. S \in Extensions /\ arg \notin S
    BY <1>2, <1>4, <1>9, ExtensionsOf
  <2>4. ~Yes /\ S \in Witnesses
    BY <1>2, <1>3, <2>3, QueryFacts
  <2>. HIDE DEF S
  <2>5. AnswersTask(printed')
    BY <1>2, <1>3, <2>2, <2>4, AnswerWithSet
  <2>. QED  BY <1>2, <2>5, Finishes
<1>. QED  BY <1>7, <1>8, <1>9

-----------------------------------------------------------------------------
(* The whole run.                                                           *)

(* For each phase of the run, what it has established.                      *)
Phases ==
  /\ pc = "options" => OptionsInv /\ row = 1 /\ printed = << >>
  /\ pc = "open" => AskedInv /\ row = 1 /\ Asking
  /\ pc \in {"arguments", "attacks"} => ReadingInv /\ Asking
  /\ pc = "argument" => LoadedInv /\ Asking
  /\ pc = "info" => ~WellAsked
  /\ pc = "undefined" => ~WellAsked \/ Overfull
  /\ pc \notin {"options", "open", "arguments", "attacks", "argument", "info", "undefined"} => RunInv

(* The inductive invariant.  Nothing is said of the run on a file of the    *)
(* other format.                                                            *)
PInv ==
  /\ argv \in Seq(STRING \ {Unset, NULL}) /\ disk \in Disks
  /\ Misread \/ Phases

(* The invariant holds before the first option is read.                     *)
LEMMA InitPInv == Init => PInv
<1>. SUFFICES ASSUME Init
              PROVE  PInv
  OBVIOUS
<1>1. /\ argv \in CommandLines /\ at = 1 /\ param = 0 /\ pc = "options" /\ disk \in Disks /\ row = 1 /\ printed = << >>
      /\ task = [track |-> Unset, file |-> Unset, argAsString |-> Unset, format |-> NULL]
  BY DEF Init, CmdInit, LoadInit, DriverInit
<1>2. argv \in Seq(STRING \ {Unset, NULL})
  BY <1>1, TokenAssumption
<1>3. \A o : Before(o) = {}
  <2>1. \A o : \A k \in Places(o) : k \in Nat /\ k >= 1
    BY <1>2 DEF Places
  <2>. QED  BY <1>1, <2>1 DEF Before
<1>4. OptionsInv
  <2>1. 1 % 2 = 1
    OBVIOUS
  <2>2. /\ Value("-p", {}) = Unset /\ Value("-f", {}) = Unset /\ Value("-a", {}) = Unset /\ Value("-fo", {}) = NULL
    BY DEF Value
  <2>3. /\ task = [track       |-> Value("-p", Before("-p")), file   |-> Value("-f", Before("-f")),
                    argAsString |-> Value("-a", Before("-a")), format |-> Value("-fo", Before("-fo"))]
    <3>1. /\ Before("-p") = {} /\ Before("-f") = {} /\ Before("-a") = {} /\ Before("-fo") = {}
      BY <1>3
    <3>. QED  BY <1>1, <2>2, <3>1
  <2>4. at \in Nat \ {0} /\ at % 2 = 1 /\ param \in Nat
    BY <1>1, <2>1
  <2>5. Before("--formats") \cup Before("--problems") = {}
    BY <1>3
  <2>. QED  BY <1>3, <2>3, <2>4, <2>5 DEF OptionsInv
<1>. QED  BY <1>1, <1>2, <1>4 DEF PInv, Phases

(* The options keep the invariant.                                          *)
LEMMA OptionsStep ==
  ASSUME argv \in Seq(STRING \ {Unset, NULL}), disk \in Disks, Phases, CmdNext, UNCHANGED <<load, shot>>
  PROVE  Phases'
<1>1. pc = "options" /\ OptionsInv /\ row = 1 /\ printed = << >> /\ argv \in Seq(STRING \ {Unset, NULL}) /\ disk \in Disks
  BY DEF Phases, CmdNext, ReadOption, InfoOption, AdditionalOption, OptionsRead
<1>2. UNCHANGED <<disk, row, printed>>
  BY DEF load, shot
<1>3. CASE ReadOption \/ AdditionalOption
  <2>1. UNCHANGED <<argv, pc>> /\ OptionsInv'
    BY <1>1, <1>3, ReadOptionKeeps, AdditionalOptionKeeps DEF ReadOption, AdditionalOption
  <2>. QED  BY <1>1, <1>2, <2>1 DEF Phases
<1>4. CASE InfoOption
  <2>1. ~WellAsked /\ UNCHANGED argv /\ pc' = "info"
    BY <1>1, <1>4, InfoOptionAsked DEF InfoOption, cmd
  <2>2. ~WellAsked'
    BY <1>2, <2>1, InputKept
  <2>. QED  BY <1>1, <1>2, <2>1, <2>2 DEF Phases
<1>5. CASE OptionsRead
  <2>1. UNCHANGED <<argv, task>>
    BY <1>5 DEF OptionsRead, cmd
  <2>2. (WellAsked' <=> WellAsked)
    BY <1>2, <2>1, InputKept
  <2>3. "track" \in DOMAIN task
    BY <1>1 DEF OptionsInv
  <2>4. CASE pc' = "open" /\ AskedInv' /\ task'.track = Given("-p")'
    BY <1>1, <1>2, <2>1, <2>3, <2>4 DEF Phases, Asking
  <2>5. CASE pc' \in {"info", "undefined"} /\ ~WellAsked
    BY <1>1, <1>2, <2>1, <2>2, <2>5 DEF Phases
  <2>. QED  BY <1>1, <1>5, <2>4, <2>5, OptionsReadSpec
<1>. QED  BY <1>3, <1>4, <1>5 DEF CmdNext

(* The readers keep the invariant.                                          *)
LEMMA LoadStep ==
  ASSUME argv \in Seq(STRING \ {Unset, NULL}), disk \in Disks, ~Misread, Phases, LoadNext, UNCHANGED shot
  PROVE  Phases'
<1>1. /\ argv \in Seq(STRING \ {Unset, NULL}) /\ disk \in Disks /\ UNCHANGED <<argv, task, disk, printed>>
      /\ pc \in {"open", "arguments", "attacks", "argument"}
  BY DEF Phases, LoadNext, CannotRead, OpenTgf, OpenI23, SkipLine, ReadArgument, SwitchSection, NoSeparator, ReadAttack,
         FileRead, UpdateArg, cmd, load, shot
<1>2. Asking /\ Asking'
  <2>1. Given("-p")' = Given("-p")
    BY <1>1, InputKept
  <2>. QED  BY <1>1, <2>1 DEF Phases, Asking
<1>3. (WellAsked' <=> WellAsked) /\ (Overfull' <=> Overfull)
  BY <1>1, InputKept
<1>4. CASE CannotRead
  BY <1>1, <1>3, <1>4, CannotReadSpec DEF Phases, CannotRead
<1>5. CASE OpenTgf
  <2>1. pc = "open" /\ pc' = "arguments"
    BY <1>5 DEF OpenTgf
  <2>. QED  BY <1>1, <1>2, <1>5, <2>1, OpenTgfSpec DEF Phases
<1>6. CASE OpenI23
  <2>1. pc = "open" /\ pc' = "attacks"
    BY <1>6 DEF OpenI23
  <2>. QED  BY <1>1, <1>2, <1>6, <2>1, OpenI23Spec DEF Phases
<1>7. CASE SkipLine \/ ReadArgument \/ SwitchSection \/ NoSeparator \/ ReadAttack
  <2>1. pc \in {"arguments", "attacks"} /\ ReadingInv
    BY <1>7 DEF Phases, SkipLine, ReadArgument, SwitchSection, NoSeparator, ReadAttack
  <2>2. \/ ReadingInv' /\ pc' \in {"arguments", "attacks"}
        \/ pc' = "undefined" /\ Overfull
    <3>1. CASE SkipLine
      BY <2>1, <3>1, SkipLineSpec DEF SkipLine
    <3>2. CASE ReadArgument
      BY <2>1, <3>2, ReadArgumentSpec
    <3>3. CASE SwitchSection
      BY <2>1, <3>3, SwitchSectionSpec DEF SwitchSection
    <3>4. CASE NoSeparator
      BY <2>1, <3>4, NoSeparatorSpec
    <3>5. CASE ReadAttack
      BY <2>1, <3>5, ReadAttackSpec
    <3>. QED  BY <1>7, <3>1, <3>2, <3>3, <3>4, <3>5
  <2>3. CASE ReadingInv' /\ pc' \in {"arguments", "attacks"}
    BY <1>2, <2>3 DEF Phases
  <2>4. CASE pc' = "undefined" /\ Overfull
    BY <1>3, <2>4 DEF Phases
  <2>. QED  BY <2>2, <2>3, <2>4
<1>8. CASE FileRead
  <2>1. pc = "attacks" /\ pc' = "argument" /\ ReadingInv
    BY <1>8 DEF Phases, FileRead
  <2>. QED  BY <1>1, <1>2, <1>8, <2>1, FileReadSpec DEF Phases
<1>9. CASE UpdateArg
  <2>1. pc = "argument" /\ LoadedInv /\ task.track = Given("-p") /\ UNCHANGED aaf
    BY <1>2, <1>9 DEF Phases, UpdateArg, Asking
  <2>2. CASE pc' = "undefined" /\ ~WellAsked
    BY <1>1, <1>3, <2>2 DEF Phases
  <2>3. CASE pc' = "ground" /\ WellAsked /\ (Query => arg' = IdOf(Given("-a")) /\ arg' \in Arg)
    <3>1. LoadedInv'
      BY <1>1, <2>1, LoadedKept
    <3>2. /\ UNCHANGED <<Attacks, Query>> /\ IdOf(Given("-a"))' = IdOf(Given("-a"))
          /\ [i \in Arg |-> NameOf(i)]' = [i \in Arg |-> NameOf(i)]
      <4>1. /\ UNCHANGED <<Attacks, Query>> /\ Given("-a")' = Given("-a")
            /\ \A i : NameOf(i)' = NameOf(i) /\ IdOf(i)' = IdOf(i)
        BY <1>1, InputKept
      <4>. QED  BY <4>1
    <3>3. /\ Relation = Attacks /\ aaf.ids2arguments = [i \in Arg |-> NameOf(i)] /\ aaf.number_of_arguments = N
          /\ \A b \in Arg : Len(aaf.parents[b]) = Cardinality(RowsOn(b))
      BY <2>1, LoadedAttacks DEF Frames
    <3>4. Relation' = Relation /\ \A b : RowsOn(b)' = RowsOn(b)
      BY <1>1, <2>1, InputKept DEF Relation, RowsOn
    <3>5. InputInv'
      BY <1>1, <1>3, <2>1, <2>3, <3>2, <3>3, <3>4 DEF InputInv
    <3>6. RunInv'
      BY <1>2, <2>3, <3>1, <3>5 DEF RunInv
    <3>. QED  BY <1>1, <2>3, <3>6 DEF Phases
  <2>. QED  BY <1>9, <2>1, <2>2, <2>3, UpdateArgSpec
<1>. QED  BY <1>4, <1>5, <1>6, <1>7, <1>8, <1>9 DEF LoadNext

(* The driver and the functions for the tasks keep the invariant.           *)
LEMMA TaskStep ==
  ASSUME argv \in Seq(STRING \ {Unset, NULL}), disk \in Disks, Phases, SingleShotNext \/ DriverNext
  PROVE  Phases'
<1>1. pc \in {"ground", "shortcut", "solve", "first call", "check", "second call"}
  <2>1. CASE SingleShotNext
    BY <2>1 DEF SingleShotNext, Encode, Solve, CheckGrounded, SolveAgain
  <2>2. CASE DriverNext
    BY <2>2 DEF DriverNext, OtherSize, UnknownTask, Overrun, ComputeGrounded, PrintGrounded, AnswerFromGrounded, YesCredulous, NoCredulous,
                YesSkeptical, NoSkeptical, DoSolve, SolveSearch, SolveIdealQuery, SolveEnumeration,
                SolveCounting, SolveDsPr, SolveRangeGrounded, SolveRangeQuery, StageAbort
  <2>. QED  BY <2>1, <2>2
<1>2. RunInv
  BY <1>1 DEF Phases
<1>3. ASSUME ~Overrun
      PROVE  RunInv'
  <2>1. CASE SingleShotNext
    BY <1>2, <2>1, EncodeRuns, SolveRuns, CheckGroundedRuns, SolveAgainRuns DEF SingleShotNext
  <2>2. CASE ComputeGrounded \/ PrintGrounded \/ AnswerFromGrounded \/ YesCredulous \/ NoCredulous
               \/ YesSkeptical \/ NoSkeptical \/ DoSolve
    BY <1>2, <2>2, ComputeGroundedRuns, PrintGroundedRuns, AnswerFromGroundedRuns, YesCredulousRuns,
       NoCredulousRuns, YesSkepticalRuns, NoSkepticalRuns, DoSolveRuns
  <2>3. CASE SolveSearch \/ SolveIdealQuery \/ SolveEnumeration \/ SolveCounting \/ SolveDsPr
               \/ SolveRangeGrounded \/ SolveRangeQuery \/ StageAbort \/ UnknownTask
    BY <1>2, <2>3, UnknownTaskRuns, SolveSearchRuns, SolveIdealQueryRuns, SolveEnumerationRuns, SolveCountingRuns,
       SolveDsPrRuns, SolveRangeGroundedRuns, SolveRangeQueryRuns, StageAbortRuns
  <2>4. ~OtherSize
    <3>1. SUFFICES ASSUME OtherSize PROVE FALSE
      OBVIOUS
    <3>. QED  BY <1>2, <3>1 DEF OtherSize, RunInv, InputInv, N
  <2>. QED  BY <1>3, <2>1, <2>2, <2>3, <2>4 DEF DriverNext
<1>4. CASE Overrun
  <2>1. Overfull /\ pc' = "undefined" /\ UNCHANGED <<argv, disk>>
    BY <1>2, <1>4, OverrunSpec DEF Overrun, state, cmd, load
  <2>2. Overfull'
    BY <2>1, InputKept
  <2>. QED  BY <2>1, <2>2 DEF Phases
<1>5. CASE ~Overrun
  BY <1>3, <1>5 DEF Phases, RunInv
<1>. QED  BY <1>4, <1>5

(* The fields stay as the command line set them.                            *)
LEMMA OptionsKept ==
  ASSUME UNCHANGED cmd
  PROVE  OptionsInv' <=> OptionsInv
<1>1. /\ UNCHANGED <<argv, at, task, param>>
      /\ \A o : Places(o)' = Places(o)
  BY DEF cmd, Places
<1>2. \A o : Before(o)' = Before(o)
  BY <1>1 DEF Before
<1>3. \A o, S : Value(o, S)' = Value(o, S)
  BY <1>1 DEF Value, Token
<1>4. \A o : Value(o, Before(o))' = Value(o, Before(o))
  BY <1>1, <1>2 DEF Value, Token
<1>. QED  BY <1>1, <1>2, <1>4 DEF OptionsInv

(* The framework read so far stays that of the rows.                        *)
LEMMA ReadingKept ==
  ASSUME ReadingInv, UNCHANGED <<cmd, load, pc>>
  PROVE  ReadingInv'
<1>1. UNCHANGED <<argv, task, disk, row, aaf, pc>>
  BY DEF cmd, load
<1>2. /\ (FileInv <=> FileInv')
      /\ \A r : NamesBefore(r)' = NamesBefore(r) /\ Rank(r)' = Rank(r) /\ AttacksRead(r)' = AttacksRead(r)
      /\ (AsMeant' <=> AsMeant) /\ (NamesOK' <=> NamesOK)
      /\ UNCHANGED <<InTgf, Content>>
      /\ \A h : (TgfShape(h)' <=> TgfShape(h)) /\ (I23Shape(h)' <=> I23Shape(h))
      /\ \A i : NameOf(i)' = NameOf(i)
  BY <1>1, FileKept
<1>4. FrameInv(row)' <=> FrameInv(row)
  <2>1. [i \in Arg |-> NameOf(i)]' = [i \in Arg |-> NameOf(i)]
    BY <1>2
  <2>2. AttacksRead(row)' = AttacksRead(row)
    BY <1>1, <1>2 DEF AttacksRead
  <2>. QED  BY <1>1, <2>1, <2>2 DEF FrameInv
<1>5. NamesBefore(row)' = NamesBefore(row)
  BY <1>1, <1>2 DEF NamesBefore
<1>6. \A n : ArgumentsInv(n)' <=> ArgumentsInv(n)
  BY <1>1, <1>2, <1>5 DEF ArgumentsInv, IsArray
<1>. QED  BY <1>1, <1>2, <1>4, <1>6 DEF ReadingInv

(* A run that has ended stays as it is.                                     *)
LEMMA RunKept ==
  ASSUME RunInv, UNCHANGED vars
  PROVE  RunInv'
<1>1. UNCHANGED <<argv, task, load, disk, arg, aaf, grounded, solver, printed, pc>>
  BY DEF vars, state, cmd, load, shot
<1>2. CASE pc = "ground"
  <2>1. InputInv /\ LoadedInv /\ Asking
    BY <1>2 DEF RunInv
  <2>2. InputInv'
    BY <1>1, <2>1, InputStays
  <2>3. LoadedInv'
    BY <1>1, <2>1, LoadedKept
  <2>4. Asking'
    BY <1>1, <2>1, AnswersKept DEF Asking
  <2>. QED  BY <1>1, <1>2, <2>2, <2>3, <2>4 DEF RunInv
<1>3. CASE pc # "ground"
  <2>1. /\ InputInv' /\ GroundedInv' /\ (\A ls : AnswersTask(ls)' <=> AnswersTask(ls))
        /\ Given("-p")' = Given("-p") /\ Attacks' = Attacks
    BY <1>1, <1>3, RunStays
  <2>2. (Asking' <=> Asking) /\ (Unsettled' <=> Unsettled)
    BY <1>1, <2>1 DEF Asking, Unsettled
  <2>3. Witnessing' <=> Witnessing
    BY <1>1, <2>1 DEF Witnessing
  <2>4. SolverInv' <=> SolverInv
    BY <1>1, <2>1, <2>2 DEF SolverInv
  <2>5. AnswersTask(printed)' <=> AnswersTask(printed)
    <3>1. printed' = printed /\ (AnswersTask(printed)' <=> AnswersTask(printed'))
      BY <1>1, AnswersKept
    <3>. QED  BY <3>1
  <2>. QED  BY <1>1, <1>3, <2>1, <2>2, <2>3, <2>4, <2>5 DEF RunInv
<1>. QED  BY <1>2, <1>3

(* A step that changes nothing keeps the invariant.                         *)
LEMMA StutterStep ==
  ASSUME argv \in Seq(STRING \ {Unset, NULL}), disk \in Disks, Phases, UNCHANGED vars
  PROVE  Phases'
<1>1. UNCHANGED <<argv, task, cmd, load, disk, row, arg, aaf, grounded, solver, printed, pc>>
  BY DEF vars, state, cmd, load, shot
<1>2. /\ OptionsInv' <=> OptionsInv
      /\ AskedInv' <=> AskedInv
      /\ ReadingInv => ReadingInv'
      /\ LoadedInv => LoadedInv'
      /\ RunInv => RunInv'
      /\ (WellAsked' <=> WellAsked) /\ (Overfull' <=> Overfull)
      /\ Asking' <=> Asking
  <2>1. (OptionsInv' <=> OptionsInv) /\ (AskedInv' <=> AskedInv)
    BY <1>1, OptionsKept, FileKept
  <2>2. (ReadingInv => ReadingInv') /\ (LoadedInv => LoadedInv') /\ (RunInv => RunInv')
    BY <1>1, ReadingKept, LoadedKept, RunKept
  <2>3. (WellAsked' <=> WellAsked) /\ (Overfull' <=> Overfull) /\ Given("-p")' = Given("-p")
    BY <1>1, InputKept
  <2>4. Asking' <=> Asking
    BY <1>1, <2>3 DEF Asking
  <2>. QED  BY <2>1, <2>2, <2>3, <2>4
<1>. QED  BY <1>1, <1>2 DEF Phases

(* The command line and the disk stay as they are.                          *)
LEMMA InputNeverChanges ==
  ASSUME [Next]_vars
  PROVE  UNCHANGED <<argv, disk>>
<1>1. CASE CmdNext /\ UNCHANGED <<load, shot>>
  BY <1>1 DEF CmdNext, ReadOption, InfoOption, AdditionalOption, OptionsRead, cmd, load
<1>2. CASE LoadNext
  BY <1>2 DEF LoadNext, CannotRead, OpenTgf, OpenI23, SkipLine, ReadArgument, SwitchSection, NoSeparator,
              ReadAttack, FileRead, UpdateArg, cmd, load
<1>3. CASE SingleShotNext
  BY <1>3 DEF SingleShotNext, Encode, Solve, CheckGrounded, SolveAgain, cmd, load
<1>4. CASE DriverNext
  <2>1. ASSUME NEW ls, Finish(ls) \/ SearchWitness(ls)
        PROVE  UNCHANGED <<argv, disk>>
    BY <2>1 DEF Finish, SearchWitness, cmd, load
  <2>2. CASE OtherSize \/ ComputeGrounded \/ DoSolve \/ Overrun \/ StageAbort
    BY <2>2 DEF OtherSize, ComputeGrounded, DoSolve, Overrun, StageAbort, state, cmd, load
  <2>3. CASE PrintGrounded \/ AnswerFromGrounded \/ YesCredulous \/ NoCredulous \/ YesSkeptical
               \/ NoSkeptical \/ UnknownTask
    BY <2>1, <2>3 DEF PrintGrounded, AnswerFromGrounded, YesCredulous, NoCredulous, YesSkeptical,
                      NoSkeptical, UnknownTask
  <2>4. CASE SolveSearch \/ SolveIdealQuery \/ SolveEnumeration \/ SolveCounting \/ SolveDsPr
               \/ SolveRangeGrounded \/ SolveRangeQuery
    BY <2>1, <2>4 DEF SolveSearch, SolveIdealQuery, SolveEnumeration, SolveCounting, SolveDsPr,
                      SolveRangeGrounded, SolveRangeQuery
  <2>. QED  BY <1>4, <2>2, <2>3, <2>4 DEF DriverNext
<1>5. CASE Exit \/ UNCHANGED vars
  BY <1>5 DEF Exit, vars, state, cmd, load
<1>. QED  BY <1>1, <1>2, <1>3, <1>4, <1>5 DEF Next

(* The invariant of the whole run.                                          *)
LEMMA RunPInv == Spec => []PInv
<1>1. Init => PInv
  BY InitPInv
<1>2. ASSUME PInv, [Next]_vars
      PROVE  PInv'
  <2>1. argv' \in Seq(STRING \ {Unset, NULL}) /\ disk' \in Disks /\ (Misread' <=> Misread)
    BY <1>2, InputNeverChanges, InputKept DEF PInv
  <2>2. ASSUME ~Misread
        PROVE  Phases'
    <3>1. argv \in Seq(STRING \ {Unset, NULL}) /\ disk \in Disks /\ Phases
      BY <1>2, <2>2 DEF PInv
    <3>2. CASE CmdNext /\ UNCHANGED <<load, shot>>
      BY <3>1, <3>2, OptionsStep
    <3>3. CASE LoadNext /\ UNCHANGED shot
      BY <2>2, <3>1, <3>3, LoadStep
    <3>4. CASE SingleShotNext \/ DriverNext
      BY <3>1, <3>4, TaskStep
    <3>5. CASE Exit \/ UNCHANGED vars
      BY <3>1, <3>5, StutterStep DEF Exit
    <3>. QED  BY <1>2, <3>2, <3>3, <3>4, <3>5 DEF Next
  <2>. QED  BY <2>1, <2>2 DEF PInv
<1>. QED  BY <1>1, <1>2, PTL DEF Spec

(* The readers hand the grounded computation exactly the framework of the   *)
(* file (taas__readFile in src/taas/taas_basics.c): names, both lists with  *)
(* their repetitions, counters, bit sets, and the walk over the unattacked  *)
(* arguments, whatever the length of a word.                                *)
THEOREM LoadedCorrectly == Spec => []LoadedExact
<1>1. PInv => LoadedExact
  <2>1. CASE pc = "ground" /\ ~Misread
    BY <2>1, LoadedIsExact DEF PInv, Phases, RunInv, InputInv
  <2>2. CASE pc = "ground" /\ Misread
    BY <2>2 DEF LoadedExact, Misread
  <2>3. CASE pc # "ground"
    BY <2>3 DEF LoadedExact
  <2>. QED  BY <2>1, <2>2, <2>3
<1>. QED  BY <1>1, RunPInv, PTL

(* From the command line to the answer (main in src/taas-fudge.cpp):        *)
(* whatever the file, its size and the task, a run that ends with an answer *)
(* was properly asked and prints what the task asks for, or it has read a   *)
(* file of the other format; a proper call is never left without an answer  *)
(* unless the file has more than the buffers hold.                          *)
THEOREM ProgramCorrect == Spec => []AnswerCorrect
<1>1. PInv => AnswerCorrect
  <2>1. Misread => ~WellAsked
    BY DEF Misread, WellAsked
  <2>. QED  BY <2>1 DEF PInv, Phases, RunInv, InputInv, AnswerCorrect
<1>. QED  BY <1>1, RunPInv, PTL

=============================================================================
