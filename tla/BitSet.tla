------------------------------- MODULE BitSet -------------------------------
(***************************************************************************)
(* The bit sets of src/util/bitset.c.  A word is the set of the positions  *)
(* of its ones; a bit set has one word more than its length fills, and the *)
(* bits from length on are there, hold anything, and may be ones.          *)
(***************************************************************************)
EXTENDS Integers, Sequences

CONSTANT WORD_BITS      \* 32 in the program

ASSUME WordAssumption == WORD_BITS \in Nat \ {0}

Word == SUBSET (0 .. WORD_BITS - 1)

num_elements(length) == (length \div WORD_BITS) + 1

(* bitset__init: the words are whatever malloc returns. *)
BitSets(length) ==
  [length : {length}, data : [0 .. num_elements(length) - 1 -> Word]]

WordsOf(s) == DOMAIN s.data

bitset__get(s, idx) == idx % WORD_BITS \in s.data[idx \div WORD_BITS]

(* A name with a suffix is the same definition with a slip in it; no        *)
(* specification uses it, the properties are tried against it.              *)
bitset__unset_NextWord(s, idx) ==
  [s EXCEPT !.data[(idx + 1) \div WORD_BITS] = @ \ {idx % WORD_BITS}]

bitset__set(s, idx) ==
  [s EXCEPT !.data[idx \div WORD_BITS] = @ \cup {idx % WORD_BITS}]
bitset__unset(s, idx) ==
  [s EXCEPT !.data[idx \div WORD_BITS] = @ \ {idx % WORD_BITS}]

bitset__setAll(s)   == [s EXCEPT !.data = [w \in WordsOf(s) |-> 0 .. WORD_BITS - 1]]
bitset__unsetAll(s) == [s EXCEPT !.data = [w \in WordsOf(s) |-> {}]]

(* Of the places from j on, the first that is a one or not below the bounds;*)
(* a scan reads the bit before it compares, so the place must exist.        *)
ScanFrom(s, j, bound) ==
  CHOOSE k \in j .. j + bound + s.length :
    /\ k >= bound \/ k >= s.length \/ bitset__get(s, k)
    /\ \A l \in j .. k - 1 : l < bound /\ l < s.length /\ ~bitset__get(s, l)

(* Skip the words that are zero. *)
NonZeroWords(s, w) == {v \in WordsOf(s) : v >= w /\ s.data[v] # {}}
FirstOf(S) == CHOOSE v \in S : \A u \in S : v <= u

(* The next one in a later word than w. *)
InLaterWord(s, w) ==
  IF NonZeroWords(s, w + 1) = {} THEN -1
  ELSE LET start == FirstOf(NonZeroWords(s, w + 1)) * WORD_BITS
           j     == ScanFrom(s, start, s.length)
       IN  IF j >= s.length THEN -1 ELSE j

bitset__next_set_bit(s, idx) ==
  LET elem == idx \div WORD_BITS
      next == (elem + 1) * WORD_BITS
      j    == ScanFrom(s, idx, next)
  IN  IF s.data[elem] = {} THEN InLaterWord(s, elem)
      ELSE IF j >= s.length THEN -1
      ELSE IF j < next THEN j
      ELSE InLaterWord(s, elem)

(* for(a = next_set_bit(s,0); a != -1; a = next_set_bit(s,a+1)) *)
WalkOf(s) ==
  LET from[k \in 0 .. s.length] ==
        LET a == bitset__next_set_bit(s, k)
        IN  IF a = -1 THEN << >> ELSE <<a>> \o from[a + 1]
  IN  from[0]

=============================================================================
