--------------------------- MODULE ComponentProofs ----------------------------
(***************************************************************************)
(* Three components that share no state: the random access set, for every  *)
(* capacity; the counting loops, for every set of arguments and family of  *)
(* attack relations; and the computation of the grounded labelling, for    *)
(* every set of arguments and family of attack lines.                      *)
(***************************************************************************)
EXTENDS RaSet, Counting, Grounded, EncodingProofs, FunctionTheorems,
        SequenceTheorems

-----------------------------------------------------------------------------

(* The random access set.                                                   *)

(* Each member has a place and is found there; conversely each place in use *)
(* holds a member that has it for its place.  The number of elements is     *)
(* theirs, so an array that lacks an element has a free place.              *)
PlacesExact ==
  /\ \A e \in elements : /\ elements_arr_inverted[e] < number_of_elements
                         /\ elements_arr[elements_arr_inverted[e]] = e
  /\ \A i \in Places : /\ elements_arr[i] \in elements
                       /\ elements_arr_inverted[elements_arr[i]] = i

SetInv ==
  /\ RaSetTypeOK
  /\ PlacesExact
  /\ number_of_elements = Cardinality(elements)

-----------------------------------------------------------------------------
LEMMA Finiteness ==
  ASSUME NEW S \in SUBSET Element
  PROVE  /\ IsFiniteSet(S)
         /\ Cardinality(S) \in 0 .. max_number_of_elements
         /\ S # Element => Cardinality(S) < max_number_of_elements
<1>1. IsFiniteSet(Element) /\ Cardinality(Element) = max_number_of_elements
  BY MaxAssumption, FS_Interval, 0 \in Int, max_number_of_elements - 1 \in Int DEF Element
<1>2. /\ IsFiniteSet(S)
      /\ Cardinality(S) <= Cardinality(Element)
      /\ Cardinality(S) = Cardinality(Element) => S = Element
  BY <1>1, FS_Subset
<1>3. Cardinality(S) \in Nat
  BY <1>2, FS_CardinalityType
<1> QED
  BY <1>1, <1>2, <1>3, MaxAssumption

LEMMA InitSetInv == RaSetInit => SetInv
<1> SUFFICES ASSUME RaSetInit PROVE SetInv
  OBVIOUS
<1>1. number_of_elements = Cardinality(elements)
  BY FS_EmptySet DEF RaSetInit
<1>2. RaSetTypeOK
  <2>1. number_of_elements \in 0 .. max_number_of_elements
    BY MaxAssumption DEF RaSetInit
  <2>2. modified \in BOOLEAN
    BY DEF RaSetInit
  <2>3. /\ elements \in SUBSET Element
        /\ elements_arr \in [Element -> Element]
        /\ elements_arr_inverted \in [Element -> Element]
    BY DEF RaSetInit
  <2> QED
    BY <2>1, <2>2, <2>3 DEF RaSetTypeOK
<1>3. PlacesExact
  BY DEF RaSetInit, PlacesExact, Places, Element
<1> QED
  BY <1>1, <1>2, <1>3 DEF SetInv

(* A new element takes the first free place. *)
LEMMA AddSetInv ==
  ASSUME SetInv, NEW e \in Element, e \notin elements, raset__add(e)
  PROVE  SetInv'
<1>1. /\ elements' = elements \cup {e}
      /\ elements_arr' = [elements_arr EXCEPT ![number_of_elements] = e]
      /\ elements_arr_inverted' = [elements_arr_inverted EXCEPT ![e] = number_of_elements]
      /\ number_of_elements' = number_of_elements + 1
      /\ modified' = TRUE
  BY DEF raset__add, Present
<1>2. number_of_elements \in Element /\ number_of_elements + 1 \in 0 .. max_number_of_elements
  <2>1. elements \in SUBSET Element /\ elements # Element
    BY DEF SetInv, RaSetTypeOK
  <2>2. Cardinality(elements) \in 0 .. max_number_of_elements
        /\ Cardinality(elements) < max_number_of_elements
    BY <2>1, Finiteness
  <2> QED
    BY <2>2, MaxAssumption DEF SetInv, Element
<1>3. number_of_elements' = Cardinality(elements')
  <2>1. IsFiniteSet(elements)
    BY Finiteness DEF SetInv, RaSetTypeOK
  <2> QED
    BY <1>1, <2>1, FS_AddElement DEF SetInv
<1>4. RaSetTypeOK'
  BY <1>1, <1>2 DEF SetInv, RaSetTypeOK
<1>5. PlacesExact'
  BY <1>1, <1>2 DEF SetInv, RaSetTypeOK, PlacesExact, Places, Element
<1> QED
  BY <1>3, <1>4, <1>5 DEF SetInv

(* The member of the last place moves to the place that falls free. *)
LEMMA RemoveSetInv ==
  ASSUME SetInv, NEW e \in elements, raset__remove(e)
  PROVE  SetInv'
<1> DEFINE place == elements_arr_inverted[e]
           last  == elements_arr[number_of_elements - 1]
<1>1. /\ number_of_elements \in Nat /\ 0 < number_of_elements
      /\ number_of_elements <= max_number_of_elements
      /\ place \in Element /\ place < number_of_elements
      /\ e \in Element /\ elements_arr[place] = e
      /\ number_of_elements - 1 \in Element
      /\ last \in elements /\ elements_arr_inverted[last] = number_of_elements - 1
  <2>1. number_of_elements \in 0 .. max_number_of_elements /\ e \in Element
        /\ place \in Element /\ place < number_of_elements /\ elements_arr[place] = e
    BY DEF SetInv, RaSetTypeOK, PlacesExact
  <2>2. number_of_elements - 1 \in Places
    BY <2>1, MaxAssumption DEF Places, Element
  <2> QED
    BY <2>1, <2>2, MaxAssumption DEF SetInv, PlacesExact, Places, Element
<1>2. /\ elements' = elements \ {e}
      /\ number_of_elements' = number_of_elements - 1
      /\ elements_arr' = [elements_arr EXCEPT ![place] = last]
      /\ elements_arr_inverted' = [elements_arr_inverted EXCEPT ![last] = place]
      /\ modified' = TRUE
  BY <1>1 DEF raset__remove, Present, SetInv, RaSetTypeOK
<1>3. number_of_elements' = Cardinality(elements')
  <2>1. IsFiniteSet(elements)
    BY Finiteness DEF SetInv, RaSetTypeOK
  <2> QED
    BY <1>2, <2>1, FS_RemoveElement DEF SetInv
<1>4. RaSetTypeOK'
  <2>1. last \in Element /\ number_of_elements - 1 \in 0 .. max_number_of_elements
    BY <1>1, MaxAssumption DEF SetInv, RaSetTypeOK
  <2> QED
    BY <1>1, <1>2, <2>1 DEF SetInv, RaSetTypeOK
<1>5. PlacesExact'
  <2>1. ASSUME NEW d \in elements'
        PROVE  /\ elements_arr_inverted'[d] < number_of_elements'
               /\ elements_arr'[elements_arr_inverted'[d]] = d
    <3>1. d \in elements /\ d # e /\ d \in Element /\ elements_arr_inverted[d] \in Element
          /\ elements_arr_inverted[d] < number_of_elements
          /\ elements_arr[elements_arr_inverted[d]] = d
      BY <1>2, <2>1 DEF SetInv, RaSetTypeOK, PlacesExact
    <3>2. CASE d = last
      BY <1>1, <1>2, <3>1, <3>2 DEF SetInv, RaSetTypeOK, Element
    <3>3. CASE d # last
      <4>1. elements_arr_inverted'[d] = elements_arr_inverted[d]
        BY <1>1, <1>2, <3>1, <3>3 DEF SetInv, RaSetTypeOK
      <4>2. elements_arr_inverted[d] # place /\ elements_arr_inverted[d] # number_of_elements - 1
        BY <1>1, <3>1, <3>3
      <4> QED
        BY <1>1, <1>2, <3>1, <4>1, <4>2 DEF SetInv, RaSetTypeOK, Element
    <3> QED
      BY <3>2, <3>3
  <2>2. ASSUME NEW i \in Places'
        PROVE  /\ elements_arr'[i] \in elements'
               /\ elements_arr_inverted'[elements_arr'[i]] = i
    <3>1. i \in Places /\ i \in Element /\ i # number_of_elements - 1
          /\ elements_arr[i] \in elements /\ elements_arr_inverted[elements_arr[i]] = i
      BY <1>1, <1>2, <2>2 DEF SetInv, PlacesExact, Places, Element
    <3>2. CASE i = place
      <4>1. elements_arr'[i] = last /\ last # e
        BY <1>1, <1>2, <3>1, <3>2 DEF SetInv, RaSetTypeOK
      <4> QED
        BY <1>1, <1>2, <3>2, <4>1 DEF SetInv, RaSetTypeOK
    <3>3. CASE i # place
      <4>1. elements_arr'[i] = elements_arr[i] /\ elements_arr[i] # e /\ elements_arr[i] # last
        BY <1>1, <1>2, <3>1, <3>3 DEF SetInv, RaSetTypeOK
      <4> QED
        BY <1>1, <1>2, <3>1, <4>1 DEF SetInv, RaSetTypeOK
    <3> QED
      BY <3>2, <3>3
  <2> QED
    BY <2>1, <2>2 DEF PlacesExact
<1> QED
  BY <1>3, <1>4, <1>5 DEF SetInv

LEMMA StepSetInv == SetInv /\ [RaSetNext]_raSetVars => SetInv'
<1> SUFFICES ASSUME SetInv, [RaSetNext]_raSetVars PROVE SetInv'
  OBVIOUS
<1>1. CASE raset__reset
  <2>1. Cardinality({}) = 0
    BY FS_EmptySet
  <2> QED
    BY <1>1, <2>1, MaxAssumption DEF raset__reset, SetInv, RaSetTypeOK, PlacesExact, Places, Element
<1>2. CASE UNCHANGED <<elements, number_of_elements, elements_arr, elements_arr_inverted>>
           /\ modified' \in BOOLEAN
  BY <1>2 DEF SetInv, RaSetTypeOK, PlacesExact, Places
<1>3. ASSUME NEW e \in Element, raset__add(e) PROVE SetInv'
  BY <1>2, <1>3, AddSetInv DEF raset__add, Present, NotModified
<1>4. ASSUME NEW e \in Element, raset__remove(e) PROVE SetInv'
  BY <1>2, <1>4, RemoveSetInv DEF raset__remove, Present, NotModified
<1>5. CASE UNCHANGED raSetVars
  BY <1>2, <1>5 DEF raSetVars, SetInv, RaSetTypeOK
<1> QED
  BY <1>1, <1>3, <1>4, <1>5 DEF RaSetNext

LEMMA SetInvariance == RaSetSpec => []SetInv
  BY InitSetInv, StepSetInv, PTL DEF RaSetSpec

-----------------------------------------------------------------------------
(* The array lists exactly the members of the bit set, each at the place    *)
(* the inverse array gives for it, whatever calls were made before.         *)
THEOREM ListIsExact == RaSetSpec => []ArrayListsElements
<1>1. SetInv => ArrayListsElements
  BY DEF SetInv, RaSetTypeOK, PlacesExact, ArrayListsElements, Listed, Places
<1> QED
  BY <1>1, SetInvariance, PTL

(* A removal leaves all other places below the new length as they are: the  *)
(* loops that remove while they walk miss no member but the one moved.      *)
THEOREM RemovalIsLocal == RaSetSpec => RemovalMovesOnlyLast
<1>1. SetInv /\ [RaSetNext]_raSetVars =>
        [\A e \in elements :
           elements' = elements \ {e} =>
             \A i \in Places :
               i < number_of_elements' /\ elements_arr[i] # e => elements_arr'[i] = elements_arr[i]]_raSetVars
  <2> SUFFICES ASSUME SetInv, RaSetNext, NEW e \in elements, elements' = elements \ {e},
                      NEW i \in Places, i < number_of_elements', elements_arr[i] # e
               PROVE  elements_arr'[i] = elements_arr[i]
    OBVIOUS
  <2>1. CASE raset__reset
    BY <2>1 DEF raset__reset
  <2>2. ASSUME NEW d \in Element, raset__add(d) PROVE elements_arr'[i] = elements_arr[i]
    BY <2>2 DEF raset__add, Present, NotModified
  <2>3. ASSUME NEW d \in Element, raset__remove(d) PROVE elements_arr'[i] = elements_arr[i]
    <3>1. CASE d \notin elements
      BY <2>3, <3>1 DEF raset__remove, Present, NotModified
    <3>2. CASE d \in elements
      <4>1. d = e /\ elements_arr_inverted[e] # i
        BY <2>3, <3>2 DEF raset__remove, Present, SetInv, PlacesExact
      <4> QED
        BY <2>3, <3>2, <4>1 DEF raset__remove, Present, SetInv, RaSetTypeOK, Places
    <3> QED
      BY <3>1, <3>2
  <2> QED
    BY <2>1, <2>2, <2>3 DEF RaSetNext
<1> QED
  BY <1>1, SetInvariance, PTL DEF RaSetSpec, RemovalMovesOnlyLast

(* Seen through its array, a random access set is a set. *)
THEOREM RefinesSet == RaSetSpec => ImplementsSet
<1>1. SetInv => Listed = elements
  BY DEF SetInv, RaSetTypeOK, PlacesExact, Listed, Places
<1>2. (SetInv => Listed = elements)'
  BY DEF SetInv, RaSetTypeOK, PlacesExact, Listed, Places
<1>3. SetInv /\ RaSetInit => Promise!Init
  BY <1>1 DEF RaSetInit, Promise!Init
<1>4. SetInv /\ SetInv' /\ [RaSetNext]_raSetVars => [Promise!Next]_(Promise!vars)
  <2> SUFFICES ASSUME SetInv, SetInv', [RaSetNext]_raSetVars PROVE [Promise!Next]_(Promise!vars)
    OBVIOUS
  <2>1. Listed = elements /\ Listed' = elements'
    BY <1>1, <1>2
  <2>2. CASE raset__reset
    BY <2>1, <2>2 DEF raset__reset, Promise!Next, Promise!Reset
  <2>3. ASSUME NEW e \in Element, raset__add(e) PROVE Promise!Add(e)
    BY <2>1, <2>3 DEF raset__add, Present, NotModified, Promise!Add
  <2>4. ASSUME NEW e \in Element, raset__remove(e) PROVE Promise!Remove(e)
    <3>1. CASE e \in elements
      BY <2>1, <2>4, <3>1 DEF raset__remove, Present, Promise!Remove
    <3>2. CASE e \notin elements
      <4>1. elements \ {e} = elements
        BY <3>2
      <4>2. elements' = elements /\ modified' = FALSE
        BY <2>4, <3>2 DEF raset__remove, Present, NotModified
      <4>3. Listed' = Listed \ {e}
        BY <2>1, <4>1, <4>2
      <4>4. (e \in Listed) = FALSE
        BY <2>1, <3>2
      <4> QED
        BY <4>2, <4>3, <4>4 DEF Promise!Remove
    <3> QED
      BY <3>1, <3>2
  <2>5. CASE UNCHANGED raSetVars
    BY <2>1, <2>5 DEF raSetVars, Promise!vars
  <2> QED
    BY <2>2, <2>3, <2>4, <2>5 DEF RaSetNext, Promise!Next
<1> QED
  BY <1>3, <1>4, InitSetInv, SetInvariance, PTL DEF RaSetSpec, ImplementsSet, Promise!Spec

-----------------------------------------------------------------------------

(* The counting loops: the number printed is the number of extensions.      *)

Base == BaseModels(track, relation, grounded)

(* The sets the solver can still give, and the extensions still to be       *)
(* counted: during a round of CE-PR the set in hand may be one.             *)
Ins  == {m.in : m \in solver.db}
Left == Extensions \cap (IF noFurther THEN Ins ELSE Ins \cup {admSet})

Total == IF track = "CE-PR" THEN Extensions \ {{}} ELSE Extensions

InputInv ==
  /\ track \in {"CE-ST", "CE-CO", "CE-PR"}
  /\ relation \in Frameworks
  /\ grounded \in Assignments
  /\ GroundedLabels(relation, grounded.in, grounded.out)

SolverInv ==
  /\ IF phase = "solve"
       THEN \E s \in SolverOver(Assignments) : solver = Assume(s, Pos("in", admSet))
       ELSE solver \in SolverOver(Assignments)
  /\ solver.db \subseteq Base
  /\ phase = "read" => solver.st = "SAT" /\ solver.val \in solver.db /\ admSet \subseteq solver.val.in

StateInv ==
  /\ admSet \in SUBSET Arg /\ noFurther \in BOOLEAN /\ cnt \in Nat
  /\ phase \in {"solve", "read", "round", "print"}
  /\ noFurther => admSet = {}
  /\ track # "CE-PR" => noFurther /\ phase # "round"
  /\ phase = "round" => \A m \in solver.db : ~(admSet \subseteq m.in)

CountInv ==
  /\ phase # "print" => cnt + Cardinality(Left) = Cardinality(Total)
  /\ phase = "print" => cnt = Cardinality(Extensions)

(* CE-PR: the solver keeps the sets above one it keeps, and above the set   *)
(* in hand, of which it gives no subset.                                    *)
GrowInv ==
  track = "CE-PR" =>
    /\ \A m \in solver.db : m.in # {}
    /\ \A m \in solver.db, n \in Base : m.in \subseteq n.in => n \in solver.db
    /\ ~noFurther =>
         /\ admSet # {}
         /\ \E m \in Base : m.in = admSet
         /\ \A m \in solver.db : ~(m.in \subseteq admSet)
         /\ \A n \in Base : admSet \subseteq n.in /\ n.in # admSet => n \in solver.db

NInv == InputInv /\ StateInv /\ SolverInv /\ CountInv /\ GrowInv

-----------------------------------------------------------------------------
(* Models and extensions.                                                   *)

LEMMA ExtensionsOf ==
  /\ Extensions \subseteq SUBSET Arg
  /\ track = "CE-ST" => \A S \in SUBSET Arg : S \in Extensions <=> Stable(relation, S)
  /\ track = "CE-CO" => \A S \in SUBSET Arg : S \in Extensions <=> Complete(relation, S)
  /\ track = "CE-PR" => \A S \in SUBSET Arg : S \in Extensions <=> Preferred(relation, S)
  BY DEF Extensions

LEMMA BaseOf ==
  /\ track = "CE-ST" => Base = StbModels(relation, grounded)
  /\ track = "CE-CO" => Base = ComModels(relation, grounded)
  /\ track = "CE-PR" => Base = AdmModels(relation, grounded)
  BY DEF Base, BaseModels

LEMMA BaseInAssignments ==
  ASSUME InputInv
  PROVE  Base \in SUBSET Assignments /\ \A m \in Base : m.in \in SUBSET Arg
<1>1. Base \in SUBSET Assignments
  BY BaseOf DEF InputInv, StbModels, ComModels, AdmModels, Assignments
<1> QED
  BY <1>1 DEF Assignments

LEMMA EveryExtensionHasModel ==
  ASSUME InputInv, NEW S \in Extensions
  PROVE  \E m \in Base : m.in = S
<1>1. S \in SUBSET Arg
  BY ExtensionsOf
<1>2. CASE track = "CE-ST"
  BY <1>1, <1>2, ExtensionsOf, BaseOf, StableHasModel DEF InputInv
<1>3. CASE track = "CE-CO"
  BY <1>1, <1>3, ExtensionsOf, BaseOf, CompleteHasModel DEF InputInv
<1>4. CASE track = "CE-PR"
  <2>1. [in |-> S, out |-> Attacked(relation, S)] \in Base
    BY <1>1, <1>4, ExtensionsOf, BaseOf, PreferredHasModel DEF InputInv
  <2> QED
    BY <2>1
<1> QED
  BY <1>2, <1>3, <1>4 DEF InputInv

(* For CE-ST and CE-CO every model gives an extension; two stable ones are  *)
(* not subsets of each other.                                               *)
LEMMA EveryModelIsExtension ==
  ASSUME InputInv, track # "CE-PR", NEW m \in Base
  PROVE  m.in \in Extensions
<1>1. m.in \in SUBSET Arg
  BY BaseInAssignments
<1>2. CASE track = "CE-ST"
  BY <1>1, <1>2, ExtensionsOf, BaseOf, StbModelIsStable DEF InputInv
<1>3. CASE track = "CE-CO"
  BY <1>1, <1>3, ExtensionsOf, BaseOf, ComModelIsComplete DEF InputInv
<1> QED
  BY <1>2, <1>3 DEF InputInv

LEMMA StableIncomparable ==
  ASSUME NEW R, NEW S \in SUBSET Arg, NEW T \in SUBSET Arg,
         Stable(R, S), Stable(R, T), S \subseteq T
  PROVE  S = T
<1>1. \A a \in T : a \notin Attacked(R, S)
  BY DEF Stable, ConflictFree, Attacked
<1>2. \A a \in Arg : a \in S \/ a \in Attacked(R, S)
  BY DEF Stable, RangeOf
<1> QED
  BY <1>1, <1>2

-----------------------------------------------------------------------------
(* Counting.                                                                *)

LEMMA ExtensionsFinite ==
  ASSUME NEW F \in SUBSET Extensions
  PROVE  IsFiniteSet(F) /\ Cardinality(F) \in Nat
<1>1. IsFiniteSet(SUBSET Arg)
  BY FiniteArgAssumption, FS_SUBSET
<1>2. F \subseteq SUBSET Arg
  BY ExtensionsOf
<1>3. IsFiniteSet(F)
  BY <1>1, <1>2, FS_Subset
<1> QED
  BY <1>3, FS_CardinalityType

LEMMA CountOne ==
  ASSUME NEW F \in SUBSET Extensions, NEW V \in F, NEW n \in Nat, NEW t,
         n + Cardinality(F) = t
  PROVE  (n + 1) + Cardinality(F \ {V}) = t
<1>1. IsFiniteSet(F) /\ Cardinality(F) \in Nat
  BY ExtensionsFinite
<1>2. Cardinality(F \ {V}) = Cardinality(F) - 1 /\ Cardinality(F \ {V}) \in Nat
  <2>1. Cardinality(F \ {V}) = Cardinality(F) - 1
    BY <1>1, FS_RemoveElement
  <2>2. F \ {V} \in SUBSET Extensions
    OBVIOUS
  <2>3. Cardinality(F \ {V}) \in Nat
    BY <2>2, ExtensionsFinite
  <2> QED
    BY <2>1, <2>3
<1> QED
  BY <1>1, <1>2

LEMMA CountNone == Cardinality({}) = 0
  BY FS_EmptySet

LEMMA NoSubsetSpec ==
  ASSUME NEW S \in SUBSET Arg, NEW m, m.in \subseteq Arg
  PROVE  Satisfies(m, NoSubset(S)) <=> ~(m.in \subseteq S)
<1>1. Satisfies(m, Pos("in", Arg \ S)) <=> \E a \in Arg \ S : a \in m["in"]
  BY SomeOf
<1> QED
  BY <1>1 DEF NoSubset

LEMMA DifferentSpec ==
  ASSUME NEW S \in SUBSET Arg, NEW m, m.in \subseteq Arg
  PROVE  Satisfies(m, Different(S)) <=> m.in # S
<1>1. Satisfies(m, Pos("in", Arg \ S)) <=> \E a \in Arg \ S : a \in m["in"]
  BY SomeOf
<1>2. Satisfies(m, Neg("in", S)) <=> \E a \in S : a \notin m["in"]
  <2>2. ASSUME NEW a PROVE Holds(m, <<"in", a, FALSE>>) <=> a \notin m["in"]
    <3>1. Holds(m, <<"in", a, FALSE>>) <=> (a \in m["in"]) = FALSE
      BY DEF Holds
    <3> QED
      BY <3>1
  <2>3. Satisfies(m, Neg("in", S)) <=> \E a \in S : Holds(m, <<"in", a, FALSE>>)
    BY DEF Satisfies, Neg
  <2> QED
    BY <2>2, <2>3
<1>3. Satisfies(m, Different(S)) <=> Satisfies(m, Pos("in", Arg \ S)) \/ Satisfies(m, Neg("in", S))
  BY DEF Satisfies, Different
<1> QED
  BY <1>1, <1>2, <1>3

-----------------------------------------------------------------------------
(* The steps.                                                               *)

LEMMA InputKept ==
  ASSUME InputInv, UNCHANGED input
  PROVE  /\ InputInv' /\ track' = track
         /\ Base' = Base /\ Extensions' = Extensions /\ Total' = Total
<1>1. track' = track /\ relation' = relation /\ grounded' = grounded
  BY DEF input
<1>2. Extensions' = Extensions
  BY <1>1 DEF Extensions
<1> QED
  BY <1>1, <1>2 DEF InputInv, Base, Total

LEMMA AssumeKeeps ==
  ASSUME NEW s \in SolverOver(Assignments), NEW ls
  PROVE  /\ Assume(s, ls).db = s.db
         /\ s = Assume(s, Pos("in", {}))
<1>1. Pos("in", {}) = {}
  BY DEF Pos
<1> QED
  BY <1>1 DEF Assume, SolverOver

LEMMA ExcludeSpec ==
  ASSUME InputInv, NEW s \in SolverOver(Assignments), s.db \subseteq Base, NEW S \in SUBSET Arg
  PROVE  /\ AddClause(s, NoSubset(S)) \in SolverOver(Assignments)
         /\ AddClause(s, NoSubset(S)).db = {m \in s.db : ~(m.in \subseteq S)}
         /\ AddClause(s, Different(S)) \in SolverOver(Assignments)
         /\ AddClause(s, Different(S)).db = {m \in s.db : m.in # S}
<1>1. \A m \in s.db : m.in \in SUBSET Arg
  BY BaseInAssignments
<1> DEFINE Kept1(m) == Satisfies(m, NoSubset(S))
           Kept2(m) == Satisfies(m, Different(S))
<1>2. /\ AddClause(s, NoSubset(S)) \in SolverOver(Assignments)
      /\ AddClause(s, NoSubset(S)).db = {m \in s.db : Kept1(m)}
      /\ AddClause(s, Different(S)) \in SolverOver(Assignments)
      /\ AddClause(s, Different(S)).db = {m \in s.db : Kept2(m)}
  BY AddClauseSpec
<1>3. \A m \in s.db : (Kept1(m) <=> ~(m.in \subseteq S)) /\ (Kept2(m) <=> m.in # S)
  BY <1>1, NoSubsetSpec, DifferentSpec
<1> HIDE DEF Kept1, Kept2
<1> QED
  BY <1>2, <1>3

LEMMA SolveKeeps ==
  ASSUME NInv, Solve
  PROVE  NInv'
<1>1. /\ UNCHANGED <<admSet, noFurther, cnt>> /\ UNCHANGED input /\ phase = "solve"
      /\ solver' \in Results(solver)
      /\ phase' = IF solver'.st = "SAT" THEN "read" ELSE IF track = "CE-PR" THEN "round" ELSE "print"
  BY DEF Solve, input
<1>2. InputInv /\ StateInv /\ SolverInv /\ CountInv /\ GrowInv
  BY DEF NInv
<1>3. PICK s \in SolverOver(Assignments) : solver = Assume(s, Pos("in", admSet))
  BY <1>1, <1>2 DEF SolverInv
<1>4. /\ solver' \in SolverOver(Assignments) /\ solver'.db = solver.db
      /\ \/ solver'.st = "UNSAT" /\ \A m \in solver.db : ~(admSet \subseteq m.in)
         \/ solver'.st = "SAT" /\ solver'.val \in solver.db /\ admSet \subseteq solver'.val.in
  <2>1. /\ solver' \in SolverOver(Assignments) /\ solver'.db = s.db
        /\ \/ solver'.st = "UNSAT" /\ \A m \in s.db : ~(admSet \subseteq m["in"])
           \/ solver'.st = "SAT" /\ solver'.val \in s.db /\ admSet \subseteq solver'.val["in"]
    BY <1>1, <1>3, AskSpec
  <2>2. solver.db = s.db
    BY <1>3, AssumeKeeps
  <2> QED
    BY <2>1, <2>2
<1>5. SolverInv'
  BY <1>1, <1>2, <1>4, InputKept DEF SolverInv
<1>6. StateInv'
  BY <1>1, <1>2, <1>4, InputKept DEF StateInv
<1>7. Left' = Left
  BY <1>1, <1>2, <1>4, InputKept DEF Left, Ins
<1>8. CountInv'
  <2>1. CASE phase' # "print"
    BY <1>1, <1>2, <1>7, <2>1, InputKept DEF CountInv
  <2>2. CASE phase' = "print"
    <3>1. track # "CE-PR" /\ admSet = {} /\ noFurther /\ Total = Extensions
      BY <1>1, <1>2, <2>2 DEF StateInv, Total
    <3>2. solver.db = {}
      BY <1>1, <1>4, <2>2, <3>1
    <3>3. Left = {}
      BY <3>1, <3>2 DEF Left, Ins
    <3>4. cnt + Cardinality(Left) = Cardinality(Extensions) /\ cnt \in Nat
      BY <1>1, <1>2, <3>1 DEF CountInv, StateInv
    <3>5. cnt = Cardinality(Extensions)
      BY <3>3, <3>4, CountNone
    <3> QED
      BY <1>1, <1>2, <2>2, <3>5, InputKept DEF CountInv
  <2> QED
    BY <2>1, <2>2
<1>9. GrowInv'
  BY <1>1, <1>2, <1>4, InputKept DEF GrowInv
<1> QED
  BY <1>1, <1>2, <1>5, <1>6, <1>8, <1>9, InputKept DEF NInv

(* The two loops that exclude what the model gives.                         *)
LEMMA CountOnePlain ==
  ASSUME NInv, track # "CE-PR", phase = "read", UNCHANGED <<admSet, noFurther>>, UNCHANGED input,
         cnt' = cnt + 1,
         \/ /\ phase' = "print" /\ solver' = solver
            /\ \A S \in Extensions : S = solver.val.in
         \/ /\ phase' = "solve" /\ solver' \in SolverOver(Assignments)
            /\ solver'.db \subseteq solver.db
            /\ \A m \in solver.db : m \in solver'.db <=> m.in # solver.val.in
  PROVE  NInv'
<1> DEFINE V == solver.val.in
<1>1. InputInv /\ StateInv /\ SolverInv /\ CountInv
  BY DEF NInv
<1>2. /\ solver \in SolverOver(Assignments) /\ solver.db \subseteq Base /\ solver.val \in solver.db
      /\ admSet = {} /\ noFurther /\ cnt \in Nat /\ Total = Extensions
  BY <1>1 DEF SolverInv, StateInv, Total
<1>3. V \in Left /\ Left \in SUBSET Extensions /\ Left = Extensions \cap Ins
  <2>1. V \in Extensions
    BY <1>1, <1>2, EveryModelIsExtension
  <2> QED
    BY <1>2, <2>1 DEF Left, Ins
<1>4. (cnt + 1) + Cardinality(Left \ {V}) = Cardinality(Extensions)
  <2>1. cnt + Cardinality(Left) = Cardinality(Extensions)
    BY <1>1, <1>2 DEF CountInv
  <2> HIDE DEF V
  <2> QED
    BY <1>2, <1>3, <2>1, CountOne
<1>5. CASE phase' = "print"
  <2>1. Left \ {V} = {} /\ solver' = solver
    BY <1>3, <1>5
  <2>2. cnt' = Cardinality(Extensions)
    BY <1>2, <1>4, <2>1, CountNone
  <2>3. CountInv'
    BY <1>1, <1>5, <2>2, InputKept DEF CountInv
  <2>4. StateInv' /\ SolverInv'
    BY <1>1, <1>2, <1>5, <2>1, InputKept DEF StateInv, SolverInv
  <2> QED
    BY <1>1, <2>3, <2>4, InputKept DEF NInv, GrowInv
<1>6. CASE phase' = "solve"
  <2>1. /\ solver' \in SolverOver(Assignments) /\ solver'.db \subseteq solver.db
        /\ \A m \in solver.db : m \in solver'.db <=> m.in # V
    BY <1>6
  <2>2. Left' = Left \ {V}
    <3>1. Left' = Extensions \cap Ins'
      BY <1>1, <1>2, InputKept DEF Left
    <3>2. Ins' = Ins \ {V}
      BY <2>1 DEF Ins
    <3> QED
      BY <1>3, <3>1, <3>2
  <2>3. CountInv'
    BY <1>1, <1>2, <1>4, <1>6, <2>2, InputKept DEF CountInv
  <2>4. solver' = Assume(solver', Pos("in", admSet'))
    BY <1>2, <2>1, AssumeKeeps
  <2>5. SolverInv'
    BY <1>1, <1>2, <1>6, <2>1, <2>4, InputKept DEF SolverInv
  <2>6. StateInv'
    BY <1>1, <1>2, <1>6, InputKept DEF StateInv
  <2> QED
    BY <1>1, <2>3, <2>5, <2>6, InputKept DEF NInv, GrowInv
<1> QED
  BY <1>5, <1>6

LEMMA CountStableKeeps ==
  ASSUME NInv, CountStable
  PROVE  NInv'
<1> DEFINE V == solver.val.in
<1>1. /\ UNCHANGED <<admSet, noFurther>> /\ UNCHANGED input
      /\ track = "CE-ST" /\ phase = "read" /\ cnt' = cnt + 1
      /\ IF NoSubset(V) = {} THEN phase' = "print" /\ solver' = solver
         ELSE phase' = "solve" /\ solver' = AddClause(solver, NoSubset(V))
  BY DEF CountStable, input
<1>2. /\ InputInv /\ solver \in SolverOver(Assignments)
      /\ solver.db \subseteq Base /\ solver.val \in solver.db
  BY <1>1 DEF NInv, SolverInv
<1>3. V \in SUBSET Arg /\ \A m \in solver.db : m.in \in SUBSET Arg /\ Stable(relation, m.in)
  <2>1. \A m \in Base : m.in \in SUBSET Arg /\ m.in \in Extensions
    BY <1>1, <1>2, BaseInAssignments, EveryModelIsExtension
  <2> QED
    BY <1>1, <1>2, <2>1, ExtensionsOf
<1>4. CASE NoSubset(V) = {}
  <2>1. Arg \ V = {}
    <3>1. \A a \in Arg \ V : <<"in", a, TRUE>> \in NoSubset(V)
      BY DEF NoSubset, Pos
    <3> QED
      BY <1>4, <3>1
  <2>2. \A S \in Extensions : S \in SUBSET Arg /\ Stable(relation, S) /\ S \subseteq V
    BY <1>1, <2>1, ExtensionsOf
  <2>3. \A S \in Extensions : S = V
    BY <1>2, <1>3, <2>2, StableIncomparable
  <2> QED
    BY <1>1, <1>4, <2>3, CountOnePlain
<1>5. CASE NoSubset(V) # {}
  <2>1. /\ solver' \in SolverOver(Assignments)
        /\ solver'.db = {m \in solver.db : ~(m.in \subseteq V)}
    BY <1>1, <1>2, <1>3, <1>5, ExcludeSpec
  <2>2. \A m \in solver.db : m.in \subseteq V => m.in = V
    BY <1>2, <1>3, StableIncomparable
  <2>3. solver'.db \subseteq solver.db /\ \A m \in solver.db : m \in solver'.db <=> m.in # V
    BY <2>1, <2>2
  <2> QED
    BY <1>1, <1>5, <2>1, <2>3, CountOnePlain
<1> QED
  BY <1>4, <1>5

LEMMA CountCompleteKeeps ==
  ASSUME NInv, CountComplete
  PROVE  NInv'
<1> DEFINE V == solver.val.in
<1>1. /\ UNCHANGED <<admSet, noFurther>> /\ UNCHANGED input
      /\ track = "CE-CO" /\ phase = "read" /\ cnt' = cnt + 1
      /\ IF Different(V) = {} THEN phase' = "print" /\ solver' = solver
         ELSE phase' = "solve" /\ solver' = AddClause(solver, Different(V))
  BY DEF CountComplete, input
<1>2. /\ InputInv /\ solver \in SolverOver(Assignments)
      /\ solver.db \subseteq Base /\ solver.val \in solver.db
  BY <1>1 DEF NInv, SolverInv
<1>3. V \in SUBSET Arg
  BY <1>2, BaseInAssignments
<1>4. CASE Different(V) = {}
  <2>1. Arg = {}
    <3>1. /\ \A a \in Arg \ V : <<"in", a, TRUE>> \in Different(V)
          /\ \A a \in V : <<"in", a, FALSE>> \in Different(V)
      BY DEF Different, Pos, Neg
    <3> QED
      BY <1>3, <1>4, <3>1
  <2>2. \A S \in Extensions : S = V
    BY <1>3, <2>1, ExtensionsOf
  <2> QED
    BY <1>1, <1>4, <2>2, CountOnePlain
<1>5. CASE Different(V) # {}
  <2>1. /\ solver' \in SolverOver(Assignments)
        /\ solver'.db = {m \in solver.db : m.in # V}
    BY <1>1, <1>2, <1>3, <1>5, ExcludeSpec
  <2>2. solver'.db \subseteq solver.db /\ \A m \in solver.db : m \in solver'.db <=> m.in # V
    BY <2>1
  <2> QED
    BY <1>1, <1>5, <2>1, <2>2, CountOnePlain
<1> QED
  BY <1>4, <1>5

(* CE-PR: a model of the clauses.                                           *)
LEMMA AdmModel ==
  ASSUME InputInv, track = "CE-PR", NEW m \in Base
  PROVE  m.in \in SUBSET Arg /\ Admissible(relation, m.in)
  BY BaseInAssignments, BaseOf, AdmModelIsAdmissible DEF InputInv

(* No preferred extension is lost when the subsets of an admissible set are *)
(* excluded, except that set.                                               *)
LEMMA GrowSetKeeps ==
  ASSUME NInv, GrowSet
  PROVE  NInv'
<1> DEFINE V == solver.val.in
<1>1. /\ UNCHANGED <<cnt>> /\ UNCHANGED input /\ track = "CE-PR" /\ phase = "read" /\ phase' = "solve"
      /\ noFurther' = FALSE /\ admSet' = admSet \cup V
      /\ solver' = Assume(AddClause(solver, NoSubset(V)), Pos("in", V))
  BY DEF GrowSet, Kept, input
<1>2. InputInv /\ StateInv /\ SolverInv /\ CountInv /\ GrowInv
  BY DEF NInv
<1>3. /\ solver \in SolverOver(Assignments) /\ solver.db \subseteq Base /\ solver.val \in solver.db
      /\ admSet' = V
  BY <1>1, <1>2 DEF SolverInv
<1>4. V \in SUBSET Arg /\ Admissible(relation, V) /\ V # {}
  BY <1>1, <1>2, <1>3, AdmModel DEF GrowInv
<1>5. PICK s \in SolverOver(Assignments) :
        /\ s.db = {m \in solver.db : ~(m.in \subseteq V)}
        /\ solver' = Assume(s, Pos("in", V)) /\ solver'.db = s.db
  <2>1. /\ AddClause(solver, NoSubset(V)) \in SolverOver(Assignments)
        /\ AddClause(solver, NoSubset(V)).db = {m \in solver.db : ~(m.in \subseteq V)}
    BY <1>2, <1>3, <1>4, ExcludeSpec
  <2>2. solver'.db = AddClause(solver, NoSubset(V)).db
    BY <1>1, <2>1, AssumeKeeps
  <2> QED
    BY <1>1, <2>1, <2>2
<1>6. ASSUME NEW S \in Extensions, S \subseteq V PROVE S = V
  BY <1>1, <1>4, <1>6, ExtensionsOf DEF Preferred
<1>7. Left' = Left
  <2>1. Left' = Extensions \cap (Ins' \cup {V})
    BY <1>1, <1>2, <1>3, InputKept DEF Left
  <2>2. Left = Extensions \cap Ins
    <3>1. CASE noFurther
      BY <3>1 DEF Left
    <3>2. CASE ~noFurther
      <4>1. admSet \subseteq V /\ admSet # V /\ admSet \in SUBSET Arg
        BY <1>1, <1>2, <1>3, <3>2 DEF GrowInv, SolverInv, StateInv
      <4>2. admSet \notin Extensions
        BY <1>1, <1>4, <4>1, ExtensionsOf DEF Preferred
      <4> QED
        BY <3>2, <4>2 DEF Left
    <3> QED
      BY <3>1, <3>2
  <2>3. Ins' = {S \in Ins : ~(S \subseteq V)} /\ V \in Ins
    BY <1>3, <1>5 DEF Ins
  <2> HIDE DEF V
  <2> QED
    BY <1>6, <2>1, <2>2, <2>3
<1>8. CountInv'
  BY <1>1, <1>2, <1>7, InputKept DEF CountInv
<1>9. SolverInv'
  BY <1>1, <1>2, <1>3, <1>5, InputKept DEF SolverInv
<1>10. StateInv'
  BY <1>1, <1>2, <1>3, <1>4, InputKept DEF StateInv
<1>11. GrowInv'
  <2>1. solver'.db = {m \in solver.db : ~(m.in \subseteq V)}
    BY <1>5
  <2>2. \A m \in solver.db, n \in Base : m.in \subseteq n.in => n \in solver.db
    BY <1>1, <1>2 DEF GrowInv
  <2>3. \A m \in solver'.db, n \in Base : m.in \subseteq n.in => n \in solver'.db
    BY <2>1, <2>2
  <2>4. \A n \in Base : V \subseteq n.in /\ n.in # V => n \in solver'.db
    BY <1>3, <2>1, <2>2
  <2>5. \A m \in solver'.db : m.in # {} /\ ~(m.in \subseteq V)
    BY <1>1, <1>2, <2>1 DEF GrowInv
  <2>6. \E m \in Base : m.in = V
    BY <1>3
  <2>7. Base' = Base
    BY <1>1, <1>2, InputKept
  <2> HIDE DEF V
  <2> QED
    BY <1>3, <1>4, <2>3, <2>4, <2>5, <2>6, <2>7 DEF GrowInv
<1> QED
  BY <1>1, <1>2, <1>8, <1>9, <1>10, <1>11, InputKept DEF NInv

LEMMA CountPreferredKeeps ==
  ASSUME NInv, CountPreferred
  PROVE  NInv'
<1>1. /\ UNCHANGED input /\ phase = "round" /\ phase' = "solve" /\ ~noFurther
      /\ cnt' = cnt + 1 /\ admSet' = {} /\ noFurther' = TRUE
      /\ solver' = AddClause(solver, NoSubset(admSet))
  BY DEF CountPreferred, input
<1>2. InputInv /\ StateInv /\ SolverInv /\ CountInv /\ GrowInv
  BY DEF NInv
<1>3. /\ track = "CE-PR" /\ cnt \in Nat /\ admSet \in SUBSET Arg
      /\ solver \in SolverOver(Assignments) /\ solver.db \subseteq Base
      /\ \A m \in solver.db : ~(admSet \subseteq m.in) /\ ~(m.in \subseteq admSet)
      /\ \A n \in Base : admSet \subseteq n.in /\ n.in # admSet => n \in solver.db
  BY <1>1, <1>2 DEF StateInv, SolverInv, GrowInv
<1>4. PICK x \in Base : x.in = admSet
  BY <1>1, <1>2, <1>3 DEF GrowInv
<1>5. admSet \in Extensions
  <2>1. Admissible(relation, admSet)
    BY <1>2, <1>3, <1>4, AdmModel
  <2>2. ASSUME NEW T \in SUBSET Arg, Admissible(relation, T), admSet \subseteq T PROVE T = admSet
    <3>1. PICK n \in AdmModels(relation, grounded) : T \subseteq n.in
      BY <1>2, <2>2, AdmissibleWithinModel DEF InputInv
    <3>2. n \in Base
      BY <1>3, BaseOf
    <3> QED
      BY <1>3, <2>2, <3>1, <3>2
  <2> QED
    BY <1>3, <2>1, <2>2, ExtensionsOf DEF Preferred
<1>6. /\ solver' \in SolverOver(Assignments) /\ solver'.db = solver.db
      /\ solver' = Assume(solver', Pos("in", admSet'))
  <2>1. /\ solver' \in SolverOver(Assignments)
        /\ solver'.db = {m \in solver.db : ~(m.in \subseteq admSet)}
    BY <1>1, <1>2, <1>3, ExcludeSpec
  <2> QED
    BY <1>1, <1>3, <2>1, AssumeKeeps
<1>7. Left' = Left \ {admSet} /\ admSet \in Left /\ Left \in SUBSET Extensions
  <2>1. admSet \notin Ins /\ Ins' = Ins
    BY <1>3, <1>6 DEF Ins
  <2>2. Left' = Extensions \cap Ins' /\ Left = Extensions \cap (Ins \cup {admSet})
    BY <1>1, <1>2, InputKept DEF Left
  <2> QED
    BY <1>5, <2>1, <2>2
<1>8. CountInv'
  <2>1. cnt + Cardinality(Left) = Cardinality(Total)
    BY <1>1, <1>2 DEF CountInv
  <2>2. (cnt + 1) + Cardinality(Left \ {admSet}) = Cardinality(Total)
    BY <1>3, <1>7, <2>1, CountOne
  <2> QED
    BY <1>1, <1>2, <1>7, <2>2, InputKept DEF CountInv
<1>9. SolverInv'
  BY <1>1, <1>2, <1>3, <1>6, InputKept DEF SolverInv
<1>10. StateInv'
  BY <1>1, <1>2, <1>3, InputKept DEF StateInv
<1>11. GrowInv'
  BY <1>1, <1>2, <1>3, <1>6, InputKept DEF GrowInv
<1> QED
  BY <1>1, <1>2, <1>8, <1>9, <1>10, <1>11, InputKept DEF NInv

(* The empty set is preferred if and only if no other set is.               *)
LEMMA EmptyPreferred ==
  ASSUME InputInv, track = "CE-PR"
  PROVE  {} \in Extensions <=> Extensions \ {{}} = {}
<1>1. {} \in SUBSET Arg /\ Admissible(relation, {})
  BY DEF Admissible, ConflictFree
<1>2. PICK T \in SUBSET Arg : Preferred(relation, T)
  BY <1>1, PreferredAbove
<1>3. ASSUME NEW S \in SUBSET Arg, Preferred(relation, S), Preferred(relation, {}) PROVE S = {}
  BY <1>3 DEF Preferred
<1> QED
  BY <1>1, <1>2, <1>3, ExtensionsOf

LEMMA NoFurtherRoundKeeps ==
  ASSUME NInv, NoFurtherRound
  PROVE  NInv'
<1>1. /\ UNCHANGED <<solver, admSet, noFurther>> /\ UNCHANGED input
      /\ phase = "round" /\ phase' = "print" /\ noFurther
      /\ cnt' = IF cnt = 0 THEN 1 ELSE cnt
  BY DEF NoFurtherRound, input
<1>2. InputInv /\ StateInv /\ SolverInv /\ CountInv /\ GrowInv
  BY DEF NInv
<1>3. /\ track = "CE-PR" /\ cnt \in Nat /\ solver.db = {} /\ Total = Extensions \ {{}}
      /\ solver \in SolverOver(Assignments)
  BY <1>1, <1>2 DEF StateInv, SolverInv, Total
<1>4. cnt = Cardinality(Total)
  <2>1. Left = {}
    BY <1>1, <1>3 DEF Left, Ins
  <2>2. cnt + Cardinality(Left) = Cardinality(Total)
    BY <1>1, <1>2 DEF CountInv
  <2> QED
    BY <1>3, <2>1, <2>2, CountNone
<1>5. IsFiniteSet(Extensions) /\ IsFiniteSet(Total) /\ Cardinality(Extensions) \in Nat
  BY <1>3, ExtensionsFinite
<1>6. cnt' = Cardinality(Extensions)
  <2>1. CASE Total = {}
    <3>1. {} \in Extensions
      BY <1>2, <1>3, <2>1, EmptyPreferred
    <3>2. Cardinality(Extensions \ {{}}) = Cardinality(Extensions) - 1
      BY <1>5, <3>1, FS_RemoveElement
    <3>3. Cardinality(Extensions \ {{}}) = 0
      BY <1>3, <2>1, CountNone
    <3>4. Cardinality(Extensions) = 1
      BY <1>5, <3>2, <3>3
    <3> QED
      BY <1>1, <1>3, <1>4, <3>3, <3>4
  <2>2. CASE Total # {}
    <3>1. {} \notin Extensions
      BY <1>2, <1>3, <2>2, EmptyPreferred
    <3>2. Total = Extensions
      BY <1>3, <3>1
    <3>3. Cardinality(Total) # 0
      BY <1>5, <2>2, FS_EmptySet
    <3> QED
      BY <1>1, <1>4, <3>2, <3>3
  <2> QED
    BY <2>1, <2>2
<1>7. CountInv'
  BY <1>1, <1>2, <1>6, InputKept DEF CountInv
<1>8. SolverInv' /\ GrowInv'
  BY <1>1, <1>2, <1>3, InputKept DEF SolverInv, GrowInv
<1>9. StateInv'
  BY <1>1, <1>2, <1>3, InputKept DEF StateInv
<1> QED
  BY <1>1, <1>2, <1>7, <1>8, <1>9, InputKept DEF NInv

-----------------------------------------------------------------------------
(* All together.                                                            *)

LEMMA InitNInv == CountingInit => NInv
<1> SUFFICES ASSUME CountingInit PROVE NInv
  OBVIOUS
<1> DEFINE s == NewSolver(Base, Nothing)
<1>1. /\ InputInv /\ admSet = {} /\ noFurther = TRUE /\ cnt = 0 /\ phase = "solve"
      /\ solver = IF track = "CE-PR" THEN AddClause(s, Pos("in", Arg)) ELSE s
  BY DEF CountingInit, InputInv, Base
<1>2. s \in SolverOver(Assignments) /\ s.db = Base /\ \A m \in Base : m.in \in SUBSET Arg
  <2>1. Nothing \in Assignments /\ Base \in SUBSET Assignments
    BY <1>1, BaseInAssignments DEF Nothing, Assignments
  <2> QED
    BY <1>1, <2>1, NewSolverSpec, BaseInAssignments
<1> HIDE DEF s
<1>3. /\ solver \in SolverOver(Assignments)
      /\ solver.db = IF track = "CE-PR" THEN {m \in Base : m.in # {}} ELSE Base
  <2>1. CASE track = "CE-PR"
    <3> DEFINE Kept1(m) == Satisfies(m, Pos("in", Arg))
    <3>1. solver \in SolverOver(Assignments) /\ solver.db = {m \in Base : Kept1(m)}
      BY <1>1, <1>2, <2>1, AddClauseSpec
    <3>2. \A m \in Base : Kept1(m) <=> m.in # {}
      <4>1. \A m \in Base : Kept1(m) <=> \E a \in Arg : a \in m["in"]
        BY SomeOf
      <4> HIDE DEF Kept1
      <4> QED
        BY <1>2, <4>1
    <3> HIDE DEF Kept1
    <3> QED
      BY <2>1, <3>1, <3>2
  <2>2. CASE track # "CE-PR"
    BY <1>1, <1>2, <2>2
  <2> QED
    BY <2>1, <2>2
<1>4. StateInv
  BY <1>1 DEF StateInv
<1>5. SolverInv
  <2>1. solver = Assume(solver, Pos("in", admSet))
    BY <1>1, <1>3, AssumeKeeps
  <2> QED
    BY <1>1, <1>3, <2>1 DEF SolverInv
<1>6. GrowInv
  BY <1>1, <1>2, <1>3 DEF GrowInv
<1>7. Left = Total
  <2>1. Left = Extensions \cap Ins
    BY <1>1 DEF Left
  <2>2. Ins = IF track = "CE-PR" THEN {m.in : m \in Base} \ {{}} ELSE {m.in : m \in Base}
    BY <1>3 DEF Ins
  <2>3. Extensions \subseteq {m.in : m \in Base}
    BY <1>1, EveryExtensionHasModel
  <2> QED
    BY <2>1, <2>2, <2>3 DEF Total
<1>8. CountInv
  <2>1. Cardinality(Left) \in Nat
    BY ExtensionsFinite DEF Left
  <2> QED
    BY <1>1, <1>7, <2>1 DEF CountInv
<1> QED
  BY <1>1, <1>4, <1>5, <1>6, <1>8 DEF NInv

LEMMA NextNInv == NInv /\ [CountingNext]_countingVars => NInv'
<1> SUFFICES ASSUME NInv, [CountingNext]_countingVars PROVE NInv'
  OBVIOUS
<1>1. CASE CountingNext
  BY <1>1, SolveKeeps, CountStableKeeps, CountCompleteKeeps, GrowSetKeeps,
     CountPreferredKeeps, NoFurtherRoundKeeps DEF CountingNext
<1>2. CASE UNCHANGED countingVars
  <2>1. UNCHANGED <<solver, admSet, noFurther, cnt, phase>> /\ UNCHANGED input
    BY <1>2 DEF countingVars
  <2>2. InputInv' /\ StateInv' /\ SolverInv' /\ GrowInv'
    BY <2>1, InputKept DEF NInv, StateInv, SolverInv, GrowInv
  <2>3. CountInv'
    BY <2>1, InputKept DEF NInv, CountInv, Left, Ins
  <2> QED
    BY <2>2, <2>3 DEF NInv
<1> QED
  BY <1>1, <1>2

(* solve_cest, solve_ceco, solve_cepr: every extension is counted once and  *)
(* the number printed is that of the extensions.                            *)
THEOREM CountCorrect == CountingSpec => []CountExact
<1>1. NInv => CountExact
  BY DEF NInv, CountInv, CountExact, Left, Ins, Total
<1>2. NInv /\ [CountingNext]_countingVars => NInv'
  BY NextNInv
<1> QED
  BY <1>1, <1>2, InitNInv, PTL DEF CountingSpec

-----------------------------------------------------------------------------

(* The grounded labelling.                                                  *)

USE DEF bitset__set, IsOut, Advance, WalkOver, LastAttacker, Popped, Pushed

-----------------------------------------------------------------------------
(* Sequences used as a stack. *)

LEMMA PushOnStack ==
  ASSUME NEW S, NEW s \in Seq(S), NEW b \in S
  PROVE  /\ <<b>> \o s \in Seq(S)
         /\ Len(<<b>> \o s) = Len(s) + 1
         /\ (<<b>> \o s)[1] = b
         /\ \A i \in 1..Len(s) : (<<b>> \o s)[i + 1] = s[i]
         /\ \A i \in 2..(Len(s) + 1) :
              i - 1 \in 1..Len(s) /\ (<<b>> \o s)[i] = s[i - 1]
<1>1. <<b>> \in Seq(S) /\ Len(<<b>>) = 1 /\ <<b>>[1] = b /\ Len(s) \in Nat
  OBVIOUS
<1> QED
  BY <1>1, ConcatProperties

LEMMA PopFromStack ==
  ASSUME NEW S, NEW s \in Seq(S), s # << >>
  PROVE  /\ Head(s) \in S /\ Head(s) = s[1]
         /\ Tail(s) \in Seq(S)
         /\ Len(s) \in Nat \ {0}
         /\ Len(Tail(s)) = Len(s) - 1
         /\ \A i \in 1..Len(Tail(s)) :
              i + 1 \in 1..Len(s) /\ Tail(s)[i] = s[i + 1]
         /\ \A i \in 2..Len(s) :
              i - 1 \in 1..Len(Tail(s)) /\ s[i] = Tail(s)[i - 1]
<1>1. Len(s) \in Nat \ {0}
  BY EmptySeq, LenProperties
<1>2. Head(s) = s[1]
  BY <1>1
<1> QED
  BY <1>1, <1>2, HeadTailProperties

LEMMA RemoveMember ==
  ASSUME NEW S, NEW x \in S, IsFiniteSet(S)
  PROVE  IsFiniteSet(S \ {x}) /\ Cardinality(S \ {x}) = Cardinality(S) - 1
  BY FS_RemoveElement

LEMMA ListingIsSeq ==
  ASSUME NEW S \in SUBSET Arg, NEW s \in Listings(S)
  PROVE  /\ s \in Seq(S)
         /\ Len(s) = Cardinality(S)
         /\ \A i \in 1..Len(s) : s[i] \in S
         /\ \A i, j \in 1..Len(s) : s[i] = s[j] => i = j
<1>1. Cardinality(S) \in Nat
  BY FiniteArgAssumption, FS_Subset, FS_CardinalityType
<1> QED
  BY <1>1 DEF Listings

-----------------------------------------------------------------------------
(* Types. *)

LEMMA AttackTypes ==
  ASSUME attacks \in AttackSets
  PROVE  /\ attacks \subseteq Arg \X Arg \X Line
         /\ \A e \in attacks : e[1] \in Arg /\ e[2] \in Arg
         /\ \A a : /\ IsFiniteSet(parents(a)) /\ parents(a) \subseteq attacks
                   /\ children(a) \subseteq attacks
                   /\ Cardinality(parents(a)) \in Nat
<1>1. attacks \subseteq Arg \X Arg \X Line /\ IsFiniteSet(attacks)
  BY AttackSetsAssumption
<1>2. \A a : parents(a) \in SUBSET attacks /\ children(a) \in SUBSET attacks
  BY DEF parents, children
<1>3. \A a : IsFiniteSet(parents(a)) /\ Cardinality(parents(a)) \in Nat
  BY <1>1, <1>2, FS_Subset, FS_CardinalityType
<1> QED
  BY <1>1, <1>2, <1>3

LEMMA TypingInit == Init => TypeOK
<1> SUFFICES ASSUME Init PROVE TypeOK
  OBVIOUS
<1>1. in \in SUBSET Arg /\ attacks \in AttackSets /\ stack \in Listings(in)
  BY DEF Init
<1>2. stack \in Seq(Arg)
  BY <1>1, ListingIsSeq
<1>3. number_of_attackers \in [Arg -> Nat]
  BY <1>1, AttackTypes DEF Init
<1> QED
  BY <1>1, <1>2, <1>3 DEF Init, TypeOK

LEMMA TypingStep == TypeOK /\ [Next]_vars => TypeOK'
<1> SUFFICES ASSUME TypeOK, [Next]_vars PROVE TypeOK'
  OBVIOUS
<1> USE DEF TypeOK
<1>0. /\ \A e \in attacks : e[1] \in Arg /\ e[2] \in Arg
      /\ \A a : children(a) \subseteq attacks
  BY AttackTypes
<1>1. CASE Pop
  BY <1>0, <1>1, PopFromStack DEF Pop
<1>2. ASSUME NEW e \in node, SkipChild(e) PROVE TypeOK'
  BY <1>0, <1>2 DEF SkipChild
<1>3. ASSUME NEW e \in node, MarkOut(e) PROVE TypeOK'
  BY <1>0, <1>3 DEF MarkOut
<1>4. ASSUME NEW e \in node2, Decrease(e) PROVE TypeOK'
  <2>1. e[2] \in Arg
    BY <1>0
  <2>2. stack' \in Seq(Arg)
    BY <1>4, <2>1, PushOnStack DEF Decrease
  <2>3. number_of_attackers' \in [Arg -> Nat]
    BY <1>4, <2>1 DEF Decrease
  <2> QED
    BY <1>4, <2>1, <2>2, <2>3 DEF Decrease
<1>5. CASE GrandchildrenDone
  BY <1>5 DEF GrandchildrenDone
<1>6. CASE ChildrenDone
  BY <1>6 DEF ChildrenDone
<1>7. CASE Return
  BY <1>7 DEF Return
<1>8. CASE UNCHANGED vars
  BY <1>8 DEF vars
<1> QED
  BY <1>1, <1>2, <1>3, <1>4, <1>5, <1>6, <1>7, <1>8 DEF Next

(* Every variable keeps its type through the loops of compute_grounded. *)
THEOREM Typing == Spec => []TypeOK
  BY TypingInit, TypingStep, PTL DEF Spec

-----------------------------------------------------------------------------
(* The inductive invariant.                                                 *)

(* Which walk is open in which loop; the inner one belongs to an argument   *)
(* that is out.                                                             *)
WalkShape ==
  /\ pc \in {"stack", "done"} => node = {}
  /\ pc # "grandchildren" => node2 = {}
  /\ node \subseteq children(arg)
  /\ \A e \in node2 : e[1] \in out
  /\ pc = "done" => stack = << >>

(* Only children of accepted arguments are out. *)
OutIsAttacked == \A a \in out : \E e \in attacks : e[1] \in in /\ e[2] = a

IInv ==
  /\ TypeOK
  /\ WalkShape
  /\ CountersExact
  /\ StackListsAccepted
  /\ NothingForgotten
  /\ OutIsAttacked
  /\ LabelsForced

(* An argument is in exactly when no attack line on it is counted any more, *)
(* so all its attackers are out.                                            *)
LEMMA AttackersOfInAreOut ==
  ASSUME TypeOK, CountersExact
  PROVE  /\ \A b \in Arg : IsFiniteSet(Counted(b))
         /\ \A b \in Arg : b \in in <=> Counted(b) = {}
         /\ \A e \in attacks : e[2] \in in => e[1] \in out
<1>1. \A b \in Arg : Counted(b) \in SUBSET parents(b) /\ IsFiniteSet(parents(b))
  BY AttackTypes DEF TypeOK, Counted
<1>2. \A b \in Arg : IsFiniteSet(Counted(b))
  BY <1>1, FS_Subset
<1>3. \A b \in Arg : b \in in <=> Counted(b) = {}
  BY <1>2, FS_EmptySet DEF CountersExact
<1>4. \A e \in attacks : e[2] \in Arg /\ e \in parents(e[2])
  BY AttackTypes DEF TypeOK, parents
<1> QED
  BY <1>2, <1>3, <1>4 DEF Counted

(* What Decrease does to the counters. *)
LEMMA DecreaseCounts ==
  ASSUME IInv, NEW e \in node2, Decrease(e)
  PROVE  /\ e \in attacks /\ e[2] \in Arg
         /\ number_of_attackers[e[2]] > 0
         /\ number_of_attackers' =
              [number_of_attackers EXCEPT ![e[2]] = number_of_attackers[e[2]] - 1]
         /\ Counted(e[2])' = Counted(e[2]) \ {e}
         /\ \A b \in Arg \ {e[2]} : Counted(b)' = Counted(b)
<1>1. e \in attacks /\ e[2] \in Arg /\ e[1] \in out
  BY AttackTypes DEF IInv, TypeOK, WalkShape
<1>2. e \in Counted(e[2])
  BY <1>1 DEF Counted, parents
<1>3. number_of_attackers[e[2]] # 0 /\ number_of_attackers[e[2]] \in Nat
  <2>1. IsFiniteSet(Counted(e[2]))
    BY <1>1, AttackersOfInAreOut DEF IInv
  <2>2. Cardinality(Counted(e[2])) # 0
    BY <1>2, <2>1, FS_EmptySet
  <2> QED
    BY <1>1, <2>2 DEF IInv, CountersExact, TypeOK
<1>4. number_of_attackers[e[2]] > 0
  BY <1>3
<1>5. number_of_attackers' =
        [number_of_attackers EXCEPT ![e[2]] = number_of_attackers[e[2]] - 1]
  BY <1>4 DEF Decrease
<1>6. /\ Counted(e[2])' = Counted(e[2]) \ {e}
      /\ \A b \in Arg \ {e[2]} : Counted(b)' = Counted(b)
  BY <1>1 DEF Decrease, Counted, parents
<1> QED
  BY <1>1, <1>4, <1>5, <1>6

LEMMA InitIInv == Init => IInv
<1> SUFFICES ASSUME Init PROVE IInv
  OBVIOUS
<1>1. TypeOK
  BY TypingInit
<1>2. /\ stack \in Listings(in) /\ in \in SUBSET Arg /\ out = {} /\ node = {}
      /\ node2 = {} /\ pc = "stack"
      /\ in = {a \in Arg : parents(a) = {}}
      /\ number_of_attackers = [a \in Arg |-> Cardinality(parents(a))]
  BY <1>1 DEF Init, TypeOK
<1>3. CountersExact
  <2>1. \A b \in Arg : Counted(b) = parents(b)
    BY <1>2 DEF Counted
  <2>2. \A b \in Arg : IsFiniteSet(parents(b))
    BY <1>1, AttackTypes DEF TypeOK
  <2>3. \A b \in Arg : parents(b) = {} <=> Cardinality(parents(b)) = 0
    BY <2>2, FS_EmptySet
  <2> QED
    BY <1>2, <2>1, <2>3 DEF CountersExact
<1>4. StackListsAccepted
  BY <1>2, ListingIsSeq DEF StackListsAccepted
<1>5. NothingForgotten
  <2>1. \A a \in in : \E i \in 1..Len(stack) : stack[i] = a
    <3>1. /\ IsFiniteSet(in) /\ stack \in [1..Cardinality(in) -> in]
          /\ \A i, j \in DOMAIN stack : stack[i] = stack[j] => i = j
          /\ Cardinality(in) \in Nat /\ Len(stack) = Cardinality(in)
      BY <1>2, FiniteArgAssumption, FS_Subset, FS_CardinalityType, ListingIsSeq DEF Listings
    <3> DEFINE D == 1..Cardinality(in)
    <3>2. IsFiniteSet(D) /\ Cardinality(D) = Cardinality(in)
      BY <3>1, FS_Interval
    <3>3. stack \in Injection(D, in)
      BY <3>1, Fun_IsInj
    <3>4. stack \in Surjection(D, in)
      BY <3>1, <3>2, <3>3, FS_Injection
    <3> QED
      BY <3>1, <3>4 DEF Surjection
  <2> QED
    BY <2>1 DEF NothingForgotten
<1> QED
  BY <1>1, <1>2, <1>3, <1>4, <1>5
     DEF IInv, WalkShape, OutIsAttacked, LabelsForced, Complete, Defended,
         Attackers, Relation, parents

LEMMA PopIInv == ASSUME IInv, Pop PROVE IInv'
<1>1. TypeOK' /\ attacks' = attacks /\ in' = in /\ out' = out
  BY TypingStep DEF IInv, Next, Pop
<1>2. /\ stack \in Seq(Arg) /\ stack # << >> /\ arg' = Head(stack)
      /\ stack' = Tail(stack) /\ node' = children(arg') /\ pc' = "children"
      /\ pc = "stack" /\ node2' = node2 /\ node = {} /\ node2 = {}
      /\ number_of_attackers' = number_of_attackers
  BY DEF IInv, TypeOK, WalkShape, Pop
<1>3. CountersExact'
  BY <1>1, <1>2 DEF IInv, CountersExact, Counted, parents
<1>4. StackListsAccepted'
  BY <1>1, <1>2, PopFromStack DEF IInv, StackListsAccepted
<1>5. NothingForgotten'
  <2> SUFFICES ASSUME NEW e \in attacks, e[1] \in in, e[2] \notin out, e \notin node'
               PROVE  \E i \in 1..Len(stack') : stack'[i] = e[1]
    BY <1>1 DEF NothingForgotten
  <2>1. PICK i \in 1..Len(stack) : stack[i] = e[1]
    BY <1>2 DEF IInv, NothingForgotten
  <2>2. e[1] # stack[1]
    BY <1>1, <1>2, PopFromStack DEF children
  <2>3. i \in 2..Len(stack)
    BY <1>2, <2>1, <2>2, PopFromStack
  <2>4. i - 1 \in 1..Len(Tail(stack)) /\ Tail(stack)[i - 1] = stack[i]
    BY <1>2, <2>3, PopFromStack
  <2> QED
    BY <1>2, <2>1, <2>4
<1>6. WalkShape' /\ OutIsAttacked' /\ LabelsForced'
  BY <1>1, <1>2 DEF IInv, WalkShape, OutIsAttacked, LabelsForced, Relation, children
<1> QED
  BY <1>1, <1>3, <1>4, <1>5, <1>6 DEF IInv

LEMMA SkipChildIInv == ASSUME IInv, NEW e \in node, SkipChild(e) PROVE IInv'
<1>1. TypeOK'
  BY TypingStep DEF IInv, Next
<1>2. CountersExact' /\ StackListsAccepted'
  BY DEF IInv, SkipChild, CountersExact, Counted, parents, StackListsAccepted
<1>3. WalkShape'
  BY DEF IInv, SkipChild, WalkShape, children
<1>4. OutIsAttacked' /\ LabelsForced'
  BY DEF IInv, SkipChild, OutIsAttacked, LabelsForced, Relation
<1>5. NothingForgotten'
  BY DEF IInv, SkipChild, NothingForgotten
<1> QED
  BY <1>1, <1>2, <1>3, <1>4, <1>5 DEF IInv

(* The child is not in: its attacker arg is in, and would have to be out.   *)
LEMMA MarkOutIInv == ASSUME IInv, NEW e \in node, MarkOut(e) PROVE IInv'
<1>1. TypeOK'
  BY TypingStep DEF IInv, Next
<1>2. /\ e \in attacks /\ e[1] = arg /\ e[2] \in Arg /\ arg \in in /\ arg \notin out
      /\ e[2] \notin out /\ node2 = {} /\ out' = out \cup {e[2]}
      /\ node' = node \ {e} /\ node2' = children(e[2]) /\ pc' = "grandchildren"
      /\ attacks' = attacks /\ in' = in /\ stack' = stack /\ arg' = arg
      /\ number_of_attackers' = number_of_attackers
  BY AttackTypes DEF IInv, TypeOK, WalkShape, StackListsAccepted, LabelsForced,
                     children, MarkOut
<1>3. CountersExact'
  <2>1. \A b \in Arg : Counted(b)' = Counted(b)
    BY <1>2 DEF Counted, parents, children
  <2> QED
    BY <1>2, <2>1 DEF IInv, CountersExact
<1>4. e[2] \notin in
  BY <1>2, AttackersOfInAreOut DEF IInv
<1>5. LabelsForced'
  <2>1. in \cap out' = {}
    BY <1>2, <1>4 DEF IInv, LabelsForced
  <2>2. ASSUME NEW S \in SUBSET Arg, Complete(Relation, S)
        PROVE  in \subseteq S /\ out' \subseteq Attacked(Relation, S)
    <3>1. in \subseteq S /\ out \subseteq Attacked(Relation, S)
      BY <2>2 DEF IInv, LabelsForced
    <3>2. <<arg, e[2]>> \in Relation
      BY <1>2 DEF Relation
    <3> QED
      BY <1>2, <3>1, <3>2 DEF Attacked
  <2>3. Relation' = Relation
    BY <1>2 DEF Relation
  <2> QED
    BY <1>2, <2>1, <2>2, <2>3 DEF LabelsForced
<1>6. WalkShape' /\ StackListsAccepted' /\ OutIsAttacked' /\ NothingForgotten'
  BY <1>2 DEF IInv, MarkOut, WalkShape, StackListsAccepted, OutIsAttacked,
              NothingForgotten, children
<1> QED
  BY <1>1, <1>3, <1>5, <1>6 DEF IInv

(* The argument is accepted when its last counted attack line goes: it was  *)
(* not in before, and no accepted argument attacks it, or it would be out   *)
(* because of an argument that is itself out.                               *)
LEMMA DecreaseIInv == ASSUME IInv, NEW e \in node2, Decrease(e) PROVE IInv'
<1> DEFINE b == e[2]
           accepted == number_of_attackers[b] = 1
<1>1. TypeOK'
  BY TypingStep DEF IInv, Next
<1>2. /\ e \in attacks /\ b \in Arg /\ number_of_attackers[b] \in Nat \ {0}
      /\ number_of_attackers' = [number_of_attackers EXCEPT ![b] = number_of_attackers[b] - 1]
      /\ Counted(b)' = Counted(b) \ {e}
      /\ \A c \in Arg \ {b} : Counted(c)' = Counted(c)
  <2>1. number_of_attackers \in [Arg -> Nat]
    BY DEF IInv, TypeOK
  <2> QED
    BY <2>1, DecreaseCounts
<1>3. /\ node2' = node2 \ {e} /\ attacks' = attacks /\ out' = out /\ arg' = arg
      /\ node' = node /\ pc' = pc /\ pc = "grandchildren"
      /\ in' = IF accepted THEN in \cup {b} ELSE in
      /\ stack' = IF accepted THEN <<b>> \o stack ELSE stack
      /\ Relation' = Relation
  BY DEF Decrease, Relation
<1>4. /\ number_of_attackers \in [Arg -> Nat] /\ stack \in Seq(Arg)
      /\ in \subseteq Arg /\ out \subseteq Arg
      /\ b \notin in /\ IsFiniteSet(Counted(b)) /\ e \in Counted(b)
  <2>1. b \notin in
    BY <1>2 DEF IInv, CountersExact
  <2> QED
    BY <1>2, <2>1, AttackersOfInAreOut
       DEF IInv, TypeOK, Counted, parents
<1>5. CountersExact'
  <2>1. \A c \in Arg : number_of_attackers'[c] = Cardinality(Counted(c)')
    <3>1. Cardinality(Counted(b)') = Cardinality(Counted(b)) - 1
      BY <1>2, <1>4, RemoveMember
    <3> QED
      BY <1>2, <1>4, <3>1 DEF IInv, CountersExact
  <2>2. in' = {c \in Arg : number_of_attackers'[c] = 0}
    BY <1>2, <1>3, <1>4 DEF IInv, CountersExact
  <2> QED
    BY <2>1, <2>2 DEF CountersExact
<1>6. /\ \A a \in in : a \in in'
      /\ stack' = stack \/ (accepted /\ stack' = <<b>> \o stack)
  BY <1>3
<1>7. StackListsAccepted'
  <2>1. CASE ~accepted
    BY <1>3, <2>1 DEF IInv, StackListsAccepted
  <2>2. CASE accepted
    <3>1. stack' = <<b>> \o stack /\ in' = in \cup {b}
      BY <1>3, <2>2
    <3>2. /\ Len(stack) \in Nat /\ Len(stack') = Len(stack) + 1 /\ stack'[1] = b
          /\ \A i \in 2..Len(stack') : i - 1 \in 1..Len(stack) /\ stack'[i] = stack[i - 1]
      BY <1>2, <1>4, <3>1, PushOnStack
    <3>3. /\ \A i \in 1..Len(stack) : stack[i] \in in /\ stack[i] # arg
          /\ \A i, j \in 1..Len(stack) : stack[i] = stack[j] => i = j
          /\ arg \in in
      BY <1>3 DEF IInv, StackListsAccepted
    <3>4. \A i \in 1..Len(stack') : i = 1 \/ i \in 2..Len(stack')
      BY <3>2
    <3>5. \A i \in 1..Len(stack') : stack'[i] \in in' /\ stack'[i] # arg
      BY <1>4, <3>1, <3>2, <3>3, <3>4
    <3>6. ASSUME NEW i \in 1..Len(stack'), NEW j \in 1..Len(stack'), stack'[i] = stack'[j]
          PROVE  i = j
      <4>1. CASE i = 1 /\ j = 1
        BY <4>1
      <4>2. CASE i = 1 /\ j \in 2..Len(stack')
        BY <1>4, <3>2, <3>3, <3>6, <4>2
      <4>3. CASE j = 1 /\ i \in 2..Len(stack')
        BY <1>4, <3>2, <3>3, <3>6, <4>3
      <4>4. CASE i \in 2..Len(stack') /\ j \in 2..Len(stack')
        <5>1. i - 1 \in 1..Len(stack) /\ j - 1 \in 1..Len(stack)
          BY <3>2, <4>4
        <5>2. stack[i - 1] = stack[j - 1]
          BY <3>2, <3>6, <4>4
        <5>3. i - 1 = j - 1
          BY <3>3, <5>1, <5>2
        <5> QED
          BY <4>4, <5>3
      <4> QED
        BY <3>4, <4>1, <4>2, <4>3, <4>4
    <3> QED
      BY <1>3, <3>1, <3>3, <3>5, <3>6 DEF StackListsAccepted
  <2> QED
    BY <2>1, <2>2
<1>8. NothingForgotten'
  <2> SUFFICES ASSUME NEW f \in attacks, f[1] \in in', f[2] \notin out, f \notin node
               PROVE  \E i \in 1..Len(stack') : stack'[i] = f[1]
    BY <1>3 DEF NothingForgotten
  <2>1. CASE f[1] \in in
    <3>1. PICK i \in 1..Len(stack) : stack[i] = f[1]
      BY <2>1 DEF IInv, NothingForgotten
    <3>2. CASE stack' = stack
      BY <3>1, <3>2
    <3>3. CASE stack' = <<b>> \o stack
      <4>1. i + 1 \in 1..Len(stack') /\ stack'[i + 1] = stack[i]
        BY <1>2, <1>4, <3>1, <3>3, PushOnStack, LenProperties
      <4> QED
        BY <3>1, <4>1
    <3> QED
      BY <1>6, <3>2, <3>3
  <2>2. CASE f[1] \notin in
    <3>1. accepted /\ f[1] = b /\ stack' = <<b>> \o stack
      BY <1>3, <2>2
    <3>2. 1 \in 1..Len(stack') /\ stack'[1] = b
      BY <1>2, <1>4, <3>1, PushOnStack, LenProperties
    <3> QED
      BY <3>1, <3>2
  <2> QED
    BY <2>1, <2>2
<1>9. WalkShape' /\ OutIsAttacked'
  BY <1>2, <1>3, <1>6 DEF IInv, WalkShape, OutIsAttacked, children
<1>10. LabelsForced'
  <2>1. CASE ~accepted
    BY <1>3, <2>1 DEF IInv, LabelsForced
  <2>2. CASE accepted
    <3>1. in' = in \cup {b}
      BY <1>3, <2>2
    <3>2. \A f \in attacks : f[2] = b => f[1] \in out
      <4>1. Counted(b)' = {}
        <5>1. b \in in' /\ TypeOK' /\ CountersExact'
          BY <1>1, <1>5, <3>1
        <5>2. \A c \in Arg : c \in in <=> Counted(c) = {}
          BY AttackersOfInAreOut DEF IInv
        <5>3. Cardinality(Counted(b)) = 1
          BY <1>2, <2>2 DEF IInv, CountersExact
        <5>4. Cardinality(Counted(b) \ {e}) = 0 /\ IsFiniteSet(Counted(b) \ {e})
          BY <1>4, <5>3, RemoveMember
        <5> QED
          BY <1>2, <5>4, FS_EmptySet
      <4> QED
        BY <1>2, <1>3, <4>1 DEF Counted, parents
    <3>3. b \notin out
      BY <3>2 DEF IInv, OutIsAttacked, LabelsForced
    <3>4. ASSUME NEW S \in SUBSET Arg, Complete(Relation, S) PROVE b \in S
      <4>1. out \subseteq Attacked(Relation, S)
        BY <3>4 DEF IInv, LabelsForced
      <4>2. Attackers(Relation, b) \subseteq out
        BY <3>2 DEF Attackers, Relation
      <4> QED
        BY <1>2, <3>4, <4>1, <4>2 DEF Complete, Defended
    <3> QED
      BY <1>3, <3>1, <3>3, <3>4 DEF IInv, LabelsForced
  <2> QED
    BY <2>1, <2>2
<1> QED
  BY <1>1, <1>5, <1>7, <1>8, <1>9, <1>10 DEF IInv

(* Leaving a loop changes nothing but pc.                                   *)
LEMMA LoopExitIInv ==
  ASSUME IInv, TypeOK', WalkShape',
         UNCHANGED <<attacks, in, out, number_of_attackers, stack, arg, node, node2>>,
         pc' \in {"children", "grandchildren"} => pc \in {"children", "grandchildren"}
  PROVE  IInv'
<1>1. CountersExact'
  BY DEF IInv, CountersExact, Counted, parents
<1>2. StackListsAccepted'
  BY DEF IInv, StackListsAccepted
<1>3. NothingForgotten' /\ OutIsAttacked'
  BY DEF IInv, NothingForgotten, OutIsAttacked
<1>4. LabelsForced'
  <2>1. Relation' = Relation
    BY DEF Relation
  <2> QED
    BY <2>1 DEF IInv, LabelsForced
<1> QED
  BY <1>1, <1>2, <1>3, <1>4 DEF IInv

LEMMA StepIInv == IInv /\ [Next]_vars => IInv'
<1> SUFFICES ASSUME IInv, [Next]_vars PROVE IInv'
  OBVIOUS
<1>1. TypeOK'
  BY TypingStep DEF IInv
<1>2. CASE GrandchildrenDone
  <2>1. WalkShape'
    BY <1>2 DEF GrandchildrenDone, IInv, WalkShape, children
  <2> QED
    BY <1>1, <1>2, <2>1, LoopExitIInv DEF GrandchildrenDone
<1>3. CASE ChildrenDone
  <2>1. WalkShape'
    BY <1>3 DEF ChildrenDone, IInv, WalkShape, children
  <2> QED
    BY <1>1, <1>3, <2>1, LoopExitIInv DEF ChildrenDone
<1>4. CASE Return
  <2>1. WalkShape'
    BY <1>4 DEF Return, IInv, WalkShape, children
  <2> QED
    BY <1>1, <1>4, <2>1, LoopExitIInv DEF Return
<1>5. CASE UNCHANGED vars
  <2>1. WalkShape'
    BY <1>5 DEF vars, IInv, WalkShape, children
  <2> QED
    BY <1>1, <1>5, <2>1, LoopExitIInv DEF vars
<1> QED
  BY <1>2, <1>3, <1>4, <1>5, PopIInv, SkipChildIInv, MarkOutIInv, DecreaseIInv
     DEF Next

LEMMA Invariance == Spec => []IInv
  BY InitIInv, StepIInv, PTL DEF Spec

-----------------------------------------------------------------------------
(* What the invariant says of the program.                                  *)

(* Every decrement finds a positive counter: the counters are exact in      *)
(* every state, the arguments at zero are the accepted ones.                *)
THEOREM ExactCounters == Spec => []CountersExact
  BY Invariance, PTL DEF IInv

(* The comment of struct AAF on number_of_attackers holds on return.        *)
THEOREM CountersOnReturn == Spec => []AttackersNotOut
<1>1. IInv => AttackersNotOut
  BY DEF IInv, WalkShape, CountersExact, Counted, AttackersNotOut
<1> QED
  BY <1>1, Invariance, PTL

(* The stack holds the accepted arguments whose children are still to be    *)
(* rejected: none twice, none missing.                                      *)
THEOREM ExactStack == Spec => []StackExact
  BY Invariance, PTL DEF IInv, StackExact

(* The labels handed out at any time are those of every complete extension. *)
THEOREM ForcedLabels == Spec => []LabelsForced
  BY Invariance, PTL DEF IInv

LEMMA ReturnsGrounded == IInv => ResultGrounded
<1> SUFFICES ASSUME IInv, pc = "done" PROVE GroundedLabels(Relation, in, out)
  BY DEF ResultGrounded
<1>1. /\ in \subseteq Arg /\ out \subseteq Arg /\ in \cap out = {}
      /\ \A e \in attacks : e[1] \in Arg /\ e[2] \in Arg
  BY AttackTypes DEF IInv, TypeOK, LabelsForced
<1>2. \A e \in attacks : e[1] \in in => e[2] \in out
  <2>1. node = {} /\ stack = << >>
    BY DEF IInv, WalkShape
  <2>2. ~ \E i \in 1..Len(stack) : TRUE
    BY <2>1
  <2> QED
    BY <2>1, <2>2 DEF IInv, NothingForgotten
<1>3. \A a, b : <<a, b>> \in Relation <=> \E e \in attacks : e[1] = a /\ e[2] = b
  BY DEF Relation
<1>4. out = Attacked(Relation, in)
  <2>1. \A a \in out : \E b \in in : <<b, a>> \in Relation
    BY <1>3 DEF IInv, OutIsAttacked
  <2>2. \A b \in in : \A a \in Arg : <<b, a>> \in Relation => a \in out
    BY <1>2, <1>3
  <2> QED
    BY <1>1, <2>1, <2>2 DEF Attacked
<1>5. ConflictFree(Relation, in)
  <2> SUFFICES ASSUME NEW a \in in, NEW b \in in, <<a, b>> \in Relation PROVE FALSE
    BY DEF ConflictFree
  <2>1. b \in out
    BY <1>2, <1>3
  <2> QED
    BY <1>1, <2>1
<1>6. in = Defended(Relation, in)
  <2>1. ASSUME NEW b \in in PROVE Attackers(Relation, b) \subseteq out
    BY <1>3, <2>1, AttackersOfInAreOut DEF IInv, Attackers
  <2>2. ASSUME NEW b \in Arg, Attackers(Relation, b) \subseteq out PROVE b \in in
    <3>1. Counted(b) = {}
      BY <1>1, <1>3, <2>2 DEF IInv, WalkShape, Counted, parents, Attackers
    <3> QED
      BY <3>1, AttackersOfInAreOut DEF IInv
  <2> QED
    BY <1>1, <1>4, <2>1, <2>2 DEF Defended
<1>7. \A S \in SUBSET Arg : Complete(Relation, S) => in \subseteq S
  BY DEF IInv, LabelsForced
<1> QED
  BY <1>4, <1>5, <1>6, <1>7 DEF GroundedLabels, Complete

(* Whatever the attack lines, repeated or not, and whatever order the walks *)
(* take, compute_grounded returns the grounded labelling.                   *)
THEOREM GroundedCorrect == Spec => []ResultGrounded
  BY Invariance, ReturnsGrounded, PTL

-----------------------------------------------------------------------------
(* Refinement.                                                              *)

LEMMA InitImplements == Init => Labelling!Init
<1> SUFFICES ASSUME Init PROVE Labelling!Init
  OBVIOUS
<1>1. Relation \in {{<<e[1], e[2]>> : e \in A} : A \in AttackSets}
  BY DEF Init, Relation
<1>2. in = {a \in Arg : Attackers(Relation, a) = {}}
  <2>1. \A e \in attacks : e[1] \in Arg
    BY AttackTypes DEF Init
  <2>2. \A a \in Arg : parents(a) = {} <=> Attackers(Relation, a) = {}
    BY <2>1 DEF parents, Attackers, Relation
  <2> QED
    BY <2>2 DEF Init
<1> QED
  BY <1>1, <1>2 DEF Init, Labelling!Init, Labelling!Attackers, Attackers

LEMMA InHaveOutAttackers ==
  IInv => \A e \in attacks : e[2] \in in => e[1] \in out
  BY AttackersOfInAreOut DEF IInv

LEMMA InHaveOutAttackersNext ==
  (IInv => \A e \in attacks : e[2] \in in => e[1] \in out)'
  BY InHaveOutAttackers, PTL

LEMMA StepImplements == IInv /\ IInv' /\ [Next]_vars => [Labelling!Next]_(Labelling!vars)
<1> SUFFICES ASSUME IInv, IInv', [Next]_vars PROVE [Labelling!Next]_(Labelling!vars)
  OBVIOUS
<1>0. \A e \in attacks : e[1] \in Arg /\ e[2] \in Arg
  BY AttackTypes DEF IInv, TypeOK
<1>1. ASSUME NEW e \in node, MarkOut(e) PROVE Labelling!Reject(e[2])
  <2>1. e \in attacks /\ e[1] = arg /\ arg \in in /\ e[2] \in Arg
    BY <1>0, <1>1 DEF IInv, TypeOK, WalkShape, StackListsAccepted, children, MarkOut
  <2>2. e[2] \in Labelling!Attacked(Relation, in)
    BY <1>0, <2>1 DEF Labelling!Attacked, Relation
  <2> QED
    BY <1>1, <2>2 DEF MarkOut, Labelling!Reject, Relation
<1>2. ASSUME NEW e \in node2, Decrease(e)
      PROVE  Labelling!Accept(e[2]) \/ UNCHANGED Labelling!vars
  <2>1. e[2] \in Arg /\ attacks' = attacks /\ out' = out
    BY <1>0, <1>2 DEF IInv, TypeOK, Decrease
  <2>2. CASE number_of_attackers[e[2]] = 1
    <3>1. in' = in \cup {e[2]} /\ e[2] \notin in
      BY <1>2, <2>2 DEF Decrease, IInv, CountersExact
    <3>2. \A f \in attacks : f[2] = e[2] => f[1] \in out
      BY <2>1, <3>1, InHaveOutAttackersNext
    <3>3. Labelling!Attackers(Relation, e[2]) \subseteq out
      BY <3>2 DEF Labelling!Attackers, Relation
    <3> QED
      BY <2>1, <3>1, <3>3 DEF Labelling!Accept, Relation
  <2>3. CASE number_of_attackers[e[2]] # 1
    BY <1>2, <2>1, <2>3 DEF Decrease, Labelling!vars, Relation
  <2> QED
    BY <2>2, <2>3
<1>3. CASE Pop \/ GrandchildrenDone \/ ChildrenDone \/ Return \/ UNCHANGED vars
  BY <1>3 DEF Pop, GrandchildrenDone, ChildrenDone, Return, vars, Labelling!vars, Relation
<1>4. ASSUME NEW e \in node, SkipChild(e) PROVE UNCHANGED Labelling!vars
  BY <1>4 DEF SkipChild, Labelling!vars, Relation
<1> QED
  BY <1>0, <1>1, <1>2, <1>3, <1>4 DEF Next, Labelling!Next, IInv, TypeOK

(* Each label the counters and the stack hand out is one the plain          *)
(* labelling procedure may hand out (the safety part of ImplementsLabelling).*)
THEOREM Refinement == Spec => Labelling!Init /\ [][Labelling!Next]_(Labelling!vars)
  BY Invariance, InitImplements, StepImplements, PTL DEF Spec

=============================================================================
