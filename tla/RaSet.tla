------------------------------- MODULE RaSet -------------------------------
(***************************************************************************)
(* The random access set of src/util/raset.c: a bit set answers membership,*)
(* an array lists the members so that they can be walked by index, and a   *)
(* second array knows each member's place in the first, so that a member   *)
(* can be taken out by moving the last one into its place.                 *)
(*                                                                         *)
(* The arrays come from malloc and hold anything at first; so do the places*)
(* past number_of_elements later on.                                       *)
(***************************************************************************)
EXTENDS Naturals

CONSTANT max_number_of_elements

ASSUME MaxAssumption == max_number_of_elements \in Nat

Element == 0 .. max_number_of_elements - 1

VARIABLES
  elements,                 \* the bit set
  number_of_elements,
  elements_arr,             \* its first number_of_elements places list the members
  elements_arr_inverted,    \* the place of each member
  modified                  \* the answer of the last add or remove

raSetVars == <<elements, number_of_elements, elements_arr, elements_arr_inverted, modified>>

Present(e) == e \in elements

-----------------------------------------------------------------------------
(* raset__init_empty *)
RaSetInit ==
  /\ elements = {}
  /\ number_of_elements = 0
  /\ elements_arr \in [Element -> Element]
  /\ elements_arr_inverted \in [Element -> Element]
  /\ modified = FALSE

raset__reset ==
  /\ number_of_elements' = 0
  /\ elements' = {}
  /\ UNCHANGED <<elements_arr, elements_arr_inverted, modified>>

(* An add or a remove that has nothing to do. *)
NotModified ==
  /\ modified' = FALSE
  /\ UNCHANGED <<elements, number_of_elements, elements_arr, elements_arr_inverted>>

raset__add(e) ==
  \/ Present(e) /\ NotModified
  \/ /\ ~Present(e)
     /\ elements' = elements \cup {e}
     /\ elements_arr' = [elements_arr EXCEPT ![number_of_elements] = e]
     /\ elements_arr_inverted' = [elements_arr_inverted EXCEPT ![e] = number_of_elements]
     /\ number_of_elements' = number_of_elements + 1
     /\ modified' = TRUE

(* A name with a suffix is the same step with a slip in it; no              *)
(* specification uses it, the properties are tried against it.              *)
raset__remove_KeepPlace(e) ==  \* a slip: the moved member keeps its old place
  \/ ~Present(e) /\ NotModified
  \/ /\ Present(e)
     /\ elements' = elements \ {e}
     /\ number_of_elements' = number_of_elements - 1
     /\ elements_arr' = [elements_arr EXCEPT ![elements_arr_inverted[e]] = elements_arr[number_of_elements - 1]]
     /\ UNCHANGED elements_arr_inverted
     /\ modified' = TRUE
raset__remove(e) ==
  \/ ~Present(e) /\ NotModified
  \/ /\ Present(e)
     /\ elements' = elements \ {e}
     /\ number_of_elements' = number_of_elements - 1
     /\ elements_arr' = [elements_arr EXCEPT ![elements_arr_inverted[e]] = elements_arr[number_of_elements - 1]]
     /\ LET place == elements_arr_inverted[e]  \* read again after the first assignment
        IN  elements_arr_inverted' = [elements_arr_inverted EXCEPT ![elements_arr'[place]] = place]
     /\ modified' = TRUE

RaSetNext ==
  \/ raset__reset
  \/ \E e \in Element : raset__add(e)
  \/ \E e \in Element : raset__remove(e)

RaSetSpec == RaSetInit /\ [][RaSetNext]_raSetVars

-----------------------------------------------------------------------------
RaSetTypeOK ==
  /\ elements \in SUBSET Element
  /\ number_of_elements \in 0 .. max_number_of_elements
  /\ elements_arr \in [Element -> Element]
  /\ elements_arr_inverted \in [Element -> Element]
  /\ modified \in BOOLEAN

Places == {i \in Element : i < number_of_elements}
Listed == {elements_arr[i] : i \in Places}

(* A walk over the array by index meets every member of the bit set and     *)
(* nothing else, each once: the place found through the second array is the *)
(* only one a member has.                                                   *)
ArrayListsElements ==
  /\ Listed = elements
  /\ \A i \in Places : elements_arr_inverted[elements_arr[i]] = i

(* What the loops that remove while they walk rely on ("i--" in             *)
(* compute_ideal): of the places that stay, a removal changes at most that  *)
(* of the member removed.                                                   *)
RemovalMovesOnlyLast ==
  [][\A e \in elements :
       elements' = elements \ {e} =>
         \A i \in Places :
           i < number_of_elements' /\ elements_arr[i] # e => elements_arr'[i] = elements_arr[i]]_raSetVars

(* Seen through the array, it is the set it promises to be. *)
Promise == INSTANCE ElementSet WITH members <- Listed
ImplementsSet == Promise!Spec

=============================================================================
