--------------------------------- MODULE AF ---------------------------------
(***************************************************************************)
(* Abstract argumentation frameworks: the reference definitions that the   *)
(* other modules are checked and proved against.                           *)
(*                                                                         *)
(* A framework is a set Arg of arguments (the constant) and an attack      *)
(* relation R \subseteq Arg \X Arg (a parameter of every operator, since   *)
(* the specifications choose it in their initial state).  The definitions  *)
(* are the usual set-based ones (Dung 1995) and share nothing with the     *)
(* labelling- and SAT-based computations of the program.                   *)
(***************************************************************************)

EXTENDS FiniteSets

CONSTANT Arg            \* the arguments, the ids 0..number_of_arguments-1

(* number_of_arguments is an int. *)
ASSUME FiniteArgAssumption == IsFiniteSet(Arg)

(* The arguments attacking a, and the arguments attacked by some member of S. *)
Attackers(R, a) == {b \in Arg : <<b, a>> \in R}
Attacked(R, S)  == {a \in Arg : \E b \in S : <<b, a>> \in R}

(* What S accepts or rejects. *)
RangeOf(R, S) == S \cup Attacked(R, S)

ConflictFree(R, S) == \A a, b \in S : <<a, b>> \notin R
Defended(R, S)     == {a \in Arg : Attackers(R, a) \subseteq Attacked(R, S)}

-----------------------------------------------------------------------------
(* The semantics, each a predicate on a set S \subseteq Arg.                *)

Admissible(R, S) == ConflictFree(R, S) /\ S \subseteq Defended(R, S)
Complete(R, S)   == ConflictFree(R, S) /\ S = Defended(R, S)
Stable(R, S)     == ConflictFree(R, S) /\ RangeOf(R, S) = Arg

Preferred(R, S) ==
  /\ Admissible(R, S)
  /\ \A T \in SUBSET Arg : Admissible(R, T) /\ S \subseteq T => T = S

SemiStable(R, S) ==
  /\ Admissible(R, S)
  /\ \A T \in SUBSET Arg :
       Admissible(R, T) /\ RangeOf(R, S) \subseteq RangeOf(R, T)
         => RangeOf(R, T) = RangeOf(R, S)

Stage(R, S) ==
  /\ ConflictFree(R, S)
  /\ \A T \in SUBSET Arg :
       ConflictFree(R, T) /\ RangeOf(R, S) \subseteq RangeOf(R, T)
         => RangeOf(R, T) = RangeOf(R, S)

(* The arguments of every preferred extension; the ideal extension is the   *)
(* largest admissible set among them.                                       *)
SkepticallyPreferred(R) == {a \in Arg : \A S \in SUBSET Arg : Preferred(R, S) => a \in S}

IsIdeal(R, S) ==
  /\ Admissible(R, S) /\ S \subseteq SkepticallyPreferred(R)
  /\ \A T \in SUBSET SkepticallyPreferred(R) : Admissible(R, T) => T \subseteq S

(* The grounded extension is the least complete one; the labelling the     *)
(* program carries around also holds the set of arguments it attacks.      *)
GroundedLabels(R, in, out) ==
  /\ out = Attacked(R, in)
  /\ Complete(R, in)
  /\ \A S \in SUBSET Arg : Complete(R, S) => in \subseteq S

=============================================================================
