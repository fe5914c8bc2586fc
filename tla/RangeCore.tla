------------------------------ MODULE RangeCore ------------------------------
(***************************************************************************)
(* What the functions for semi-stable and stage semantics share: the       *)
(* search of RangeMax and the queries of RangeQuery keep a labelling that  *)
(* decides as much as was found, and a SAT solver that must decide more.   *)
(***************************************************************************)
EXTENDS Encodings, Ipasir, Naturals

CONSTANTS Frameworks,   \* the attack relations considered
          Encoding,     \* the encodings: "adm" for SST, "cf" for STG
          Problem       \* the problems: "SE", "DC", "DS"

ASSUME ArgAssumption        == Arg \subseteq Nat
ASSUME FrameworksAssumption == Frameworks \subseteq SUBSET (Arg \X Arg)
ASSUME EncodingAssumption   == Encoding \subseteq {"adm", "cf"}
ASSUME ProblemAssumption    == Problem \subseteq {"SE", "DC", "DS"}

VARIABLES
  encoding, problem,            \* which of the six functions it is
  relation, grounded, arg,      \* the input: attacks, grounded labelling, task->arg
  solver, inner_solver,         \* the SAT solvers; SE has one
  notUndec,                     \* the arguments known to be decidable together
  in_arg,                       \* the arguments in of the last model
  temp,                         \* SE: newly decided arguments
  vars_to_add, vars_to_add_in,  \* SST queries: the arguments decided, and in, in the inner model
  todo,                         \* STG queries: the arguments the single pass has not visited
  clause,                       \* the arguments the last model leaves undecided
  answer,                       \* SE: the set printed; else "YES", "NO", "none" while undecided
  pc

vars == <<encoding, problem, relation, grounded, arg, solver, inner_solver, notUndec, in_arg,
          temp, vars_to_add, vars_to_add_in, todo, clause, answer, pc>>
input == <<encoding, problem, relation, grounded, arg>>
pass  == <<vars_to_add, vars_to_add_in, todo, clause>>

Nothing == [in |-> {}, out |-> {}]

(* A name with a suffix is the same definition with a slip in it; no        *)
(* specification uses it, the properties are tried against it.              *)
Decided(m) == m.in \cup m.out

(* The variables in and out of the arguments S, as one clause, and a clause *)
(* of its own for every argument of S.                                      *)
SomeDecided(S) == Pos("in", S) \cup Pos("out", S)
EachDecided_Forgotten(S) == {}
EachDecided(S) == {SomeDecided({a}) : a \in S}

BaseModels_Swapped ==
  IF encoding = "adm" THEN CfModels(relation) ELSE AdmModels(relation, grounded)
BaseModels ==
  IF encoding = "adm" THEN AdmModels(relation, grounded) ELSE CfModels(relation)

CoreInit ==
  /\ encoding \in Encoding
  /\ relation \in Frameworks
  /\ grounded \in {G \in Assignments : GroundedLabels(relation, G.in, G.out)}
  /\ notUndec = {} /\ in_arg = {} /\ temp = {}
  /\ vars_to_add = {} /\ vars_to_add_in = {} /\ todo = {} /\ clause = {}
  /\ pc = "encode"

Extension(S) ==
  IF encoding = "adm" THEN SemiStable(relation, S) ELSE Stage(relation, S)

=============================================================================
