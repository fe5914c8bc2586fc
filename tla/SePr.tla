-------------------------------- MODULE SePr --------------------------------
(***************************************************************************)
(* solve_sepr (src/tasks/task_se-pr.cpp): find a preferred extension by    *)
(* asking a SAT solver again and again for a larger admissible set.        *)
(*                                                                         *)
(* The function is called without a set to start from (track SE-PR) or     *)
(* with the in part of a model of the admissibility encoding (the witness  *)
(* of DS-PR).  initial_admSet = NULL and an empty set behave alike, so     *)
(* initial_admSet is {} for both.                                          *)
(***************************************************************************)
EXTENDS Encodings, Ipasir

CONSTANT Frameworks     \* the attack relations considered

ASSUME FrameworksAssumption == Frameworks \subseteq SUBSET (Arg \X Arg)

VARIABLES
  relation,             \* the attacks of the AAF; never changes
  grounded,             \* struct Labeling* grounded, from compute_grounded
  initial_admSet,       \* the set to start from
  solver,               \* the SAT solver
  admSet, temp,         \* the current set and the arguments to add to it
  clause,               \* the in variables of the arguments to ask for next
  answer,               \* the set printed
  pc

vars == <<relation, grounded, initial_admSet, solver, admSet, temp, clause,
          answer, pc>>

Nothing == [in |-> {}, out |-> {}]

(* The clause asks for an argument the model leaves out, unit clauses keep  *)
(* the new ones.  A name with a suffix is the same definition with a slip   *)
(* in it; no specification uses it, the properties are tried against it.    *)
Missing(m) == Arg \ m.in

KeepNew_Forgotten(S) == {}
KeepNew(S) == Units(Pos("in", S))

-----------------------------------------------------------------------------
Init ==
  /\ relation \in Frameworks
  /\ grounded \in {G \in Assignments : GroundedLabels(relation, G.in, G.out)}
  /\ initial_admSet \in {{}} \cup {m.in : m \in AdmModels(relation, grounded)}
  /\ solver = NewSolver(Assignments, Nothing)
  /\ admSet = initial_admSet
  /\ temp = {}
  /\ clause = {}
  /\ answer = {}
  /\ pc = "encode"

(* The grounded extension leaves nothing undecided and is printed at once. *)
PrintGrounded ==
  /\ pc = "encode" /\ AllGrounded(grounded)
  /\ answer' = grounded.in
  /\ pc' = "done"
  /\ UNCHANGED <<relation, grounded, initial_admSet, solver, admSet, temp, clause>>

(* Admissibility, some argument outside of the initial set, and the initial *)
(* set itself.                                                              *)
Encode ==
  /\ pc = "encode" /\ ~AllGrounded(grounded)
  /\ solver' =
       AddClauses(NewSolver(AdmModels(relation, grounded), Nothing),
                  {Pos("in", Arg \ initial_admSet)}
                    \cup Units(Pos("in", initial_admSet)))
  /\ pc' = "solve"
  /\ UNCHANGED <<relation, grounded, initial_admSet, admSet, temp, clause, answer>>

Solve ==
  /\ pc = "solve"
  /\ \E s \in Results(solver) :
       /\ solver' = s
       /\ pc' = IF s.st = "UNSAT" THEN "print" ELSE "read"
  /\ UNCHANGED <<relation, grounded, initial_admSet, admSet, temp, clause, answer>>

ReadModel_AddsAtOnce ==
  /\ pc = "read"
  /\ temp' = solver.val.in \ admSet
  /\ clause' = Missing(solver.val)
  /\ solver' = AddClauses(solver, KeepNew(temp'))
  /\ pc' = "add"
  /\ UNCHANGED <<relation, grounded, initial_admSet, admSet, answer>>

(* The loop over the model: what is new, and what is still missing. *)
ReadModel ==
  /\ pc = "read"
  /\ temp' = solver.val.in \ admSet
  /\ clause' = Missing(solver.val)
  /\ pc' = "add"
  /\ UNCHANGED <<relation, grounded, initial_admSet, solver, admSet, answer>>

(* Ask for one of the missing, keep the new ones. *)
Extend ==
  /\ pc = "add"
  /\ solver' = AddClauses(AddClause(solver, Pos("in", clause)), KeepNew(temp))
  /\ admSet' = admSet \cup temp
  /\ temp' = {}
  /\ pc' = "solve"
  /\ UNCHANGED <<relation, grounded, initial_admSet, clause, answer>>

PrintAdmSet ==
  /\ pc = "print"
  /\ answer' = admSet
  /\ pc' = "done"
  /\ UNCHANGED <<relation, grounded, initial_admSet, solver, admSet, temp, clause>>

Next ==
  \/ PrintGrounded
  \/ Encode
  \/ Solve
  \/ ReadModel
  \/ Extend
  \/ PrintAdmSet

(* Sequential code; ipasir_solve always comes back with 10 or 20, since no  *)
(* terminate callback is installed.                                         *)
Spec == Init /\ [][Next]_vars /\ WF_vars(Next)

-----------------------------------------------------------------------------
TypeOK ==
  /\ relation \in Frameworks
  /\ grounded \in Assignments
  /\ initial_admSet \in SUBSET Arg
  /\ solver \in [db : SUBSET Assignments, asm : {{}},
                 st : {"INPUT", "SAT", "UNSAT"}, val : Assignments]
  /\ admSet \in SUBSET Arg
  /\ temp \in SUBSET Arg
  /\ clause \in SUBSET Arg
  /\ answer \in SUBSET Arg
  /\ pc \in {"encode", "solve", "read", "add", "print", "done"}

(* ipasir.h:131-133: a model is read only while the solver is in state SAT, *)
(* and a model read at the previous step is still the solver's at this one. *)
ModelIsCurrent ==
  /\ pc = "read" => Readable(solver)
  /\ pc = "add" => Readable(solver) /\ admSet \cup temp = solver.val.in

(* The contract of the solver, with what the type invariant says of it: no  *)
(* assumption outlives the call it was made for.                            *)
SolverWellUsed == TypeOK /\ ModelIsCurrent

(* The clauses accumulated over the iterations say exactly "admissible, and *)
(* a strict superset of admSet": the older clauses are never too strong (a  *)
(* larger set would be lost) nor too weak (the loop would repeat itself).   *)
SolverAsksForSuperset ==
  pc \in {"solve", "print"} =>
    solver.db = {m \in AdmModels(relation, grounded) :
                   admSet \subseteq m.in /\ admSet # m.in}

(* The set printed is a preferred extension and keeps the set given. *)
ResultPreferred ==
  pc = "done" => Preferred(relation, answer) /\ initial_admSet \subseteq answer

(* Every iteration enlarges the set. *)
EachIterationGrows ==
  [][pc = "add" => admSet \subseteq admSet' /\ admSet' # admSet]_vars

(* It implements the promise made to the callers; that it stops is QueryEnds *)
(* of DsPr, which runs it for both of its callers.                           *)
Search ==
  INSTANCE PreferredSearch
    WITH current <- IF pc = "done" THEN answer ELSE admSet,
         stopped <- pc = "done"
ImplementsSearch == Search!Init /\ [][Search!Next]_(Search!vars)

=============================================================================
