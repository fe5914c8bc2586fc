------------------------------ MODULE RangeMax ------------------------------
(***************************************************************************)
(* solve_sesst and solve_sestg (src/tasks/task_se-sst.cpp, task_se-stg.cpp)*)
(* are one loop over two encodings: among the admissible (semi-stable) or  *)
(* the conflict-free sets (stage), find one with as few undecided          *)
(* arguments as possible, by asking again and again for a labelling that   *)
(* decides what is decided and something more.                             *)
(***************************************************************************)
EXTENDS RangeCore

others == <<inner_solver, vars_to_add, vars_to_add_in, todo>>

Undecided_Inverted(m) == Decided(m)
Undecided(m) == Arg \ Decided(m)

InArg_Stale(m) == IF in_arg = {} THEN m.in ELSE in_arg
InArg(m) == m.in

-----------------------------------------------------------------------------
MaxInit ==
  /\ CoreInit
  /\ problem \in Problem \cap {"SE"}
  /\ arg = CHOOSE a \in Arg : TRUE           \* not used
  /\ solver = NewSolver(Assignments, Nothing)
  /\ inner_solver = solver
  /\ answer = {}

(* The grounded extension decides everything and is printed at once. *)
PrintGrounded ==
  /\ problem = "SE" /\ pc = "encode" /\ AllGrounded(grounded)
  /\ answer' = grounded.in
  /\ pc' = "done"
  /\ UNCHANGED <<input, others, solver, notUndec, in_arg, temp, clause>>

Encode ==
  /\ problem = "SE" /\ pc = "encode" /\ ~AllGrounded(grounded)
  /\ solver' = AddClause(NewSolver(BaseModels, Nothing), SomeDecided(Arg))
  /\ pc' = "solve"
  /\ UNCHANGED <<input, others, notUndec, in_arg, temp, clause, answer>>

Solve ==
  /\ problem = "SE" /\ pc = "solve"
  /\ \E s \in Results(solver) :
       /\ solver' = s
       /\ pc' = IF s.st = "UNSAT" THEN "print" ELSE "read"
  /\ UNCHANGED <<input, others, notUndec, in_arg, temp, clause, answer>>

ReadModel_AddsAtOnce ==
  /\ problem = "SE" /\ pc = "read"
  /\ in_arg' = solver.val.in
  /\ temp' = Decided(solver.val) \ notUndec
  /\ clause' = Undecided(solver.val)
  /\ solver' = AddClauses(solver, EachDecided(temp'))
  /\ pc' = "add"
  /\ UNCHANGED <<input, others, notUndec, answer>>

(* The loop over the model.  in_arg is the model's, not accumulated: a      *)
(* later model may decide more with other arguments in.                     *)
ReadModel ==
  /\ problem = "SE" /\ pc = "read"
  /\ in_arg' = InArg(solver.val)
  /\ temp' = Decided(solver.val) \ notUndec
  /\ clause' = Undecided(solver.val)
  /\ pc' = "add"
  /\ UNCHANGED <<input, others, solver, notUndec, answer>>

Extend ==
  /\ problem = "SE" /\ pc = "add"
  /\ solver' = AddClauses(AddClause(solver, SomeDecided(clause)), EachDecided(temp))
  /\ notUndec' = notUndec \cup temp
  /\ temp' = {}
  /\ pc' = "solve"
  /\ UNCHANGED <<input, others, in_arg, clause, answer>>

PrintInArg ==
  /\ problem = "SE" /\ pc = "print"
  /\ answer' = in_arg
  /\ pc' = "done"
  /\ UNCHANGED <<input, others, solver, notUndec, in_arg, temp, clause>>

MaxNext ==
  \/ PrintGrounded
  \/ Encode
  \/ Solve
  \/ ReadModel
  \/ Extend
  \/ PrintInArg

-----------------------------------------------------------------------------
(* What was read at the previous step is still the solver's model. *)
ReadIsCurrent ==
  problem = "SE" =>
    /\ pc = "read" => Readable(solver)
    /\ pc = "add" => Readable(solver) /\ notUndec \cup temp = Decided(solver.val)

(* The accumulated clauses say exactly "decides all of notUndec and more".  *)
SolverAsksForMore ==
  problem = "SE" /\ pc \in {"solve", "print"} =>
    solver.db = {m \in BaseModels : notUndec \subseteq Decided(m) /\ notUndec # Decided(m)}

(* The set that will be printed always goes with the arguments counted as   *)
(* decided: it accepts or attacks every one of them.                        *)
InArgDecides ==
  problem = "SE" /\ pc \in {"solve", "print"} => notUndec \subseteq RangeOf(relation, in_arg)

(* task_se-sst.cpp, task_se-stg.cpp: between two calls the solver asks for  *)
(* exactly what is still missing, and in_arg stands for what was found.     *)
SearchExact == SolverAsksForMore /\ InArgDecides

(* The set printed by SE-SST is semi-stable, by SE-STG a stage extension.   *)
ResultMaximal == problem = "SE" /\ pc = "done" => Extension(answer)

=============================================================================
