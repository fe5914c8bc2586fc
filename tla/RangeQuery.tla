----------------------------- MODULE RangeQuery -----------------------------
(***************************************************************************)
(* solve_dcsst, solve_dssst, solve_dcstg and solve_dsstg                   *)
(* (src/tasks/task_dc-sst.cpp, task_ds-sst.cpp, task_dc-stg.cpp,           *)
(* task_ds-stg.cpp): is task->arg in some (DC), or in every (DS),          *)
(* semi-stable or stage extension?                                         *)
(*                                                                         *)
(* The outer solver proposes a labelling with the argument (DC) or without *)
(* it (DS).  An inner solver then looks for labellings that decide more:   *)
(* first of the same kind, and when there is none left, of any kind.  If   *)
(* no labelling decides more, the query is settled; otherwise the outer    *)
(* solver must decide more than the best labelling of that kind did.       *)
(*                                                                         *)
(* The four functions differ in the encoding, the sign of the assumption,  *)
(* the answers, and in one place that matters: the two for semi-stable     *)
(* semantics read the whole inner model before they add clauses to the     *)
(* inner solver (lines 116-124), the two for stage semantics read and add  *)
(* argument by argument (lines 116-128).  The solver library aborts the    *)
(* program when a value is asked for outside of state SAT.                 *)
(***************************************************************************)
EXTENDS RangeMax

(* What a labelling that decides S, or the current inner solver, leaves     *)
(* open.                                                                    *)
Rest(S) == Arg \ S

Open_All == Arg
Open == Arg \ notUndec

(* What the outer solver must decide after a round. *)
Blocking_InOnly == Pos("in", Open)
Blocking == SomeDecided(Open)

(* The literal assumed, and the answer when a labelling of this kind is the *)
(* best there is; the other answer when there is none.                      *)
IsQuery  == problem \in {"DC", "DS"}
Query    == IF problem = "DC" THEN Pos("in", {arg}) ELSE Neg("in", {arg})
Found    == IF problem = "DC" THEN "YES" ELSE "NO"
NotFound == IF problem = "DC" THEN "NO" ELSE "YES"

-----------------------------------------------------------------------------
(* The driver settles SST queries about arguments the grounded labelling    *)
(* decides; STG queries are passed on in any case.                          *)
QueryInit ==
  /\ CoreInit
  /\ problem \in Problem \ {"SE"}
  /\ arg \in IF encoding = "adm" THEN Arg \ Decided(grounded) ELSE Arg
  /\ solver = NewSolver(BaseModels, Nothing)
  /\ inner_solver = NewSolver(BaseModels, Nothing)
  /\ answer = "none"

(* The grounded extension is the only semi-stable or stage extension. *)
AnswerGrounded ==
  /\ IsQuery /\ pc = "encode" /\ AllGrounded(grounded)
  /\ answer' = IF arg \in grounded.in THEN "YES" ELSE "NO"
  /\ in_arg' = grounded.in
  /\ pc' = "done"
  /\ UNCHANGED <<input, temp, solver, inner_solver, notUndec, pass>>

StartLoop ==
  /\ IsQuery /\ pc = "encode" /\ ~AllGrounded(grounded)
  /\ pc' = "outer"
  /\ UNCHANGED <<input, temp, solver, inner_solver, notUndec, in_arg, pass, answer>>

(* A labelling of the kind asked for. *)
SolveOuter ==
  /\ IsQuery /\ pc = "outer"
  /\ \E s \in Results(Assume(solver, Query)) :
       /\ solver' = s
       /\ IF s.st = "UNSAT"
            THEN answer' = NotFound /\ pc' = "done"
            ELSE answer' = answer /\ pc' = "build"
  /\ UNCHANGED <<input, temp, inner_solver, notUndec, in_arg, pass>>

(* A new inner solver: decide what the model decides, and something more. *)
BuildInner ==
  LET m == solver.val
  IN  /\ IsQuery /\ pc = "build"
      /\ notUndec' = Decided(m)
      /\ in_arg' = m.in
      /\ inner_solver' =
           AddClause(AddClauses(NewSolver(BaseModels, Nothing), EachDecided(Decided(m))),
                     SomeDecided(Rest(Decided(m))))
      /\ pc' = "inner"
      /\ UNCHANGED <<input, temp, solver, pass, answer>>

(* A labelling of the same kind that decides more; if there is none, ask    *)
(* again without the assumption, which the solver has dropped by itself.    *)
SolveInner ==
  /\ IsQuery /\ pc = "inner"
  /\ \E s \in Results(Assume(inner_solver, Query)) :
       /\ inner_solver' = s
       /\ IF s.st = "UNSAT"
            THEN pc' = "recheck" /\ UNCHANGED <<in_arg, todo, clause>>
            ELSE /\ pc' = IF encoding = "adm" THEN "read" ELSE "scan"
                 /\ in_arg' = {} /\ todo' = Arg /\ clause' = {}
  /\ UNCHANGED <<input, temp, solver, notUndec, vars_to_add, vars_to_add_in, answer>>

SolveInnerAgain ==
  /\ IsQuery /\ pc = "recheck"
  /\ \E s \in Results(inner_solver) :
       /\ inner_solver' = s
       /\ IF s.st = "UNSAT"
            THEN answer' = Found /\ pc' = "done"
            ELSE answer' = answer /\ pc' = "block"
  /\ UNCHANGED <<input, temp, solver, notUndec, in_arg, pass>>

(* The outer solver must decide one of the arguments still undecided. *)
Block ==
  /\ IsQuery /\ pc = "block"
  /\ solver' = AddClause(solver, Blocking)
  /\ pc' = "outer"
  /\ UNCHANGED <<input, temp, inner_solver, notUndec, in_arg, pass, answer>>

ReadInner_AddsAtOnce ==
  /\ IsQuery /\ pc = "read"
  /\ vars_to_add' = Decided(inner_solver.val)
  /\ vars_to_add_in' = inner_solver.val.in
  /\ inner_solver' = AddClauses(inner_solver, EachDecided(vars_to_add' \ notUndec))
  /\ UNCHANGED <<input, temp, solver, notUndec, in_arg, todo, clause, answer, pc>>

(* Semi-stable: first read the whole model, ... *)
ReadInner ==
  /\ IsQuery /\ pc = "read"
  /\ vars_to_add' = Decided(inner_solver.val)
  /\ vars_to_add_in' = inner_solver.val.in
  /\ pc' = "add"
  /\ UNCHANGED <<input, temp, solver, inner_solver, notUndec, in_arg, todo, clause, answer>>

(* ... then add the clauses; the argument of the query is not recorded. *)
AddInner ==
  LET new == (vars_to_add \ notUndec) \ {arg}
  IN  /\ IsQuery /\ pc = "add"
      /\ inner_solver' =
           AddClause(AddClauses(inner_solver, EachDecided(new)),
                     SomeDecided(Rest(vars_to_add)))
      /\ notUndec' = notUndec \cup new
      /\ in_arg' = vars_to_add_in
      /\ pc' = "inner"
      /\ UNCHANGED <<input, temp, solver, pass, answer>>

(* Stage: one pass over the arguments that reads and adds in turn.  A read  *)
(* outside of state SAT ends the program.                                   *)
Scan(i) ==
  LET m == inner_solver.val
      records == i \in Decided(m) \ notUndec /\ i # arg
  IN  /\ pc = "scan" /\ i \in todo /\ \A j \in todo : i <= j
      /\ Readable(inner_solver)
      /\ inner_solver' =
           IF records THEN AddClause(inner_solver, SomeDecided({i})) ELSE inner_solver
      /\ notUndec' = IF records THEN notUndec \cup {i} ELSE notUndec
      /\ clause' = IF i \in Decided(m) THEN clause ELSE clause \cup {i}
      /\ IF i \in Decided(m)
           THEN pc' = "scan in" /\ todo' = todo
           ELSE pc' = pc /\ todo' = todo \ {i}
      /\ UNCHANGED <<input, temp, solver, in_arg, vars_to_add, vars_to_add_in, answer>>

(* The second read of the same argument, after its clause may be added. *)
ScanIn(i) ==
  /\ pc = "scan in" /\ i \in todo /\ \A j \in todo : i <= j
  /\ Readable(inner_solver)
  /\ in_arg' = IF i \in inner_solver.val.in THEN in_arg \cup {i} ELSE in_arg
  /\ todo' = todo \ {i}
  /\ pc' = "scan"
  /\ UNCHANGED <<input, temp, solver, inner_solver, notUndec, vars_to_add,
                 vars_to_add_in, clause, answer>>

(* The check the solver library makes of its caller. *)
Abort ==
  /\ pc \in {"scan", "scan in"} /\ todo # {} /\ ~Readable(inner_solver)
  /\ pc' = "abort"
  /\ UNCHANGED <<input, temp, solver, inner_solver, notUndec, in_arg, pass, answer>>

EndScan ==
  /\ pc = "scan" /\ todo = {}
  /\ inner_solver' = AddClause(inner_solver, SomeDecided(clause))
  /\ pc' = "inner"
  /\ UNCHANGED <<input, temp, solver, notUndec, in_arg, pass, answer>>

QueryNext ==
  \/ AnswerGrounded
  \/ StartLoop
  \/ SolveOuter
  \/ BuildInner
  \/ SolveInner
  \/ SolveInnerAgain
  \/ Block
  \/ ReadInner
  \/ AddInner
  \/ \E i \in Arg : Scan(i)
  \/ \E i \in Arg : ScanIn(i)
  \/ Abort
  \/ EndScan

-----------------------------------------------------------------------------
(* The six functions for semi-stable and stage semantics: the search of     *)
(* RangeMax (SE) and the queries (DC, DS).                                  *)
Init == MaxInit \/ QueryInit
Next == MaxNext \/ QueryNext

(* Sequential code over a solver that always answers. *)
Spec == Init /\ [][Next]_vars /\ WF_vars(Next)

-----------------------------------------------------------------------------
(* An extension of the kind that settles the query. *)
Settles(S) == Extension(S) /\ (arg \in S) = (problem = "DC")

(* The four range queries: the answer is that of the definition, and the    *)
(* set printed with it settles the query.                                   *)
AnswerCorrect ==
  IsQuery /\ pc = "done" =>
    /\ answer = IF \E S \in SUBSET Arg : Settles(S) THEN Found ELSE NotFound
    /\ answer = Found => Settles(in_arg)

(* Whenever the outer solver is asked, the clauses added to it have not     *)
(* ruled out a labelling that would settle the query.                       *)
NoExtensionLost ==
  pc = "outer" =>
    \A S \in SUBSET Arg :
      Settles(S) => [in |-> S, out |-> Attacked(relation, S)] \in solver.db

(* ipasir.h:131-133: "This function can only be used if ipasir_solve has    *)
(* returned 10 and no 'ipasir_add' nor 'ipasir_assume' has been called      *)
(* since then", i.e. a model is read in state SAT only.                     *)
ModelIsCurrent ==
  IsQuery =>
    /\ pc = "build" => Readable(solver)
    /\ pc = "read" \/ (pc \in {"scan", "scan in"} /\ todo # {}) => Readable(inner_solver)

TypeOK ==
  /\ encoding \in Encoding /\ problem \in Problem
  /\ relation \in Frameworks
  /\ grounded \in Assignments
  /\ problem # "SE" => arg \in Arg
  /\ \A s \in {solver, inner_solver} :
       s \in [db : SUBSET Assignments, asm : {{}},
              st : {"INPUT", "SAT", "UNSAT"}, val : Assignments]
  /\ \A S \in {notUndec, in_arg, temp, vars_to_add, vars_to_add_in, todo, clause} : S \subseteq Arg
  /\ IF problem = "SE" THEN answer \subseteq Arg ELSE answer \in {"none", "YES", "NO"}
  /\ pc \in {"encode", "solve", "outer", "build", "inner", "recheck", "block", "read", "add",
             "scan", "scan in", "print", "done", "abort"}

(* The contract of the solvers, with what the type invariant says of it: no *)
(* assumption outlives the call it was made for.  The searches, and the two *)
(* queries that copy the inner model before they add clauses, read a model  *)
(* that is current; those for stage extensions read in between              *)
(* (ModelIsCurrent, on its own).                                            *)
SolverWellUsed ==
  /\ TypeOK
  /\ ReadIsCurrent
  /\ encoding = "adm" => ModelIsCurrent

(* Each of the six functions ends. *)
Termination == <>(pc \in {"done", "abort"})

=============================================================================
