------------------------------ MODULE IncSolver ------------------------------
(***************************************************************************)
(* The solver between the calls of the program and inside solve: clauses   *)
(* are added and assumptions made (solver.cpp, external.cpp), clauses are  *)
(* restored, then search and inprocessing take turns until there is a      *)
(* model of what is left, or none (internal.cpp); a model is extended when *)
(* it is first read.                                                       *)
(*                                                                         *)
(* Search is abstracted to its result and to the clauses it learns.  The   *)
(* limits that decide when a technique runs and for how long are           *)
(* abstracted: any may run at any time, MaxSteps of them in a behaviour.          *)
(***************************************************************************)
EXTENDS Simplify, Elimination

CONSTANTS Formulas,          \* the sets of clauses the first calls add
          Pool,              \* the clauses added later
          Assumptions,       \* the literals assumed
          Techniques,        \* the inprocessing that is enabled
          MaxCalls,          \* add and assume after the first solve
          MaxSteps           \* steps of inprocessing, in all calls of solve
ASSUME CallsAssumption ==
  /\ Formulas \subseteq SUBSET SUBSET Lits /\ Pool \subseteq SUBSET Lits
  /\ Assumptions \subseteq Lits
  /\ MaxCalls \in Nat /\ MaxSteps \in Nat

VARIABLES
  state,        \* STEADY, SOLVING, SATISFIED or UNSATISFIED
  phase,        \* SOLVING: "search", or "elim" during a round of elimination
  solver,       \* the record of Reconstruction
  assumed,      \* the assumptions; their variables are frozen
  queue,        \* resolvents waiting for backward subsumption
  backward,     \* the one that is worked on
  vals,         \* the values search ended with
  model,        \* the external values, once extended
  original,     \* all clauses added, as they were added
  calls, steps

vars == <<state, phase, solver, assumed, queue, backward, vals, model, original, calls, steps>>
elim == <<queue, backward>>
result == <<vals, model>>

Frozen == {Idx(l) : l \in assumed}
Running == state = "SOLVING" /\ ~solver.unsat
Searching == Running /\ phase = "search"

NewSolver ==
  [irr |-> {}, red |-> {}, unit |-> {}, unsat |-> FALSE,
   status |-> [v \in Var |-> "UNUSED"], stack |-> <<>>, witness |-> {}, tainted |-> {}]

Init ==
  /\ state = "STEADY" /\ phase = "search"
  /\ original \in Formulas
  /\ solver = FoldSet(LAMBDA c, s : AddClause(s, c), NewSolver, original)
  /\ assumed = {}
  /\ queue = <<>> /\ backward = Idle
  /\ vals = {} /\ model = {}
  /\ calls = 0 /\ steps = 0

-----------------------------------------------------------------------------
(* transition_to_steady_state: the assumptions of the last call are melted, *)
(* the model is gone.                                                       *)
Pending == IF state = "STEADY" THEN assumed ELSE {}
Call ==
  /\ state # "SOLVING" /\ calls < MaxCalls
  /\ calls' = calls + 1
  /\ state' = "STEADY" /\ vals' = {} /\ model' = {}
  /\ UNCHANGED <<phase, elim, steps>>

Add(c) ==
  /\ Call
  /\ solver' = AddClause(solver, c)
  /\ original' = original \cup {c}
  /\ assumed' = Pending

Assume(l) ==
  /\ Call
  /\ solver' = Internalize(solver, l)
  /\ assumed' = Pending \cup {l}
  /\ UNCHANGED original

(* Internal::solve: nothing is restored when the formula is known to be    *)
(* unsatisfiable or no literal is tainted.                                 *)
Prepared(s) ==
  LET t == Propagate(s)
  IN  IF t.unsat \/ t.tainted = {} THEN t ELSE Restore(t)
Solve ==
  /\ state # "SOLVING"
  /\ state = "STEADY" \/ calls < MaxCalls
  /\ calls' = IF state = "STEADY" THEN calls ELSE calls + 1
  /\ state' = "SOLVING"
  /\ solver' = Prepared(solver)
  /\ assumed' = Pending
  /\ vals' = {} /\ model' = {}
  /\ UNCHANGED <<phase, elim, original, steps>>

-----------------------------------------------------------------------------
Inprocess(technique, solvers) ==
  /\ Searching /\ technique \in Techniques /\ steps < MaxSteps
  /\ steps' = steps + 1
  /\ solver' \in solvers \ {solver}
  /\ UNCHANGED <<state, phase, assumed, elim, result, original, calls>>

LearnClause      == Inprocess("learn", Learn(solver))
ReduceClauses    == Inprocess("reduce", Reduce(solver))
SubsumeClauses   == Inprocess("subsume", Subsume(solver))
StrengthenClause == Inprocess("subsume", Strengthen(solver))
TransitiveReduction == Inprocess("transred", Transred(solver))
DeduplicateClauses  == Inprocess("deduplicate", Deduplicate(solver))
ProbeLiterals    == Inprocess("probe", Probe(solver))
ResolveHyperBinary  == Inprocess("probe", HyperBinaries(solver))
ResolveTernary   == Inprocess("ternary", Ternary(solver))
VivifyOne        == Inprocess("vivify", Vivify(solver))
DecomposeRound   == Inprocess("decompose", Decompose(solver, Frozen))

(* elim_round: variables are tried one after the other, each with the      *)
(* backward subsumption of its resolvents.                                 *)
ElimStep ==
  /\ Running /\ phase = "elim" /\ steps < MaxSteps
  /\ UNCHANGED <<state, assumed, result, original, calls>>

BeginElim ==
  /\ Searching /\ "elim" \in Techniques /\ steps < MaxSteps
  /\ phase' = "elim"
  /\ solver' = BeginElimRound(solver)
  /\ UNCHANGED <<state, assumed, elim, result, original, calls, steps>>

ElimVariable(v) ==
  /\ ElimStep /\ queue = <<>> /\ backward = Idle
  /\ Active(solver, v) /\ v \notin Frozen
  /\ \E t \in TryEliminate(solver, v) : solver' = t.s /\ queue' = t.queue
  /\ steps' = steps + 1
  /\ UNCHANGED <<phase, backward>>

(* elim_backward_clauses: the next clause of the queue, ... *)
Dequeue ==
  /\ Running /\ phase = "elim" /\ backward = Idle /\ queue # <<>>
  /\ queue' = Tail(queue)
  /\ LET c == Head(queue)
         satisfied == c \in solver.irr /\ SatisfiedBy(c, solver.unit)
     IN  /\ solver' = IF satisfied THEN Without(solver, {c}) ELSE solver
         /\ IF c \in solver.irr /\ ~satisfied /\ ~Falsified(c, solver.unit)
            THEN backward' \in BeginBackward(solver, c) ELSE backward' = Idle
  /\ UNCHANGED <<state, phase, assumed, result, original, calls, steps>>

(* ... and the clauses it may subsume or strengthen, in any order. *)
Visit(d) ==
  /\ Running /\ phase = "elim" /\ d \in backward.todo
  /\ \E t \in BackwardSteps(solver, queue, backward, d) :
       solver' = t.s /\ queue' = t.queue /\ backward' = t.b
  /\ UNCHANGED <<state, phase, assumed, result, original, calls, steps>>

EndBackward ==
  /\ Running /\ phase = "elim" /\ backward # Idle /\ backward.todo = {}
  /\ backward' = Idle
  /\ UNCHANGED <<state, phase, solver, assumed, queue, result, original, calls, steps>>

EndElim ==
  /\ Running /\ phase = "elim" /\ queue = <<>> /\ backward = Idle
  /\ phase' = "search"
  /\ solver' = EndElimRound(solver)
  /\ UNCHANGED <<state, assumed, elim, result, original, calls, steps>>

-----------------------------------------------------------------------------
(* Search ends with values for all variables, also those that do not occur *)
(* any more, or with a conflict that the assumptions do not let it leave.   *)
SearchModels(s) == {m \in ModelsOf(s.irr \cup s.red, s.unit) : assumed \subseteq m}

FindModel ==
  /\ Searching
  /\ vals' \in SearchModels(solver)
  /\ state' = "SATISFIED"
  /\ UNCHANGED <<phase, solver, assumed, elim, model, original, calls, steps>>

FindNone ==
  /\ state = "SOLVING"
  /\ solver.unsat \/ (phase = "search" /\ SearchModels(solver) = {})
  /\ state' = "UNSATISFIED" /\ phase' = "search"
  /\ queue' = <<>> /\ backward' = Idle
  /\ UNCHANGED <<solver, assumed, result, original, calls, steps>>

(* External::ival: the first value that is read extends the model. *)
Val ==
  /\ state = "SATISFIED" /\ model = {}
  /\ model' = Extended(solver.stack, vals)
  /\ UNCHANGED <<state, phase, solver, assumed, elim, vals, original, calls, steps>>

Next ==
  \/ \E c \in Pool : Add(c)
  \/ \E l \in Assumptions : Assume(l)
  \/ Solve
  \/ LearnClause \/ ReduceClauses \/ SubsumeClauses \/ StrengthenClause
  \/ TransitiveReduction \/ DeduplicateClauses \/ ProbeLiterals
  \/ ResolveHyperBinary \/ ResolveTernary \/ VivifyOne \/ DecomposeRound
  \/ BeginElim
  \/ \E v \in Var : ElimVariable(v)
  \/ Dequeue
  \/ \E d \in backward.todo : Visit(d)
  \/ EndBackward
  \/ EndElim
  \/ FindModel \/ FindNone
  \/ Val

Spec == Init /\ [][Next]_vars

-----------------------------------------------------------------------------
TypeOK ==
  /\ state \in {"STEADY", "SOLVING", "SATISFIED", "UNSATISFIED"}
  /\ phase \in {"search", "elim"}
  /\ solver.irr \cup solver.red \subseteq SUBSET Lits
  /\ solver.unit \subseteq Lits
  /\ \A v \in Var : solver.status[v] \in {"UNUSED", "ACTIVE", "FIXED", "ELIMINATED", "SUBSTITUTED"}
  /\ solver.witness \cup solver.tainted \cup assumed \subseteq Lits
  /\ vals \in {{}} \cup Assignments /\ model \in {{}} \cup Assignments

(* A variable that was eliminated or substituted occurs in no clause, not   *)
(* even in a learned one, and a literal is marked as witness exactly when   *)
(* it is one on the extension stack: a mark that is missing keeps a clause  *)
(* from being restored.                                                     *)
WellFormed ==
  /\ TypeOK
  /\ phase = "search" /\ ~solver.unsat =>
       \A c \in solver.irr \cup solver.red : \A l \in c :
         solver.status[Idx(l)] \in {"ACTIVE", "FIXED"}
  /\ solver.witness = {e.witness : e \in ToSet(solver.stack)}

Left == solver.irr \cup {{l} : l \in assumed}
Clean == solver.tainted = {} /\ ~solver.unsat

(* extend.cpp, elim.cpp, decompose.cpp: while no literal is tainted, every  *)
(* model of the irredundant clauses that are left becomes, by walking the   *)
(* extension stack, a model of all clauses ever added and of the            *)
(* assumptions.  Variables may come back and be eliminated again in between. *)
ModelsExtend ==
  Clean =>
    \A m \in ModelsOf(Left, solver.unit) :
      LET e == Extended(solver.stack, m)
      IN  SatisfiesAll(e, original) /\ assumed \subseteq e

(* Nothing is added that the clauses do not imply: as long as the clauses   *)
(* and the assumptions have a model, so has what the solver has made of     *)
(* them, its learned clauses included; and the empty clause is derived only *)
(* when the clauses alone are unsatisfiable.                                *)
NoModelLost ==
  /\ Clean /\ phase = "search" =>
       (ModelsOf(original \cup Left, {}) # {} => SearchModels(solver) # {})
  /\ solver.unsat => ModelsOf(original, {}) = {}

(* subsume.cpp, transred.cpp: a redundant clause may be forgotten at any    *)
(* time, so it must follow from the irredundant ones alone.                 *)
RedundantImplied ==
  phase = "search" /\ ~solver.unsat =>
    \A c \in solver.red : Implied(solver.irr, solver.unit, c)

(* backward.cpp:7-10: new clauses are "checked to subsume or strengthen     *)
(* other (longer or same size) clauses": while that is done a clause only   *)
(* goes when a root literal satisfies it or a clause that stays subsumes it. *)
RemovedWithReason ==
  [][backward # Idle /\ ~solver'.unsat =>
       \A d \in solver.irr \ solver'.irr :
         \E e \in solver'.irr \cup {{l} : l \in solver'.unit} : e \subseteq d]_vars

(* The incremental solver keeps its promise, whatever was eliminated,       *)
(* substituted or restored between the calls.                               *)
Contract == INSTANCE SolverContract
  WITH Clauses <- Pool \cup UNION Formulas,
       clauses <- original,
       answer  <- IF state \in {"SATISFIED", "UNSATISFIED"} THEN state ELSE "none"
ImplementsContract == Contract!Spec

=============================================================================
