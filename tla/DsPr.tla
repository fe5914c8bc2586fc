-------------------------------- MODULE DsPr --------------------------------
(***************************************************************************)
(* solve_dspr (src/tasks/task_ds-pr.cpp): is task->arg in every preferred  *)
(* extension?  Two SAT solvers take turns.  solver_admTest extends a given *)
(* set to an admissible one; solver_attAdmTest looks for an admissible set *)
(* that attacks an admissible set with the argument, and that is not a     *)
(* subset of any model solver_admTest has shown so far.                    *)
(*                                                                         *)
(* The driver decides arguments the grounded labelling decides by itself,  *)
(* so the function is called for an undecided argument only.  After NO it  *)
(* calls solve_sepr, the module SePr, for a witness; the driver calls the  *)
(* same function for track SE-PR.  Here either call is made, and SePr runs *)
(* from the state the caller leaves it in.                                 *)
(***************************************************************************)
EXTENDS SePr

VARIABLES
  arg,                          \* task->arg
  admTest, attAdmTest,          \* the two solvers
  verdict,                      \* "YES", "NO" or "none" while undecided
  step                          \* of the query; "search" while solve_sepr runs

search == <<initial_admSet, solver, admSet, temp, clause, answer, pc>>
input  == <<relation, grounded, arg>>
query  == <<input, admTest, attAdmTest, verdict, step>>
all    == <<search, query>>

(* The clause that excludes a model, and the set solve_sepr is called with. *)
(* A name with a suffix is the same definition with a slip in it; no        *)
(* specification uses it, the properties are tried against it.              *)
Excluding_Inverted(m) == Pos("in", m.in)
Excluding(m) == Pos("in", Missing(m))

InSet_Out(m) == m.out
InSet(m) == m.in

-----------------------------------------------------------------------------
QueryInit ==
  /\ relation \in Frameworks
  /\ grounded \in {G \in Assignments : GroundedLabels(relation, G.in, G.out)}
  /\ arg \in Arg
  /\ admTest = NewSolver(AdmModels(relation, grounded), Nothing)
  /\ attAdmTest = NewSolver(AttAdmModels(relation, grounded), PairOf(Nothing, Nothing))
  /\ verdict = "none"
  /\ \/ step = "search"         \* track SE-PR
     \/ step = "defend" /\ arg \notin grounded.in \cup grounded.out
  /\ initial_admSet = {} /\ admSet = {} /\ temp = {} /\ clause = {} /\ answer = {}
  /\ solver = NewSolver(Assignments, Nothing)
  /\ pc = "encode"

(* NO is printed, then a preferred extension from solve_sepr. *)
No(initial) ==
  /\ verdict' = "NO"
  /\ initial_admSet' = initial /\ admSet' = initial
  /\ step' = "search"
  /\ UNCHANGED <<solver, temp, clause, answer, pc>>

SolveIn_AssumesNext ==
  /\ step = "defend"
  /\ \E s \in Results(Assume(admTest, Pos("in", {arg}))) :
       /\ admTest' = Assume(s, Pos("out", {arg}))
       /\ IF s.st = "UNSAT"
            THEN No({})
            ELSE step' = "exclude" /\ UNCHANGED <<verdict, search>>
  /\ UNCHANGED <<input, attAdmTest>>

(* Is there an admissible set with the argument? *)
SolveIn ==
  /\ step = "defend"
  /\ \E s \in Results(Assume(admTest, Pos("in", {arg}))) :
       /\ admTest' = s
       /\ IF s.st = "UNSAT"
            THEN No({})
            ELSE step' = "exclude" /\ UNCHANGED <<verdict, search>>
  /\ UNCHANGED <<input, attAdmTest>>

(* The attacking set must not be a subset of the model just found. *)
ExcludeModel(next) ==
  /\ attAdmTest' = AddClause(attAdmTest, Excluding(admTest.val))
  /\ step' = next
  /\ UNCHANGED <<input, admTest, verdict, search>>

ExcludeFirst == step = "exclude" /\ ExcludeModel("attack")

(* Does an admissible set attack the argument?  Then a preferred extension  *)
(* around it is the witness.                                                *)
SolveOut ==
  /\ step = "attack"
  /\ \E s \in Results(Assume(admTest, Pos("out", {arg}))) :
       /\ admTest' = s
       /\ IF s.st = "SAT"
            THEN No(InSet(s.val)) /\ UNCHANGED attAdmTest
            ELSE /\ attAdmTest' = AddClauses(attAdmTest, Units(Pos("in_attacked", {arg})))
                 /\ step' = "loop" /\ UNCHANGED <<verdict, search>>
  /\ UNCHANGED input

(* The next attacking set, if there is one. *)
SolveAttack ==
  /\ step = "loop"
  /\ \E s \in Results(attAdmTest) :
       /\ attAdmTest' = s
       /\ IF s.st = "UNSAT"
            THEN verdict' = "YES" /\ step' = "done"
            ELSE verdict' = verdict /\ step' = "extend"
  /\ UNCHANGED <<input, admTest, search>>

(* Can it be extended to an admissible set with the argument?  If not, a    *)
(* preferred extension around it is the witness.                            *)
SolveExtension ==
  /\ step = "extend"
  /\ \E s \in Results(Assume(admTest, Pos("in", {arg} \cup attAdmTest.val.in))) :
       /\ admTest' = s
       /\ IF s.st = "UNSAT"
            THEN No(InSet(attAdmTest.val))
            ELSE step' = "refine" /\ UNCHANGED <<verdict, search>>
  /\ UNCHANGED <<input, attAdmTest>>

ExcludeExtension == step = "refine" /\ ExcludeModel("loop")

(* solve_sepr, started by either caller. *)
SolveSePr == step = "search" /\ Next /\ UNCHANGED query

QueryNext ==
  \/ SolveIn
  \/ ExcludeFirst
  \/ SolveOut
  \/ SolveAttack
  \/ SolveExtension
  \/ ExcludeExtension
  \/ SolveSePr

(* Sequential code over a solver that always answers. *)
QuerySpec == QueryInit /\ [][QueryNext]_all /\ WF_all(QueryNext)

-----------------------------------------------------------------------------
QueryTypeOK ==
  /\ arg \in Arg
  /\ admTest.db \subseteq Assignments /\ admTest.val \in Assignments
  /\ \A p \in attAdmTest.db \cup {attAdmTest.val} :
       DOMAIN p = {"in", "out", "in_attacked", "out_attacked"}
  /\ \A s \in {admTest, attAdmTest} : s.st \in {"INPUT", "SAT", "UNSAT"} /\ s.asm = {}
  /\ verdict \in {"none", "YES", "NO"}
  /\ step \in {"defend", "exclude", "attack", "loop", "extend", "refine", "search", "done"}

(* ipasir.h:131-133.  Each solver is read while the other is being changed; *)
(* the one that is read must still be in state SAT.                         *)
QueryModelIsCurrent ==
  /\ step \in {"exclude", "refine"} => Readable(admTest)
  /\ step = "extend" => Readable(attAdmTest)

(* solve_sepr is called in a state it is meant to be called in: the set it  *)
(* is given is the in part of a model of the admissibility encoding, which  *)
(* is what Init of SePr, and with it the theorems about SePr, asks for.     *)
CalledAsSpecified == step = "search" /\ pc = "encode" => Init

(* The contracts of the query: with its solvers, no assumption outliving    *)
(* the call it was made for (ipasir.h:131-133), and with solve_sepr.        *)
ContractsKept == QueryTypeOK /\ QueryModelIsCurrent /\ CalledAsSpecified

(* The answer of solve_dspr is that of the definition, and the extension    *)
(* solve_sepr prints after NO is a counterexample: it lacks the argument.   *)
SkepticallyAccepted ==
  \A S \in SUBSET Arg : Preferred(relation, S) => arg \in S

QueryCorrect ==
  /\ verdict = "YES" => SkepticallyAccepted
  /\ verdict = "NO" => ~SkepticallyAccepted
  /\ verdict = "NO" /\ pc = "done" => arg \notin answer

(* An admissible set that attacks the argument's admissible sets and cannot *)
(* be extended by the argument is never excluded: refinement clauses only   *)
(* rule out sets already known to be harmless.                              *)
NoCounterexampleLost ==
  step \in {"loop", "extend", "refine"} =>
    \A p \in AttAdmModels(relation, grounded) :
      /\ arg \in p.in_attacked
      /\ ~ \E m \in AdmModels(relation, grounded) : arg \in m.in /\ p.in \subseteq m.in
      => p \in attAdmTest.db

(* The loops of solve_dspr and of solve_sepr end, and with them the call. *)
QueryEnds == <>(step = "done" \/ pc = "done")

=============================================================================
