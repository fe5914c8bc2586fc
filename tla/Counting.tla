------------------------------ MODULE Counting ------------------------------
(***************************************************************************)
(* solve_cest, solve_ceco and solve_cepr (src/tasks/task_ce-st.cpp,        *)
(* task_ce-co.cpp, task_ce-pr.cpp): count the stable, complete or preferred*)
(* extensions by excluding each one found from the solver.  The first two  *)
(* exclude what the model gives; the third first extends the model to a    *)
(* preferred extension, with assumptions that must be made anew for every  *)
(* call, and excludes the subsets of everything it meets on the way.       *)
(***************************************************************************)
EXTENDS Encodings, Ipasir, Naturals, FiniteSets

CONSTANT Frameworks     \* the attack relations considered

ASSUME FrameworksAssumption == Frameworks \subseteq SUBSET (Arg \X Arg)

VARIABLES
  track,                \* "CE-ST", "CE-CO" or "CE-PR"
  relation, grounded,   \* attacks and grounded labelling
  solver,
  admSet,               \* CE-PR: the set being extended
  noFurther,            \* CE-PR: this round has found no set
  cnt,                  \* the extensions counted
  phase

input == <<track, relation, grounded>>
countingVars  == <<input, solver, admSet, noFurther, cnt, phase>>

Nothing == [in |-> {}, out |-> {}]

(* The blocking clauses, and the assumptions of CE-PR.  A name with a       *)
(* suffix is the same definition with a slip in it; no specification uses   *)
(* it, the properties are tried against it.                                 *)
NoSubset_Superset(S) == Neg("in", S)
NoSubset_Any(S) == Pos("in", Arg)
NoSubset(S) == Pos("in", Arg \ S)
Different(S) == Pos("in", Arg \ S) \cup Neg("in", S)

Kept_Forgotten(S) == {}
Kept(S) == Pos("in", S)

-----------------------------------------------------------------------------
BaseModels(t, R, G) ==
  CASE t = "CE-ST" -> StbModels(R, G)
    [] t = "CE-CO" -> ComModels(R, G)
    [] t = "CE-PR" -> AdmModels(R, G)

CountingInit ==
  /\ track \in {"CE-ST", "CE-CO", "CE-PR"}
  /\ relation \in Frameworks
  /\ grounded \in {G \in Assignments : GroundedLabels(relation, G.in, G.out)}
  /\ LET s == NewSolver(BaseModels(track, relation, grounded), Nothing)
     IN  solver = IF track = "CE-PR" THEN AddClause(s, Pos("in", Arg)) ELSE s
  /\ admSet = {} /\ noFurther = TRUE
  /\ cnt = 0
  /\ phase = "solve"

Solve ==
  /\ phase = "solve"
  /\ \E s \in Results(solver) :
       /\ solver' = s
       /\ phase' = IF s.st = "SAT" THEN "read"
                ELSE IF track = "CE-PR" THEN "round" ELSE "print"
  /\ UNCHANGED <<input, admSet, noFurther, cnt>>

(* CE-ST: stable extensions are not subsets of each other.  With all        *)
(* arguments in, the clause would be empty and the loop is left.            *)
CountStable ==
  /\ track = "CE-ST" /\ phase = "read"
  /\ cnt' = cnt + 1
  /\ IF NoSubset(solver.val.in) = {}
       THEN phase' = "print" /\ solver' = solver
       ELSE phase' = "solve" /\ solver' = AddClause(solver, NoSubset(solver.val.in))
  /\ UNCHANGED <<input, admSet, noFurther>>

(* CE-CO: only the same set again is excluded. *)
CountComplete ==
  /\ track = "CE-CO" /\ phase = "read"
  /\ cnt' = cnt + 1
  /\ IF Different(solver.val.in) = {}
       THEN phase' = "print" /\ solver' = solver
       ELSE phase' = "solve" /\ solver' = AddClause(solver, Different(solver.val.in))
  /\ UNCHANGED <<input, admSet, noFurther>>

(* CE-PR: exclude the subsets of the set found and ask for a superset. *)
GrowSet ==
  /\ track = "CE-PR" /\ phase = "read"
  /\ noFurther' = FALSE
  /\ admSet' = admSet \cup solver.val.in
  /\ solver' = Assume(AddClause(solver, NoSubset(solver.val.in)), Kept(solver.val.in))
  /\ phase' = "solve"
  /\ UNCHANGED <<input, cnt>>

(* CE-PR: there is no superset; count, and start the next round from        *)
(* nothing, or stop if this one has found nothing.                          *)
CountPreferred ==
  /\ phase = "round" /\ ~noFurther
  /\ cnt' = cnt + 1
  /\ solver' = AddClause(solver, NoSubset(admSet))
  /\ admSet' = {} /\ noFurther' = TRUE
  /\ phase' = "solve"
  /\ UNCHANGED input

(* CE-PR: if there was no set but the empty one, that is the extension. *)
NoFurtherRound ==
  /\ phase = "round" /\ noFurther
  /\ cnt' = IF cnt = 0 THEN 1 ELSE cnt
  /\ phase' = "print"
  /\ UNCHANGED <<input, solver, admSet, noFurther>>

CountingNext ==
  \/ Solve
  \/ CountStable
  \/ CountComplete
  \/ GrowSet
  \/ CountPreferred
  \/ NoFurtherRound

(* Sequential code over a solver that always answers. *)
CountingSpec == CountingInit /\ [][CountingNext]_countingVars /\ WF_countingVars(CountingNext)

-----------------------------------------------------------------------------
CountingTypeOK ==
  /\ relation \in Frameworks
  /\ grounded \in Assignments
  /\ solver.db \subseteq Assignments /\ solver.asm \subseteq Pos("in", Arg)
  /\ solver.st \in {"INPUT", "SAT", "UNSAT"} /\ solver.val \in Assignments
  /\ admSet \in SUBSET Arg
  /\ noFurther \in BOOLEAN
  /\ cnt \in Nat
  /\ phase \in {"solve", "read", "round", "print"}

Extensions ==
  {S \in SUBSET Arg :
     CASE track = "CE-ST" -> Stable(relation, S)
       [] track = "CE-CO" -> Complete(relation, S)
       [] track = "CE-PR" -> Preferred(relation, S)}

(* Between two rounds, the extensions counted and those the solver can      *)
(* still give are all there are: none is counted twice, excluded uncounted, *)
(* or counted and still possible.  (CE-PR never asks for the empty set and  *)
(* puts that right at the end.)  The number printed is that of extensions.  *)
CountExact ==
  /\ phase = "solve" /\ noFurther =>
       cnt + Cardinality(Extensions \cap {m.in : m \in solver.db})
         = Cardinality(IF track = "CE-PR" THEN Extensions \ {{}} ELSE Extensions)
  /\ phase = "print" => cnt = Cardinality(Extensions)

(* The count ends. *)
CountingEnds == <>(phase = "print")

=============================================================================
