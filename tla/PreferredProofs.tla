-------------------------- MODULE PreferredProofs ---------------------------
(***************************************************************************)
(* Proofs about SePr and DsPr for every set of arguments and every attack  *)
(* relation.  The first part is about solve_sepr: the set printed is       *)
(* preferred, and every iteration enlarges the set.  The second part is    *)
(* about solve_dspr: its answer is that of the definition, the witness it  *)
(* goes on to print lacks the argument, and no counterexample is excluded  *)
(* unseen; what it leaves to solve_sepr rests on the first part.           *)
(***************************************************************************)
EXTENDS DsPr, EncodingProofs

USE DEF Missing, KeepNew

(* The models still wanted: admissible strict supersets of admSet. *)
Wanted(S) ==
  {m \in AdmModels(relation, grounded) : S \subseteq m.in /\ S # m.in}

(* The set grows from the initial one through sets that are the in part of  *)
(* models; only the empty set may lack the grounded extension.              *)
SetInv ==
  /\ initial_admSet \subseteq admSet
  /\ admSet = {} \/ grounded.in \subseteq admSet
  /\ Admissible(relation, admSet)

LoopInv ==
  /\ pc = "encode" => /\ admSet = initial_admSet
                      /\ \/ initial_admSet = {}
                         \/ \E m \in AdmModels(relation, grounded) : initial_admSet = m.in
  /\ pc \in {"solve", "read", "add", "print"} => solver.db = Wanted(admSet)
  /\ pc \in {"read", "add"} => solver.st = "SAT" /\ solver.val \in Wanted(admSet)
  /\ pc = "add" => temp = solver.val.in \ admSet /\ clause = Arg \ solver.val.in
  /\ pc = "print" => solver.db = {}
  /\ pc # "add" => temp = {}

IInv ==
  /\ TypeOK
  /\ GroundedLabels(relation, grounded.in, grounded.out)
  /\ SetInv
  /\ LoopInv
  /\ ResultPreferred

-----------------------------------------------------------------------------
LEMMA EmptyIsAdmissible == \A R : Admissible(R, {})
  BY DEF Admissible, ConflictFree

LEMMA InitIInv == Init => IInv
<1> SUFFICES ASSUME Init PROVE IInv
  OBVIOUS
<1>1. /\ grounded \in Assignments /\ Nothing \in Assignments
      /\ GroundedLabels(relation, grounded.in, grounded.out)
      /\ initial_admSet = {} \/ \E m \in AdmModels(relation, grounded) : initial_admSet = m.in
  BY DEF Init, Nothing, Assignments
<1>2. /\ initial_admSet \in SUBSET Arg
      /\ initial_admSet = {} \/ grounded.in \subseteq initial_admSet
      /\ Admissible(relation, initial_admSet)
  <2>1. CASE initial_admSet = {}
    BY <2>1, EmptyIsAdmissible
  <2>2. ASSUME NEW m \in AdmModels(relation, grounded), initial_admSet = m.in
        PROVE  /\ initial_admSet \in SUBSET Arg
               /\ grounded.in \subseteq initial_admSet
               /\ Admissible(relation, initial_admSet)
    BY <1>1, <2>2, AdmModelIsAdmissible DEF Assignments
  <2> QED
    BY <1>1, <2>1, <2>2
<1>3. TypeOK
  BY <1>1, <1>2 DEF Init, TypeOK, NewSolver
<1> QED
  BY <1>1, <1>2, <1>3 DEF Init, IInv, SetInv, LoopInv, ResultPreferred

(* After the first clauses the solver has the models wanted.                *)
LEMMA EncodeIInv == ASSUME IInv, Encode PROVE IInv'
<1> DEFINE M == AdmModels(relation, grounded)
           cs == {Pos("in", Arg \ initial_admSet)} \cup Units(Pos("in", initial_admSet))
<1>1. M \subseteq Assignments /\ Nothing \in Assignments
  BY DEF AdmModels, Nothing, Assignments
<1>2. solver' = [db |-> {m \in M : \A c \in cs : Satisfies(m, c)}, asm |-> {},
                 st |-> "INPUT", val |-> Nothing]
  BY DEF Encode, AddClauses, NewSolver
<1>3. ASSUME NEW m \in M
      PROVE  (\A c \in cs : Satisfies(m, c)) <=>
               initial_admSet \subseteq m.in /\ initial_admSet # m.in
  <2>1. m \in Assignments /\ m.in \subseteq Arg
    BY <1>1, <1>3 DEF Assignments
  <2>2. (\A c \in cs : Satisfies(m, c)) <=>
          (\E a \in Arg \ initial_admSet : a \in m.in) /\ initial_admSet \subseteq m.in
    BY <2>1, SomeIn, AllIn
  <2> QED
    BY <2>1, <2>2
<1>4. /\ pc = "encode" /\ pc' = "solve" /\ admSet = initial_admSet /\ temp' = {}
      /\ UNCHANGED <<relation, grounded, initial_admSet, admSet, temp, clause, answer>>
  BY DEF Encode, IInv, LoopInv
<1>5. solver'.db = Wanted(admSet)'
  BY <1>2, <1>3, <1>4 DEF Wanted
<1>6. TypeOK'
  BY <1>1, <1>2, <1>4 DEF IInv, TypeOK
<1> QED
  BY <1>4, <1>5, <1>6 DEF IInv, SetInv, LoopInv, ResultPreferred

LEMMA PrintGroundedIInv == ASSUME IInv, PrintGrounded PROVE IInv'
<1>1. /\ grounded \in Assignments /\ GroundedLabels(relation, grounded.in, grounded.out)
      /\ AllGrounded(grounded) /\ grounded.in \in SUBSET Arg
  BY DEF IInv, TypeOK, PrintGrounded, Assignments
<1>2. Preferred(relation, grounded.in) /\ initial_admSet \subseteq grounded.in
  BY <1>1, DecidedIsPreferred DEF IInv, LoopInv, PrintGrounded
<1> QED
  BY <1>1, <1>2 DEF PrintGrounded, IInv, TypeOK, SetInv, LoopInv, ResultPreferred

LEMMA SolveIInv == ASSUME IInv, Solve PROVE IInv'
<1>1. /\ pc = "solve" /\ temp = {} /\ solver.db = Wanted(admSet) /\ solver.asm = {}
      /\ UNCHANGED <<relation, grounded, initial_admSet, admSet, temp, clause, answer>>
  BY DEF IInv, TypeOK, LoopInv, Solve
<1>2. Models(solver) = Wanted(admSet)
  BY <1>1 DEF Models
<1>3. Wanted(admSet)' = Wanted(admSet) /\ Wanted(admSet) \subseteq Assignments
  BY <1>1 DEF Wanted, AdmModels
<1>0. solver \in [db : SUBSET Assignments, asm : {{}},
                  st : {"INPUT", "SAT", "UNSAT"}, val : Assignments]
  BY DEF IInv, TypeOK
<1>4. CASE Wanted(admSet) = {}
  <2>1. Results(solver) = {[solver EXCEPT !.asm = {}, !.st = "UNSAT"]}
    BY <1>2, <1>4 DEF Results
  <2>2. solver' = [solver EXCEPT !.asm = {}, !.st = "UNSAT"] /\ pc' = "print"
    BY <1>0, <2>1 DEF Solve
  <2> QED
    BY <1>1, <1>3, <1>4, <2>2 DEF IInv, TypeOK, SetInv, LoopInv, ResultPreferred
<1>5. CASE Wanted(admSet) # {}
  <2>1. Results(solver) = {[solver EXCEPT !.asm = {}, !.st = "SAT", !.val = m] :
                             m \in Wanted(admSet)}
    BY <1>2, <1>5 DEF Results
  <2>2. PICK m \in Wanted(admSet) :
          solver' = [solver EXCEPT !.asm = {}, !.st = "SAT", !.val = m] /\ pc' = "read"
    BY <1>0, <2>1 DEF Solve
  <2> QED
    BY <1>1, <1>3, <2>2 DEF IInv, TypeOK, SetInv, LoopInv, ResultPreferred
<1> QED
  BY <1>4, <1>5

LEMMA ReadModelIInv == ASSUME IInv, ReadModel PROVE IInv'
  BY DEF ReadModel, IInv, TypeOK, SetInv, LoopInv, ResultPreferred, Wanted, Assignments

(* The new clause and the new units together with the old clauses ask for a *)
(* strict superset of the model just read, no more and no less.             *)
LEMMA ExtendIInv == ASSUME IInv, Extend PROVE IInv'
<1> DEFINE new == solver.val.in
<1>1. /\ pc = "add" /\ pc' = "solve" /\ temp' = {}
      /\ temp = new \ admSet /\ clause = Arg \ new /\ admSet' = admSet \cup temp
      /\ UNCHANGED <<relation, grounded, initial_admSet, clause, answer>>
      /\ solver.db = Wanted(admSet) /\ solver.val \in Wanted(admSet)
  BY DEF Extend, IInv, LoopInv
<1>2. /\ solver.val \in AdmModels(relation, grounded) /\ solver.val \in Assignments
      /\ admSet \subseteq new /\ admSet # new /\ new \subseteq Arg
  BY <1>1 DEF Wanted, AdmModels, Assignments
<1>3. admSet' = new
  BY <1>1, <1>2
<1>4. grounded.in \subseteq new /\ Admissible(relation, new)
  BY <1>2, AdmModelIsAdmissible DEF IInv, TypeOK
<1>5. /\ solver'.db = {m \in Wanted(admSet) :
                         /\ Satisfies(m, Pos("in", clause))
                         /\ \A c \in Units(Pos("in", temp)) : Satisfies(m, c)}
      /\ solver' \in [db : SUBSET Assignments, asm : {{}},
                      st : {"INPUT", "SAT", "UNSAT"}, val : Assignments]
  <2>1. solver \in [db : SUBSET Assignments, asm : {{}},
                    st : {"INPUT", "SAT", "UNSAT"}, val : Assignments]
    BY DEF IInv, TypeOK
  <2>2. Units(Pos("in", temp)) # {}
    <3>1. PICK a \in temp : TRUE
      BY <1>1, <1>2
    <3>2. <<"in", a, TRUE>> \in Pos("in", temp)
      BY <3>1 DEF Pos
    <3> QED
      BY <3>2 DEF Units
  <2>3. solver' = [solver EXCEPT
                     !.db = {m \in {n \in solver.db : Satisfies(n, Pos("in", clause))} :
                               \A c \in Units(Pos("in", temp)) : Satisfies(m, c)},
                     !.st = "INPUT"]
    BY <2>1, <2>2 DEF Extend, AddClause, AddClauses
  <2> QED
    BY <1>1, <2>1, <2>3
<1>6. ASSUME NEW m \in AdmModels(relation, grounded)
      PROVE  /\ admSet \subseteq m.in /\ admSet # m.in
             /\ Satisfies(m, Pos("in", clause))
             /\ \A c \in Units(Pos("in", temp)) : Satisfies(m, c)
             <=> new \subseteq m.in /\ new # m.in
  <2>1. m \in Assignments /\ m.in \subseteq Arg
    BY <1>6 DEF AdmModels, Assignments
  <2>2. Satisfies(m, Pos("in", clause)) <=> \E a \in clause : a \in m.in
    BY <2>1, SomeIn
  <2>3. (\A c \in Units(Pos("in", temp)) : Satisfies(m, c)) <=> temp \subseteq m.in
    BY <2>1, AllIn
  <2> QED
    BY <1>1, <1>2, <2>1, <2>2, <2>3
<1>7. solver'.db = Wanted(admSet)'
  BY <1>1, <1>3, <1>5, <1>6 DEF Wanted
<1> QED
  BY <1>1, <1>2, <1>3, <1>4, <1>5, <1>7
     DEF IInv, TypeOK, SetInv, LoopInv, ResultPreferred

(* No model is wanted any more.  An admissible strict superset would have   *)
(* one; and if the set is still empty, so is the grounded extension, which  *)
(* would have one too.                                                      *)
LEMMA PrintAdmSetIInv == ASSUME IInv, PrintAdmSet PROVE IInv'
<1>1. /\ grounded \in Assignments /\ GroundedLabels(relation, grounded.in, grounded.out)
      /\ admSet \in SUBSET Arg /\ grounded.in \in SUBSET Arg
      /\ Wanted(admSet) = {} /\ temp = {}
  BY DEF IInv, TypeOK, LoopInv, PrintAdmSet, Assignments
<1>2. ASSUME NEW S \in SUBSET Arg, Admissible(relation, S), grounded.in \subseteq S,
             admSet \subseteq S
      PROVE  S = admSet
  <2>1. [in |-> S, out |-> Attacked(relation, S)] \in AdmModels(relation, grounded)
    BY <1>1, <1>2, AdmissibleHasModel
  <2> QED
    BY <1>1, <1>2, <2>1 DEF Wanted
<1>3. grounded.in \subseteq admSet
  <2>1. Admissible(relation, grounded.in)
    BY <1>1 DEF GroundedLabels, Complete, Admissible
  <2> QED
    BY <1>1, <1>2, <2>1 DEF IInv, SetInv
<1>4. Preferred(relation, admSet)
  BY <1>2, <1>3 DEF Preferred, IInv, SetInv
<1> QED
  BY <1>1, <1>4 DEF PrintAdmSet, IInv, TypeOK, SetInv, LoopInv, ResultPreferred

LEMMA StepIInv == IInv /\ [Next]_vars => IInv'
<1> SUFFICES ASSUME IInv, [Next]_vars PROVE IInv'
  OBVIOUS
<1>1. CASE UNCHANGED vars
  BY <1>1 DEF vars, IInv, TypeOK, SetInv, LoopInv, ResultPreferred, Wanted
<1> QED
  BY <1>1, PrintGroundedIInv, EncodeIInv, SolveIInv, ReadModelIInv, ExtendIInv,
     PrintAdmSetIInv DEF Next

LEMMA Invariance == Spec => []IInv
  BY InitIInv, StepIInv, PTL DEF Spec

-----------------------------------------------------------------------------
(* The solver is used within its contract: the models are read only in      *)
(* state SAT and are the ones the set grows by, no assumption is left over. *)
THEOREM UseOfSolver == Spec => []SolverWellUsed
<1>1. IInv => SolverWellUsed
  BY DEF IInv, LoopInv, SolverWellUsed, ModelIsCurrent, Readable, Wanted
<1> QED
  BY <1>1, Invariance, PTL

(* The accumulated clauses ask for the strict admissible supersets of the   *)
(* current set.                                                             *)
THEOREM ClausesExact == Spec => []SolverAsksForSuperset
<1>1. IInv => SolverAsksForSuperset
  BY DEF IInv, LoopInv, SolverAsksForSuperset, Wanted
<1> QED
  BY <1>1, Invariance, PTL

(* solve_sepr prints a preferred extension that contains the set it was     *)
(* given, for every framework.                                              *)
THEOREM SePrCorrect == Spec => []ResultPreferred
  BY Invariance, PTL DEF IInv

(* Every iteration enlarges the set: with finitely many arguments there are *)
(* at most as many iterations as arguments.                                 *)
THEOREM SePrGrows == Spec => EachIterationGrows
<1>1. IInv /\ [Next]_vars =>
        [pc = "add" => admSet \subseteq admSet' /\ admSet' # admSet]_vars
  <2> SUFFICES ASSUME IInv, Next, pc = "add"
               PROVE  admSet \subseteq admSet' /\ admSet' # admSet
    OBVIOUS
  <2>1. /\ Extend /\ temp = solver.val.in \ admSet
        /\ admSet \subseteq solver.val.in /\ admSet # solver.val.in
    BY DEF IInv, LoopInv, Wanted, Next, PrintGrounded, Encode, Solve, ReadModel,
           PrintAdmSet
  <2> QED
    BY <2>1 DEF Extend
<1> QED
  BY <1>1, Invariance, PTL DEF Spec, EachIterationGrows

-----------------------------------------------------------------------------
(* Refinement.                                                              *)

LEMMA SameDefinitions ==
  \A R, S : /\ Search!Admissible(R, S) <=> Admissible(R, S)
            /\ Search!Preferred(R, S) <=> Preferred(R, S)
  BY DEF Admissible, Search!Admissible, Preferred, Search!Preferred, ConflictFree,
         Search!ConflictFree, Defended, Search!Defended, Attackers,
         Search!Attackers, Attacked, Search!Attacked

LEMMA InitImplements == Init => Search!Init
<1> SUFFICES ASSUME Init PROVE Search!Init
  OBVIOUS
<1>1. IInv /\ pc = "encode" /\ relation \in Frameworks
  BY InitIInv DEF Init
<1>2. admSet \in SUBSET Arg /\ Search!Admissible(relation, admSet)
  BY <1>1, SameDefinitions DEF IInv, TypeOK, SetInv
<1> QED
  BY <1>1, <1>2 DEF Search!Init

LEMMA StepImplements ==
  IInv /\ IInv' /\ [Next]_vars => [Search!Next]_(Search!vars)
<1> SUFFICES ASSUME IInv, IInv', [Next]_vars PROVE [Search!Next]_(Search!vars)
  OBVIOUS
<1>1. CASE Extend
  <2>1. /\ temp = solver.val.in \ admSet /\ pc = "add" /\ pc' = "solve"
        /\ admSet \subseteq solver.val.in /\ admSet # solver.val.in
        /\ admSet' = admSet \cup temp /\ relation' = relation
    BY <1>1 DEF IInv, LoopInv, Wanted, Extend
  <2>2. admSet' \in SUBSET Arg /\ Search!Admissible(relation, admSet')
    BY <2>1, SameDefinitions DEF IInv, TypeOK, SetInv
  <2> QED
    BY <2>1, <2>2 DEF Search!Next, Search!Extend
<1>2. CASE PrintGrounded
  <2>1. /\ pc = "encode" /\ pc' = "done" /\ relation' = relation
        /\ admSet = initial_admSet /\ initial_admSet' = initial_admSet
    BY <1>2 DEF IInv, LoopInv, PrintGrounded
  <2>2. /\ answer' \in SUBSET Arg /\ Search!Preferred(relation, answer')
        /\ admSet \subseteq answer'
    BY <2>1, SameDefinitions DEF IInv, TypeOK, ResultPreferred
  <2> QED
    BY <2>1, <2>2 DEF Search!Next, Search!Stop
<1>3. CASE PrintAdmSet
  <2>1. /\ pc = "print" /\ pc' = "done" /\ relation' = relation /\ answer' = admSet
    BY <1>3 DEF PrintAdmSet
  <2>2. answer' \in SUBSET Arg /\ Search!Preferred(relation, answer')
    BY <2>1, SameDefinitions DEF IInv, TypeOK, ResultPreferred
  <2> QED
    BY <2>1, <2>2 DEF Search!Next, Search!Stop
<1>4. CASE Encode \/ Solve \/ ReadModel \/ UNCHANGED vars
  <2>1. /\ UNCHANGED <<relation, admSet, answer>>
        /\ (pc # "done" /\ pc' # "done") \/ pc' = pc
    BY <1>4 DEF Encode, Solve, ReadModel, vars
  <2> QED
    BY <2>1 DEF Search!vars
<1> QED
  BY <1>1, <1>2, <1>3, <1>4 DEF Next

(* Every step of solve_sepr is a step the callers may expect of a search    *)
(* for a preferred extension, or no visible step at all.                    *)
THEOREM SePrRefines == Spec => ImplementsSearch
  BY Invariance, InitImplements, StepImplements, PTL DEF Spec, ImplementsSearch

-----------------------------------------------------------------------------
(* The query.                                                               *)

(* The models solver_admTest works on, and those of solver_attAdmTest       *)
(* before any is excluded.                                                  *)
AdmSets    == AdmModels(relation, grounded)
AttackSets == AttAdmModels(relation, grounded)

(* Sets that can be extended by the argument do not speak against it.       *)
Extends(S) == \E m \in AdmSets : arg \in m.in /\ S \subseteq m.in

(* Every preferred extension above the set for solve_sepr lacks the         *)
(* argument.                                                                *)
Refutes(S) == \A T \in SUBSET Arg : Preferred(relation, T) /\ S \subseteq T => arg \notin T

SolversInv ==
  /\ admTest \in SolverOver(Assignments) /\ admTest.db = AdmSets
  /\ attAdmTest \in SolverOver(Pairs) /\ attAdmTest.db \subseteq AttackSets
  /\ step \in {"exclude", "refine"} => admTest.st = "SAT" /\ admTest.val \in AdmSets
                                       /\ arg \in admTest.val.in
  /\ step = "extend" => attAdmTest.st = "SAT" /\ attAdmTest.val \in AttackSets

(* solve_sepr starts in one of its initial states, and not before its call. *)
CallInv ==
  /\ pc = "encode" => Init
  /\ step # "search" => pc = "encode" /\ initial_admSet = {}

(* Before the verdict, a set that attacks the argument is excluded only if  *)
(* it can be extended by it, and from the first answer on the argument is   *)
(* known to be in some admissible set.                                      *)
SearchingInv ==
  step \notin {"search", "done"} =>
    /\ \A p \in AttackSets :
         arg \in p.in_attacked /\ ~Extends(p.in) => p \in attAdmTest.db
    /\ step # "defend" => \E m \in AdmSets : arg \in m.in

VerdictInv ==
  /\ verdict = "YES" => step = "done" /\ SkepticallyAccepted
  /\ verdict = "NO" => step = "search" /\ Refutes(initial_admSet)

QInv ==
  /\ IInv
  /\ arg \in Arg
  /\ verdict \in {"none", "YES", "NO"}
  /\ step \in {"defend", "exclude", "attack", "loop", "extend", "refine", "search", "done"}
  /\ SolversInv
  /\ CallInv
  /\ SearchingInv
  /\ VerdictInv

-----------------------------------------------------------------------------
LEMMA InputFacts ==
  ASSUME QInv
  PROVE  /\ grounded \in Assignments /\ GroundedLabels(relation, grounded.in, grounded.out)
         /\ relation \in Frameworks
         /\ AdmSets \subseteq Assignments /\ AttackSets \subseteq Pairs
  BY AttAdmModelIsPair DEF QInv, IInv, TypeOK, AdmSets, AttackSets, AdmModels

(* A step of the query that leaves the state of solve_sepr alone.           *)
LEMMA SearchKept ==
  ASSUME QInv, UNCHANGED <<search, input>>
  PROVE  /\ IInv' /\ (arg \in Arg)' /\ (pc = "encode" => Init)'
         /\ AdmSets' = AdmSets /\ AttackSets' = AttackSets
         /\ \A S : Extends(S)' <=> Extends(S)
  BY DEF QInv, CallInv, search, input, IInv, TypeOK, SetInv, LoopInv, ResultPreferred,
         Wanted, Init, AdmSets, AttackSets, Extends

(* The call of solve_sepr after NO: with an empty set or the in part of a   *)
(* model, it starts in an initial state of SePr.                            *)
LEMMA CallOfSearch ==
  ASSUME QInv, step # "search", NEW S, No(S), UNCHANGED input,
         S = {} \/ \E m \in AdmSets : S = m.in
  PROVE  /\ IInv' /\ (arg \in Arg)' /\ (pc = "encode" => Init)'
         /\ AdmSets' = AdmSets /\ AttackSets' = AttackSets
         /\ verdict' = "NO" /\ step' = "search" /\ initial_admSet' = S
<1>1. pc = "encode" /\ Init
  BY DEF QInv, CallInv
<1>2. Init'
  BY <1>1 DEF No, Init, input, AdmSets
<1>3. Init' => IInv'
  BY InitIInv, PTL
<1> QED
  BY <1>2, <1>3 DEF No, input, QInv, AdmSets, AttackSets

LEMMA QueryInitQInv == QueryInit => QInv
<1> SUFFICES ASSUME QueryInit PROVE QInv
  OBVIOUS
<1>1. Init
  BY DEF QueryInit, Init
<1>2. IInv
  BY <1>1, InitIInv
<1>3. /\ Nothing \in Assignments /\ PairOf(Nothing, Nothing) \in Pairs
      /\ AdmSets \subseteq Assignments /\ AttackSets \subseteq Pairs
  BY AttAdmModelIsPair
     DEF Nothing, PairOf, Assignments, Pairs, AdmSets, AttackSets, AdmModels
<1>4. SolversInv /\ attAdmTest.db = AttackSets
  BY <1>3, NewSolverSpec DEF QueryInit, SolversInv, AdmSets, AttackSets
<1>5. SearchingInv
  BY <1>4 DEF QueryInit, SearchingInv
<1> QED
  BY <1>1, <1>2, <1>4, <1>5 DEF QueryInit, QInv, CallInv, VerdictInv

(* No admissible set has the argument: no preferred extension does.         *)
LEMMA SolveInQInv == ASSUME QInv, SolveIn PROVE QInv'
<1>1. PICK r \in Results(Assume(admTest, Pos("in", {arg}))) :
        /\ admTest' = r
        /\ IF r.st = "UNSAT"
             THEN No({})
             ELSE step' = "exclude" /\ UNCHANGED <<verdict, search>>
  BY DEF SolveIn
<1>2. /\ step = "defend" /\ verdict = "none" /\ UNCHANGED <<input, attAdmTest>>
      /\ AdmSets \subseteq Assignments
  BY InputFacts DEF SolveIn, QInv, VerdictInv
<1>3. /\ r \in SolverOver(Assignments) /\ r.db = AdmSets
      /\ \/ r.st = "UNSAT" /\ \A m \in AdmSets : arg \notin m.in
         \/ r.st = "SAT" /\ r.val \in AdmSets /\ arg \in r.val.in
  BY AskSpec DEF QInv, SolversInv
<1>4. CASE r.st = "UNSAT"
  <2>1. No({}) /\ \A m \in AdmSets : arg \notin m.in
    BY <1>1, <1>3, <1>4
  <2>2. Refutes({})
    <3> SUFFICES ASSUME NEW T \in SUBSET Arg, Preferred(relation, T) PROVE arg \notin T
      BY DEF Refutes
    <3>1. [in |-> T, out |-> Attacked(relation, T)] \in AdmSets
      BY InputFacts, PreferredHasModel DEF AdmSets
    <3> QED
      BY <2>1, <3>1
  <2>3. Refutes(initial_admSet)'
    BY <1>2, <2>1, <2>2, CallOfSearch DEF Refutes, input
  <2> QED
    BY <1>1, <1>2, <1>3, <2>1, <2>3, CallOfSearch
       DEF QInv, SolversInv, CallInv, SearchingInv, VerdictInv
<1>5. CASE r.st # "UNSAT"
  <2>1. step' = "exclude" /\ UNCHANGED <<verdict, search, input, attAdmTest>>
    BY <1>1, <1>2, <1>5
  <2>2. /\ IInv' /\ (arg \in Arg)' /\ (pc = "encode" => Init)'
        /\ AdmSets' = AdmSets /\ AttackSets' = AttackSets
        /\ \A S : Extends(S)' <=> Extends(S)
    BY <2>1, SearchKept
  <2>3. SolversInv' /\ SearchingInv'
    BY <1>1, <1>2, <1>3, <1>5, <2>1, <2>2 DEF QInv, SolversInv, SearchingInv, input
  <2>4. CallInv' /\ VerdictInv'
    BY <1>2, <2>1, <2>2 DEF QInv, CallInv, VerdictInv, search
  <2> QED
    BY <1>2, <2>1, <2>2, <2>3, <2>4 DEF QInv
<1> QED
  BY <1>4, <1>5

(* What the new clause excludes can be extended by the argument: the model  *)
(* just found is the extension.                                             *)
LEMMA ExcludeQInv ==
  ASSUME QInv, step \in {"exclude", "refine"}, NEW next \in {"attack", "loop"},
         ExcludeModel(next)
  PROVE  QInv'
<1>1. /\ attAdmTest' = AddClause(attAdmTest, Excluding(admTest.val))
      /\ step' = next /\ UNCHANGED <<input, admTest, verdict, search>>
      /\ verdict = "none"
  BY DEF ExcludeModel, QInv, VerdictInv
<1>2. /\ IInv' /\ (arg \in Arg)' /\ (pc = "encode" => Init)'
      /\ AdmSets' = AdmSets /\ AttackSets' = AttackSets
      /\ \A S : Extends(S)' <=> Extends(S)
  BY <1>1, SearchKept
<1>3. admTest.val \in AdmSets /\ arg \in admTest.val.in
  BY DEF QInv, SolversInv
<1>4. /\ attAdmTest' \in SolverOver(Pairs)
      /\ attAdmTest'.db = {p \in attAdmTest.db : Satisfies(p, Excluding(admTest.val))}
  BY <1>1, AddClauseSpec DEF QInv, SolversInv
<1>5. ASSUME NEW p \in AttackSets, ~Satisfies(p, Excluding(admTest.val))
      PROVE  Extends(p.in)
  <2>1. ~ \E a \in Arg \ admTest.val.in : a \in p.in
    BY <1>5, SomeOf DEF Excluding, Missing
  <2>2. p.in \subseteq Arg
    BY InputFacts DEF Pairs
  <2> QED
    BY <1>3, <2>1, <2>2 DEF Extends
<1>6. SolversInv' /\ SearchingInv'
  BY <1>1, <1>2, <1>4, <1>5 DEF QInv, SolversInv, SearchingInv, input
<1>7. CallInv' /\ VerdictInv'
  BY <1>1, <1>2 DEF QInv, CallInv, VerdictInv, search
<1> QED
  BY <1>1, <1>2, <1>6, <1>7 DEF QInv

(* An admissible set attacks the argument: no admissible set above it has   *)
(* the argument.                                                            *)
LEMMA SolveOutQInv == ASSUME QInv, SolveOut PROVE QInv'
<1>1. PICK r \in Results(Assume(admTest, Pos("out", {arg}))) :
        /\ admTest' = r
        /\ IF r.st = "SAT"
             THEN No(r.val.in) /\ UNCHANGED attAdmTest
             ELSE /\ attAdmTest' = AddClauses(attAdmTest, Units(Pos("in_attacked", {arg})))
                  /\ step' = "loop" /\ UNCHANGED <<verdict, search>>
  BY DEF SolveOut, InSet
<1>2. step = "attack" /\ verdict = "none" /\ UNCHANGED input
  BY DEF SolveOut, QInv, VerdictInv
<1>3. /\ r \in SolverOver(Assignments) /\ r.db = AdmSets
      /\ r.st = "SAT" => r.val \in AdmSets /\ arg \in r.val.out
  BY AskSpec DEF QInv, SolversInv
<1>4. CASE r.st = "SAT"
  <2>1. r.val \in AdmSets /\ arg \in r.val.out /\ No(r.val.in) /\ UNCHANGED attAdmTest
    BY <1>1, <1>3, <1>4
  <2>2. PICK b \in r.val.in : <<b, arg>> \in relation
    BY <2>1, InputFacts, AdmModelIsAdmissible DEF AdmSets, Attacked
  <2>3. Refutes(r.val.in)
    BY <2>2 DEF Refutes, Preferred, Admissible, ConflictFree
  <2>4. Refutes(initial_admSet)'
    BY <1>2, <2>1, <2>3, CallOfSearch DEF Refutes, input
  <2> QED
    BY <1>1, <1>2, <1>3, <2>1, <2>4, CallOfSearch
       DEF QInv, SolversInv, CallInv, SearchingInv, VerdictInv
<1>5. CASE r.st # "SAT"
  <2>1. /\ attAdmTest' = AddClauses(attAdmTest, Units(Pos("in_attacked", {arg})))
        /\ step' = "loop" /\ UNCHANGED <<verdict, search, input>>
    BY <1>1, <1>2, <1>5
  <2>2. /\ IInv' /\ (arg \in Arg)' /\ (pc = "encode" => Init)'
        /\ AdmSets' = AdmSets /\ AttackSets' = AttackSets
        /\ \A S : Extends(S)' <=> Extends(S)
    BY <2>1, SearchKept
  <2>3. /\ attAdmTest' \in SolverOver(Pairs)
        /\ attAdmTest'.db = {p \in attAdmTest.db : arg \in p.in_attacked}
    BY <2>1, AddUnitsSpec DEF QInv, SolversInv
  <2>4. SolversInv' /\ SearchingInv'
    BY <1>1, <1>2, <1>3, <2>1, <2>2, <2>3 DEF QInv, SolversInv, SearchingInv, input
  <2>5. CallInv' /\ VerdictInv'
    BY <1>2, <2>1, <2>2 DEF QInv, CallInv, VerdictInv, search
  <2> QED
    BY <1>2, <2>1, <2>2, <2>4, <2>5 DEF QInv
<1> QED
  BY <1>4, <1>5

(* No attacking set is left.  A preferred extension without the argument    *)
(* would attack an admissible set with it, and could not be extended by it. *)
LEMMA SolveAttackQInv == ASSUME QInv, SolveAttack PROVE QInv'
<1>1. PICK r \in Results(attAdmTest) :
        /\ attAdmTest' = r
        /\ IF r.st = "UNSAT"
             THEN verdict' = "YES" /\ step' = "done"
             ELSE verdict' = verdict /\ step' = "extend"
  BY DEF SolveAttack
<1>2. /\ step = "loop" /\ verdict = "none" /\ UNCHANGED <<input, admTest, search>>
      /\ relation' = relation /\ arg' = arg
  BY DEF SolveAttack, QInv, VerdictInv, input
<1>3. /\ r \in SolverOver(Pairs) /\ r.db = attAdmTest.db
      /\ \/ r.st = "UNSAT" /\ attAdmTest.db = {}
         \/ r.st = "SAT" /\ r.val \in attAdmTest.db
  BY PlainSolveSpec DEF QInv, SolversInv
<1>4. /\ IInv' /\ (arg \in Arg)' /\ (pc = "encode" => Init)'
      /\ AdmSets' = AdmSets /\ AttackSets' = AttackSets
      /\ \A S : Extends(S)' <=> Extends(S)
  BY <1>2, SearchKept
<1>5. SolversInv' /\ SearchingInv' /\ CallInv'
  BY <1>1, <1>2, <1>3, <1>4 DEF QInv, SolversInv, SearchingInv, CallInv, search
<1>6. CASE r.st = "UNSAT"
  <2>1. SkepticallyAccepted
    <3> SUFFICES ASSUME NEW S \in SUBSET Arg, Preferred(relation, S), arg \notin S
                 PROVE  FALSE
      BY DEF SkepticallyAccepted
    <3>1. PICK n \in AdmSets : arg \in n.in
      BY <1>2 DEF QInv, SearchingInv
    <3>2. PICK p \in AttackSets : p.in = S /\ p.in_attacked = n.in
      BY <3>1, InputFacts, RejectedIsAttacked DEF AdmSets, AttackSets
    <3>3. PICK m \in AdmSets : arg \in m.in /\ S \subseteq m.in
      BY <1>2, <1>3, <1>6, <3>1, <3>2 DEF QInv, SearchingInv, Extends
    <3>4. m.in \in SUBSET Arg /\ Admissible(relation, m.in)
      BY InputFacts, AdmModelIsAdmissible DEF AdmSets, Assignments
    <3> QED
      BY <3>3, <3>4 DEF Preferred
  <2> QED
    BY <1>1, <1>2, <1>4, <1>5, <1>6, <2>1 DEF QInv, VerdictInv, SkepticallyAccepted
<1>7. CASE r.st # "UNSAT"
  BY <1>1, <1>2, <1>4, <1>5, <1>7 DEF QInv, VerdictInv
<1> QED
  BY <1>6, <1>7

(* The attacking set cannot be extended by the argument: no preferred       *)
(* extension above it has the argument.                                     *)
LEMMA SolveExtensionQInv == ASSUME QInv, SolveExtension PROVE QInv'
<1> DEFINE S == attAdmTest.val.in
<1>1. PICK r \in Results(Assume(admTest, Pos("in", {arg} \cup S))) :
        /\ admTest' = r
        /\ IF r.st = "UNSAT"
             THEN No(S)
             ELSE step' = "refine" /\ UNCHANGED <<verdict, search>>
  BY DEF SolveExtension, InSet
<1>2. step = "extend" /\ verdict = "none" /\ UNCHANGED <<input, attAdmTest>>
  BY DEF SolveExtension, QInv, VerdictInv
<1>3. /\ r \in SolverOver(Assignments) /\ r.db = AdmSets
      /\ \/ r.st = "UNSAT" /\ \A m \in AdmSets : ~({arg} \cup S \subseteq m.in)
         \/ r.st = "SAT" /\ r.val \in AdmSets /\ arg \in r.val.in
  BY AskSpec DEF QInv, SolversInv
<1>4. PICK m \in AdmSets : S = m.in
  BY <1>2, AttAdmModelIsPair DEF QInv, SolversInv, AttackSets, AdmSets
<1>5. CASE r.st = "UNSAT"
  <2>1. No(S) /\ \A n \in AdmSets : ~({arg} \cup S \subseteq n.in)
    BY <1>1, <1>3, <1>5
  <2>2. Refutes(S)
    <3> SUFFICES ASSUME NEW T \in SUBSET Arg, Preferred(relation, T), S \subseteq T
                 PROVE  arg \notin T
      BY DEF Refutes
    <3>1. [in |-> T, out |-> Attacked(relation, T)] \in AdmSets
      BY InputFacts, PreferredHasModel DEF AdmSets
    <3> QED
      BY <2>1, <3>1
  <2>3. Refutes(initial_admSet)'
    BY <1>2, <1>4, <2>1, <2>2, CallOfSearch DEF Refutes, input
  <2> QED
    BY <1>1, <1>2, <1>3, <1>4, <2>1, <2>3, CallOfSearch
       DEF QInv, SolversInv, CallInv, SearchingInv, VerdictInv
<1>6. CASE r.st # "UNSAT"
  <2>1. step' = "refine" /\ UNCHANGED <<verdict, search, input, attAdmTest>>
    BY <1>1, <1>2, <1>6
  <2>2. /\ IInv' /\ (arg \in Arg)' /\ (pc = "encode" => Init)'
        /\ AdmSets' = AdmSets /\ AttackSets' = AttackSets
        /\ \A T : Extends(T)' <=> Extends(T)
    BY <2>1, SearchKept
  <2>3. SolversInv' /\ SearchingInv'
    BY <1>1, <1>2, <1>3, <1>6, <2>1, <2>2 DEF QInv, SolversInv, SearchingInv, input
  <2>4. CallInv' /\ VerdictInv'
    BY <1>2, <2>1, <2>2 DEF QInv, CallInv, VerdictInv, search
  <2> QED
    BY <1>2, <2>1, <2>2, <2>3, <2>4 DEF QInv
<1> QED
  BY <1>5, <1>6

LEMMA SolveSePrQInv == ASSUME QInv, SolveSePr PROVE QInv'
<1>1. step = "search" /\ Next /\ UNCHANGED query
  BY DEF SolveSePr
<1>2. IInv'
  BY <1>1, StepIInv DEF QInv
<1>3. /\ UNCHANGED <<relation, grounded, arg, admTest, attAdmTest, verdict, step>>
      /\ initial_admSet' = initial_admSet /\ pc' # "encode"
  BY <1>1 DEF query, input, Next, PrintGrounded, Encode, Solve, ReadModel, Extend, PrintAdmSet
<1> QED
  BY <1>1, <1>2, <1>3
     DEF QInv, SolversInv, CallInv, SearchingInv, VerdictInv, AdmSets, AttackSets, Refutes

LEMMA QueryStepQInv == QInv /\ [QueryNext]_all => QInv'
<1> SUFFICES ASSUME QInv, [QueryNext]_all PROVE QInv'
  OBVIOUS
<1>1. CASE UNCHANGED all
  <2>1. /\ UNCHANGED <<search, input, admTest, attAdmTest, verdict, step>>
        /\ UNCHANGED <<relation, arg, pc, initial_admSet>>
    BY <1>1 DEF all, query, search, input
  <2>2. /\ IInv' /\ (arg \in Arg)' /\ (pc = "encode" => Init)'
        /\ AdmSets' = AdmSets /\ AttackSets' = AttackSets
        /\ \A S : Extends(S)' <=> Extends(S)
    BY <2>1, SearchKept
  <2> QED
    BY <2>1, <2>2 DEF QInv, SolversInv, CallInv, SearchingInv, VerdictInv, Refutes,
                      SkepticallyAccepted
<1>2. CASE ExcludeFirst \/ ExcludeExtension
  BY <1>2, ExcludeQInv DEF ExcludeFirst, ExcludeExtension
<1> QED
  BY <1>1, <1>2, SolveInQInv, SolveOutQInv, SolveAttackQInv, SolveExtensionQInv,
     SolveSePrQInv DEF QueryNext

LEMMA QueryInvariance == QuerySpec => []QInv
  BY QueryInitQInv, QueryStepQInv, PTL DEF QuerySpec

-----------------------------------------------------------------------------
(* Each solver is read only while it holds the model read, no assumption    *)
(* outlives its call, and solve_sepr is called as it is specified.          *)
THEOREM QueryKeepsContracts == QuerySpec => []ContractsKept
<1>1. QInv => QueryTypeOK
  <2> SUFFICES ASSUME QInv PROVE QueryTypeOK
    OBVIOUS
  <2>1. AttackSets \subseteq Pairs
    BY InputFacts
  <2> QED
    BY <2>1 DEF QInv, SolversInv, QueryTypeOK, SolverOver, Pairs
<1>2. QInv => QueryModelIsCurrent /\ CalledAsSpecified
  BY DEF QInv, SolversInv, CallInv, QueryModelIsCurrent, Readable, CalledAsSpecified
<1> QED
  BY <1>1, <1>2, QueryInvariance, PTL DEF ContractsKept

(* solve_dspr answers YES if and only if every preferred extension has the  *)
(* argument, and after NO the set printed lacks it.                         *)
THEOREM DsPrCorrect == QuerySpec => []QueryCorrect
<1>1. QInv => QueryCorrect
  <2> SUFFICES ASSUME QInv PROVE QueryCorrect
    OBVIOUS
  <2>1. ASSUME verdict = "NO" PROVE ~SkepticallyAccepted
    <3>1. Refutes(initial_admSet)
      BY <2>1 DEF QInv, VerdictInv
    <3>2. /\ initial_admSet \in SUBSET Arg /\ admSet \in SUBSET Arg
          /\ initial_admSet \subseteq admSet /\ Admissible(relation, admSet)
      BY DEF QInv, IInv, TypeOK, SetInv
    <3>3. PICK T \in SUBSET Arg : Preferred(relation, T) /\ admSet \subseteq T
      BY <3>2, PreferredAbove
    <3> QED
      BY <3>1, <3>2, <3>3 DEF Refutes, SkepticallyAccepted
  <2>2. ASSUME verdict = "NO", pc = "done" PROVE arg \notin answer
    BY <2>2 DEF QInv, VerdictInv, Refutes, IInv, TypeOK, ResultPreferred
  <2> QED
    BY <2>1, <2>2 DEF QueryCorrect, QInv, VerdictInv
<1> QED
  BY <1>1, QueryInvariance, PTL

(* No refinement clause excludes a counterexample.                          *)
THEOREM CounterexamplesKept == QuerySpec => []NoCounterexampleLost
<1>1. QInv => NoCounterexampleLost
  BY DEF QInv, SearchingInv, NoCounterexampleLost, AdmSets, AttackSets, Extends
<1> QED
  BY <1>1, QueryInvariance, PTL

(* solve_sepr keeps its promises for both of its callers.                   *)
THEOREM SearchKeepsPromises ==
  QuerySpec => [](SolverWellUsed /\ SolverAsksForSuperset /\ ResultPreferred)
<1>1. IInv => SolverWellUsed /\ SolverAsksForSuperset /\ ResultPreferred
  BY DEF IInv, LoopInv, SolverWellUsed, ModelIsCurrent, Readable, Wanted,
         SolverAsksForSuperset
<1>2. QInv => IInv
  BY DEF QInv
<1> QED
  BY <1>1, <1>2, QueryInvariance, PTL

=============================================================================
