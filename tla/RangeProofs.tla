----------------------------- MODULE RangeProofs -----------------------------
(***************************************************************************)
(* Proofs about RangeQuery for every set of arguments and every family of  *)
(* attack relations: the searches print a semi-stable or stage extension,  *)
(* and the queries that come to an answer give the right one.              *)
(***************************************************************************)
EXTENDS RangeQuery, EncodingProofs

(* The sets among which a range is maximised.                               *)
Kind(S) ==
  IF encoding = "adm" THEN Admissible(relation, S) ELSE ConflictFree(relation, S)

(* The labellings that the outer solver and the first inner call look for.  *)
Matches(m) == (arg \in m.in) = (problem = "DC")

Above(D) == {m \in BaseModels : D \subseteq Decided(m) /\ D # Decided(m)}

InputInv ==
  /\ encoding \in {"adm", "cf"} /\ problem \in {"SE", "DC", "DS"}
  /\ relation \in SUBSET (Arg \X Arg)
  /\ GroundedLabels(relation, grounded.in, grounded.out)
  /\ problem # "SE" /\ encoding = "adm" => arg \notin Decided(grounded)

SearchInv ==
  problem = "SE" =>
    /\ pc \in {"encode", "solve", "read", "add", "print", "done"}
    /\ Kind(in_arg) /\ (pc = "encode" => notUndec = {})
    /\ pc \in {"solve", "read", "add", "print"} => solver.db = Above(notUndec)
    /\ pc = "print" => solver.db = {}
    /\ pc \in {"read", "add"} => solver.st = "SAT" /\ solver.val \in solver.db
    /\ pc = "add" => /\ in_arg = solver.val.in
                     /\ temp = Decided(solver.val) \ notUndec
                     /\ clause = Arg \ Decided(solver.val)

OuterInv ==
  problem # "SE" =>
    /\ pc \in {"encode", "outer", "build", "inner", "recheck", "block", "read", "add",
               "scan", "scan in", "done", "abort"}
    /\ solver.db \subseteq BaseModels
    /\ \A S \in SUBSET Arg :
         Settles(S) => [in |-> S, out |-> Attacked(relation, S)] \in solver.db
    /\ pc = "build" => solver.st = "SAT" /\ solver.val \in solver.db /\ Matches(solver.val)

(* The inner solver keeps every labelling that decides more than one it     *)
(* keeps.                                                                   *)
InnerKeeps ==
  /\ inner_solver.db \subseteq BaseModels
  /\ \A m \in inner_solver.db : notUndec \subseteq Decided(m)
  /\ \A m \in inner_solver.db, n \in BaseModels :
       Decided(m) \subseteq Decided(n) => n \in inner_solver.db

(* The best labelling so far decides no less than was recorded, and the     *)
(* inner solver is asked for all that decide more, and for no other that    *)
(* decides as much.                                                         *)
IsBest(b) ==
  /\ b.in = in_arg /\ Matches(b)
  /\ notUndec \subseteq Decided(b)
  /\ Above(Decided(b)) \subseteq inner_solver.db
  /\ \A m \in inner_solver.db : ~(Decided(m) \subseteq Decided(b))

ModelFound ==
  /\ inner_solver.st = "SAT" /\ inner_solver.val \in inner_solver.db
  /\ Matches(inner_solver.val)

(* What the pass for stage extensions has collected, as long as the model   *)
(* is still readable.                                                       *)
PassInv ==
  /\ clause = (Arg \ todo) \ Decided(inner_solver.val)
  /\ in_arg = inner_solver.val.in \ todo
  /\ pc = "scan in" =>
       \A i \in todo : (\A j \in todo : i <= j) => i \in Decided(inner_solver.val)

InnerInv ==
  problem # "SE" =>
    /\ pc \in {"inner", "recheck", "block"} =>
         InnerKeeps /\ \E b \in BaseModels : IsBest(b)
    /\ pc = "block" => inner_solver.db # {}
    /\ pc \in {"read", "add"} => encoding = "adm" /\ InnerKeeps /\ ModelFound
    /\ pc = "add" => /\ vars_to_add = Decided(inner_solver.val)
                     /\ vars_to_add_in = inner_solver.val.in
    /\ pc \in {"scan", "scan in"} => encoding = "cf" /\ (pc = "scan" => Readable(inner_solver))
    /\ pc \in {"scan", "scan in"} /\ Readable(inner_solver) =>
         InnerKeeps /\ ModelFound /\ PassInv

RInv ==
  /\ TypeOK /\ InputInv
  /\ SearchInv /\ InArgDecides /\ ResultMaximal
  /\ OuterInv /\ InnerInv /\ AnswerCorrect

-----------------------------------------------------------------------------
(* The sets with a range.                                                   *)

LEMMA ExtensionDef ==
  ASSUME NEW S
  PROVE  Extension(S) <=>
           /\ Kind(S)
           /\ \A T \in SUBSET Arg :
                Kind(T) /\ RangeOf(relation, S) \subseteq RangeOf(relation, T)
                  => RangeOf(relation, T) = RangeOf(relation, S)
<1>1. CASE encoding = "adm"
  BY <1>1 DEF Extension, Kind, SemiStable
<1>2. CASE encoding # "adm"
  BY <1>2 DEF Extension, Kind, Stage
<1> QED
  BY <1>1, <1>2

LEMMA RangeInArg ==
  ASSUME NEW S \in SUBSET Arg
  PROVE  RangeOf(relation, S) \in SUBSET Arg
  BY DEF RangeOf, Attacked

(* A model stands for a set of the kind, which decides what is labelled.    *)
LEMMA ModelIsKind ==
  ASSUME InputInv, grounded \in Assignments, NEW m \in BaseModels
  PROVE  /\ m \in Assignments /\ m.in \in SUBSET Arg
         /\ Kind(m.in)
         /\ Decided(m) \subseteq RangeOf(relation, m.in)
<1>1. CASE encoding = "adm"
  <2>1. m \in AdmModels(relation, grounded)
    BY <1>1 DEF BaseModels
  <2>2. m \in Assignments /\ Admissible(relation, m.in) /\ m.out \subseteq Attacked(relation, m.in)
    BY <2>1, AdmModelIsAdmissible DEF InputInv
  <2> QED
    BY <1>1, <2>2 DEF Kind, Decided, RangeOf, Assignments
<1>2. CASE encoding # "adm"
  <2>1. m \in Assignments /\ \A a \in Arg : CfClauses(relation, m, a)
    BY <1>2 DEF BaseModels, CfModels
  <2>2. m.in \subseteq Arg /\ m.out \subseteq Arg
    BY <2>1 DEF Assignments
  <2>3. ConflictFree(relation, m.in)
    BY <2>1, <2>2 DEF CfClauses, InOutExclusive, ConflictFree, Attackers
  <2>4. m.out \subseteq Attacked(relation, m.in)
    BY <2>1, <2>2 DEF CfClauses, Attackers, Attacked
  <2> QED
    BY <1>2, <2>1, <2>2, <2>3, <2>4 DEF Kind, Decided, RangeOf
<1> QED
  BY <1>1, <1>2

(* Labelling what a set attacks out gives a model, if a set that should be  *)
(* admissible contains the grounded extension.                              *)
LEMMA KindHasModel ==
  ASSUME InputInv, grounded \in Assignments,
         NEW S \in SUBSET Arg, Kind(S),
         encoding = "adm" => grounded.in \subseteq S
  PROVE  [in |-> S, out |-> Attacked(relation, S)] \in BaseModels
<1>1. CASE encoding = "adm"
  BY <1>1, AdmissibleHasModel DEF InputInv, Kind, BaseModels
<1>2. CASE encoding # "adm"
  <2> DEFINE m == [in |-> S, out |-> Attacked(relation, S)]
  <2>1. m \in Assignments /\ m.in = S /\ m.out = Attacked(relation, S)
    BY DEF Assignments, Attacked
  <2>2. ConflictFree(relation, S)
    BY <1>2 DEF Kind
  <2>3. \A a \in Arg : CfClauses(relation, m, a)
    BY <2>1, <2>2 DEF CfClauses, InOutExclusive, ConflictFree, Attackers, Attacked
  <2> QED
    BY <1>2, <2>1, <2>3 DEF BaseModels, CfModels
<1> QED
  BY <1>1, <1>2

LEMMA ModelAboveRange ==
  ASSUME InputInv, grounded \in Assignments, NEW S \in SUBSET Arg, Kind(S)
  PROVE  \E m \in BaseModels : RangeOf(relation, S) \subseteq Decided(m)
<1>1. PICK T \in SUBSET Arg :
        Kind(T) /\ S \subseteq T /\ (encoding = "adm" => grounded.in \subseteq T)
  <2>1. CASE encoding = "adm"
    <3>1. PICK T \in SUBSET Arg : Preferred(relation, T) /\ S \subseteq T
      BY <2>1, PreferredAbove DEF Kind
    <3>2. grounded.in \subseteq T
      BY <3>1, PreferredHasModel DEF InputInv
    <3> QED
      BY <2>1, <3>1, <3>2 DEF Kind, Preferred
  <2>2. CASE encoding # "adm"
    BY <2>2
  <2> QED
    BY <2>1, <2>2
<1>2. [in |-> T, out |-> Attacked(relation, T)] \in BaseModels
  BY <1>1, KindHasModel
<1>3. RangeOf(relation, S) \subseteq T \cup Attacked(relation, T)
  BY <1>1 DEF RangeOf, Attacked
<1> QED
  BY <1>2, <1>3 DEF Decided

(* A set is an extension if no model decides more than what it accepts or   *)
(* rejects ...                                                              *)
LEMMA NothingAbove ==
  ASSUME InputInv, grounded \in Assignments, NEW S \in SUBSET Arg, Kind(S),
         NEW D, D \subseteq RangeOf(relation, S), Above(D) = {}
  PROVE  Extension(S)
<1>1. ASSUME NEW T \in SUBSET Arg, Kind(T), RangeOf(relation, S) \subseteq RangeOf(relation, T)
      PROVE  RangeOf(relation, T) = D /\ RangeOf(relation, S) = D
  <2>1. PICK m \in BaseModels : RangeOf(relation, T) \subseteq Decided(m)
    BY <1>1, ModelAboveRange
  <2>2. Decided(m) = D
    BY <1>1, <2>1 DEF Above
  <2> QED
    BY <1>1, <2>1, <2>2
<1> QED
  BY <1>1, ExtensionDef

(* ... and no model decides more than an extension does.                    *)
LEMMA ExtensionIsMaximal ==
  ASSUME InputInv, grounded \in Assignments, NEW S \in SUBSET Arg, Extension(S)
  PROVE  /\ Above(RangeOf(relation, S)) = {}
         /\ \A m \in BaseModels :
              RangeOf(relation, S) \subseteq RangeOf(relation, m.in)
                => RangeOf(relation, m.in) = RangeOf(relation, S)
<1>1. ASSUME NEW m \in BaseModels, RangeOf(relation, S) \subseteq RangeOf(relation, m.in)
      PROVE  RangeOf(relation, m.in) = RangeOf(relation, S)
  BY <1>1, ModelIsKind, ExtensionDef
<1>2. ASSUME NEW m \in BaseModels, RangeOf(relation, S) \subseteq Decided(m)
      PROVE  RangeOf(relation, S) = Decided(m)
  <2>1. Decided(m) \subseteq RangeOf(relation, m.in)
    BY ModelIsKind
  <2> QED
    BY <1>1, <1>2, <2>1
<1> QED
  BY <1>1, <1>2 DEF Above

(* A semi-stable extension is preferred: a larger admissible set attacks    *)
(* none of its own members, so it would decide more.                        *)
LEMMA ExtensionHasModel ==
  ASSUME InputInv, grounded \in Assignments, NEW S \in SUBSET Arg, Extension(S)
  PROVE  [in |-> S, out |-> Attacked(relation, S)] \in BaseModels
<1>1. CASE encoding = "adm"
  <2>1. /\ Admissible(relation, S)
        /\ \A T \in SUBSET Arg :
             Admissible(relation, T) /\ RangeOf(relation, S) \subseteq RangeOf(relation, T)
               => RangeOf(relation, T) = RangeOf(relation, S)
    BY <1>1 DEF Extension, SemiStable
  <2>2. ASSUME NEW T \in SUBSET Arg, Admissible(relation, T), S \subseteq T
        PROVE  T = S
    <3>1. RangeOf(relation, T) = RangeOf(relation, S)
      BY <2>1, <2>2 DEF RangeOf, Attacked
    <3>2. \A a \in T : a \notin Attacked(relation, S)
      BY <2>2 DEF Admissible, ConflictFree, Attacked
    <3> QED
      BY <2>2, <3>1, <3>2 DEF RangeOf
  <2>3. Preferred(relation, S)
    BY <2>1, <2>2 DEF Preferred
  <2>4. grounded.in \subseteq S
    BY <2>3, PreferredHasModel DEF InputInv
  <2> QED
    BY <2>1, <2>4, KindHasModel, <1>1 DEF Kind
<1>2. CASE encoding # "adm"
  BY <1>2, ExtensionDef, KindHasModel
<1> QED
  BY <1>1, <1>2

(* When the grounded labelling decides everything, the grounded extension   *)
(* is the only extension.                                                   *)
LEMMA GroundedIsExtension ==
  ASSUME InputInv, grounded \in Assignments, AllGrounded(grounded)
  PROVE  \A S \in SUBSET Arg : Extension(S) <=> S = grounded.in
<1> DEFINE G == grounded.in
<1>1. /\ G \in SUBSET Arg /\ Complete(relation, G) /\ grounded.out = Attacked(relation, G)
      /\ \A S \in SUBSET Arg : Complete(relation, S) => G \subseteq S
  BY DEF InputInv, GroundedLabels, Assignments
<1>2. RangeOf(relation, G) = Arg
  BY <1>1, RangeInArg DEF AllGrounded, RangeOf
<1>3. Kind(G)
  BY <1>1 DEF Kind, Complete, Admissible
<1>4. Extension(G)
  BY <1>1, <1>2, <1>3, RangeInArg, ExtensionDef
<1>5. ASSUME NEW S \in SUBSET Arg, Extension(S) PROVE S = G
  <2>1. Kind(S) /\ RangeOf(relation, S) = Arg
    BY <1>1, <1>2, <1>3, <1>5, RangeInArg, ExtensionDef
  <2>2. ConflictFree(relation, S)
    BY <2>1 DEF Kind, Admissible
  <2>3. \A a \in Arg \ S : a \in Attacked(relation, S)
    BY <2>1 DEF RangeOf
  <2>4. S \subseteq Defended(relation, S)
    BY <2>2, <2>3 DEF ConflictFree, Defended, Attackers
  <2>5. Defended(relation, S) \subseteq S
    BY <2>2, <2>3 DEF ConflictFree, Defended, Attackers, Attacked
  <2>6. Complete(relation, S)
    BY <2>2, <2>4, <2>5 DEF Complete
  <2>7. G \subseteq S
    BY <1>1, <2>6
  <2>8. \A a \in S : a \notin Attacked(relation, G)
    BY <2>2, <2>7 DEF ConflictFree, Attacked
  <2> QED
    BY <1>2, <2>7, <2>8 DEF RangeOf
<1> QED
  BY <1>4, <1>5

-----------------------------------------------------------------------------
(* The clauses.                                                             *)

LEMMA SomeDecidedSpec ==
  ASSUME NEW S, NEW m
  PROVE  Satisfies(m, SomeDecided(S)) <=> \E a \in S : a \in Decided(m)
<1>1. Satisfies(m, SomeDecided(S)) <=>
        Satisfies(m, Pos("in", S)) \/ Satisfies(m, Pos("out", S))
  BY DEF Satisfies, SomeDecided
<1> QED
  BY <1>1, SomeOf DEF Decided

LEMMA EachDecidedSpec ==
  ASSUME NEW S, NEW m
  PROVE  (\A c \in EachDecided(S) : Satisfies(m, c)) <=> S \subseteq Decided(m)
<1>1. \A a : Satisfies(m, SomeDecided({a})) <=> a \in Decided(m)
  BY SomeDecidedSpec
<1> HIDE DEF Decided
<1> QED
  BY <1>1 DEF EachDecided

LEMMA AskMoreSpec ==
  ASSUME NEW s \in SolverOver(Assignments), NEW S
  PROVE  /\ AddClause(s, SomeDecided(S)) \in SolverOver(Assignments)
         /\ AddClause(s, SomeDecided(S)).db = {m \in s.db : \E a \in S : a \in Decided(m)}
<1> DEFINE Kept(m) == Satisfies(m, SomeDecided(S))
<1>1. /\ AddClause(s, SomeDecided(S)) \in SolverOver(Assignments)
      /\ AddClause(s, SomeDecided(S)).db = {m \in s.db : Kept(m)}
  BY AddClauseSpec
<1>2. \A m : Kept(m) <=> \E a \in S : a \in Decided(m)
  BY SomeDecidedSpec
<1> HIDE DEF Kept
<1> QED
  BY <1>1, <1>2

LEMMA KeepDecidedSpec ==
  ASSUME NEW s \in SolverOver(Assignments), NEW S
  PROVE  /\ AddClauses(s, EachDecided(S)) \in SolverOver(Assignments)
         /\ AddClauses(s, EachDecided(S)).db = {m \in s.db : S \subseteq Decided(m)}
<1> DEFINE Kept(m) == \A c \in EachDecided(S) : Satisfies(m, c)
<1>1. /\ AddClauses(s, EachDecided(S)) \in SolverOver(Assignments)
      /\ AddClauses(s, EachDecided(S)).db = {m \in s.db : Kept(m)}
  BY AddClausesSpec
<1>2. \A m : Kept(m) <=> S \subseteq Decided(m)
  BY EachDecidedSpec
<1> HIDE DEF Kept
<1> QED
  BY <1>1, <1>2

(* The call with the literal of the query finds a labelling that matches,   *)
(* if there is one.                                                         *)
LEMMA AskQuerySpec ==
  ASSUME NEW s \in SolverOver(Assignments), IsQuery, NEW r \in Results(Assume(s, Query))
  PROVE  /\ r \in SolverOver(Assignments) /\ r.db = s.db
         /\ \/ r.st = "UNSAT" /\ \A m \in s.db : ~Matches(m)
            \/ r.st = "SAT" /\ r.val \in s.db /\ Matches(r.val)
<1>1. \A m : (\A l \in Query : Holds(m, l)) <=> Matches(m)
  <2>1. ASSUME NEW m
        PROVE  /\ Holds(m, <<"in", arg, TRUE>>) <=> arg \in m.in
               /\ Holds(m, <<"in", arg, FALSE>>) <=> arg \notin m.in
    <3>1. Holds(m, <<"in", arg, TRUE>>) <=> (arg \in m.in) = TRUE
      BY DEF Holds
    <3>2. Holds(m, <<"in", arg, FALSE>>) <=> (arg \in m.in) = FALSE
      BY DEF Holds
    <3> QED
      BY <3>1, <3>2
  <2>2. CASE problem = "DC"
    <3>1. Query = {<<"in", arg, TRUE>>}
      BY <2>2 DEF Query, Pos
    <3>2. \A m : Matches(m) <=> arg \in m.in
      BY <2>2 DEF Matches
    <3> QED
      BY <2>1, <3>1, <3>2
  <2>3. CASE problem # "DC"
    <3>1. Query = {<<"in", arg, FALSE>>}
      BY <2>3 DEF Query, Neg
    <3>2. \A m : Matches(m) <=> arg \notin m.in
      BY <2>3 DEF Matches
    <3> QED
      BY <2>1, <3>1, <3>2
  <2> QED
    BY <2>2, <2>3
<1>2. /\ r \in SolverOver(Assignments) /\ r.db = s.db
      /\ \/ /\ r.st = "UNSAT"
            /\ \A m \in s.db : ~ \A l \in Query : Holds(m, l)
         \/ /\ r.st = "SAT" /\ r.val \in s.db
            /\ \A l \in Query : Holds(r.val, l)
  BY SolveSpec
<1> QED
  BY <1>1, <1>2

-----------------------------------------------------------------------------
(* The parts of the invariant a step does not touch.                        *)

Types ==
  /\ solver \in SolverOver(Assignments) /\ inner_solver \in SolverOver(Assignments)
  /\ notUndec \in SUBSET Arg /\ in_arg \in SUBSET Arg /\ temp \in SUBSET Arg
  /\ vars_to_add \in SUBSET Arg /\ vars_to_add_in \in SUBSET Arg
  /\ todo \in SUBSET Arg /\ clause \in SUBSET Arg
  /\ IF problem = "SE" THEN answer \subseteq Arg ELSE answer \in {"none", "YES", "NO"}
  /\ pc \in {"encode", "solve", "outer", "build", "inner", "recheck", "block", "read", "add",
             "scan", "scan in", "print", "done", "abort"}

InputTypes ==
  /\ encoding \in Encoding /\ problem \in Problem /\ relation \in Frameworks
  /\ grounded \in Assignments /\ (problem # "SE" => arg \in Arg)

LEMMA TypesMean == TypeOK <=> InputTypes /\ Types
<1>1. (\A s \in {solver, inner_solver} :
         s \in [db : SUBSET Assignments, asm : {{}},
                st : {"INPUT", "SAT", "UNSAT"}, val : Assignments])
      <=> solver \in SolverOver(Assignments) /\ inner_solver \in SolverOver(Assignments)
  BY DEF SolverOver
<1>2. (\A S \in {notUndec, in_arg, temp, vars_to_add, vars_to_add_in, todo, clause} : S \subseteq Arg)
      <=> /\ notUndec \in SUBSET Arg /\ in_arg \in SUBSET Arg /\ temp \in SUBSET Arg
          /\ vars_to_add \in SUBSET Arg /\ vars_to_add_in \in SUBSET Arg
          /\ todo \in SUBSET Arg /\ clause \in SUBSET Arg
  OBVIOUS
<1> QED
  BY <1>1, <1>2 DEF TypeOK, Types, InputTypes

LEMMA InputKept ==
  ASSUME RInv, UNCHANGED input
  PROVE  /\ InputTypes' /\ InputInv' /\ problem' = problem /\ arg' = arg /\ encoding' = encoding
         /\ BaseModels' = BaseModels /\ relation' = relation
         /\ \A D : Above(D)' = Above(D)
         /\ \A S : Kind(S)' <=> Kind(S)
         /\ \A S : Settles(S)' <=> Settles(S)
         /\ \A m : Matches(m)' <=> Matches(m)
<1>1. /\ encoding' = encoding /\ problem' = problem /\ relation' = relation
      /\ grounded' = grounded /\ arg' = arg
  BY DEF input
<1>2. InputTypes'
  BY <1>1, TypesMean DEF RInv, InputTypes
<1>3. InputInv'
  BY <1>1 DEF RInv, InputInv
<1>4. BaseModels' = BaseModels
  BY <1>1 DEF BaseModels
<1>5. \A D : Above(D)' = Above(D)
  BY <1>4 DEF Above
<1>6. \A S : (Kind(S)' <=> Kind(S)) /\ (Settles(S)' <=> Settles(S))
  BY <1>1 DEF Kind, Settles, Extension
<1>7. \A m : Matches(m)' <=> Matches(m)
  BY <1>1 DEF Matches
<1> QED
  BY <1>1, <1>2, <1>3, <1>4, <1>5, <1>6, <1>7

LEMMA SearchStays ==
  ASSUME InputTypes', Types', InputInv', problem' = "SE",
         SearchInv', InArgDecides', ResultMaximal'
  PROVE  RInv'
<1>1. TypeOK'
  BY TypesMean, PTL
<1> QED
  BY <1>1 DEF RInv, OuterInv, InnerInv, AnswerCorrect, IsQuery

LEMMA QueryStays ==
  ASSUME InputTypes', Types', InputInv', problem' # "SE", OuterInv', InnerInv', AnswerCorrect'
  PROVE  RInv'
<1>1. TypeOK'
  BY TypesMean, PTL
<1> QED
  BY <1>1 DEF RInv, SearchInv, InArgDecides, ResultMaximal

(* While the outer solver is not asked and no answer given.                 *)
LEMMA OuterKept ==
  ASSUME RInv, UNCHANGED input, problem # "SE", UNCHANGED solver,
         pc' \in {"encode", "outer", "inner", "recheck", "block", "read", "add",
                  "scan", "scan in", "done", "abort"}
  PROVE  /\ OuterInv'
         /\ pc' # "done" => AnswerCorrect'
<1>1. OuterInv'
  BY InputKept DEF RInv, OuterInv
<1> QED
  BY <1>1 DEF AnswerCorrect

-----------------------------------------------------------------------------
(* The search.                                                              *)

LEMMA PrintGroundedKeeps ==
  ASSUME RInv, PrintGrounded
  PROVE  RInv'
<1>1. /\ UNCHANGED <<solver, inner_solver, notUndec, in_arg, temp, clause, vars_to_add,
                     vars_to_add_in, todo>>
      /\ UNCHANGED input /\ problem = "SE" /\ pc = "encode" /\ AllGrounded(grounded)
      /\ answer' = grounded.in /\ pc' = "done"
  BY DEF PrintGrounded, others, input
<1>2. InputTypes /\ Types /\ InputInv /\ SearchInv
  BY TypesMean DEF RInv
<1>3. grounded.in \in SUBSET Arg /\ Extension(grounded.in)
  BY <1>2, <1>1, GroundedIsExtension DEF InputTypes, Assignments
<1>4. Types'
  BY <1>1, <1>2, <1>3, InputKept DEF Types
<1>5. SearchInv'
  BY <1>1, <1>2, InputKept DEF SearchInv
<1>6. ResultMaximal' /\ InArgDecides'
  BY <1>1, <1>3 DEF ResultMaximal, InArgDecides, Extension, input
<1> QED
  BY <1>1, <1>4, <1>5, <1>6, InputKept, SearchStays

LEMMA NothingFits == Nothing \in Assignments /\ BaseModels \in SUBSET Assignments
  BY DEF Nothing, Assignments, BaseModels, AdmModels, CfModels

LEMMA DecidedInArg ==
  ASSUME NEW m \in Assignments
  PROVE  Decided(m) \in SUBSET Arg /\ m.in \in SUBSET Arg /\ m.in \subseteq Decided(m)
  BY DEF Assignments, Decided

LEMMA EncodeKeeps ==
  ASSUME RInv, Encode
  PROVE  RInv'
<1>1. /\ UNCHANGED <<inner_solver, notUndec, in_arg, temp, clause, vars_to_add,
                     vars_to_add_in, todo, answer>>
      /\ UNCHANGED input /\ problem = "SE" /\ pc = "encode"
      /\ solver' = AddClause(NewSolver(BaseModels, Nothing), SomeDecided(Arg)) /\ pc' = "solve"
  BY DEF Encode, others, input
<1>2. InputTypes /\ Types /\ InputInv /\ SearchInv
  BY TypesMean DEF RInv
<1>3. /\ solver' \in SolverOver(Assignments)
      /\ solver'.db = {m \in BaseModels : \E a \in Arg : a \in Decided(m)}
  <2>1. /\ NewSolver(BaseModels, Nothing) \in SolverOver(Assignments)
        /\ NewSolver(BaseModels, Nothing).db = BaseModels
    BY NothingFits, NewSolverSpec
  <2> QED
    BY <1>1, <2>1, AskMoreSpec
<1>4. notUndec = {} /\ solver'.db = Above(notUndec)
  <2>1. notUndec = {}
    BY <1>1, <1>2 DEF SearchInv
  <2>2. \A m \in BaseModels : (\E a \in Arg : a \in Decided(m)) <=> {} # Decided(m)
    BY NothingFits, DecidedInArg
  <2> QED
    BY <1>3, <2>1, <2>2 DEF Above
<1>5. Types'
  BY <1>1, <1>2, <1>3, InputKept DEF Types
<1>6. SearchInv'
  BY <1>1, <1>2, <1>4, InputKept DEF SearchInv
<1>7. ResultMaximal' /\ InArgDecides'
  BY <1>1, <1>4 DEF ResultMaximal, InArgDecides
<1> QED
  BY <1>1, <1>5, <1>6, <1>7, InputKept, SearchStays

LEMMA SolveKeeps ==
  ASSUME RInv, Solve
  PROVE  RInv'
<1>1. /\ UNCHANGED <<inner_solver, notUndec, in_arg, temp, clause, vars_to_add,
                     vars_to_add_in, todo, answer>>
      /\ UNCHANGED input /\ problem = "SE" /\ pc = "solve"
      /\ solver' \in Results(solver)
      /\ pc' = IF solver'.st = "UNSAT" THEN "print" ELSE "read"
  BY DEF Solve, others, input
<1>2. InputTypes /\ Types /\ InputInv /\ SearchInv
  BY TypesMean DEF RInv
<1>3. /\ solver' \in SolverOver(Assignments) /\ solver'.db = solver.db
      /\ \/ solver'.st = "UNSAT" /\ solver.db = {}
         \/ solver'.st = "SAT" /\ solver'.val \in solver.db
  <2>1. solver \in SolverOver(Assignments)
    BY <1>2 DEF Types
  <2> QED
    BY <1>1, <2>1, PlainSolveSpec
<1>4. Types'
  BY <1>1, <1>2, <1>3, InputKept DEF Types
<1>5. SearchInv'
  BY <1>1, <1>2, <1>3, InputKept DEF SearchInv
<1>6. ResultMaximal' /\ InArgDecides'
  BY <1>1, <1>3 DEF RInv, ResultMaximal, InArgDecides, input
<1> QED
  BY <1>1, <1>4, <1>5, <1>6, InputKept, SearchStays

LEMMA ReadModelKeeps ==
  ASSUME RInv, ReadModel
  PROVE  RInv'
<1>1. /\ UNCHANGED <<solver, inner_solver, notUndec, vars_to_add, vars_to_add_in, todo, answer>>
      /\ UNCHANGED input /\ problem = "SE" /\ pc = "read"
      /\ in_arg' = solver.val.in
      /\ temp' = Decided(solver.val) \ notUndec
      /\ clause' = Arg \ Decided(solver.val)
      /\ pc' = "add"
  BY DEF ReadModel, InArg, Undecided, others, input
<1>2. InputTypes /\ Types /\ InputInv /\ SearchInv
  BY TypesMean DEF RInv
<1>3. solver.val \in BaseModels /\ solver.val \in Assignments /\ Kind(solver.val.in)
  <2>1. solver.val \in BaseModels
    BY <1>1, <1>2 DEF SearchInv, Above
  <2> QED
    BY <1>2, <2>1, ModelIsKind DEF InputTypes
<1>4. Types'
  BY <1>1, <1>2, <1>3, InputKept, DecidedInArg DEF Types
<1>5. SearchInv'
  BY <1>1, <1>2, <1>3, InputKept DEF SearchInv
<1>6. ResultMaximal' /\ InArgDecides'
  BY <1>1 DEF ResultMaximal, InArgDecides
<1> QED
  BY <1>1, <1>4, <1>5, <1>6, InputKept, SearchStays

LEMMA ExtendKeeps ==
  ASSUME RInv, Extend
  PROVE  RInv'
<1> DEFINE m == solver.val
<1>1. /\ UNCHANGED <<inner_solver, in_arg, clause, vars_to_add, vars_to_add_in, todo, answer>>
      /\ UNCHANGED input /\ problem = "SE" /\ pc = "add"
      /\ solver' = AddClauses(AddClause(solver, SomeDecided(clause)), EachDecided(temp))
      /\ notUndec' = notUndec \cup temp /\ temp' = {} /\ pc' = "solve"
  BY DEF Extend, others, input
<1>2. InputTypes /\ Types /\ InputInv /\ SearchInv
  BY TypesMean DEF RInv
<1>3. /\ solver.db = Above(notUndec) /\ m \in Above(notUndec) /\ Kind(in_arg)
      /\ in_arg = m.in /\ temp = Decided(m) \ notUndec /\ clause = Arg \ Decided(m)
  BY <1>1, <1>2 DEF SearchInv
<1>4. m \in BaseModels /\ Decided(m) \in SUBSET Arg /\ Decided(m) \subseteq RangeOf(relation, m.in)
  <2>1. m \in BaseModels /\ m \in Assignments
    BY <1>3, NothingFits DEF Above
  <2> QED
    BY <1>2, <2>1, ModelIsKind, DecidedInArg DEF InputTypes
<1>5. notUndec' = Decided(m)
  BY <1>1, <1>3 DEF Above
<1>6. /\ solver' \in SolverOver(Assignments)
      /\ solver'.db = {n \in solver.db : (\E a \in clause : a \in Decided(n)) /\ temp \subseteq Decided(n)}
  <2> DEFINE s == AddClause(solver, SomeDecided(clause))
  <2>1. s \in SolverOver(Assignments) /\ s.db = {n \in solver.db : \E a \in clause : a \in Decided(n)}
    BY <1>2, AskMoreSpec DEF Types
  <2> HIDE DEF s
  <2>2. /\ AddClauses(s, EachDecided(temp)) \in SolverOver(Assignments)
        /\ AddClauses(s, EachDecided(temp)).db = {n \in s.db : temp \subseteq Decided(n)}
    BY <2>1, KeepDecidedSpec
  <2> QED
    BY <1>1, <2>1, <2>2 DEF s
<1>7. solver'.db = Above(notUndec')
  <2>1. \A n \in BaseModels : Decided(n) \in SUBSET Arg
    BY NothingFits, DecidedInArg
  <2> HIDE DEF m
  <2> QED
    BY <1>3, <1>4, <1>5, <1>6, <2>1 DEF Above
<1>8. Types'
  BY <1>1, <1>2, <1>4, <1>5, <1>6, InputKept DEF Types
<1>9. SearchInv'
  BY <1>1, <1>2, <1>3, <1>7, InputKept DEF SearchInv, Above
<1>10. ResultMaximal' /\ InArgDecides'
  BY <1>1, <1>3, <1>4, <1>5, InputKept DEF ResultMaximal, InArgDecides
<1> QED
  BY <1>1, <1>8, <1>9, <1>10, InputKept, SearchStays

LEMMA PrintInArgKeeps ==
  ASSUME RInv, PrintInArg
  PROVE  RInv'
<1>1. /\ UNCHANGED <<solver, inner_solver, notUndec, in_arg, temp, clause, vars_to_add,
                     vars_to_add_in, todo>>
      /\ UNCHANGED input /\ problem = "SE" /\ pc = "print"
      /\ answer' = in_arg /\ pc' = "done"
  BY DEF PrintInArg, others, input
<1>2. InputTypes /\ Types /\ InputInv /\ SearchInv /\ InArgDecides
  BY TypesMean DEF RInv
<1>3. Extension(in_arg)
  <2>1. /\ Kind(in_arg) /\ Above(notUndec) = {} /\ in_arg \in SUBSET Arg
        /\ notUndec \subseteq RangeOf(relation, in_arg)
    BY <1>1, <1>2 DEF SearchInv, InArgDecides, Types
  <2> QED
    BY <1>2, <2>1, NothingAbove DEF InputTypes
<1>4. Types'
  BY <1>1, <1>2, InputKept DEF Types
<1>5. SearchInv'
  BY <1>1, <1>2, InputKept DEF SearchInv
<1>6. ResultMaximal' /\ InArgDecides'
  BY <1>1, <1>3 DEF ResultMaximal, InArgDecides, Extension, input
<1> QED
  BY <1>1, <1>4, <1>5, <1>6, InputKept, SearchStays

-----------------------------------------------------------------------------
(* The queries: the outer loop.                                             *)

LEMMA AnswerGroundedKeeps ==
  ASSUME RInv, AnswerGrounded
  PROVE  RInv'
<1>1. /\ UNCHANGED <<solver, inner_solver, notUndec, temp, clause, vars_to_add,
                     vars_to_add_in, todo>>
      /\ UNCHANGED input /\ problem # "SE" /\ problem \in {"DC", "DS"}
      /\ pc = "encode" /\ AllGrounded(grounded)
      /\ answer' = IF arg \in grounded.in THEN "YES" ELSE "NO"
      /\ in_arg' = grounded.in /\ pc' = "done"
  BY DEF AnswerGrounded, pass, input, IsQuery
<1>2. InputTypes /\ Types /\ InputInv
  BY TypesMean DEF RInv
<1>3. /\ grounded.in \in SUBSET Arg
      /\ \A S \in SUBSET Arg : Settles(S) <=> S = grounded.in /\ (arg \in grounded.in) = (problem = "DC")
  BY <1>1, <1>2, GroundedIsExtension DEF InputTypes, Assignments, Settles
<1>4. Types'
  BY <1>1, <1>2, <1>3, InputKept DEF Types
<1>5. OuterInv'
  BY <1>1, OuterKept
<1>6. InnerInv'
  BY <1>1 DEF InnerInv
<1>7. AnswerCorrect'
  <2>1. /\ answer' = IF \E S \in SUBSET Arg : Settles(S) THEN Found ELSE NotFound
        /\ answer' = Found => Settles(in_arg')
    BY <1>1, <1>3 DEF Found, NotFound
  <2> QED
    BY <1>1, <2>1, InputKept DEF AnswerCorrect, Found, NotFound, Settles, Extension, input
<1> QED
  BY <1>1, <1>4, <1>5, <1>6, <1>7, InputKept, QueryStays

LEMMA StartLoopKeeps ==
  ASSUME RInv, StartLoop
  PROVE  RInv'
<1>1. /\ UNCHANGED <<solver, inner_solver, notUndec, in_arg, temp, clause, vars_to_add,
                     vars_to_add_in, todo, answer>>
      /\ UNCHANGED input /\ problem # "SE" /\ pc' = "outer"
  BY DEF StartLoop, pass, input, IsQuery
<1>2. Types
  BY TypesMean DEF RInv
<1>3. Types'
  BY <1>1, <1>2, InputKept DEF Types
<1>4. OuterInv' /\ AnswerCorrect'
  BY <1>1, OuterKept
<1>5. InnerInv'
  BY <1>1 DEF InnerInv
<1> QED
  BY <1>1, <1>3, <1>4, <1>5, InputKept, QueryStays

LEMMA SolveOuterKeeps ==
  ASSUME RInv, SolveOuter
  PROVE  RInv'
<1>1. /\ UNCHANGED <<inner_solver, notUndec, in_arg, temp, clause, vars_to_add,
                     vars_to_add_in, todo>>
      /\ UNCHANGED input /\ problem # "SE" /\ problem \in {"DC", "DS"} /\ IsQuery
      /\ solver' \in Results(Assume(solver, Query))
      /\ IF solver'.st = "UNSAT"
           THEN answer' = NotFound /\ pc' = "done"
           ELSE answer' = answer /\ pc' = "build"
  BY DEF SolveOuter, pass, input, IsQuery
<1>2. InputTypes /\ Types /\ InputInv /\ OuterInv
  BY TypesMean DEF RInv
<1>3. /\ solver' \in SolverOver(Assignments) /\ solver'.db = solver.db
      /\ \/ solver'.st = "UNSAT" /\ \A m \in solver.db : ~Matches(m)
         \/ solver'.st = "SAT" /\ solver'.val \in solver.db /\ Matches(solver'.val)
  BY <1>1, <1>2, AskQuerySpec DEF Types
<1>4. Types'
  BY <1>1, <1>2, <1>3, InputKept DEF Types, NotFound
<1>5. OuterInv'
  BY <1>1, <1>2, <1>3, InputKept DEF OuterInv
<1>6. InnerInv'
  BY <1>1 DEF InnerInv
<1>7. AnswerCorrect'
  <2>1. CASE pc' = "done"
    <3>1. \A S \in SUBSET Arg : ~Settles(S)
      <4> SUFFICES ASSUME NEW S \in SUBSET Arg, Settles(S) PROVE FALSE
        OBVIOUS
      <4> DEFINE m == [in |-> S, out |-> Attacked(relation, S)]
      <4>1. m \in solver.db
        BY <1>1, <1>2 DEF OuterInv
      <4>2. Matches(m)
        BY DEF Settles, Matches
      <4> QED
        BY <1>1, <1>3, <2>1, <4>1, <4>2
    <3>2. answer' = NotFound /\ NotFound # Found /\ NotFound' = NotFound /\ Found' = Found
      BY <1>1, <2>1, InputKept DEF Found, NotFound
    <3> QED
      BY <1>1, <3>1, <3>2, InputKept DEF AnswerCorrect
  <2>2. CASE pc' # "done"
    BY <2>2 DEF AnswerCorrect
  <2> QED
    BY <2>1, <2>2
<1> QED
  BY <1>1, <1>4, <1>5, <1>6, <1>7, InputKept, QueryStays

LEMMA BuildInnerKeeps ==
  ASSUME RInv, BuildInner
  PROVE  RInv'
<1> DEFINE m == solver.val
           D == Decided(m)
<1>1. /\ UNCHANGED <<solver, temp, clause, vars_to_add, vars_to_add_in, todo, answer>>
      /\ UNCHANGED input /\ problem # "SE" /\ pc = "build"
      /\ notUndec' = D /\ in_arg' = m.in
      /\ inner_solver' =
           AddClause(AddClauses(NewSolver(BaseModels, Nothing), EachDecided(D)),
                     SomeDecided(Arg \ D))
      /\ pc' = "inner"
  BY DEF BuildInner, Rest, pass, input, IsQuery
<1>2. InputTypes /\ Types /\ OuterInv
  BY TypesMean DEF RInv
<1>3. m \in BaseModels /\ Matches(m) /\ D \in SUBSET Arg /\ m.in \in SUBSET Arg
  <2>1. m \in BaseModels /\ Matches(m)
    BY <1>1, <1>2 DEF OuterInv
  <2> QED
    BY <2>1, NothingFits, DecidedInArg
<1> HIDE DEF D
<1>4. /\ inner_solver' \in SolverOver(Assignments)
      /\ inner_solver'.db =
           {n \in BaseModels : D \subseteq Decided(n) /\ \E a \in Arg \ D : a \in Decided(n)}
  <2> DEFINE s == AddClauses(NewSolver(BaseModels, Nothing), EachDecided(D))
  <2>1. /\ NewSolver(BaseModels, Nothing) \in SolverOver(Assignments)
        /\ NewSolver(BaseModels, Nothing).db = BaseModels
    BY NothingFits, NewSolverSpec
  <2>2. s \in SolverOver(Assignments) /\ s.db = {n \in BaseModels : D \subseteq Decided(n)}
    BY <2>1, KeepDecidedSpec
  <2> HIDE DEF s
  <2>3. /\ AddClause(s, SomeDecided(Arg \ D)) \in SolverOver(Assignments)
        /\ AddClause(s, SomeDecided(Arg \ D)).db = {n \in s.db : \E a \in Arg \ D : a \in Decided(n)}
    BY <2>2, AskMoreSpec
  <2> QED
    BY <1>1, <2>2, <2>3 DEF s
<1>5. Types'
  BY <1>1, <1>2, <1>3, <1>4, InputKept DEF Types
<1>6. OuterInv' /\ AnswerCorrect'
  BY <1>1, OuterKept
<1>7. InnerKeeps'
  <2>1. BaseModels' = BaseModels
    BY <1>1, InputKept
  <2> QED
    BY <1>1, <1>4, <2>1 DEF InnerKeeps
<1>8. \E b \in BaseModels : IsBest(b)'
  <2>1. PICK b \in BaseModels : b = m /\ D = Decided(b)
    BY <1>3 DEF D
  <2>2. Above(D) \subseteq inner_solver'.db
    <3>1. \A n \in BaseModels : Decided(n) \in SUBSET Arg
      BY NothingFits, DecidedInArg
    <3> QED
      BY <1>4, <3>1 DEF Above
  <2>3. \A n \in inner_solver'.db : ~(Decided(n) \subseteq D)
    BY <1>4
  <2>4. Matches(b)' /\ Above(Decided(b))' = Above(Decided(b))
    BY <1>1, <1>3, <2>1, InputKept
  <2>5. IsBest(b)'
    <3>1. b.in = in_arg' /\ notUndec' \subseteq Decided(b) /\ Above(Decided(b))' \subseteq inner_solver'.db
      BY <1>1, <2>1, <2>2, <2>4
    <3> QED
      BY <2>1, <2>3, <2>4, <3>1 DEF IsBest
  <2> QED
    BY <2>5
<1>9. InnerInv'
  BY <1>1, <1>3, <1>7, <1>8, InputKept DEF InnerInv
<1> QED
  BY <1>1, <1>5, <1>6, <1>9, InputKept, QueryStays

LEMMA BlockKeeps ==
  ASSUME RInv, Block
  PROVE  RInv'
<1>1. /\ UNCHANGED <<inner_solver, notUndec, in_arg, temp, clause, vars_to_add,
                     vars_to_add_in, todo, answer>>
      /\ UNCHANGED input /\ problem # "SE" /\ pc = "block"
      /\ solver' = AddClause(solver, SomeDecided(Arg \ notUndec)) /\ pc' = "outer"
  BY DEF Block, Blocking, Open, pass, input, IsQuery
<1>2. InputTypes /\ Types /\ InputInv /\ OuterInv /\ InnerInv
  BY TypesMean DEF RInv
<1>3. /\ solver' \in SolverOver(Assignments)
      /\ solver'.db = {m \in solver.db : \E a \in Arg \ notUndec : a \in Decided(m)}
  BY <1>1, <1>2, AskMoreSpec DEF Types
<1>4. PICK b \in BaseModels : InnerKeeps /\ IsBest(b) /\ inner_solver.db # {}
  BY <1>1, <1>2 DEF InnerInv
(* The inner solver has just found more than the best labelling of its kind *)
(* decides, so an extension decides something that was not recorded.        *)
<1>5. ASSUME NEW S \in SUBSET Arg, Settles(S)
      PROVE  [in |-> S, out |-> Attacked(relation, S)] \in solver'.db
  <2> DEFINE m == [in |-> S, out |-> Attacked(relation, S)]
  <2>1. m \in solver.db /\ Decided(m) = RangeOf(relation, S) /\ Decided(m) \in SUBSET Arg
    BY <1>1, <1>2, <1>5, RangeInArg DEF OuterInv, Decided, RangeOf
  <2>2. ~(RangeOf(relation, S) \subseteq notUndec)
    <3> SUFFICES ASSUME RangeOf(relation, S) \subseteq notUndec PROVE FALSE
      OBVIOUS
    <3>1. Extension(S)
      BY <1>5 DEF Settles
    <3>2. /\ notUndec \subseteq Decided(b) /\ Decided(b) \subseteq RangeOf(relation, b.in)
          /\ \A n \in inner_solver.db : ~(Decided(n) \subseteq Decided(b))
      BY <1>2, <1>4, ModelIsKind DEF IsBest, InputTypes
    <3>3. RangeOf(relation, b.in) = RangeOf(relation, S)
      BY <1>2, <3>1, <3>2, ExtensionIsMaximal DEF InputTypes
    <3>4. PICK n \in inner_solver.db : n \in BaseModels /\ notUndec \subseteq Decided(n)
      BY <1>4 DEF InnerKeeps
    <3>5. n \in Above(RangeOf(relation, S))
      BY <3>2, <3>3, <3>4 DEF Above
    <3> QED
      BY <1>2, <3>1, <3>5, ExtensionIsMaximal DEF InputTypes
  <2> QED
    BY <1>3, <2>1, <2>2
<1>6. Types'
  BY <1>1, <1>2, <1>3, InputKept DEF Types
<1>7. OuterInv'
  BY <1>1, <1>2, <1>3, <1>5, InputKept DEF OuterInv
<1>8. InnerInv' /\ AnswerCorrect'
  BY <1>1 DEF InnerInv, AnswerCorrect
<1> QED
  BY <1>1, <1>6, <1>7, <1>8, InputKept, QueryStays

-----------------------------------------------------------------------------
(* The queries: the inner loop.                                             *)

LEMMA SolveInnerKeeps ==
  ASSUME RInv, SolveInner
  PROVE  RInv'
<1>1. /\ UNCHANGED <<solver, notUndec, temp, vars_to_add, vars_to_add_in, answer>>
      /\ UNCHANGED input /\ problem # "SE" /\ pc = "inner" /\ IsQuery
      /\ inner_solver' \in Results(Assume(inner_solver, Query))
      /\ IF inner_solver'.st = "UNSAT"
           THEN pc' = "recheck" /\ UNCHANGED <<in_arg, todo, clause>>
           ELSE /\ pc' = IF encoding = "adm" THEN "read" ELSE "scan"
                /\ in_arg' = {} /\ todo' = Arg /\ clause' = {}
  BY DEF SolveInner, input, IsQuery
<1>2. InputTypes /\ Types /\ InputInv /\ InnerInv
  BY TypesMean DEF RInv
<1>3. /\ inner_solver' \in SolverOver(Assignments) /\ inner_solver'.db = inner_solver.db
      /\ \/ inner_solver'.st = "UNSAT"
         \/ /\ inner_solver'.st = "SAT" /\ inner_solver'.val \in inner_solver.db
            /\ Matches(inner_solver'.val)
  BY <1>1, <1>2, AskQuerySpec DEF Types
<1>4. Types'
  BY <1>1, <1>2, <1>3, InputKept DEF Types
<1>5. OuterInv' /\ AnswerCorrect'
  BY <1>1, OuterKept
<1>6. InnerKeeps'
  <2>1. InnerKeeps /\ BaseModels' = BaseModels
    BY <1>1, <1>2, InputKept DEF InnerInv
  <2> QED
    BY <1>1, <1>3, <2>1 DEF InnerKeeps
<1>7. CASE inner_solver'.st = "UNSAT"
  <2>1. PICK b \in BaseModels : IsBest(b)
    BY <1>1, <1>2 DEF InnerInv
  <2>2. IsBest(b)'
    <3>1. Matches(b)' /\ Above(Decided(b))' = Above(Decided(b)) /\ in_arg' = in_arg
      BY <1>1, <1>7, <2>1, InputKept DEF IsBest
    <3> QED
      BY <1>1, <1>3, <2>1, <3>1 DEF IsBest
  <2>3. InnerInv'
    BY <1>1, <1>6, <1>7, <2>1, <2>2, InputKept DEF InnerInv
  <2> QED
    BY <1>1, <1>4, <1>5, <2>3, InputKept, QueryStays
<1>8. CASE inner_solver'.st # "UNSAT"
  <2>1. ModelFound'
    <3>1. PICK m \in inner_solver.db : m = inner_solver'.val /\ Matches(m)
      BY <1>3, <1>8
    <3>2. Matches(m)'
      BY <1>1, <3>1, InputKept
    <3> QED
      BY <1>3, <1>8, <3>1, <3>2 DEF ModelFound, Matches
  <2>2. encoding = "cf" => PassInv'
    <3>1. inner_solver'.val.in \subseteq Arg
      BY <1>4 DEF Types, SolverOver, Assignments
    <3> QED
      BY <1>1, <1>8, <3>1 DEF PassInv
  <2>3. encoding \in {"adm", "cf"} /\ inner_solver'.st = "SAT"
    BY <1>2, <1>3, <1>8 DEF InputInv
  <2>4. InnerInv'
    BY <1>1, <1>6, <1>8, <2>1, <2>2, <2>3, InputKept DEF InnerInv, Readable
  <2> QED
    BY <1>1, <1>4, <1>5, <2>4, InputKept, QueryStays
<1> QED
  BY <1>7, <1>8

LEMMA SolveInnerAgainKeeps ==
  ASSUME RInv, SolveInnerAgain
  PROVE  RInv'
<1>1. /\ UNCHANGED <<solver, notUndec, in_arg, temp, clause, vars_to_add, vars_to_add_in, todo>>
      /\ UNCHANGED input /\ problem # "SE" /\ problem \in {"DC", "DS"} /\ pc = "recheck"
      /\ inner_solver' \in Results(inner_solver)
      /\ IF inner_solver'.st = "UNSAT"
           THEN answer' = Found /\ pc' = "done"
           ELSE answer' = answer /\ pc' = "block"
  BY DEF SolveInnerAgain, pass, input, IsQuery
<1>2. InputTypes /\ Types /\ InputInv /\ InnerInv
  BY TypesMean DEF RInv
<1>3. /\ inner_solver' \in SolverOver(Assignments) /\ inner_solver'.db = inner_solver.db
      /\ \/ inner_solver'.st = "UNSAT" /\ inner_solver.db = {}
         \/ inner_solver'.st = "SAT" /\ inner_solver.db # {}
  <2>1. inner_solver \in SolverOver(Assignments)
    BY <1>2 DEF Types
  <2> QED
    BY <1>1, <2>1, PlainSolveSpec
<1>4. PICK b \in BaseModels : InnerKeeps /\ IsBest(b)
  BY <1>1, <1>2 DEF InnerInv
<1>5. Types'
  BY <1>1, <1>2, <1>3, InputKept DEF Types, Found
<1>6. OuterInv' /\ (pc' # "done" => AnswerCorrect')
  BY <1>1, OuterKept
<1>7. InnerInv'
  <2>1. IsBest(b)' /\ InnerKeeps'
    <3>1. Matches(b)' /\ Above(Decided(b))' = Above(Decided(b)) /\ BaseModels' = BaseModels
      BY <1>1, <1>4, InputKept DEF IsBest
    <3> QED
      BY <1>1, <1>3, <1>4, <3>1 DEF IsBest, InnerKeeps
  <2> QED
    BY <1>1, <1>3, <1>4, <2>1, InputKept DEF InnerInv
<1>8. AnswerCorrect'
  <2>1. CASE pc' = "done"
    <3>1. inner_solver.db = {} /\ answer' = Found
      BY <1>1, <1>3, <2>1
    <3>2. /\ b.in = in_arg /\ Matches(b) /\ Above(Decided(b)) = {}
          /\ in_arg \in SUBSET Arg /\ Kind(in_arg)
          /\ Decided(b) \subseteq RangeOf(relation, in_arg)
      BY <1>2, <1>4, <3>1, ModelIsKind DEF IsBest, InputTypes
    <3>3. Extension(in_arg)
      BY <1>2, <3>2, NothingAbove DEF InputTypes
    <3>4. Settles(in_arg)
      BY <3>2, <3>3 DEF Settles, Matches
    <3>5. PICK S \in SUBSET Arg : S = in_arg' /\ Settles(S)'
      BY <1>1, <3>2, <3>4, InputKept
    <3>6. Settles(in_arg)' /\ Found' = Found
      BY <1>1, <3>5, InputKept DEF Settles, Extension, Found
    <3> QED
      BY <3>1, <3>5, <3>6 DEF AnswerCorrect
  <2> QED
    BY <1>6, <2>1
<1> QED
  BY <1>1, <1>5, <1>6, <1>7, <1>8, InputKept, QueryStays

(* The model becomes the best labelling: what was kept and decides more     *)
(* than it is kept by the new clauses too.                                  *)
LEMMA NextBest ==
  ASSUME RInv, UNCHANGED input, InnerKeeps, ModelFound,
         NEW new, new \subseteq Decided(inner_solver.val),
         notUndec' = notUndec \cup new, in_arg' = inner_solver.val.in,
         inner_solver'.db =
           {m \in inner_solver.db :
              new \subseteq Decided(m) /\ \E a \in Arg \ Decided(inner_solver.val) : a \in Decided(m)}
  PROVE  InnerKeeps' /\ \E b \in BaseModels' : IsBest(b)'
<1>1. BaseModels' = BaseModels /\ \A n \in BaseModels : Decided(n) \in SUBSET Arg
  BY InputKept, NothingFits, DecidedInArg
<1>2. PICK b \in BaseModels : b = inner_solver.val /\ b \in inner_solver.db /\ Matches(b)
  BY DEF ModelFound, InnerKeeps
<1>3. InnerKeeps'
  <2>1. inner_solver'.db \subseteq BaseModels
    BY DEF InnerKeeps
  <2>2. \A m \in inner_solver'.db : notUndec' \subseteq Decided(m)
    BY DEF InnerKeeps
  <2>3. \A m \in inner_solver'.db, n \in BaseModels :
          Decided(m) \subseteq Decided(n) => n \in inner_solver'.db
    BY DEF InnerKeeps
  <2> QED
    BY <1>1, <2>1, <2>2, <2>3 DEF InnerKeeps
<1>4. IsBest(b)'
  <2>1. Matches(b)' /\ Above(Decided(b))' = Above(Decided(b))
    BY <1>2, InputKept
  <2>2. notUndec' \subseteq Decided(b)
    BY <1>2 DEF InnerKeeps
  <2>3. Above(Decided(b)) \subseteq inner_solver'.db
    <3> SUFFICES ASSUME NEW n \in Above(Decided(b)) PROVE n \in inner_solver'.db
      OBVIOUS
    <3>1. n \in BaseModels /\ Decided(b) \subseteq Decided(n) /\ Decided(b) # Decided(n)
      BY DEF Above
    <3>2. n \in inner_solver.db
      BY <1>2, <3>1 DEF InnerKeeps
    <3> QED
      BY <1>1, <1>2, <3>1, <3>2
  <2>4. \A m \in inner_solver'.db : ~(Decided(m) \subseteq Decided(b))
    BY <1>2
  <2> QED
    BY <1>2, <2>1, <2>2, <2>3, <2>4 DEF IsBest
<1> QED
  BY <1>1, <1>3, <1>4

LEMMA ReadInnerKeeps ==
  ASSUME RInv, ReadInner
  PROVE  RInv'
<1>1. /\ UNCHANGED <<solver, inner_solver, notUndec, in_arg, temp, clause, todo, answer>>
      /\ UNCHANGED input /\ problem # "SE" /\ pc = "read"
      /\ vars_to_add' = Decided(inner_solver.val)
      /\ vars_to_add_in' = inner_solver.val.in
      /\ pc' = "add"
  BY DEF ReadInner, input, IsQuery
<1>2. InputTypes /\ Types /\ InnerInv
  BY TypesMean DEF RInv
<1>3. encoding = "adm" /\ InnerKeeps /\ ModelFound /\ inner_solver.val \in Assignments
  BY <1>1, <1>2, NothingFits DEF InnerInv, InnerKeeps, ModelFound
<1>4. Types'
  BY <1>1, <1>2, <1>3, InputKept, DecidedInArg DEF Types
<1>5. OuterInv' /\ AnswerCorrect'
  BY <1>1, OuterKept
<1>6. InnerKeeps' /\ ModelFound'
  BY <1>1, <1>3, InputKept DEF InnerKeeps, ModelFound, Matches
<1>7. InnerInv'
  BY <1>1, <1>3, <1>6, InputKept DEF InnerInv
<1> QED
  BY <1>1, <1>4, <1>5, <1>7, InputKept, QueryStays

LEMMA AddInnerKeeps ==
  ASSUME RInv, AddInner
  PROVE  RInv'
<1> DEFINE D == vars_to_add
           new == (D \ notUndec) \ {arg}
<1>1. /\ UNCHANGED <<solver, temp, vars_to_add, vars_to_add_in, todo, clause, answer>>
      /\ UNCHANGED input /\ problem # "SE" /\ pc = "add"
      /\ inner_solver' = AddClause(AddClauses(inner_solver, EachDecided(new)), SomeDecided(Arg \ D))
      /\ notUndec' = notUndec \cup new /\ in_arg' = vars_to_add_in
      /\ pc' = "inner"
  BY DEF AddInner, Rest, pass, input, IsQuery
<1>2. InputTypes /\ Types /\ InnerInv
  BY TypesMean DEF RInv
<1>3. /\ InnerKeeps /\ ModelFound
      /\ D = Decided(inner_solver.val) /\ vars_to_add_in = inner_solver.val.in
  BY <1>1, <1>2 DEF InnerInv
<1>4. PICK k : k = new /\ k \in SUBSET Arg /\ k \subseteq Decided(inner_solver.val)
  BY <1>2, <1>3 DEF Types
<1>5. /\ inner_solver' \in SolverOver(Assignments)
      /\ inner_solver'.db =
           {m \in inner_solver.db :
              k \subseteq Decided(m) /\ \E a \in Arg \ Decided(inner_solver.val) : a \in Decided(m)}
  <2> DEFINE s == AddClauses(inner_solver, EachDecided(k))
  <2> HIDE DEF D, new
  <2>1. s \in SolverOver(Assignments) /\ s.db = {m \in inner_solver.db : k \subseteq Decided(m)}
    BY <1>2, KeepDecidedSpec DEF Types
  <2> HIDE DEF s
  <2>2. /\ AddClause(s, SomeDecided(Arg \ D)) \in SolverOver(Assignments)
        /\ AddClause(s, SomeDecided(Arg \ D)).db = {m \in s.db : \E a \in Arg \ D : a \in Decided(m)}
    BY <2>1, AskMoreSpec
  <2>3. inner_solver' = AddClause(s, SomeDecided(Arg \ D))
    BY <1>1, <1>4 DEF s
  <2> QED
    BY <1>3, <2>1, <2>2, <2>3
<1> HIDE DEF new
<1>6. Types'
  BY <1>1, <1>2, <1>4, <1>5, InputKept DEF Types
<1>7. OuterInv' /\ AnswerCorrect'
  BY <1>1, OuterKept
<1>8. InnerKeeps' /\ \E b \in BaseModels' : IsBest(b)'
  BY <1>1, <1>3, <1>4, <1>5, NextBest
<1>9. InnerInv'
  BY <1>1, <1>8 DEF InnerInv
<1> QED
  BY <1>1, <1>6, <1>7, <1>9, InputKept, QueryStays

LEMMA ScanKeeps ==
  ASSUME RInv, NEW i \in Arg, Scan(i)
  PROVE  RInv'
<1> DEFINE m == inner_solver.val
           records == i \in Decided(m) \ notUndec /\ i # arg
<1>1. /\ UNCHANGED <<solver, in_arg, temp, vars_to_add, vars_to_add_in, answer>>
      /\ UNCHANGED input /\ pc = "scan" /\ i \in todo /\ \A j \in todo : i <= j
      /\ inner_solver' =
           IF records THEN AddClause(inner_solver, SomeDecided({i})) ELSE inner_solver
      /\ notUndec' = IF records THEN notUndec \cup {i} ELSE notUndec
      /\ clause' = IF i \in Decided(m) THEN clause ELSE clause \cup {i}
      /\ IF i \in Decided(m) THEN pc' = "scan in" /\ todo' = todo
                             ELSE pc' = "scan" /\ todo' = todo \ {i}
  BY DEF Scan, input
<1>2. InputTypes /\ Types /\ InnerInv /\ problem # "SE"
  BY <1>1, TypesMean DEF RInv, SearchInv
<1>3. encoding = "cf" /\ Readable(inner_solver) /\ InnerKeeps /\ ModelFound /\ PassInv
  BY <1>1, <1>2 DEF InnerInv
<1>4. OuterInv' /\ AnswerCorrect'
  BY <1>1, <1>2, OuterKept
<1>5. CASE records
  <2>1. /\ inner_solver' \in SolverOver(Assignments) /\ inner_solver'.st # "SAT"
        /\ notUndec' = notUndec \cup {i} /\ clause' = clause
        /\ pc' = "scan in" /\ todo' = todo
    <3>1. inner_solver' = AddClause(inner_solver, SomeDecided({i}))
      BY <1>1, <1>5
    <3>2. inner_solver'.st = "INPUT"
      BY <1>2, <3>1 DEF AddClause, Types, SolverOver
    <3> QED
      BY <1>1, <1>2, <1>5, <3>1, <3>2, AskMoreSpec DEF Types
  <2>2. Types'
    BY <1>1, <1>2, <2>1, InputKept DEF Types
  <2>3. InnerInv'
    BY <1>1, <1>3, <2>1, InputKept DEF InnerInv, Readable
  <2> QED
    BY <1>1, <1>2, <1>4, <2>2, <2>3, InputKept, QueryStays
<1>6. CASE ~records
  <2>1. inner_solver' = inner_solver /\ notUndec' = notUndec
    BY <1>1, <1>6
  <2>2. Types'
    BY <1>1, <1>2, <2>1, InputKept DEF Types
  <2>3. InnerKeeps' /\ ModelFound'
    BY <1>1, <1>3, <2>1, InputKept DEF InnerKeeps, ModelFound, Matches
  <2>4. PassInv'
    <3>1. CASE i \in Decided(m)
      <4>1. \A k \in todo : (\A j \in todo : k <= j) => k = i
        <5> TAKE k \in todo
        <5> HAVE \A j \in todo : k <= j
        <5>1. k \in Nat /\ i \in Nat
          BY <1>2, ArgAssumption DEF Types
        <5>2. k <= i /\ i <= k
          BY <1>1
        <5> HIDE DEF m, records
        <5> QED
          BY <5>1, <5>2
      <4> QED
        BY <1>1, <1>3, <2>1, <3>1, <4>1 DEF PassInv
    <3>2. CASE i \notin Decided(m)
      <4>1. i \notin m.in
        BY <3>2 DEF Decided
      <4> HIDE DEF m
      <4> QED
        BY <1>1, <1>3, <2>1, <3>2, <4>1 DEF PassInv, m
    <3> QED
      BY <3>1, <3>2
  <2>5. InnerInv'
    BY <1>1, <1>3, <2>1, <2>3, <2>4, InputKept DEF InnerInv
  <2> QED
    BY <1>1, <1>2, <1>4, <2>2, <2>5, InputKept, QueryStays
<1> QED
  BY <1>5, <1>6

LEMMA ScanInKeeps ==
  ASSUME RInv, NEW i \in Arg, ScanIn(i)
  PROVE  RInv'
<1>1. /\ UNCHANGED <<solver, inner_solver, notUndec, temp, vars_to_add, vars_to_add_in,
                     clause, answer>>
      /\ UNCHANGED input /\ pc = "scan in" /\ i \in todo /\ \A j \in todo : i <= j
      /\ Readable(inner_solver)
      /\ in_arg' = IF i \in inner_solver.val.in THEN in_arg \cup {i} ELSE in_arg
      /\ todo' = todo \ {i} /\ pc' = "scan"
  BY DEF ScanIn, input
<1>2. InputTypes /\ Types /\ InnerInv /\ problem # "SE"
  BY <1>1, TypesMean DEF RInv, SearchInv
<1>3. encoding = "cf" /\ InnerKeeps /\ ModelFound /\ PassInv
  BY <1>1, <1>2 DEF InnerInv
<1>4. Types'
  BY <1>1, <1>2, InputKept DEF Types
<1>5. OuterInv' /\ AnswerCorrect'
  BY <1>1, <1>2, OuterKept
<1>6. InnerKeeps' /\ ModelFound'
  BY <1>1, <1>3, InputKept DEF InnerKeeps, ModelFound, Matches
<1>7. PassInv'
  <2>1. i \in Decided(inner_solver.val)
    BY <1>1, <1>3 DEF PassInv
  <2>2. clause' = (Arg \ todo') \ Decided(inner_solver.val)
    BY <1>1, <1>3, <2>1 DEF PassInv
  <2>3. in_arg' = inner_solver.val.in \ todo'
    BY <1>1, <1>3 DEF PassInv
  <2> QED
    BY <1>1, <2>2, <2>3 DEF PassInv
<1>8. InnerInv'
  BY <1>1, <1>3, <1>6, <1>7, InputKept DEF InnerInv, Readable
<1> QED
  BY <1>1, <1>2, <1>4, <1>5, <1>8, InputKept, QueryStays

LEMMA AbortKeeps ==
  ASSUME RInv, Abort
  PROVE  RInv'
<1>1. /\ UNCHANGED <<solver, inner_solver, notUndec, in_arg, temp, clause, vars_to_add,
                     vars_to_add_in, todo, answer>>
      /\ UNCHANGED input /\ pc \in {"scan", "scan in"} /\ pc' = "abort"
  BY DEF Abort, pass, input
<1>2. Types /\ problem # "SE"
  BY <1>1, TypesMean DEF RInv, SearchInv
<1>3. Types'
  BY <1>1, <1>2, InputKept DEF Types
<1>4. OuterInv' /\ AnswerCorrect'
  BY <1>1, <1>2, OuterKept
<1>5. InnerInv'
  BY <1>1 DEF InnerInv
<1> QED
  BY <1>1, <1>2, <1>3, <1>4, <1>5, InputKept, QueryStays

LEMMA EndScanKeeps ==
  ASSUME RInv, EndScan
  PROVE  RInv'
<1>1. /\ UNCHANGED <<solver, notUndec, in_arg, temp, vars_to_add, vars_to_add_in, todo,
                     clause, answer>>
      /\ UNCHANGED input /\ pc = "scan" /\ todo = {}
      /\ inner_solver' = AddClause(inner_solver, SomeDecided(clause)) /\ pc' = "inner"
  BY DEF EndScan, pass, input
<1>2. InputTypes /\ Types /\ InnerInv /\ problem # "SE"
  BY <1>1, TypesMean DEF RInv, SearchInv
<1>3. /\ InnerKeeps /\ ModelFound
      /\ clause = Arg \ Decided(inner_solver.val) /\ in_arg = inner_solver.val.in
  BY <1>1, <1>2 DEF InnerInv, PassInv
<1>4. /\ inner_solver' \in SolverOver(Assignments)
      /\ inner_solver'.db = {m \in inner_solver.db : \E a \in clause : a \in Decided(m)}
  BY <1>1, <1>2, AskMoreSpec DEF Types
<1>5. Types'
  BY <1>1, <1>2, <1>4, InputKept DEF Types
<1>6. OuterInv' /\ AnswerCorrect'
  BY <1>1, <1>2, OuterKept
<1>7. InnerKeeps' /\ \E b \in BaseModels' : IsBest(b)'
  <2>1. PICK new \in {{}} : new \subseteq Decided(inner_solver.val)
    <3> WITNESS {} \in {{}}
    <3> QED
      OBVIOUS
  <2>2. notUndec' = notUndec \cup new /\ in_arg' = inner_solver.val.in
    BY <1>1, <1>3, <2>1
  <2>3. inner_solver'.db =
          {m \in inner_solver.db :
             new \subseteq Decided(m) /\ \E a \in Arg \ Decided(inner_solver.val) : a \in Decided(m)}
    BY <1>3, <1>4, <2>1
  <2> QED
    BY <1>1, <1>3, <2>1, <2>2, <2>3, NextBest
<1>8. InnerInv'
  BY <1>1, <1>7 DEF InnerInv
<1> QED
  BY <1>1, <1>2, <1>5, <1>6, <1>8, InputKept, QueryStays

-----------------------------------------------------------------------------
(* All together.                                                            *)

LEMMA InitRInv == Init => RInv
<1> SUFFICES ASSUME Init PROVE RInv
  OBVIOUS
<1>1. /\ encoding \in Encoding /\ relation \in Frameworks
      /\ grounded \in Assignments /\ GroundedLabels(relation, grounded.in, grounded.out)
      /\ notUndec = {} /\ in_arg = {} /\ temp = {}
      /\ vars_to_add = {} /\ vars_to_add_in = {} /\ todo = {} /\ clause = {}
      /\ pc = "encode"
  BY DEF Init, MaxInit, QueryInit, CoreInit
<1>2. encoding \in {"adm", "cf"} /\ relation \in SUBSET (Arg \X Arg)
  BY <1>1, FrameworksAssumption, EncodingAssumption
<1>3. CASE MaxInit
  <2>1. problem = "SE" /\ problem \in Problem /\ answer = {} /\ inner_solver = solver
        /\ solver = NewSolver(Assignments, Nothing)
    BY <1>3 DEF MaxInit
  <2>2. solver \in SolverOver(Assignments)
    BY <2>1, NothingFits, NewSolverSpec
  <2>3. InputTypes /\ Types /\ InputInv
    BY <1>1, <1>2, <2>1, <2>2 DEF InputTypes, Types, InputInv
  <2>4. Kind({})
    BY DEF Kind, Admissible, ConflictFree
  <2>5. SearchInv /\ InArgDecides /\ ResultMaximal
    BY <1>1, <2>4 DEF SearchInv, InArgDecides, ResultMaximal
  <2> QED
    BY <2>1, <2>3, <2>5, TypesMean DEF RInv, OuterInv, InnerInv, AnswerCorrect, IsQuery
<1>4. CASE QueryInit
  <2>1. /\ problem \in Problem \ {"SE"} /\ answer = "none"
        /\ arg \in Arg /\ (encoding = "adm" => arg \notin Decided(grounded))
        /\ solver = NewSolver(BaseModels, Nothing) /\ inner_solver = NewSolver(BaseModels, Nothing)
    BY <1>4 DEF QueryInit
  <2>2. solver \in SolverOver(Assignments) /\ solver.db = BaseModels
        /\ inner_solver \in SolverOver(Assignments)
    BY <2>1, NothingFits, NewSolverSpec
  <2>3. InputTypes /\ Types /\ InputInv
    BY <1>1, <1>2, <2>1, <2>2, ProblemAssumption DEF InputTypes, Types, InputInv
  <2>4. OuterInv
    BY <1>1, <2>2, <2>3, ExtensionHasModel DEF OuterInv, Settles, InputTypes
  <2> QED
    BY <1>1, <2>1, <2>3, <2>4, TypesMean
    DEF RInv, SearchInv, InArgDecides, ResultMaximal, InnerInv, AnswerCorrect
<1> QED
  BY <1>3, <1>4 DEF Init

LEMMA NextRInv == RInv /\ [Next]_vars => RInv'
<1> SUFFICES ASSUME RInv, [Next]_vars PROVE RInv'
  OBVIOUS
<1>1. CASE MaxNext
  BY <1>1, PrintGroundedKeeps, EncodeKeeps, SolveKeeps, ReadModelKeeps, ExtendKeeps,
     PrintInArgKeeps DEF MaxNext
<1>2. CASE QueryNext
  BY <1>2, AnswerGroundedKeeps, StartLoopKeeps, SolveOuterKeeps, BuildInnerKeeps,
     SolveInnerKeeps, SolveInnerAgainKeeps, BlockKeeps, ReadInnerKeeps, AddInnerKeeps,
     ScanKeeps, ScanInKeeps, AbortKeeps, EndScanKeeps DEF QueryNext
<1>3. CASE UNCHANGED vars
  <2>1. /\ UNCHANGED input
        /\ UNCHANGED <<solver, inner_solver, notUndec, in_arg, temp, vars_to_add,
                       vars_to_add_in, todo, clause, answer, pc>>
    BY <1>3 DEF vars, input
  <2>2. Types /\ Types'
    BY <2>1, TypesMean, InputKept DEF RInv, Types
  <2>3. CASE problem = "SE"
    <3>1. SearchInv' /\ InArgDecides' /\ ResultMaximal'
      BY <2>1, InputKept
      DEF RInv, SearchInv, InArgDecides, ResultMaximal, Extension, input
    <3> QED
      BY <2>1, <2>2, <2>3, <3>1, InputKept, SearchStays
  <2>4. CASE problem # "SE"
    <3>1. OuterInv'
      BY <2>1, InputKept DEF RInv, OuterInv
    <3>2. InnerKeeps <=> InnerKeeps'
      BY <2>1, InputKept DEF InnerKeeps
    <3>3. ASSUME NEW b PROVE IsBest(b) <=> IsBest(b)'
      BY <2>1, InputKept DEF IsBest
    <3>4. (ModelFound <=> ModelFound') /\ (PassInv <=> PassInv')
      BY <2>1, InputKept DEF ModelFound, Matches, PassInv
    <3>5. InnerInv'
      BY <2>1, <3>2, <3>3, <3>4, InputKept DEF RInv, InnerInv, Readable
    <3>6. AnswerCorrect'
      BY <1>3 DEF RInv, AnswerCorrect, IsQuery, Found, NotFound, Settles, Extension, vars
    <3> QED
      BY <2>1, <2>2, <2>4, <3>1, <3>5, <3>6, InputKept, QueryStays
  <2> QED
    BY <2>3, <2>4
<1> QED
  BY <1>1, <1>2, <1>3 DEF Next

LEMMA RInvHolds == Spec => []RInv
  BY InitRInv, NextRInv, PTL DEF Spec

(* task_se-sst.cpp, task_se-stg.cpp, task_ds-sst.cpp, task_dc-sst.cpp: a    *)
(* model is read while it is current, and no assumption outlives its call.  *)
THEOREM RangeKeepsContracts == Spec => []SolverWellUsed
<1>1. RInv => SolverWellUsed
  <2> SUFFICES ASSUME RInv PROVE SolverWellUsed
    OBVIOUS
  <2>1. Types
    BY TypesMean DEF RInv
  <2>2. ReadIsCurrent
    <3>1. ASSUME problem = "SE", pc = "add"
          PROVE  notUndec \cup temp = Decided(solver.val)
      BY <3>1 DEF RInv, SearchInv, Above
    <3> QED
      BY <3>1 DEF RInv, SearchInv, ReadIsCurrent, Readable
  <2>3. encoding = "adm" => ModelIsCurrent
    BY DEF RInv, OuterInv, InnerInv, ModelFound, ModelIsCurrent, IsQuery, Readable
  <2> QED
    BY <2>2, <2>3 DEF RInv, SolverWellUsed
<1> QED
  BY <1>1, RInvHolds, PTL

(* solve_sesst, solve_sestg: the clauses added over many rounds together   *)
(* ask for exactly the labellings that decide more.                         *)
THEOREM RangeSearchExact == Spec => []SearchExact
<1>1. RInv => SearchExact
  BY DEF RInv, SearchInv, Above, SearchExact, SolverAsksForMore
<1> QED
  BY <1>1, RInvHolds, PTL

(* solve_sesst prints a semi-stable, solve_sestg a stage extension.         *)
THEOREM RangeSearchCorrect == Spec => []ResultMaximal
<1>1. RInv => ResultMaximal
  BY DEF RInv
<1> QED
  BY <1>1, RInvHolds, PTL

(* The blocking clauses of the outer solver rule out no labelling that      *)
(* would settle the query.                                                  *)
THEOREM RangeNothingLost == Spec => []NoExtensionLost
<1>1. RInv => NoExtensionLost
  BY DEF RInv, SearchInv, OuterInv, NoExtensionLost
<1> QED
  BY <1>1, RInvHolds, PTL

(* solve_dcsst, solve_dssst, solve_dcstg, solve_dsstg: whenever one of them *)
(* answers, it is right, and so is the witness.                             *)
THEOREM RangeQueriesCorrect == Spec => []AnswerCorrect
<1>1. RInv => AnswerCorrect
  BY DEF RInv
<1> QED
  BY <1>1, RInvHolds, PTL

=============================================================================
