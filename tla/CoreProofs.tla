----------------------------- MODULE CoreProofs -----------------------------
(***************************************************************************)
(* Proofs about EaPr for every set of arguments and every attack           *)
(* relation: the first loop computes the preferred super-core, the second  *)
(* the ideal extension, and the tests of solve_eapr accept exactly the     *)
(* arguments that are in every preferred extension.                        *)
(***************************************************************************)
EXTENDS EaPr, EncodingProofs

AdmSets    == AdmModels(relation, grounded)
AttackSets == AttAdmModels(relation, grounded)

InFirstLoop == pc \in {"ask", "solve", "read"}
InThirdLoop == pc \in {"ask more", "solve more"}
InTest      == pc \in {"attack", "extend", "refine"}

InputInv ==
  /\ track \in {"ID", "EA"} /\ relation \in SUBSET (Arg \X Arg)
  /\ grounded \in Assignments
  /\ GroundedLabels(relation, grounded.in, grounded.out)

TypesInv ==
  /\ solver \in SolverOver(Assignments)
  /\ psc \in SUBSET Arg /\ onerunonly \in BOOLEAN
  /\ accepted \in Seq(Arg) /\ i \in 1 .. Len(accepted) + 1 /\ changed \in BOOLEAN
  /\ result \in SUBSET Arg
  /\ spsc \in SUBSET Arg /\ todo \in SUBSET spsc
  /\ pc \in {"ask", "solve", "read", "core", "walk"} => spsc = {}
  /\ admTest \in SolverOver(Assignments) /\ attAdmTest \in SolverOver(Pairs)
  /\ pc \in {"ask", "solve", "read", "core", "walk", "ask more", "solve more",
             "next", "attack", "extend", "refine", "done"}

(* The clauses so far leave the solver every model with a member of S.      *)
Has(S) == \A m \in AdmSets : m.in \cap S # {} => m \in solver.db

(* As psc shrinks, the older clauses follow from the newer ones.  As long   *)
(* as nothing is taken out, psc is what the grounded labelling leaves.      *)
FirstLoopInv ==
  /\ onerunonly => psc = Arg \ grounded.out
  /\ InFirstLoop => /\ PreferredSuperCore \subseteq psc
                    /\ solver.db \subseteq AdmSets /\ Has(AttackersOf(psc))
  /\ pc = "read" => solver.st = "SAT" /\ solver.val \in AdmSets
  /\ ~InFirstLoop => psc = PreferredSuperCore

WalkInv == pc = "walk" => WalkKeepsAdmissible /\ Members \subseteq Unattacked(psc)

(* What the third loop has not seen yet it can still ask for.               *)
ThirdLoopInv ==
  /\ InThirdLoop \/ Testing => /\ track = "EA"
                              /\ \A a \in spsc : \E m \in AdmSets : a \in m.in
  /\ InThirdLoop => /\ Members \subseteq SkepticallyPreferred(relation)
                    /\ solver.db \subseteq AdmSets /\ Has(Candidates)
                    /\ spsc \cap Members = {}

(* The invariant of DsPr, with acc built into both solvers.                 *)
TestInv ==
  InTest =>
    /\ arg \in spsc \ todo
    /\ admTest.db = {m \in AdmSets : Members \subseteq m.in}
    /\ attAdmTest.db \subseteq {p \in AttackSets : Members \subseteq p.in}
    /\ \A p \in AttackSets :
         /\ Members \subseteq p.in /\ Members \subseteq p.in_attacked
         /\ arg \in p.in_attacked
         /\ ~ \E m \in AdmSets : arg \in m.in /\ p.in \subseteq m.in
         => p \in attAdmTest.db
    /\ pc = "extend" => attAdmTest.st = "SAT" /\ attAdmTest.val \in attAdmTest.db
    /\ pc = "refine" => /\ admTest.st = "SAT" /\ admTest.val \in AdmSets
                        /\ arg \in admTest.val.in

CInv ==
  /\ InputInv /\ TypesInv
  /\ FirstLoopInv /\ WalkInv /\ ThirdLoopInv /\ TestInv
  /\ AcceptedExact /\ ResultCorrect

-----------------------------------------------------------------------------
(* The preferred super-core.                                                *)

SuperCoreOf(R) == Arg \ Attacked(R, UNION {S \in SUBSET Arg : Admissible(R, S)})

LEMMA SuperCoreMember ==
  ASSUME NEW R, NEW a \in Arg
  PROVE  a \in SuperCoreOf(R) <=>
           \A S \in SUBSET Arg : Admissible(R, S) => a \notin Attacked(R, S)
  BY DEF SuperCoreOf, Attacked

(* An argument that an admissible set attacks is not in the preferred       *)
(* extensions above that set.                                               *)
LEMMA AcceptedInCore ==
  ASSUME NEW R
  PROVE  SkepticallyPreferred(R) \subseteq SuperCoreOf(R)
<1> SUFFICES ASSUME NEW a \in SkepticallyPreferred(R),
                    NEW S \in SUBSET Arg, Admissible(R, S), a \in Attacked(R, S)
             PROVE  FALSE
  BY SuperCoreMember DEF SkepticallyPreferred
<1>1. PICK T \in SUBSET Arg : Preferred(R, T) /\ S \subseteq T
  BY PreferredAbove
<1>2. a \in T
  BY <1>1 DEF SkepticallyPreferred
<1> QED
  BY <1>1, <1>2 DEF Preferred, Admissible, ConflictFree, Attacked

LEMMA GroundedAccepted ==
  ASSUME NEW R, NEW G \in Assignments, GroundedLabels(R, G.in, G.out)
  PROVE  G.in \subseteq SkepticallyPreferred(R)
  BY PreferredHasModel DEF SkepticallyPreferred, Assignments

(* Nothing attacks an admissible set within the super-core, so it can be    *)
(* joined with every preferred extension; the largest one is ideal.         *)
LEMMA LargestInCoreIsIdeal ==
  ASSUME NEW R, NEW M \in SUBSET SuperCoreOf(R), Admissible(R, M),
         \A S \in SUBSET SuperCoreOf(R) : Admissible(R, S) => S \subseteq M
  PROVE  IsIdeal(R, M)
<1>1. M \in SUBSET Arg
  BY DEF SuperCoreOf
<1>2. ASSUME NEW T \in SUBSET Arg, Preferred(R, T) PROVE M \subseteq T
  <2>1. Admissible(R, T)
    BY <1>2 DEF Preferred
  <2>2. \A a \in T, b \in M : <<a, b>> \notin R
    BY <1>1, <2>1, SuperCoreMember DEF Attacked
  <2>3. Admissible(R, T \cup M) /\ T \cup M \in SUBSET Arg
    BY <1>1, <2>1, <2>2, UnionIsAdmissible
  <2> QED
    BY <1>2, <2>3 DEF Preferred
<1>3. M \subseteq SkepticallyPreferred(R)
  BY <1>1, <1>2 DEF SkepticallyPreferred
<1> QED
  BY <1>3, AcceptedInCore DEF IsIdeal

(* If admissible sets attack only what the grounded extension attacks, they *)
(* are all within it.                                                       *)
LEMMA NothingTakenOut ==
  ASSUME NEW R, NEW G \in Assignments, GroundedLabels(R, G.in, G.out),
         SuperCoreOf(R) = Arg \ G.out
  PROVE  IsIdeal(R, G.in) /\ SkepticallyPreferred(R) = G.in
<1>1. /\ G.in \in SUBSET Arg /\ G.out = Attacked(R, G.in)
      /\ Admissible(R, G.in) /\ G.in = Defended(R, G.in)
  BY DEF GroundedLabels, Complete, Admissible, Assignments
<1>2. ASSUME NEW S \in SUBSET Arg, Admissible(R, S) PROVE S \subseteq G.in
  <2>1. Attacked(R, S) \subseteq Attacked(R, G.in)
    BY <1>1, <1>2, SuperCoreMember DEF Attacked
  <2>2. S \subseteq Defended(R, S)
    BY <1>2 DEF Admissible
  <2> QED
    BY <1>1, <2>1, <2>2 DEF Defended
<1>3. PICK T \in SUBSET Arg : Preferred(R, T)
  BY <1>1, PreferredAbove
<1>4. SkepticallyPreferred(R) \subseteq G.in
  BY <1>2, <1>3 DEF SkepticallyPreferred, Preferred
<1>5. SkepticallyPreferred(R) = G.in
  BY <1>4, GroundedAccepted
<1> QED
  BY <1>1, <1>2, <1>5 DEF IsIdeal

(* Within the super-core, admissible sets consist of unattacked members.    *)
LEMMA AdmissibleIsUnattacked ==
  ASSUME InputInv, psc = PreferredSuperCore,
         NEW S \in SUBSET psc, Admissible(relation, S)
  PROVE  S \subseteq Unattacked(psc)
<1>1. psc = SuperCoreOf(relation) /\ psc \subseteq Arg /\ S \in SUBSET Arg
  BY DEF PreferredSuperCore, SuperCoreOf
<1>2. \A a \in psc : a \notin Attacked(relation, S)
  BY <1>1, SuperCoreMember
<1>3. \A a \in S : Attackers(relation, a) \cap psc = {}
  BY <1>2 DEF Admissible, Defended
<1> QED
  BY <1>3 DEF Unattacked

LEMMA UnattackedIsConflictFree ==
  \A R, S, T : T \subseteq Unattacked(S) /\ S \subseteq Arg
                 => \A a, b \in T : <<a, b>> \notin relation
  BY DEF Unattacked, Attackers

-----------------------------------------------------------------------------
(* The array.                                                               *)

LEMMA ListsAll ==
  ASSUME NEW S \in SUBSET Arg, NEW s \in SetToSeqs(S)
  PROVE  /\ s \in Seq(Arg)
         /\ {s[k] : k \in DOMAIN s} = S
         /\ \A k, l \in DOMAIN s : s[k] = s[l] => k = l
<1> DEFINE n == Cardinality(S)
<1>1. n \in Nat /\ IsFiniteSet(S)
  BY FiniteArgAssumption, FS_Subset, FS_CardinalityType
<1>2. s \in [1..n -> S] /\ \A k, l \in 1..n : s[k] = s[l] => k = l
  BY DEF SetToSeqs
<1>3. s \in Injection(1..n, S)
  BY <1>2 DEF Injection, IsInjective
<1>4. Cardinality(1..n) = n /\ IsFiniteSet(1..n)
  BY <1>1, FS_Interval
<1>5. s \in Surjection(1..n, S)
  BY <1>1, <1>3, <1>4, FS_Injection
<1> QED
  BY <1>1, <1>2, <1>5 DEF Surjection

LEMMA TakenOutLists ==
  ASSUME NEW k \in DOMAIN accepted, accepted \in Seq(Arg),
         \A j, l \in DOMAIN accepted : accepted[j] = accepted[l] => j = l
  PROVE  LET s == TakenOut(k) IN
         /\ s \in Seq(Arg) /\ Len(s) = Len(accepted) - 1
         /\ {s[j] : j \in DOMAIN s} = Members \ {accepted[k]}
         /\ \A j, l \in DOMAIN s : s[j] = s[l] => j = l
<1> DEFINE n == Len(accepted)
           t == [accepted EXCEPT ![k] = accepted[n]]
           s == TakenOut(k)
<1>1. n \in Nat /\ k \in 1..n /\ n >= 1 /\ DOMAIN accepted = 1..n
  OBVIOUS
<1>2. t \in Seq(Arg) /\ Len(t) = n
      /\ \A j \in 1..n : t[j] = IF j = k THEN accepted[n] ELSE accepted[j]
  BY <1>1
<1>3. s = SubSeq(t, 1, n - 1)
  BY <1>2 DEF TakenOut, Front, Last
<1> HIDE DEF s, t, n
<1>4. /\ s \in Seq(Arg) /\ Len(s) = n - 1 /\ DOMAIN s = 1..(n - 1)
      /\ \A j \in 1..(n - 1) : s[j] = IF j = k THEN accepted[n] ELSE accepted[j]
  BY <1>1, <1>2, <1>3
<1>5. {s[j] : j \in DOMAIN s} = Members \ {accepted[k]}
  <2>1. \A j \in 1..(n - 1) : s[j] \in Members /\ s[j] # accepted[k]
    BY <1>1, <1>4 DEF Members
  <2>2. ASSUME NEW a \in Members, a # accepted[k] PROVE \E j \in 1..(n - 1) : s[j] = a
    <3>1. PICK l \in 1..n : a = accepted[l] /\ l # k
      BY <1>1, <2>2 DEF Members
    <3>2. CASE l = n
      BY <1>1, <1>4, <3>1, <3>2
    <3>3. CASE l # n
      <4>1. l \in 1..(n - 1)
        BY <1>1, <3>3
      <4> QED
        BY <1>4, <3>1, <4>1
    <3> QED
      BY <3>2, <3>3
  <2> DEFINE D == 1..(n - 1)
  <2>3. /\ DOMAIN s = D /\ \A j \in D : s[j] \in Members /\ s[j] # accepted[k]
        /\ \A a \in Members : a # accepted[k] => \E j \in D : s[j] = a
    BY <1>4, <2>1, <2>2
  <2> HIDE DEF D
  <2> QED
    BY <2>3
<1>6. \A j, l \in DOMAIN s : s[j] = s[l] => j = l
  BY <1>1, <1>4
<1> QED
  BY <1>4, <1>5, <1>6 DEF s, n

-----------------------------------------------------------------------------
(* Facts every step uses.                                                   *)

LEMMA InputFacts ==
  ASSUME InputInv
  PROVE  /\ grounded \in Assignments /\ GroundedLabels(relation, grounded.in, grounded.out)
         /\ grounded.in \in SUBSET Arg /\ grounded.out = Attacked(relation, grounded.in)
         /\ AdmSets \subseteq Assignments /\ AttackSets \subseteq Pairs
         /\ \A m \in AdmSets : m.in \in SUBSET Arg /\ Admissible(relation, m.in)
         /\ SkepticallyPreferred(relation) \subseteq PreferredSuperCore
         /\ PreferredSuperCore = SuperCoreOf(relation)
<1>1. AdmSets \subseteq Assignments /\ AttackSets \subseteq Pairs
  BY AttAdmModelIsPair DEF AdmSets, AttackSets, AdmModels
<1>2. \A m \in AdmSets : m.in \in SUBSET Arg /\ Admissible(relation, m.in)
  BY AdmModelIsAdmissible DEF InputInv, AdmSets, Assignments
<1>3. PreferredSuperCore = SuperCoreOf(relation)
  BY DEF PreferredSuperCore, SuperCoreOf
<1>4. SkepticallyPreferred(relation) \subseteq PreferredSuperCore
  BY <1>3, AcceptedInCore
<1> QED
  BY <1>1, <1>2, <1>3, <1>4 DEF InputInv, GroundedLabels, Assignments

LEMMA InputKept ==
  ASSUME InputInv, UNCHANGED input
  PROVE  /\ InputInv' /\ relation' = relation /\ grounded' = grounded /\ track' = track
         /\ AdmSets' = AdmSets /\ AttackSets' = AttackSets
         /\ PreferredSuperCore' = PreferredSuperCore
  BY DEF InputInv, input, AdmSets, AttackSets, PreferredSuperCore

LEMMA InitCInv == Init => CInv
<1> SUFFICES ASSUME Init PROVE CInv
  OBVIOUS
<1>1. InputInv
  BY FrameworksAssumption DEF Init, CoreInit, InputInv
<1>2. /\ Nothing \in Assignments /\ PairOf(Nothing, Nothing) \in Pairs
      /\ AdmSets \subseteq Assignments
  BY <1>1, InputFacts DEF Nothing, PairOf, Assignments, Pairs
<1>3. /\ solver \in SolverOver(Assignments) /\ solver.db = AdmSets
      /\ admTest \in SolverOver(Assignments) /\ attAdmTest \in SolverOver(Pairs)
  BY <1>2, NewSolverSpec DEF Init, CoreInit, EaInit, Freed, FreedPair, AdmSets
<1>4. PreferredSuperCore \subseteq Arg \ grounded.out
  <2>1. Admissible(relation, grounded.in) /\ grounded.in \in SUBSET Arg
    BY <1>1, InputFacts DEF GroundedLabels, Complete, Admissible
  <2>2. \A a \in SuperCoreOf(relation) : a \in Arg /\ a \notin Attacked(relation, grounded.in)
    BY <2>1, SuperCoreMember DEF SuperCoreOf
  <2> QED
    BY <1>1, <2>2, InputFacts
<1>5. TypesInv
  <2>1. << >> \in Seq(Arg) /\ 1 \in 1 .. Len(<< >>) + 1
    OBVIOUS
  <2> QED
    BY <1>3, <2>1 DEF Init, CoreInit, EaInit, TypesInv
<1>6. FirstLoopInv
  BY <1>3, <1>4 DEF Init, CoreInit, FirstLoopInv, InFirstLoop, Has
<1> QED
  BY <1>1, <1>5, <1>6
     DEF Init, CoreInit, CInv, WalkInv, ThirdLoopInv, InThirdLoop, TestInv, InTest,
         AcceptedExact, Testing, ResultCorrect

-----------------------------------------------------------------------------
(* The first loop.                                                          *)

(* Nothing else is of interest while it runs.                               *)
LEMMA StaysInFirstLoop ==
  ASSUME CInv, InputInv', TypesInv', FirstLoopInv', (pc \in {"ask", "solve", "read", "core"})'
  PROVE  CInv'
  BY DEF CInv, WalkInv, ThirdLoopInv, InThirdLoop, TestInv, InTest, AcceptedExact,
         Testing, ResultCorrect

(* A model attacks a member of psc if and only if it has an attacker of one.*)
LEMMA AttacksCandidate ==
  ASSUME CInv, NEW m \in AdmSets
  PROVE  m.in \cap AttackersOf(psc) # {} <=> psc \cap Attacked(relation, m.in) # {}
  BY InputFacts DEF CInv, TypesInv, AttackersOf, Attacked

(* If no model attacks a candidate, no admissible set does.                 *)
LEMMA FirstLoopEnds ==
  ASSUME CInv, PreferredSuperCore \subseteq psc,
         \A m \in AdmSets : m.in \cap AttackersOf(psc) = {}
  PROVE  psc = PreferredSuperCore
<1> SUFFICES ASSUME NEW a \in psc, NEW S \in SUBSET Arg, Admissible(relation, S),
                    a \in Attacked(relation, S)
             PROVE  FALSE
  BY InputFacts, SuperCoreMember DEF CInv, TypesInv
<1>1. PICK m \in AdmSets : S \subseteq m.in
  BY InputFacts, AdmissibleWithinModel DEF CInv, AdmSets
<1>2. a \in Attacked(relation, m.in)
  BY <1>1 DEF Attacked
<1> QED
  BY <1>2, AttacksCandidate

LEMMA AskAttackersCInv ==
  ASSUME CInv, AskAttackers, UNCHANGED tests PROVE CInv'
<1>1. /\ pc = "ask" /\ pc' = "solve" /\ solver' = AddClause(solver, Pos("in", AttackersOf(psc)))
      /\ UNCHANGED <<psc, onerunonly, accepted, i, changed, result>>
      /\ UNCHANGED <<spsc, todo, arg, admTest, attAdmTest>>
  BY DEF AskAttackers, walk, tests, test
<1>2. /\ InputInv' /\ relation' = relation /\ AdmSets' = AdmSets /\ grounded' = grounded
      /\ PreferredSuperCore' = PreferredSuperCore
  BY InputKept DEF AskAttackers, CInv
<1>3. /\ solver' \in SolverOver(Assignments)
      /\ solver'.db = {m \in solver.db : \E a \in AttackersOf(psc) : a \in m.in}
  <2>1. /\ solver' \in SolverOver(Assignments)
        /\ solver'.db = {m \in solver.db : Satisfies(m, Pos("in", AttackersOf(psc)))}
    BY <1>1, AddClauseSpec DEF CInv, TypesInv
  <2>2. \A m : Satisfies(m, Pos("in", AttackersOf(psc))) <=>
                 \E a \in AttackersOf(psc) : a \in m.in
    BY SomeOf
  <2> QED
    BY <2>1, <2>2
<1>4. AttackersOf(psc)' = AttackersOf(psc)
  BY <1>1, <1>2 DEF AttackersOf
<1>5. TypesInv'
  BY <1>1, <1>3 DEF CInv, TypesInv
<1>6. FirstLoopInv'
  BY <1>1, <1>2, <1>3, <1>4 DEF CInv, FirstLoopInv, InFirstLoop, Has
<1> QED
  BY <1>1, <1>2, <1>5, <1>6, StaysInFirstLoop

LEMMA FreedIsSolver == Freed \in SolverOver(Assignments)
  BY NewSolverSpec DEF Freed, Nothing, Assignments

LEMMA NoAttackersCInv ==
  ASSUME CInv, NoAttackers, UNCHANGED tests PROVE CInv'
<1>1. /\ pc = "ask" /\ pc' = "core" /\ solver' = Freed /\ AttackersOf(psc) = {}
      /\ UNCHANGED <<psc, onerunonly, accepted, i, changed, result>>
      /\ UNCHANGED <<spsc, todo, arg, admTest, attAdmTest>>
  BY DEF NoAttackers, walk, tests, test
<1>2. /\ InputInv' /\ grounded' = grounded
      /\ PreferredSuperCore' = PreferredSuperCore
  BY InputKept DEF NoAttackers, CInv
<1>3. psc = PreferredSuperCore
  BY <1>1, FirstLoopEnds DEF CInv, FirstLoopInv, InFirstLoop
<1>4. TypesInv'
  BY <1>1, FreedIsSolver DEF CInv, TypesInv
<1>5. FirstLoopInv'
  BY <1>1, <1>2, <1>3 DEF CInv, FirstLoopInv, InFirstLoop
<1> QED
  BY <1>1, <1>2, <1>4, <1>5, StaysInFirstLoop

LEMMA SolveAttackersCInv ==
  ASSUME CInv, SolveAttackers, UNCHANGED tests PROVE CInv'
<1>1. PICK r \in Results(solver) :
        IF r.st = "UNSAT"
          THEN solver' = Freed /\ pc' = "core"
          ELSE solver' = r /\ pc' = "read"
  BY DEF SolveAttackers
<1>2. /\ pc = "solve" /\ UNCHANGED <<psc, onerunonly, accepted, i, changed, result>>
      /\ UNCHANGED <<spsc, todo, arg, admTest, attAdmTest>>
  BY DEF SolveAttackers, walk, tests, test
<1>3. /\ InputInv' /\ relation' = relation /\ grounded' = grounded /\ AdmSets' = AdmSets
      /\ PreferredSuperCore' = PreferredSuperCore
  BY InputKept DEF SolveAttackers, CInv
<1>4. /\ r \in SolverOver(Assignments) /\ r.db = solver.db
      /\ \/ r.st = "UNSAT" /\ solver.db = {}
         \/ r.st = "SAT" /\ r.val \in solver.db
  BY PlainSolveSpec DEF CInv, TypesInv
<1>5. TypesInv'
  BY <1>1, <1>2, <1>4, FreedIsSolver DEF CInv, TypesInv
<1>6. CASE r.st = "UNSAT"
  <2>1. psc = PreferredSuperCore
    BY <1>2, <1>4, <1>6, FirstLoopEnds DEF CInv, FirstLoopInv, InFirstLoop, Has
  <2>2. FirstLoopInv'
    BY <1>1, <1>2, <1>3, <1>6, <2>1 DEF CInv, FirstLoopInv, InFirstLoop
  <2> QED
    BY <1>1, <1>3, <1>5, <1>6, <2>2, StaysInFirstLoop
<1>7. CASE r.st # "UNSAT"
  <2>1. AttackersOf(psc)' = AttackersOf(psc)
    BY <1>2, <1>3 DEF AttackersOf
  <2>2. FirstLoopInv'
    BY <1>1, <1>2, <1>3, <1>4, <1>7, <2>1 DEF CInv, FirstLoopInv, InFirstLoop, Has
  <2> QED
    BY <1>1, <1>3, <1>5, <1>7, <2>2, StaysInFirstLoop
<1> QED
  BY <1>6, <1>7

(* An early clause may be about candidates that are out by now, but not     *)
(* about fewer.                                                             *)
LEMMA TakeOutAttackedCInv ==
  ASSUME CInv, TakeOutAttacked, UNCHANGED tests PROVE CInv'
<1>1. /\ pc = "read" /\ pc' = "ask" /\ psc' = psc \ Attacked(relation, solver.val.in)
      /\ onerunonly' = FALSE
      /\ UNCHANGED <<solver, accepted, i, changed, result>>
      /\ UNCHANGED <<spsc, todo, arg, admTest, attAdmTest>>
  BY DEF TakeOutAttacked, Survivors, walk, tests, test
<1>2. /\ InputInv' /\ relation' = relation /\ AdmSets' = AdmSets
      /\ PreferredSuperCore' = PreferredSuperCore
  BY InputKept DEF TakeOutAttacked, CInv
<1>3. solver.val.in \in SUBSET Arg /\ Admissible(relation, solver.val.in)
  BY <1>1, InputFacts DEF CInv, FirstLoopInv
<1>4. PreferredSuperCore \subseteq psc'
  BY <1>1, <1>3, InputFacts, SuperCoreMember
     DEF CInv, FirstLoopInv, InFirstLoop, SuperCoreOf
<1>5. AttackersOf(psc)' \subseteq AttackersOf(psc)
  BY <1>1, <1>2 DEF AttackersOf
<1>6. TypesInv'
  BY <1>1 DEF CInv, TypesInv
<1>7. FirstLoopInv'
  BY <1>1, <1>2, <1>4, <1>5 DEF CInv, FirstLoopInv, InFirstLoop, Has
<1> QED
  BY <1>1, <1>2, <1>6, <1>7, StaysInFirstLoop

-----------------------------------------------------------------------------
(* The returns, and the walk.                                               *)

LEMMA Returns ==
  ASSUME InputInv', TypesInv', FirstLoopInv', ResultCorrect', pc' = "done"
  PROVE  CInv'
  BY DEF CInv, WalkInv, ThirdLoopInv, InThirdLoop, TestInv, InTest, AcceptedExact, Testing

(* The facts of a step that leaves psc and the solvers of the tests alone.  *)
LEMMA PscKept ==
  ASSUME CInv, ~InFirstLoop, ~InFirstLoop', UNCHANGED <<input, psc, onerunonly>>
  PROVE  InputInv' /\ FirstLoopInv' /\ psc = PreferredSuperCore
  BY InputKept DEF CInv, FirstLoopInv, InFirstLoop

LEMMA ReturnGroundedCInv ==
  ASSUME CInv, (ReturnGrounded /\ UNCHANGED tests) \/ PrintGrounded PROVE CInv'
<1>1. /\ pc = "core" /\ pc' = "done" /\ onerunonly
      /\ \/ track = "ID" /\ result' = grounded.in \ grounded.out
         \/ track = "EA" /\ result' = grounded.in
      /\ UNCHANGED <<input, solver, psc, onerunonly, accepted, i, changed>>
      /\ UNCHANGED <<spsc, todo, arg, admTest, attAdmTest>>
  BY DEF ReturnGrounded, PrintGrounded, core, walk, tests, test
<1>2. InputInv' /\ FirstLoopInv' /\ psc = PreferredSuperCore
      /\ relation' = relation /\ track' = track
  BY <1>1, PscKept, InputKept DEF InFirstLoop, CInv
<1>3. grounded.in \in SUBSET Arg /\ grounded.in \cap grounded.out = {}
  BY InputFacts DEF CInv, GroundedLabels, Complete, ConflictFree, Attacked
<1>4. result' = grounded.in
  BY <1>1, <1>3
<1>5. IsIdeal(relation, grounded.in) /\ SkepticallyPreferred(relation) = grounded.in
  BY <1>1, <1>2, InputFacts, NothingTakenOut DEF CInv, FirstLoopInv
<1>6. TypesInv'
  BY <1>1, <1>3, <1>4 DEF CInv, TypesInv
<1>7. ResultCorrect'
  BY <1>2, <1>4, <1>5 DEF ResultCorrect
<1> QED
  BY <1>1, <1>2, <1>6, <1>7, Returns

(* With an empty super-core nothing is accepted.                            *)
LEMMA EmptyCore ==
  ASSUME CInv, psc = {}, psc = PreferredSuperCore
  PROVE  IsIdeal(relation, {}) /\ SkepticallyPreferred(relation) = {}
<1>1. Admissible(relation, {})
  BY DEF Admissible, ConflictFree
<1> QED
  BY <1>1, InputFacts, LargestInCoreIsIdeal DEF CInv

LEMMA ReturnEmptyCInv ==
  ASSUME CInv, ReturnEmpty, UNCHANGED tests PROVE CInv'
<1>1. /\ pc = "core" /\ pc' = "done" /\ track = "ID" /\ psc = {} /\ result' = {}
      /\ UNCHANGED <<input, solver, psc, onerunonly, accepted, i, changed>>
      /\ UNCHANGED <<spsc, todo, arg, admTest, attAdmTest>>
  BY DEF ReturnEmpty, core, walk, tests, test
<1>2. InputInv' /\ FirstLoopInv' /\ psc = PreferredSuperCore
      /\ relation' = relation /\ track' = track
  BY <1>1, PscKept, InputKept DEF InFirstLoop, CInv
<1>3. TypesInv'
  BY <1>1 DEF CInv, TypesInv
<1>4. ResultCorrect'
  BY <1>1, <1>2, EmptyCore DEF ResultCorrect
<1> QED
  BY <1>1, <1>2, <1>3, <1>4, Returns

(* The array first lists the unattacked candidates, among them all members  *)
(* of admissible sets within the super-core.                                *)
LEMMA WalkStarts ==
  ASSUME CInv, pc = "core", StartWalk(psc),
         UNCHANGED <<input, solver, psc, onerunonly, result, tests>>
  PROVE  CInv'
<1>1. /\ accepted' \in SetToSeqs(Unattacked(psc)) /\ i' = 1 /\ changed' = FALSE
      /\ pc' = "walk"
      /\ UNCHANGED <<spsc, todo, arg, admTest, attAdmTest>>
  BY DEF StartWalk, tests, test
<1>2. InputInv' /\ FirstLoopInv' /\ psc = PreferredSuperCore /\ relation' = relation
  BY <1>1, PscKept, InputKept DEF InFirstLoop, CInv
<1>3. Unattacked(psc) \in SUBSET Arg /\ Unattacked(psc)' = Unattacked(psc)
  BY <1>2 DEF CInv, TypesInv, Unattacked
<1>4. /\ accepted' \in Seq(Arg) /\ Members' = Unattacked(psc)
      /\ \A k, l \in DOMAIN accepted' : accepted'[k] = accepted'[l] => k = l
  BY <1>1, <1>3, ListsAll DEF Members
<1>5. TypesInv'
  <2>1. 1 \in 1 .. Len(accepted') + 1
    BY <1>4
  <2> QED
    BY <1>1, <1>4, <2>1 DEF CInv, TypesInv
<1>6. WalkKeepsAdmissible'
  <2>1. \A S \in SUBSET psc : Admissible(relation, S) => S \subseteq Members'
    BY <1>2, <1>4, AdmissibleIsUnattacked DEF CInv
  <2>2. \A k \in 1 .. i' - 1 : FALSE
    BY <1>1
  <2> QED
    BY <1>2, <1>4, <2>1, <2>2 DEF WalkKeepsAdmissible
<1>7. WalkInv'
  BY <1>3, <1>4, <1>6 DEF WalkInv
<1> QED
  BY <1>1, <1>2, <1>5, <1>7
     DEF CInv, ThirdLoopInv, InThirdLoop, TestInv, InTest, AcceptedExact, Testing,
         ResultCorrect

LEMMA KeepUnattackedCInv ==
  ASSUME CInv, KeepUnattacked, UNCHANGED tests PROVE CInv'
  BY WalkStarts DEF KeepUnattacked, core

(* The grounded extension is in the super-core already.                     *)
LEMMA KeepDefensibleCInv == ASSUME CInv, KeepDefensible PROVE CInv'
<1>1. /\ pc = "core" /\ track = "EA" /\ psc' = psc \cup grounded.in
      /\ UNCHANGED <<input, solver, onerunonly, spsc, todo, arg, admTest, attAdmTest>>
  BY DEF KeepDefensible, test
<1>2. psc = PreferredSuperCore /\ psc' = psc
  <2>1. grounded.in \subseteq PreferredSuperCore
    BY InputFacts, GroundedAccepted DEF CInv
  <2> QED
    BY <1>1, <2>1 DEF CInv, FirstLoopInv, InFirstLoop
<1>3. CASE psc = {}
  <2>1. pc' = "done" /\ result' = {} /\ UNCHANGED <<accepted, i, changed>>
    BY <1>2, <1>3 DEF KeepDefensible, walk
  <2>2. InputInv' /\ FirstLoopInv' /\ relation' = relation /\ track' = track
    BY <1>1, <1>2, <2>1, PscKept, InputKept DEF InFirstLoop, CInv
  <2>3. TypesInv'
    BY <1>1, <1>2, <2>1 DEF CInv, TypesInv
  <2>4. ResultCorrect'
    BY <1>1, <1>2, <1>3, <2>1, <2>2, EmptyCore DEF ResultCorrect
  <2> QED
    BY <2>1, <2>2, <2>3, <2>4, Returns
<1>4. CASE psc # {}
  <2>1. StartWalk(psc) /\ UNCHANGED result
    BY <1>2, <1>4 DEF KeepDefensible, StartWalk, Unattacked
  <2> QED
    BY <1>1, <1>2, <2>1, WalkStarts DEF tests, test
<1> QED
  BY <1>3, <1>4

(* What is taken out was not defended by the members, so it is in no        *)
(* admissible set of them.                                                  *)
LEMMA WalkOnCInv == ASSUME CInv, WalkOn, UNCHANGED tests PROVE CInv'
<1>1. /\ pc = "walk" /\ pc' = "walk" /\ i <= Len(accepted)
      /\ UNCHANGED <<input, solver, psc, onerunonly, result>>
      /\ UNCHANGED <<spsc, todo, arg, admTest, attAdmTest>>
  BY DEF WalkOn, core, tests, test
<1>2. InputInv' /\ FirstLoopInv' /\ relation' = relation /\ psc' = psc
  BY <1>1, PscKept, InputKept DEF InFirstLoop, CInv
<1>3. /\ accepted \in Seq(Arg) /\ i \in 1 .. Len(accepted) /\ Len(accepted) \in Nat
      /\ i \in DOMAIN accepted /\ accepted[i] \in Members
      /\ WalkKeepsAdmissible /\ Members \subseteq Unattacked(psc)
  BY <1>1 DEF CInv, TypesInv, WalkInv, Members
<1>4. Unattacked(psc)' = Unattacked(psc)
  BY <1>1, <1>2 DEF Unattacked
<1>5. DefendedHere <=> accepted[i] \in Defended(relation, Members)
  <2>1. accepted[i] \in Arg /\ Members \subseteq Arg
    BY <1>3 DEF Members
  <2> QED
    BY <2>1 DEF DefendedHere, Defended, Attacked, Attackers
<1>6. CASE DefendedHere
  <2>1. UNCHANGED <<accepted, changed>> /\ i' = i + 1 /\ Members' = Members
    BY <1>6 DEF WalkOn, NextPlace, Members
  <2>2. \A k \in 1 .. i' - 1 : k = i \/ k \in 1 .. i - 1
    BY <1>3, <2>1
  <2>3. WalkKeepsAdmissible'
    BY <1>1, <1>2, <1>3, <1>5, <1>6, <2>1, <2>2 DEF WalkKeepsAdmissible
  <2>4. TypesInv'
    BY <1>1, <1>3, <2>1 DEF CInv, TypesInv
  <2> QED
    BY <1>1, <1>2, <1>3, <1>4, <2>1, <2>3, <2>4
       DEF CInv, WalkInv, ThirdLoopInv, InThirdLoop, TestInv, InTest, AcceptedExact,
           Testing, ResultCorrect
<1>7. CASE ~DefendedHere
  <2>1. accepted' = TakenOut(i) /\ changed' = TRUE /\ i' = i
    BY <1>7 DEF WalkOn, NextPlace
  <2>2. /\ accepted' \in Seq(Arg) /\ Len(accepted') = Len(accepted) - 1
        /\ Members' = Members \ {accepted[i]}
        /\ \A k, l \in DOMAIN accepted' : accepted'[k] = accepted'[l] => k = l
    <3>1. \A k, l \in DOMAIN accepted : accepted[k] = accepted[l] => k = l
      BY <1>1, <1>3 DEF WalkKeepsAdmissible
    <3>2. LET s == TakenOut(i) IN
          /\ s \in Seq(Arg) /\ Len(s) = Len(accepted) - 1
          /\ {s[j] : j \in DOMAIN s} = Members \ {accepted[i]}
          /\ \A j, l \in DOMAIN s : s[j] = s[l] => j = l
      BY <1>3, <3>1, TakenOutLists
    <3> QED
      BY <2>1, <3>2 DEF Members
  <2>3. ASSUME NEW S \in SUBSET psc, Admissible(relation, S)
        PROVE  S \subseteq Members'
    <3>1. S \subseteq Members
      BY <1>1, <1>3, <2>3 DEF WalkKeepsAdmissible
    <3>2. accepted[i] \notin S
      BY <1>5, <1>7, <2>3, <3>1 DEF Admissible, Defended, Attacked
    <3> QED
      BY <2>2, <3>1, <3>2
  <2>4. WalkKeepsAdmissible'
    BY <1>2, <2>1, <2>2, <2>3 DEF WalkKeepsAdmissible
  <2>5. TypesInv'
    <3>1. i' \in 1 .. Len(accepted') + 1
      BY <1>3, <2>1, <2>2
    <3> QED
      BY <1>1, <2>1, <2>2, <3>1 DEF CInv, TypesInv
  <2> QED
    BY <1>1, <1>2, <1>3, <1>4, <2>2, <2>4, <2>5
       DEF CInv, WalkInv, ThirdLoopInv, InThirdLoop, TestInv, InTest, AcceptedExact,
           Testing, ResultCorrect
<1> QED
  BY <1>6, <1>7

LEMMA WalkAgainCInv == ASSUME CInv, WalkAgain, UNCHANGED tests PROVE CInv'
<1>1. /\ pc = "walk" /\ pc' = "walk" /\ i' = 1 /\ changed' = FALSE
      /\ UNCHANGED <<input, solver, psc, onerunonly, accepted, result>>
      /\ UNCHANGED <<spsc, todo, arg, admTest, attAdmTest>>
  BY DEF WalkAgain, core, tests, test
<1>2. InputInv' /\ FirstLoopInv' /\ relation' = relation /\ psc' = psc
  BY <1>1, PscKept, InputKept DEF InFirstLoop, CInv
<1>3. Members' = Members /\ Unattacked(psc)' = Unattacked(psc)
  BY <1>1, <1>2 DEF Members, Unattacked
<1>4. 1 \in 1 .. Len(accepted) + 1 /\ \A k \in 1 .. i' - 1 : FALSE
  BY <1>1 DEF CInv, TypesInv
<1>5. TypesInv'
  BY <1>1, <1>4 DEF CInv, TypesInv
<1>6. WalkInv'
  BY <1>1, <1>2, <1>3, <1>4 DEF CInv, WalkInv, WalkKeepsAdmissible
<1> QED
  BY <1>1, <1>2, <1>5, <1>6
     DEF CInv, ThirdLoopInv, InThirdLoop, TestInv, InTest, AcceptedExact, Testing,
         ResultCorrect

(* A pass that takes nothing out ends with an admissible set, the largest   *)
(* one within the super-core.                                               *)
LEMMA WalkEnds ==
  ASSUME CInv, pc = "walk", i > Len(accepted), ~changed
  PROVE  IsIdeal(relation, Members)
<1>1. /\ WalkKeepsAdmissible /\ Members \subseteq Unattacked(psc)
      /\ psc = PreferredSuperCore /\ psc \in SUBSET Arg
      /\ accepted \in Seq(Arg) /\ i = Len(accepted) + 1 /\ Len(accepted) \in Nat
  BY DEF CInv, WalkInv, FirstLoopInv, InFirstLoop, TypesInv
<1>2. DOMAIN accepted = 1 .. i - 1
  BY <1>1
<1>3. Members \subseteq Defended(relation, Members)
  BY <1>1, <1>2 DEF Members, WalkKeepsAdmissible
<1>4. ConflictFree(relation, Members)
  BY <1>1, UnattackedIsConflictFree DEF ConflictFree
<1>5. Members \subseteq psc
  BY <1>1 DEF Unattacked
<1>6. Admissible(relation, Members)
  BY <1>3, <1>4 DEF Admissible
<1> QED
  BY <1>1, <1>5, <1>6, InputFacts, LargestInCoreIsIdeal DEF CInv, WalkKeepsAdmissible

LEMMA MembersAreArguments == CInv => Members \in SUBSET Arg
<1> SUFFICES ASSUME CInv PROVE Members \in SUBSET Arg
  OBVIOUS
<1>1. accepted \in Seq(Arg)
  BY DEF CInv, TypesInv
<1> QED
  BY <1>1 DEF Members

LEMMA ReturnIdealCInv == ASSUME CInv, ReturnIdeal, UNCHANGED tests PROVE CInv'
<1>1. /\ pc = "walk" /\ pc' = "done" /\ track = "ID" /\ result' = Members
      /\ i > Len(accepted) /\ ~changed
      /\ UNCHANGED <<input, solver, psc, onerunonly, accepted, i, changed>>
      /\ UNCHANGED <<spsc, todo, arg, admTest, attAdmTest>>
  BY DEF ReturnIdeal, core, walk, tests, test
<1>2. InputInv' /\ FirstLoopInv' /\ relation' = relation /\ track' = track
  BY <1>1, PscKept, InputKept DEF InFirstLoop, CInv
<1>3. Members \in SUBSET Arg
  BY MembersAreArguments
<1>4. TypesInv'
  BY <1>1, <1>3 DEF CInv, TypesInv
<1>5. ResultCorrect'
  BY <1>1, <1>2, WalkEnds DEF ResultCorrect
<1> QED
  BY <1>1, <1>2, <1>4, <1>5, Returns

-----------------------------------------------------------------------------
(* The rest of solve_eapr.                                                  *)

Later == {"ask more", "solve more", "next", "attack", "extend", "refine"}

LEMMA LaterKept ==
  ASSUME CInv, pc \in Later \cup {"walk"}, pc' \in Later,
         UNCHANGED <<input, psc, onerunonly>>,
         TypesInv', ThirdLoopInv', TestInv', AcceptedExact'
  PROVE  CInv'
<1>1. InputInv' /\ FirstLoopInv'
  BY PscKept DEF Later, InFirstLoop
<1> QED
  BY <1>1 DEF Later, CInv, WalkInv, ResultCorrect

LEMMA WalkDoneCInv == ASSUME CInv, WalkDone PROVE CInv'
<1>1. /\ pc = "walk" /\ pc' = "ask more" /\ track = "EA" /\ i > Len(accepted) /\ ~changed
      /\ solver' = NewSolver(AdmSets, Nothing)
      /\ UNCHANGED <<input, psc, onerunonly, accepted, i, changed, result>>
      /\ UNCHANGED <<spsc, todo, arg, admTest, attAdmTest>>
  BY DEF WalkDone, walk, test, AdmSets
<1>2. /\ relation' = relation /\ track' = track /\ AdmSets' = AdmSets /\ Members' = Members
      /\ AdmSets \subseteq Assignments /\ Nothing \in Assignments
  BY <1>1, InputKept, InputFacts DEF CInv, Members, Nothing, Assignments
<1>3. solver' \in SolverOver(Assignments) /\ solver'.db = AdmSets
  BY <1>1, <1>2, NewSolverSpec
<1>4. Members \subseteq SkepticallyPreferred(relation)
  BY <1>1, WalkEnds DEF IsIdeal
<1>5. spsc = {}
  BY <1>1 DEF CInv, TypesInv
<1>6. TypesInv'
  BY <1>1, <1>3 DEF CInv, TypesInv
<1>7. ThirdLoopInv'
  BY <1>1, <1>2, <1>3, <1>4, <1>5 DEF ThirdLoopInv, InThirdLoop, Testing, Has
<1> QED
  BY <1>1, <1>6, <1>7, LaterKept DEF Later, TestInv, InTest, AcceptedExact, Testing

(* If no model has a candidate, no preferred extension has: what is left to *)
(* test are the arguments seen.                                             *)
LEMMA ThirdLoopEnds ==
  ASSUME CInv, InThirdLoop, \A m \in AdmSets : m.in \cap Candidates = {}
  PROVE  SkepticallyPreferred(relation) \subseteq Members \cup spsc
<1> SUFFICES ASSUME NEW a \in SkepticallyPreferred(relation), a \notin Members \cup spsc
             PROVE  FALSE
  OBVIOUS
<1>1. psc = PreferredSuperCore
  BY DEF CInv, FirstLoopInv, InFirstLoop, InThirdLoop
<1>2. a \in Candidates
  BY <1>1, InputFacts DEF CInv, Candidates
<1>3. PICK T \in SUBSET Arg : Preferred(relation, T)
  <2>1. Admissible(relation, {})
    BY DEF Admissible, ConflictFree
  <2> QED
    BY <2>1, PreferredAbove
<1>4. a \in T
  BY <1>3 DEF SkepticallyPreferred
<1>5. [in |-> T, out |-> Attacked(relation, T)] \in AdmSets
  BY <1>3, InputFacts, PreferredHasModel DEF CInv, AdmSets
<1> QED
  BY <1>2, <1>4, <1>5

(* acc is fixed in the attacking and in the attacked set.                   *)
LEMMA FixedSpec ==
  ASSUME NEW V, NEW s \in SolverOver(V)
  PROVE  /\ Fixed(s) \in SolverOver(V)
         /\ Fixed(s).db = {p \in s.db : Members \subseteq p["in"]
                                       /\ Members \subseteq p["in_attacked"]}
<1> DEFINE cs == Units(Pos("in", Members) \cup Pos("in_attacked", Members))
           Kept(p) == \A c \in cs : Satisfies(p, c)
<1>1. Fixed(s) \in SolverOver(V) /\ Fixed(s).db = {p \in s.db : Kept(p)}
  <2>1. Fixed(s) = AddClauses(s, cs)
    BY DEF Fixed
  <2> HIDE DEF cs
  <2> QED
    BY <2>1, AddClausesSpec
<1>2. \A p : Kept(p) <=> /\ \A c \in Units(Pos("in", Members)) : Satisfies(p, c)
                         /\ \A c \in Units(Pos("in_attacked", Members)) : Satisfies(p, c)
  BY DEF Units
<1>3. \A p : Kept(p) <=> Members \subseteq p["in"] /\ Members \subseteq p["in_attacked"]
  BY <1>2, AllOf
<1> HIDE DEF Kept
<1> QED
  BY <1>1, <1>3

LEMMA AskMoreCInv == ASSUME CInv, AskMore PROVE CInv'
<1>1. /\ pc = "ask more" /\ UNCHANGED <<input, psc, onerunonly, accepted, i, changed, result>>
      /\ UNCHANGED <<spsc, arg, admTest, attAdmTest>>
  BY DEF AskMore, walk, test
<1>2. /\ relation' = relation /\ track' = track /\ AdmSets' = AdmSets /\ Members' = Members
      /\ Candidates' = Candidates
  BY <1>1, InputKept DEF CInv, Members, Candidates
<1>3. CASE Candidates = {}
  <2>1. pc' = "next" /\ todo' = spsc /\ solver' = Freed
    BY <1>3 DEF AskMore
  <2>2. TypesInv'
    BY <1>1, <2>1, FreedIsSolver DEF CInv, TypesInv
  <2>3. ThirdLoopInv'
    BY <1>1, <1>2, <2>1 DEF CInv, ThirdLoopInv, InThirdLoop, Testing
  <2>4. AcceptedExact'
    BY <1>1, <1>2, <1>3, <2>1, ThirdLoopEnds
       DEF CInv, ThirdLoopInv, InThirdLoop, AcceptedExact
  <2> QED
    BY <1>1, <2>1, <2>2, <2>3, <2>4, LaterKept DEF Later, TestInv, InTest
<1>4. CASE Candidates # {}
  <2>1. /\ pc' = "solve more" /\ todo' = todo
        /\ solver' = AddClause(solver, Pos("in", Candidates))
    BY <1>4 DEF AskMore
  <2>2. /\ solver' \in SolverOver(Assignments)
        /\ solver'.db = {m \in solver.db : \E a \in Candidates : a \in m.in}
    <3>1. /\ solver' \in SolverOver(Assignments)
          /\ solver'.db = {m \in solver.db : Satisfies(m, Pos("in", Candidates))}
      BY <2>1, AddClauseSpec DEF CInv, TypesInv
    <3>2. \A m : Satisfies(m, Pos("in", Candidates)) <=> \E a \in Candidates : a \in m.in
      BY SomeOf
    <3> QED
      BY <3>1, <3>2
  <2>3. TypesInv'
    BY <1>1, <2>1, <2>2 DEF CInv, TypesInv
  <2>4. ThirdLoopInv'
    BY <1>1, <1>2, <2>1, <2>2 DEF CInv, ThirdLoopInv, InThirdLoop, Testing, Has
  <2> QED
    BY <1>1, <2>1, <2>3, <2>4, LaterKept DEF Later, TestInv, InTest, AcceptedExact, Testing
<1> QED
  BY <1>3, <1>4

LEMMA SolveMoreCInv == ASSUME CInv, SolveMore PROVE CInv'
<1>1. PICK r \in Results(solver) :
        IF r.st = "UNSAT"
          THEN pc' = "next" /\ todo' = spsc /\ spsc' = spsc /\ solver' = Freed
          ELSE /\ pc' = "ask more" /\ todo' = todo /\ solver' = r
               /\ spsc' = spsc \cup {a \in r.val.in \ (grounded.in \cup grounded.out) :
                                       a \in psc /\ a \notin Members}
  BY DEF SolveMore
<1>2. /\ pc = "solve more"
      /\ UNCHANGED <<input, psc, onerunonly, accepted, i, changed, result>>
      /\ UNCHANGED <<arg, admTest, attAdmTest>>
  BY DEF SolveMore, walk, test
<1>3. relation' = relation /\ track' = track /\ AdmSets' = AdmSets /\ Members' = Members
  BY <1>2, InputKept DEF CInv, Members
<1>4. /\ r \in SolverOver(Assignments) /\ r.db = solver.db
      /\ \/ r.st = "UNSAT" /\ solver.db = {}
         \/ r.st = "SAT" /\ r.val \in solver.db
  BY PlainSolveSpec DEF CInv, TypesInv
<1>5. CASE r.st = "UNSAT"
  <2>1. pc' = "next" /\ todo' = spsc /\ spsc' = spsc /\ solver' = Freed
    BY <1>1, <1>5
  <2>2. TypesInv'
    BY <1>2, <2>1, FreedIsSolver DEF CInv, TypesInv
  <2>3. ThirdLoopInv'
    BY <1>2, <1>3, <2>1 DEF CInv, ThirdLoopInv, InThirdLoop, Testing
  <2>4. \A m \in AdmSets : m.in \cap Candidates = {}
    BY <1>2, <1>4, <1>5 DEF CInv, ThirdLoopInv, InThirdLoop, Has
  <2>5. AcceptedExact'
    BY <1>2, <1>3, <2>1, <2>4, ThirdLoopEnds
       DEF CInv, ThirdLoopInv, InThirdLoop, AcceptedExact
  <2> QED
    BY <1>2, <2>1, <2>2, <2>3, <2>5, LaterKept DEF Later, TestInv, InTest
<1>6. CASE r.st # "UNSAT"
  <2> DEFINE new == {a \in r.val.in \ (grounded.in \cup grounded.out) :
                       a \in psc /\ a \notin Members}
  <2>1. pc' = "ask more" /\ todo' = todo /\ solver' = r /\ spsc' = spsc \cup new
    BY <1>1, <1>6
  <2>2. r.val \in AdmSets /\ new \subseteq r.val.in /\ new \cap Members = {}
    BY <1>2, <1>4, <1>6 DEF CInv, ThirdLoopInv, InThirdLoop
  <2>3. new \subseteq Arg
    BY DEF CInv, TypesInv
  <2>4. Candidates' \subseteq Candidates
    BY <1>2, <1>3, <2>1 DEF Candidates
  <2> HIDE DEF new
  <2>5. TypesInv'
    BY <1>2, <1>4, <2>1, <2>3 DEF CInv, TypesInv
  <2>6. ThirdLoopInv'
    BY <1>2, <1>3, <1>4, <2>1, <2>2, <2>4
       DEF CInv, ThirdLoopInv, InThirdLoop, Testing, Has
  <2> QED
    BY <1>2, <2>1, <2>5, <2>6, LaterKept DEF Later, TestInv, InTest, AcceptedExact, Testing
<1> QED
  BY <1>5, <1>6

LEMMA StartTestCInv == ASSUME CInv, StartTest PROVE CInv'
<1>1. PICK a \in todo :
        /\ arg' = a /\ todo' = todo \ {a}
        /\ admTest' = AddClauses(NewSolver(AdmSets, Nothing), Units(Pos("in", Members)))
        /\ attAdmTest' = Fixed(NewSolver(AttackSets, PairOf(Nothing, Nothing)))
  BY DEF StartTest, AdmSets, AttackSets
<1>2. /\ pc = "next" /\ pc' = "attack"
      /\ UNCHANGED <<input, solver, psc, onerunonly, accepted, i, changed, result, spsc>>
  BY DEF StartTest, core, walk
<1>3. /\ relation' = relation /\ track' = track /\ AdmSets' = AdmSets /\ AttackSets' = AttackSets
      /\ Members' = Members
      /\ AdmSets \subseteq Assignments /\ AttackSets \subseteq Pairs
      /\ Nothing \in Assignments /\ PairOf(Nothing, Nothing) \in Pairs
  BY <1>2, InputKept, InputFacts DEF CInv, Members, Nothing, PairOf, Assignments, Pairs
<1>4. /\ admTest' \in SolverOver(Assignments)
      /\ admTest'.db = {m \in AdmSets : Members \subseteq m.in}
  BY <1>1, <1>3, NewSolverSpec, AddUnitsSpec
<1>5. /\ attAdmTest' \in SolverOver(Pairs)
      /\ attAdmTest'.db = {p \in AttackSets : Members \subseteq p.in
                                             /\ Members \subseteq p.in_attacked}
  BY <1>1, <1>3, NewSolverSpec, FixedSpec
<1>6. TypesInv'
  BY <1>1, <1>2, <1>4, <1>5 DEF CInv, TypesInv
<1>7. ThirdLoopInv'
  BY <1>2, <1>3 DEF CInv, ThirdLoopInv, InThirdLoop, Testing
<1>8. TestInv'
  <2>1. arg' \in spsc' \ todo'
    BY <1>1, <1>2 DEF CInv, TypesInv
  <2> QED
    BY <1>2, <1>3, <1>4, <1>5, <2>1 DEF TestInv
<1>9. AcceptedExact'
  BY <1>1, <1>2, <1>3 DEF CInv, AcceptedExact, Testing
<1> QED
  BY <1>2, <1>6, <1>7, <1>8, <1>9, LaterKept DEF Later

LEMMA FreedPairIsSolver == FreedPair \in SolverOver(Pairs)
<1>1. PairOf(Nothing, Nothing) \in Pairs
  BY DEF PairOf, Nothing, Pairs
<1> QED
  BY <1>1, NewSolverSpec DEF FreedPair

LEMMA AppendMember ==
  ASSUME accepted \in Seq(Arg), NEW a \in Arg, accepted' = Append(accepted, a)
  PROVE  /\ accepted' \in Seq(Arg) /\ Len(accepted') = Len(accepted) + 1
         /\ Members' = Members \cup {a}
<1> DEFINE n == Len(accepted)
<1>1. /\ n \in Nat /\ accepted' \in Seq(Arg) /\ Len(accepted') = n + 1
      /\ DOMAIN accepted = 1..n /\ DOMAIN accepted' = 1..(n + 1)
      /\ \A k \in 1..n : accepted'[k] = accepted[k]
      /\ accepted'[n + 1] = a
  OBVIOUS
<1> HIDE DEF n
<1>2. \A k : k \in 1..(n + 1) <=> k \in 1..n \/ k = n + 1
  BY <1>1
<1>3. Members' = Members \cup {a}
  BY <1>1, <1>2 DEF Members
<1> QED
  BY <1>1, <1>3 DEF n

(* A preferred extension without the argument would attack a preferred      *)
(* extension with it; both contain acc.                                     *)
LEMMA SolveAttackCInv == ASSUME CInv, SolveAttack PROVE CInv'
<1>1. PICK r \in Results(Assume(attAdmTest, Pos("in_attacked", {arg}))) :
        IF r.st = "UNSAT"
          THEN /\ accepted' = Append(accepted, arg) /\ pc' = "next"
               /\ admTest' = Freed /\ attAdmTest' = FreedPair
          ELSE /\ accepted' = accepted /\ pc' = "extend"
               /\ admTest' = admTest /\ attAdmTest' = r
  BY DEF SolveAttack
<1>2. /\ pc = "attack"
      /\ UNCHANGED <<input, solver, psc, onerunonly, i, changed, spsc, todo, arg, result>>
  BY DEF SolveAttack, core
<1>3. relation' = relation /\ track' = track /\ AdmSets' = AdmSets /\ AttackSets' = AttackSets
  BY <1>2, InputKept DEF CInv
<1>4. /\ r \in SolverOver(Pairs) /\ r.db = attAdmTest.db
      /\ \/ r.st = "UNSAT" /\ \A p \in attAdmTest.db : arg \notin p.in_attacked
         \/ r.st = "SAT" /\ r.val \in attAdmTest.db
  <2>1. attAdmTest \in SolverOver(Pairs)
    BY DEF CInv, TypesInv
  <2> QED
    BY <2>1, AskSpec
<1>5. CASE r.st = "UNSAT"
  <2>1. /\ accepted' = Append(accepted, arg) /\ pc' = "next"
        /\ admTest' = Freed /\ attAdmTest' = FreedPair
        /\ \A p \in attAdmTest.db : arg \notin p.in_attacked
    BY <1>1, <1>4, <1>5
  <2>2. arg \in Arg /\ accepted \in Seq(Arg) /\ arg \in spsc \ todo
    BY <1>2 DEF CInv, TypesInv, TestInv, InTest
  <2>3. /\ accepted' \in Seq(Arg) /\ i \in 1 .. Len(accepted') + 1
        /\ Members' = Members \cup {arg}
    BY <1>2, <2>1, <2>2, AppendMember DEF CInv, TypesInv
  <2>4. arg \in SkepticallyPreferred(relation)
    <3> SUFFICES ASSUME NEW S \in SUBSET Arg, Preferred(relation, S), arg \notin S
                 PROVE  FALSE
      BY <2>2 DEF SkepticallyPreferred
    <3>1. PICK n \in AdmSets : arg \in n.in
      BY <1>2, <2>2 DEF CInv, ThirdLoopInv, Testing
    <3>2. PICK T \in SUBSET Arg : Preferred(relation, T) /\ n.in \subseteq T
      BY InputFacts, PreferredAbove DEF CInv
    <3>3. Members \subseteq S /\ Members \subseteq T
      BY <1>2, <3>2 DEF CInv, AcceptedExact, Testing, SkepticallyPreferred
    <3> DEFINE t == [in |-> T, out |-> Attacked(relation, T)]
    <3>4. t \in AdmSets /\ arg \in t.in
      BY <3>1, <3>2, InputFacts, PreferredHasModel DEF CInv, AdmSets
    <3>5. PICK p \in AttackSets : p.in = S /\ p.in_attacked = t.in
      <4> HIDE DEF t
      <4> QED
        BY <3>4, InputFacts, RejectedIsAttacked DEF CInv, AdmSets, AttackSets
    <3>6. PICK m \in AdmSets : arg \in m.in /\ S \subseteq m.in
      BY <1>2, <2>1, <3>3, <3>4, <3>5 DEF CInv, TestInv, InTest
    <3>7. m.in \in SUBSET Arg /\ Admissible(relation, m.in)
      BY InputFacts DEF CInv
    <3> QED
      BY <3>6, <3>7 DEF Preferred
  <2>5. TypesInv'
    BY <1>2, <2>1, <2>3, FreedIsSolver, FreedPairIsSolver DEF CInv, TypesInv
  <2>6. ThirdLoopInv'
    BY <1>2, <1>3, <2>1 DEF CInv, ThirdLoopInv, InThirdLoop, Testing
  <2>7. AcceptedExact'
    BY <1>2, <1>3, <2>1, <2>2, <2>3, <2>4 DEF CInv, AcceptedExact, Testing
  <2> QED
    BY <1>2, <2>1, <2>5, <2>6, <2>7, LaterKept DEF Later, TestInv, InTest
<1>6. CASE r.st # "UNSAT"
  <2>1. /\ UNCHANGED accepted /\ pc' = "extend" /\ admTest' = admTest /\ attAdmTest' = r
        /\ r.st = "SAT" /\ r.val \in attAdmTest.db
    BY <1>1, <1>4, <1>6
  <2>2. Members' = Members
    BY <2>1 DEF Members
  <2>3. TypesInv'
    BY <1>2, <1>4, <2>1 DEF CInv, TypesInv
  <2>4. ThirdLoopInv'
    BY <1>2, <1>3, <2>1 DEF CInv, ThirdLoopInv, InThirdLoop, Testing
  <2>5. TestInv'
    BY <1>2, <1>3, <1>4, <2>1, <2>2 DEF CInv, TestInv, InTest
  <2>6. AcceptedExact'
    BY <1>2, <1>3, <2>1, <2>2 DEF CInv, AcceptedExact, Testing
  <2> QED
    BY <1>2, <2>1, <2>3, <2>4, <2>5, <2>6, LaterKept DEF Later
<1> QED
  BY <1>5, <1>6

(* If the attacking set cannot be extended by the argument, a preferred     *)
(* extension above it lacks the argument.                                   *)
LEMMA SolveExtensionCInv == ASSUME CInv, SolveExtension PROVE CInv'
<1> DEFINE S == attAdmTest.val.in
<1>1. PICK r \in Results(Assume(admTest, Pos("in", {arg} \cup S))) :
        IF r.st = "UNSAT"
          THEN pc' = "next" /\ admTest' = Freed /\ attAdmTest' = FreedPair
          ELSE pc' = "refine" /\ admTest' = r /\ attAdmTest' = attAdmTest
  BY DEF SolveExtension
<1>2. /\ pc = "extend"
      /\ UNCHANGED <<input, solver, psc, onerunonly, accepted, i, changed>>
      /\ UNCHANGED <<spsc, todo, arg, result>>
  BY DEF SolveExtension, core, walk
<1>3. /\ relation' = relation /\ track' = track /\ AdmSets' = AdmSets /\ AttackSets' = AttackSets
      /\ Members' = Members
  BY <1>2, InputKept DEF CInv, Members
<1>4. /\ r \in SolverOver(Assignments) /\ r.db = admTest.db
      /\ \/ r.st = "UNSAT" /\ \A m \in admTest.db : ~({arg} \cup S \subseteq m.in)
         \/ r.st = "SAT" /\ r.val \in admTest.db /\ {arg} \cup S \subseteq r.val.in
  <2>1. admTest \in SolverOver(Assignments)
    BY DEF CInv, TypesInv
  <2> HIDE DEF S
  <2> QED
    BY <2>1, AskSpec
<1>5. CASE r.st = "UNSAT"
  <2>1. /\ pc' = "next" /\ admTest' = Freed /\ attAdmTest' = FreedPair
        /\ \A m \in admTest.db : ~({arg} \cup S \subseteq m.in)
    BY <1>1, <1>4, <1>5
  <2>2. arg \notin SkepticallyPreferred(relation)
    <3>1. S \in SUBSET Arg /\ Admissible(relation, S)
      <4>1. attAdmTest.val \in AttackSets
        BY <1>2 DEF CInv, TestInv, InTest
      <4>2. PICK m \in AdmSets : m.in = S
        BY <4>1, AttAdmModelIsPair DEF AttackSets, AdmSets
      <4> QED
        BY <4>2, InputFacts DEF CInv
    <3>2. PICK T \in SUBSET Arg : Preferred(relation, T) /\ S \subseteq T
      BY <3>1, PreferredAbove
    <3> DEFINE t == [in |-> T, out |-> Attacked(relation, T)]
    <3>3. t \in AdmSets
      BY <3>2, InputFacts, PreferredHasModel DEF CInv, AdmSets
    <3>4. Members \subseteq T
      BY <1>2, <3>2 DEF CInv, AcceptedExact, Testing, SkepticallyPreferred
    <3>5. t \in admTest.db
      BY <1>2, <3>3, <3>4 DEF CInv, TestInv, InTest
    <3>6. arg \notin T
      BY <2>1, <3>2, <3>5
    <3> QED
      BY <3>2, <3>6 DEF SkepticallyPreferred
  <2>3. TypesInv'
    BY <1>2, <2>1, FreedIsSolver, FreedPairIsSolver DEF CInv, TypesInv
  <2>4. ThirdLoopInv'
    BY <1>2, <1>3, <2>1 DEF CInv, ThirdLoopInv, InThirdLoop, Testing
  <2>5. AcceptedExact'
    BY <1>2, <1>3, <2>1, <2>2 DEF CInv, AcceptedExact, Testing
  <2> QED
    BY <1>2, <2>1, <2>3, <2>4, <2>5, LaterKept DEF Later, TestInv, InTest
<1>6. CASE r.st # "UNSAT"
  <2>1. /\ pc' = "refine" /\ admTest' = r /\ attAdmTest' = attAdmTest
        /\ r.st = "SAT" /\ r.val \in admTest.db /\ arg \in r.val.in
    BY <1>1, <1>4, <1>6
  <2>2. TypesInv'
    BY <1>2, <1>4, <2>1 DEF CInv, TypesInv
  <2>3. ThirdLoopInv'
    BY <1>2, <1>3, <2>1 DEF CInv, ThirdLoopInv, InThirdLoop, Testing
  <2>4. TestInv'
    BY <1>2, <1>3, <1>4, <2>1 DEF CInv, TestInv, InTest
  <2>5. AcceptedExact'
    BY <1>2, <1>3, <2>1 DEF CInv, AcceptedExact, Testing
  <2> QED
    BY <1>2, <2>1, <2>2, <2>3, <2>4, <2>5, LaterKept DEF Later
<1> QED
  BY <1>5, <1>6

(* What the new clause excludes can be extended by the argument.            *)
LEMMA ExcludeExtensionCInv == ASSUME CInv, ExcludeExtension PROVE CInv'
<1>1. /\ pc = "refine" /\ pc' = "attack"
      /\ attAdmTest' = AddClause(attAdmTest, Pos("in", Missing(admTest.val)))
      /\ UNCHANGED <<input, solver, psc, onerunonly, accepted, i, changed>>
      /\ UNCHANGED <<spsc, todo, arg, admTest, result>>
  BY DEF ExcludeExtension, core, walk
<1>2. /\ relation' = relation /\ track' = track /\ AdmSets' = AdmSets /\ AttackSets' = AttackSets
      /\ Members' = Members
  BY <1>1, InputKept DEF CInv, Members
<1>3. admTest.val \in AdmSets /\ arg \in admTest.val.in
  BY <1>1 DEF CInv, TestInv, InTest
<1>4. /\ attAdmTest' \in SolverOver(Pairs)
      /\ attAdmTest'.db =
           {p \in attAdmTest.db : Satisfies(p, Pos("in", Missing(admTest.val)))}
  BY <1>1, AddClauseSpec DEF CInv, TypesInv
<1>5. ASSUME NEW p \in AttackSets, ~Satisfies(p, Pos("in", Missing(admTest.val)))
      PROVE  p.in \subseteq admTest.val.in
  <2>1. ~ \E a \in Arg \ admTest.val.in : a \in p.in
    BY <1>5, SomeOf DEF Missing
  <2>2. p.in \subseteq Arg
    BY InputFacts DEF CInv, Pairs
  <2> QED
    BY <2>1, <2>2
<1>6. TypesInv'
  BY <1>1, <1>4 DEF CInv, TypesInv
<1>7. ThirdLoopInv'
  BY <1>1, <1>2 DEF CInv, ThirdLoopInv, InThirdLoop, Testing
<1>8. TestInv'
  BY <1>1, <1>2, <1>3, <1>4, <1>5 DEF CInv, TestInv, InTest
<1>9. AcceptedExact'
  BY <1>1, <1>2 DEF CInv, AcceptedExact, Testing
<1> QED
  BY <1>1, <1>6, <1>7, <1>8, <1>9, LaterKept DEF Later

LEMMA PrintAccCInv == ASSUME CInv, PrintAcc PROVE CInv'
<1>1. /\ pc = "next" /\ pc' = "done" /\ todo = {} /\ result' = Members
      /\ UNCHANGED <<input, solver, psc, onerunonly, accepted, i, changed>>
      /\ UNCHANGED <<spsc, todo, arg, admTest, attAdmTest>>
  BY DEF PrintAcc, core, walk, test
<1>2. InputInv' /\ FirstLoopInv' /\ relation' = relation /\ track' = track
  BY <1>1, PscKept, InputKept DEF InFirstLoop, CInv
<1>3. Members = SkepticallyPreferred(relation) /\ track = "EA"
  BY <1>1 DEF CInv, AcceptedExact, Testing, ThirdLoopInv
<1>4. TypesInv'
  BY <1>1, MembersAreArguments DEF CInv, TypesInv
<1>5. ResultCorrect'
  BY <1>1, <1>2, <1>3 DEF ResultCorrect
<1> QED
  BY <1>1, <1>2, <1>4, <1>5, Returns

LEMMA StepCInv == CInv /\ [Next]_vars => CInv'
<1> SUFFICES ASSUME CInv, [Next]_vars PROVE CInv'
  OBVIOUS
<1>1. CASE UNCHANGED vars
  <2>1. /\ UNCHANGED <<input, solver, psc, onerunonly, accepted, i, changed, result, pc>>
        /\ UNCHANGED <<spsc, todo, arg, admTest, attAdmTest>>
    BY <1>1 DEF vars, core, walk, tests, test
  <2>2. /\ InputInv' /\ relation' = relation /\ grounded' = grounded /\ track' = track
        /\ AdmSets' = AdmSets /\ AttackSets' = AttackSets /\ Members' = Members
        /\ PreferredSuperCore' = PreferredSuperCore
    BY <2>1, InputKept DEF CInv, Members
  <2>3. TypesInv' /\ FirstLoopInv'
    BY <2>1, <2>2 DEF CInv, TypesInv, FirstLoopInv, InFirstLoop, Has, AttackersOf
  <2>4. WalkInv' /\ ThirdLoopInv'
    BY <2>1, <2>2 DEF CInv, WalkInv, WalkKeepsAdmissible, Unattacked, ThirdLoopInv,
                      InThirdLoop, Testing, Has, Candidates
  <2>5. TestInv' /\ AcceptedExact' /\ ResultCorrect'
    BY <2>1, <2>2 DEF CInv, TestInv, InTest, AcceptedExact, Testing, ResultCorrect
  <2> QED
    BY <2>2, <2>3, <2>4, <2>5 DEF CInv
<1>2. CASE SharedNext /\ UNCHANGED tests
  BY <1>2, AskAttackersCInv, NoAttackersCInv, SolveAttackersCInv, TakeOutAttackedCInv,
     WalkOnCInv, WalkAgainCInv DEF SharedNext
<1>3. CASE IdealNext /\ UNCHANGED tests
  BY <1>3, ReturnGroundedCInv, ReturnEmptyCInv, KeepUnattackedCInv, ReturnIdealCInv
     DEF IdealNext
<1>4. CASE EaNext
  BY <1>4, ReturnGroundedCInv, KeepDefensibleCInv, WalkDoneCInv, AskMoreCInv,
     SolveMoreCInv, StartTestCInv, SolveAttackCInv, SolveExtensionCInv,
     ExcludeExtensionCInv, PrintAccCInv DEF EaNext
<1> QED
  BY <1>1, <1>2, <1>3, <1>4 DEF Next

LEMMA CoreInvariance == Spec => []CInv
  BY InitCInv, StepCInv, PTL DEF Spec

-----------------------------------------------------------------------------
(* The first loop takes out exactly what some admissible set attacks.       *)
THEOREM SuperCoreComputed == Spec => []CoreExact
<1>1. CInv => CoreExact
  BY DEF CInv, FirstLoopInv, InFirstLoop, CoreExact
<1> QED
  BY <1>1, CoreInvariance, PTL

(* The walk loses no member of an admissible set within the super-core,     *)
(* lists none twice, and leaves only defended members behind it.            *)
THEOREM WalkExact == Spec => []WalkKeepsAdmissible
<1>1. CInv => WalkKeepsAdmissible
  BY DEF CInv, WalkInv, WalkKeepsAdmissible
<1> QED
  BY <1>1, CoreInvariance, PTL

(* acc holds only arguments of every preferred extension, and none is lost. *)
THEOREM AccExact == Spec => []AcceptedExact
  BY CoreInvariance, PTL DEF CInv

(* compute_ideal returns the ideal extension, solve_eapr prints the         *)
(* arguments of every preferred extension.                                  *)
THEOREM CoreTasksCorrect == Spec => []ResultCorrect
  BY CoreInvariance, PTL DEF CInv

=============================================================================
