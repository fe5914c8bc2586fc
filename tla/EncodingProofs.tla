--------------------------- MODULE EncodingProofs ---------------------------
(***************************************************************************)
(* Facts about the semantics, the encodings and the solver that the proofs *)
(* about the tasks rest on.                                                *)
(***************************************************************************)
EXTENDS Encodings, Ipasir, FiniteSetTheorems, TLAPS

(* A model of the admissibility encoding is an admissible set that contains *)
(* the grounded extension, although the arguments the grounded labelling    *)
(* decides get no clauses of their own: the labels of their attackers       *)
(* follow from the unit clauses.                                            *)
THEOREM AdmModelIsAdmissible ==
  ASSUME NEW R, NEW G \in Assignments, GroundedLabels(R, G.in, G.out),
         NEW m \in AdmModels(R, G)
  PROVE  /\ m \in Assignments
         /\ G.in \subseteq m.in /\ G.out \subseteq m.out
         /\ Admissible(R, m.in)
         /\ m.out \subseteq Attacked(R, m.in)
<1>1. /\ m \in Assignments /\ m.in \subseteq Arg /\ m.out \subseteq Arg
      /\ G.in \subseteq Arg /\ G.out \subseteq Arg
      /\ \A a \in Arg : AdmClauses(R, G, m, a)
  <2>1. m \in Assignments /\ \A a \in Arg : AdmClauses(R, G, m, a)
    BY DEF AdmModels
  <2> QED
    BY <2>1 DEF Assignments
<1>2. /\ G.out = Attacked(R, G.in)
      /\ \A a \in G.in : Attackers(R, a) \subseteq G.out
      /\ G.in \cap G.out = {}
  <2>1. G.out = Attacked(R, G.in) /\ ConflictFree(R, G.in) /\ G.in = Defended(R, G.in)
    BY DEF GroundedLabels, Complete
  <2>2. \A a \in G.in : Attackers(R, a) \subseteq G.out
    BY <2>1 DEF Defended
  <2>3. G.in \cap G.out = {}
    BY <2>1 DEF ConflictFree, Attacked
  <2> QED
    BY <2>1, <2>2, <2>3
<1>3. G.in \subseteq m.in /\ G.out \subseteq m.out /\ m.in \cap m.out = {}
  BY <1>1, <1>2 DEF AdmClauses, InOutExclusive
<1>4. ASSUME NEW a \in m.in PROVE Attackers(R, a) \subseteq m.out
  <2>1. CASE a \in G.in
    BY <1>2, <1>3, <2>1
  <2>2. CASE a \notin G.in
    BY <1>1, <1>3, <1>4, <2>2 DEF AdmClauses
  <2> QED
    BY <2>1, <2>2
<1>5. ASSUME NEW b \in m.out PROVE \E c \in m.in : <<c, b>> \in R
  <2>1. b \notin G.in
    BY <1>3, <1>5
  <2>2. CASE b \in G.out
    BY <1>2, <1>3, <2>2 DEF Attacked
  <2>3. CASE b \notin G.out
    BY <1>1, <1>5, <2>1, <2>3 DEF AdmClauses, Attackers
  <2> QED
    BY <2>2, <2>3
<1>6. ConflictFree(R, m.in)
  BY <1>1, <1>3, <1>4 DEF ConflictFree, Attackers
<1>7. m.in \subseteq Defended(R, m.in)
  BY <1>1, <1>4, <1>5 DEF Defended, Attacked, Attackers
<1>8. m.out \subseteq Attacked(R, m.in)
  BY <1>1, <1>5 DEF Attacked
<1> QED
  BY <1>1, <1>3, <1>6, <1>7, <1>8 DEF Admissible

(* Conversely every admissible set that contains the grounded extension is  *)
(* the in part of a model, with all that it attacks out.                    *)
THEOREM AdmissibleHasModel ==
  ASSUME NEW R, NEW G \in Assignments, GroundedLabels(R, G.in, G.out),
         NEW S \in SUBSET Arg, Admissible(R, S), G.in \subseteq S
  PROVE  [in |-> S, out |-> Attacked(R, S)] \in AdmModels(R, G)
<1> DEFINE m == [in |-> S, out |-> Attacked(R, S)]
<1>1. m \in Assignments /\ m.in = S /\ m.out = Attacked(R, S)
  BY DEF Assignments, Attacked
<1>2. G.out = Attacked(R, G.in)
  BY DEF GroundedLabels
<1>3. G.out \subseteq m.out
  BY <1>1, <1>2 DEF Attacked
<1>4. \A a \in S : a \notin Attacked(R, S)
  BY DEF Admissible, ConflictFree, Attacked
<1>5. \A a \in S : Attackers(R, a) \subseteq Attacked(R, S)
  BY DEF Admissible, Defended
<1>6. \A a \in Attacked(R, S) : \E b \in Attackers(R, a) : b \in S
  BY DEF Attacked, Attackers
<1>7. \A a \in Arg : AdmClauses(R, G, m, a)
  BY <1>1, <1>3, <1>4, <1>5, <1>6 DEF AdmClauses, InOutExclusive
<1> QED
  BY <1>1, <1>7 DEF AdmModels

(* When the grounded labelling decides every argument, the grounded         *)
(* extension is preferred and contains every admissible set with a model.   *)
THEOREM DecidedIsPreferred ==
  ASSUME NEW R, NEW G \in Assignments, GroundedLabels(R, G.in, G.out),
         AllGrounded(G)
  PROVE  /\ Preferred(R, G.in)
         /\ \A m \in AdmModels(R, G) : m.in \subseteq G.in
<1>1. G.in \subseteq Arg /\ G.out = Attacked(R, G.in)
  BY DEF Assignments, GroundedLabels
<1>2. Admissible(R, G.in)
  BY DEF GroundedLabels, Complete, Admissible
<1>3. ASSUME NEW T \in SUBSET Arg, ConflictFree(R, T), G.in \subseteq T
      PROVE  T \subseteq G.in
  <2> SUFFICES ASSUME NEW a \in T, a \notin G.in PROVE FALSE
    OBVIOUS
  <2>1. a \in Attacked(R, G.in)
    BY <1>1 DEF AllGrounded
  <2> QED
    BY <1>3, <2>1 DEF Attacked, ConflictFree
<1>4. Preferred(R, G.in)
  BY <1>1, <1>2, <1>3 DEF Preferred, Admissible
<1>5. ASSUME NEW m \in AdmModels(R, G) PROVE m.in \subseteq G.in
  <2>1. m.in \in SUBSET Arg /\ G.in \subseteq m.in /\ Admissible(R, m.in)
    BY AdmModelIsAdmissible DEF Assignments
  <2> QED
    BY <1>3, <2>1 DEF Admissible
<1> QED
  BY <1>4, <1>5

-----------------------------------------------------------------------------
(* The semantics.                                                           *)

(* Among finitely many subsets of a finite set one is maximal: the smallest *)
(* of the complements.                                                      *)
LEMMA MaximalSet ==
  ASSUME NEW S, IsFiniteSet(S), NEW F \in SUBSET SUBSET S, F # {}
  PROVE  \E M \in F : \A T \in F : M \subseteq T => T = M
<1> DEFINE C == {S \ T : T \in F}
<1>1. IsWellFoundedOn(StrictSubsetOrdering(S), SUBSET S)
  BY FS_StrictSubsetOrderingWellFounded, FS_FiniteSubsetsOfFinite
<1>2. C \subseteq SUBSET S /\ C # {}
  <2>1. PICK T \in F : TRUE
    OBVIOUS
  <2>2. S \ T \in C /\ C \subseteq SUBSET S
    BY <2>1
  <2> HIDE DEF C
  <2> QED
    BY <2>2
<1>3. PICK D \in C : \A E \in C : ~ (<<E, D>> \in StrictSubsetOrdering(S))
  <2> HIDE DEF C
  <2> QED
    BY <1>1, <1>2, WFMin
<1>4. PICK M \in F : D = S \ M
  OBVIOUS
<1>5. ASSUME NEW T \in F, M \subseteq T PROVE T = M
  <2>1. S \ T \in C /\ S \ T \subseteq D /\ <<S \ T, D>> \in (SUBSET S) \X (SUBSET S)
    BY <1>4, <1>5
  <2>2. S \ T = D
    BY <1>3, <2>1 DEF StrictSubsetOrdering
  <2> QED
    BY <1>4, <2>2
<1> QED
  BY <1>5

(* Every admissible set is within a preferred extension.                    *)
LEMMA PreferredAbove ==
  ASSUME NEW R, NEW S \in SUBSET Arg, Admissible(R, S)
  PROVE  \E T \in SUBSET Arg : Preferred(R, T) /\ S \subseteq T
<1> DEFINE F == {T \in SUBSET Arg : Admissible(R, T) /\ S \subseteq T}
<1>1. F \in SUBSET SUBSET Arg /\ S \in F
  OBVIOUS
<1>2. PICK M \in F : \A T \in F : M \subseteq T => T = M
  <2> HIDE DEF F
  <2> QED
    BY <1>1, MaximalSet, FiniteArgAssumption
<1>3. Preferred(R, M)
  BY <1>2 DEF Preferred
<1> QED
  BY <1>3

(* What an admissible set defends can be added to it (Dung's fundamental    *)
(* lemma), so preferred extensions are complete.                            *)
LEMMA PreferredIsComplete ==
  ASSUME NEW R, NEW S \in SUBSET Arg, Preferred(R, S)
  PROVE  Complete(R, S)
<1>1. ConflictFree(R, S) /\ S \subseteq Defended(R, S)
  BY DEF Preferred, Admissible
<1>2. ASSUME NEW a \in Defended(R, S) PROVE a \in S
  <2> DEFINE T == S \cup {a}
  <2>1. T \in SUBSET Arg /\ T \subseteq Defended(R, S) /\ S \subseteq T
    BY <1>1 DEF Defended
  <2>2. ASSUME NEW b \in T PROVE b \notin Attacked(R, S)
    BY <1>1, <2>1 DEF ConflictFree, Defended, Attackers, Attacked
  <2>3. ASSUME NEW b \in T, NEW c \in T PROVE <<b, c>> \notin R
    BY <2>1, <2>2 DEF Defended, Attackers
  <2>4. Admissible(R, T)
    BY <2>1, <2>3 DEF Admissible, ConflictFree, Defended, Attacked
  <2> QED
    BY <2>1, <2>4 DEF Preferred
<1> QED
  BY <1>1, <1>2 DEF Complete

(* Two admissible sets of which the first does not attack the second can    *)
(* be joined: an attack back would be answered by the first.                *)
LEMMA UnionIsAdmissible ==
  ASSUME NEW R, NEW S \in SUBSET Arg, NEW T \in SUBSET Arg,
         Admissible(R, S), Admissible(R, T),
         \A a \in S, b \in T : <<a, b>> \notin R
  PROVE  Admissible(R, S \cup T)
<1>1. ASSUME NEW b \in T, NEW a \in S PROVE <<b, a>> \notin R
  BY DEF Admissible, Defended, Attackers, Attacked
<1>2. ConflictFree(R, S \cup T)
  BY <1>1 DEF Admissible, ConflictFree
<1>3. S \cup T \subseteq Defended(R, S \cup T)
  BY DEF Admissible, Defended, Attacked
<1> QED
  BY <1>2, <1>3 DEF Admissible

(* Every preferred extension contains the grounded one and has a model.     *)
LEMMA PreferredHasModel ==
  ASSUME NEW R, NEW G \in Assignments, GroundedLabels(R, G.in, G.out),
         NEW S \in SUBSET Arg, Preferred(R, S)
  PROVE  G.in \subseteq S /\ [in |-> S, out |-> Attacked(R, S)] \in AdmModels(R, G)
<1>1. G.in \subseteq S
  BY PreferredIsComplete DEF GroundedLabels
<1> QED
  BY <1>1, AdmissibleHasModel DEF Preferred

(* So do the arguments of any admissible set.                               *)
LEMMA AdmissibleWithinModel ==
  ASSUME NEW R, NEW G \in Assignments, GroundedLabels(R, G.in, G.out),
         NEW S \in SUBSET Arg, Admissible(R, S)
  PROVE  \E m \in AdmModels(R, G) : S \subseteq m.in
<1>1. PICK T \in SUBSET Arg : Preferred(R, T) /\ S \subseteq T
  BY PreferredAbove
<1>2. [in |-> T, out |-> Attacked(R, T)] \in AdmModels(R, G)
  BY <1>1, PreferredHasModel
<1> QED
  BY <1>1, <1>2

-----------------------------------------------------------------------------
(* The stability and the completeness encodings.                            *)

LEMMA StableIsComplete ==
  ASSUME NEW R, NEW S \in SUBSET Arg, Stable(R, S)
  PROVE  Complete(R, S)
<1>1. ConflictFree(R, S) /\ \A a \in Arg \ S : a \in Attacked(R, S)
  BY DEF Stable, RangeOf
<1>2. S \subseteq Defended(R, S)
  BY <1>1 DEF ConflictFree, Defended, Attackers
<1>3. Defended(R, S) \subseteq S
  BY <1>1 DEF ConflictFree, Defended, Attackers, Attacked
<1> QED
  BY <1>1, <1>2, <1>3 DEF Complete

(* The in variables of a model of the stability clauses are a stable        *)
(* extension: an argument without parents, which gets no clause of its own, *)
(* is one of the grounded extension.                                        *)
LEMMA StbModelIsStable ==
  ASSUME NEW R, NEW G \in Assignments, GroundedLabels(R, G.in, G.out), NEW m \in StbModels(R, G)
  PROVE  m \in Assignments /\ Stable(R, m.in)
<1>1. /\ m \in Assignments /\ m.in \subseteq Arg /\ \A a \in Arg : StbClauses(R, G, m, a)
      /\ G.in = Defended(R, G.in)
  BY DEF StbModels, Assignments, GroundedLabels, Complete
<1>2. ConflictFree(R, m.in)
  BY <1>1 DEF StbClauses, ConflictFree, Attackers
<1>3. ASSUME NEW a \in Arg \ m.in PROVE a \in Attacked(R, m.in)
  <2>1. Attackers(R, a) # {}
    BY <1>1, <1>3 DEF Defended, StbClauses
  <2>2. \E b \in Attackers(R, a) : b \in m.in
    BY <1>1, <1>3, <2>1 DEF StbClauses
  <2> QED
    BY <2>2 DEF Attackers, Attacked
<1>4. RangeOf(R, m.in) = Arg
  BY <1>1, <1>3 DEF RangeOf, Attacked
<1> QED
  BY <1>1, <1>2, <1>4 DEF Stable

LEMMA StableHasModel ==
  ASSUME NEW R, NEW G \in Assignments, GroundedLabels(R, G.in, G.out),
         NEW S \in SUBSET Arg, Stable(R, S)
  PROVE  \E m \in StbModels(R, G) : m.in = S
<1> DEFINE m == [in |-> S, out |-> {}]
<1>1. G.in \subseteq S /\ G.out = Attacked(R, G.in)
  BY StableIsComplete DEF GroundedLabels
<1>2. ConflictFree(R, S) /\ \A a \in Arg \ S : a \in Attacked(R, S)
  BY DEF Stable, RangeOf
<1>3. m \in [in : SUBSET Arg, out : {{}}] /\ m.in = S
  OBVIOUS
<1>4. \A a \in G.out : a \notin S
  BY <1>1, <1>2 DEF ConflictFree, Attacked
<1>5. \A a \in S : \A b \in Attackers(R, a) : b \notin S
  BY <1>2 DEF ConflictFree, Attackers
<1>6. \A a \in Arg \ S : \E b \in Attackers(R, a) : b \in S
  BY <1>2 DEF Attackers, Attacked
<1>7. \A a \in Arg : StbClauses(R, G, m, a)
  BY <1>1, <1>3, <1>4, <1>5, <1>6 DEF StbClauses
<1> QED
  BY <1>3, <1>7 DEF StbModels

LEMMA ComModelIsComplete ==
  ASSUME NEW R, NEW G \in Assignments, GroundedLabels(R, G.in, G.out), NEW m \in ComModels(R, G)
  PROVE  m \in Assignments /\ Complete(R, m.in)
<1>1. /\ m \in Assignments /\ m.in \subseteq Arg
      /\ \A a \in Arg : ComClauses(R, G, m, a)
      /\ G.out = Attacked(R, G.in)
  BY DEF ComModels, Assignments, GroundedLabels
<1>2. m \in AdmModels(R, G)
  <2>1. \A a \in Arg : AdmClauses(R, G, m, a)
    BY <1>1 DEF ComClauses, AdmClauses
  <2> QED
    BY <1>1, <2>1 DEF AdmModels
<1>3. G.in \subseteq m.in /\ G.out \subseteq m.out /\ Admissible(R, m.in)
  BY <1>2, AdmModelIsAdmissible
<1>4. ASSUME NEW a \in Defended(R, m.in) PROVE a \in m.in
  <2>1. a \in Arg /\ \A b \in Attackers(R, a) : \E c \in Attackers(R, b) : c \in m.in
    BY <1>1 DEF Defended, Attackers, Attacked
  <2>2. ConflictFree(R, m.in)
    BY <1>3 DEF Admissible
  <2>3. ASSUME NEW b \in Attackers(R, a) PROVE b \in m.out
    <3>1. b \in Arg /\ b \notin m.in
      BY <2>1, <2>2 DEF ConflictFree, Attackers
    <3>2. CASE b \in G.out
      BY <1>3, <3>2
    <3>3. CASE b \notin G.out
      BY <1>1, <1>3, <2>1, <3>1, <3>3 DEF ComClauses
    <3> QED
      BY <3>2, <3>3
  <2>4. CASE a \in G.in
    BY <1>3, <2>4
  <2>5. CASE a \in G.out
    <3>1. PICK b \in G.in : b \in Attackers(R, a)
      BY <1>1, <1>3, <2>5 DEF Attacked, Attackers
    <3>2. PICK c \in Attackers(R, b) : c \in m.in
      BY <2>1, <3>1
    <3> QED
      BY <1>3, <2>2, <3>1, <3>2 DEF ConflictFree, Attackers
  <2>6. CASE a \notin G.in \cup G.out
    BY <1>1, <2>1, <2>3, <2>6 DEF ComClauses
  <2> QED
    BY <2>4, <2>5, <2>6
<1> QED
  BY <1>1, <1>3, <1>4 DEF Admissible, Complete

LEMMA CompleteHasModel ==
  ASSUME NEW R, NEW G \in Assignments, GroundedLabels(R, G.in, G.out),
         NEW S \in SUBSET Arg, Complete(R, S)
  PROVE  \E m \in ComModels(R, G) : m.in = S
<1> DEFINE m == [in |-> S, out |-> Attacked(R, S)]
<1>1. m \in Assignments /\ m.in = S /\ m.out = Attacked(R, S)
  BY DEF Assignments, Attacked
<1>2. G.in \subseteq S /\ G.out = Attacked(R, G.in)
  BY DEF GroundedLabels
<1>3. G.out \subseteq m.out
  BY <1>1, <1>2 DEF Attacked
<1>4. \A a \in S : a \notin Attacked(R, S)
  BY DEF Complete, ConflictFree, Attacked
<1>5. \A a \in Arg : a \in S <=> Attackers(R, a) \subseteq Attacked(R, S)
  BY DEF Complete, Defended
<1>6. \A a \in Arg : a \in Attacked(R, S) <=> \E b \in Attackers(R, a) : b \in S
  BY DEF Attacked, Attackers
<1>7. \A a \in Arg : ComClauses(R, G, m, a)
  BY <1>1, <1>2, <1>3, <1>4, <1>5, <1>6 DEF ComClauses, InOutExclusive
<1> QED
  BY <1>1, <1>7 DEF ComModels

-----------------------------------------------------------------------------
(* The encoding of two admissible sets, one attacking the other.            *)

Pairs ==
  [in : SUBSET Arg, out : SUBSET Arg, in_attacked : SUBSET Arg, out_attacked : SUBSET Arg]

LEMMA AttAdmModelIsPair ==
  ASSUME NEW R, NEW G, NEW p \in AttAdmModels(R, G)
  PROVE  p \in Pairs /\ \E m \in AdmModels(R, G) : m.in = p.in /\ m.out = p.out
<1>1. PICK m \in AdmModels(R, G), n \in AdmModels(R, G) : p = PairOf(m, n)
  BY DEF AttAdmModels
<1>2. m \in Assignments /\ n \in Assignments
  BY DEF AdmModels
<1>3. p = [in |-> m.in, out |-> m.out, in_attacked |-> n.in, out_attacked |-> n.out]
  BY <1>1 DEF PairOf
<1> QED
  BY <1>2, <1>3 DEF Assignments, Pairs

LEMMA AttackHasModel ==
  ASSUME NEW R, NEW G, NEW m \in AdmModels(R, G), NEW n \in AdmModels(R, G),
         NEW a \in m.in, NEW b \in n.in, <<a, b>> \in R
  PROVE  \E p \in AttAdmModels(R, G) : p.in = m.in /\ p.in_attacked = n.in
<1>1. PairOf(m, n).in = m.in /\ PairOf(m, n).in_attacked = n.in
  BY DEF PairOf
<1>2. AttackClause(R, PairOf(m, n))
  BY <1>1 DEF AttackClause
<1>3. PairOf(m, n) \in AttAdmModels(R, G)
  BY <1>2 DEF AttAdmModels
<1> QED
  BY <1>1, <1>3

(* A preferred extension without a attacks every admissible set with a, or  *)
(* the two could be joined.                                                 *)
LEMMA RejectedIsAttacked ==
  ASSUME NEW R, NEW G \in Assignments, GroundedLabels(R, G.in, G.out),
         NEW S \in SUBSET Arg, Preferred(R, S), NEW a, a \notin S,
         NEW n \in AdmModels(R, G), a \in n.in
  PROVE  \E p \in AttAdmModels(R, G) : p.in = S /\ p.in_attacked = n.in
<1> DEFINE m == [in |-> S, out |-> Attacked(R, S)]
<1>1. m \in AdmModels(R, G) /\ m.in = S
  BY PreferredHasModel
<1>2. n.in \in SUBSET Arg /\ Admissible(R, n.in)
  BY AdmModelIsAdmissible DEF Assignments
<1>3. PICK b \in S, c \in n.in : <<b, c>> \in R
  <2> SUFFICES ASSUME \A b \in S, c \in n.in : <<b, c>> \notin R
               PROVE  FALSE
    OBVIOUS
  <2>1. Admissible(R, S \cup n.in) /\ S \cup n.in \in SUBSET Arg
    BY <1>2, UnionIsAdmissible DEF Preferred
  <2> QED
    BY <2>1 DEF Preferred
<1> QED
  BY <1>1, <1>3, AttackHasModel

-----------------------------------------------------------------------------
(* Clauses and assumptions of positive literals of one field.               *)

LEMMA SomeOf ==
  ASSUME NEW f, NEW S, NEW m
  PROVE  Satisfies(m, Pos(f, S)) <=> \E a \in S : a \in m[f]
<1>1. \A a : Holds(m, <<f, a, TRUE>>) <=> a \in m[f]
  BY DEF Holds
<1> QED
  BY <1>1 DEF Satisfies, Pos

LEMMA AllOf ==
  ASSUME NEW f, NEW S, NEW m
  PROVE  /\ (\A l \in Pos(f, S) : Holds(m, l)) <=> S \subseteq m[f]
         /\ (\A c \in Units(Pos(f, S)) : Satisfies(m, c)) <=> S \subseteq m[f]
<1>1. \A a : Holds(m, <<f, a, TRUE>>) <=> a \in m[f]
  BY DEF Holds
<1>2. \A a : Satisfies(m, {<<f, a, TRUE>>}) <=> a \in m[f]
  BY <1>1 DEF Satisfies
<1>3. Units(Pos(f, S)) = {{<<f, a, TRUE>>} : a \in S}
  BY DEF Units, Pos
<1> QED
  BY <1>1, <1>2, <1>3 DEF Pos

LEMMA SomeIn ==
  ASSUME NEW S, NEW m \in Assignments
  PROVE  Satisfies(m, Pos("in", S)) <=> \E a \in S : a \in m.in
  BY SomeOf

LEMMA AllIn ==
  ASSUME NEW S, NEW m \in Assignments
  PROVE  (\A c \in Units(Pos("in", S)) : Satisfies(m, c)) <=> S \subseteq m.in
  BY AllOf

-----------------------------------------------------------------------------
(* The solver as its clients see it, between two calls: over the            *)
(* assignments V, with no assumption left.                                  *)
SolverOver(V) ==
  [db : SUBSET V, asm : {{}}, st : {"INPUT", "SAT", "UNSAT"}, val : V]

LEMMA NewSolverSpec ==
  ASSUME NEW V, NEW D \in SUBSET V, NEW v \in V
  PROVE  NewSolver(D, v) \in SolverOver(V) /\ NewSolver(D, v).db = D
  BY DEF NewSolver, SolverOver

LEMMA AddClauseSpec ==
  ASSUME NEW V, NEW s \in SolverOver(V), NEW c
  PROVE  /\ AddClause(s, c) \in SolverOver(V)
         /\ AddClause(s, c).db = {m \in s.db : Satisfies(m, c)}
  BY DEF AddClause, SolverOver

LEMMA AddClausesSpec ==
  ASSUME NEW V, NEW s \in SolverOver(V), NEW cs
  PROVE  /\ AddClauses(s, cs) \in SolverOver(V)
         /\ AddClauses(s, cs).db = {m \in s.db : \A c \in cs : Satisfies(m, c)}
  BY DEF AddClauses, SolverOver

LEMMA AddUnitsSpec ==
  ASSUME NEW V, NEW s \in SolverOver(V), NEW f, NEW S
  PROVE  /\ AddClauses(s, Units(Pos(f, S))) \in SolverOver(V)
         /\ AddClauses(s, Units(Pos(f, S))).db = {m \in s.db : S \subseteq m[f]}
<1> DEFINE Kept(m) == \A c \in Units(Pos(f, S)) : Satisfies(m, c)
<1>1. /\ AddClauses(s, Units(Pos(f, S))) \in SolverOver(V)
      /\ AddClauses(s, Units(Pos(f, S))).db = {m \in s.db : Kept(m)}
  BY AddClausesSpec
<1>2. \A m : Kept(m) <=> S \subseteq m[f]
  BY AllOf
<1> HIDE DEF Kept
<1> QED
  BY <1>1, <1>2

(* A call with the assumptions ls changes no clause, forgets ls, and finds  *)
(* an assignment of the clauses and ls if and only if there is one.         *)
LEMMA SolveSpec ==
  ASSUME NEW V, NEW s \in SolverOver(V), NEW ls, NEW r \in Results(Assume(s, ls))
  PROVE  /\ r \in SolverOver(V) /\ r.db = s.db
         /\ \/ /\ r.st = "UNSAT"
               /\ \A m \in s.db : ~ \A l \in ls : Holds(m, l)
            \/ /\ r.st = "SAT" /\ r.val \in s.db
               /\ \A l \in ls : Holds(r.val, l)
<1> DEFINE t == Assume(s, ls)
<1>1. PICK st : t = [db |-> s.db, asm |-> ls, st |-> st, val |-> s.val]
  BY DEF Assume, SolverOver
<1>2. Models(t) = {m \in s.db : \A l \in ls : Holds(m, l)}
  BY <1>1 DEF Models
<1> HIDE DEF t
<1>3. CASE Models(t) = {}
  <2>1. r = [t EXCEPT !.asm = {}, !.st = "UNSAT"]
    BY <1>3 DEF Results, t
  <2>2. r = [db |-> s.db, asm |-> {}, st |-> "UNSAT", val |-> s.val]
    BY <1>1, <2>1
  <2> QED
    BY <1>2, <1>3, <2>2 DEF SolverOver
<1>4. CASE Models(t) # {}
  <2>1. PICK m \in Models(t) : r = [t EXCEPT !.asm = {}, !.st = "SAT", !.val = m]
    BY <1>4 DEF Results, t
  <2>2. r = [db |-> s.db, asm |-> {}, st |-> "SAT", val |-> m]
    BY <1>1, <2>1
  <2>3. m \in s.db /\ \A l \in ls : Holds(m, l)
    BY <1>2
  <2> QED
    BY <2>2, <2>3 DEF SolverOver
<1> QED
  BY <1>3, <1>4

(* The same without assumptions.                                            *)
LEMMA PlainSolveSpec ==
  ASSUME NEW V, NEW s \in SolverOver(V), NEW r \in Results(s)
  PROVE  /\ r \in SolverOver(V) /\ r.db = s.db
         /\ \/ r.st = "UNSAT" /\ s.db = {}
            \/ r.st = "SAT" /\ r.val \in s.db
<1>1. r \in Results(Assume(s, {}))
  BY DEF Assume
<1> QED
  BY <1>1, SolveSpec

(* The same with positive literals of one field assumed.                    *)
LEMMA AskSpec ==
  ASSUME NEW V, NEW s \in SolverOver(V), NEW f, NEW S,
         NEW r \in Results(Assume(s, Pos(f, S)))
  PROVE  /\ r \in SolverOver(V) /\ r.db = s.db
         /\ \/ r.st = "UNSAT" /\ \A m \in s.db : ~(S \subseteq m[f])
            \/ r.st = "SAT" /\ r.val \in s.db /\ S \subseteq r.val[f]
<1>1. \A m : (\A l \in Pos(f, S) : Holds(m, l)) <=> S \subseteq m[f]
  BY AllOf
<1>2. /\ r \in SolverOver(V) /\ r.db = s.db
      /\ \/ /\ r.st = "UNSAT"
            /\ \A m \in s.db : ~ \A l \in Pos(f, S) : Holds(m, l)
         \/ /\ r.st = "SAT" /\ r.val \in s.db
            /\ \A l \in Pos(f, S) : Holds(r.val, l)
  BY SolveSpec
<1> QED
  BY <1>1, <1>2

=============================================================================
