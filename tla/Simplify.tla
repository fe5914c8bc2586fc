------------------------------ MODULE Simplify ------------------------------
(***************************************************************************)
(* What the solver does to its clauses at the root between two pieces of   *)
(* search, apart from variable elimination: clauses are learned and        *)
(* forgotten, subsumed and strengthened (subsume.cpp), transitive and      *)
(* duplicated binary clauses dropped (transred.cpp, deduplicate.cpp),      *)
(* equivalent literals replaced (decompose.cpp), failed literals and hyper *)
(* binary resolvents found (probe.cpp), ternary clauses resolved           *)
(* (ternary.cpp), clauses vivified (vivify.cpp).                           *)
(*                                                                         *)
(* Each operator gives the solvers that one application may lead to.  The  *)
(* limits and flags that pick the candidates are abstracted: any candidate *)
(* may be taken.  The root is propagated before and after.                 *)
(***************************************************************************)
EXTENDS Reconstruction

CONSTANTS LearnedSize,       \* the longest clause learned
          LearnedClauses     \* the learned clauses kept at the same time
ASSUME LearnedAssumption == LearnedSize \in Nat /\ LearnedClauses \in Nat

All(s) == s.irr \cup s.red
Free(s, l) == Active(s, l) /\ l \notin s.unit /\ -l \notin s.unit
FreeLits(s) == {l \in Lits : Free(s, l)}
NewUnits(s, ls) == Propagate(AssignUnits(s, ls))

(* analyze: the clause learned from a conflict follows from the clauses    *)
(* there are; the assumptions are decisions, it does not depend on them.   *)
Learn(s) ==
  {IF Cardinality(c) = 1 THEN NewUnits(s, c) ELSE [s EXCEPT !.red = @ \cup {c}] :
     c \in {c \in UNION {kSubset(k, FreeLits(s)) : k \in 1..LearnedSize} :
              /\ ~Tautology(c)
              /\ Cardinality(c) = 1 \/ Cardinality(s.red \cup {c}) <= LearnedClauses
              /\ Implied(All(s), s.unit, c)}}

(* mark_satisfied_clauses_as_garbage and remove_falsified_literals. *)
Collected(cs, u) == {Live(c, u) : c \in {c \in cs : ~SatisfiedBy(c, u)}}
Collect(s) == [s EXCEPT !.irr = Collected(@, s.unit), !.red = Collected(@, s.unit)]

(* reduce: a learned clause that is not of use any more is forgotten. *)
Reduce(s) == {[Collect(s) EXCEPT !.red = @ \ {c}] : c \in s.red}

-----------------------------------------------------------------------------
(* Clauses with literals fixed at the root are left to Collect. *)
Untouched(s, c) == \A l \in c : Free(s, l)
Removed(s, c, redundant) ==
  IF redundant THEN [s EXCEPT !.red = @ \ {c}] ELSE [s EXCEPT !.irr = @ \ {c}]
Shrunken(s, c, d, redundant) ==
  IF redundant THEN [s EXCEPT !.red = (@ \ {c}) \cup {d}]
               ELSE [s EXCEPT !.irr = (@ \ {c}) \cup {d}]

(* subsume_clause: a redundant clause that subsumes an irredundant one     *)
(* takes its place.                                                        *)
SubsumeClause_Unpromoted(s, d, dred, c, cred) == Removed(s, c, cred)
SubsumeClause(s, d, dred, c, cred) ==
  LET t == Removed(s, c, cred)
  IN  IF cred \/ ~dred THEN t
      ELSE [t EXCEPT !.irr = @ \cup {d}, !.red = @ \ {d}]

(* try_to_subsume_clause for a candidate of more than two literals. *)
ClausesOf(s, redundant) == {c \in IF redundant THEN s.red ELSE s.irr : Untouched(s, c)}
Subsume(s) ==
  {SubsumeClause(s, t[2], t[1], t[4], t[3]) :
     t \in {<<dred, d, cred, c>> \in BOOLEAN \X All(s) \X BOOLEAN \X All(s) :
              /\ d \in ClausesOf(s, dred) /\ c \in ClausesOf(s, cred)
              /\ Cardinality(c) > 2 /\ d \subseteq c
              /\ <<dred, d>> # <<cred, c>>}}
Strengthen(s) ==
  UNION {{Shrunken(s, c, c \ {l}, cred) :
            l \in {l \in c : \E d \in All(s) : /\ Untouched(s, d)
                                               /\ -l \in d /\ d \ {-l} \subseteq c}} :
           <<cred, c>> \in {<<cred, c>> \in BOOLEAN \X All(s) :
                              c \in ClausesOf(s, cred) /\ Cardinality(c) > 2}}

-----------------------------------------------------------------------------
(* Binary clauses as implications: all that l implies through them. *)
Binaries(s, cs) == {c \in cs : Cardinality(c) = 2 /\ Untouched(s, c)}
Implies(s, cs, l) == Propagated(Binaries(s, cs), {l})

(* transred: only irredundant clauses can make an irredundant one          *)
(* transitive; a path with a complementary pair makes its start fail.      *)
PathClauses_Any(s, c, redundant) == All(s) \ {c}
PathClauses(s, c, redundant) ==
  IF redundant THEN s.irr \cup (s.red \ {c}) ELSE s.irr \ {c}
Transred(s) ==
  UNION {LET path == Implies(s, PathClauses(s, c, redundant), -l)
             dst  == CHOOSE k \in c : k # l
         IN  IF dst \in path THEN {Removed(s, c, redundant)}
             ELSE IF Tautology(path) THEN {NewUnits(s, {l})} ELSE {} :
           <<c, redundant, l>> \in
             {<<c, redundant, l>> \in Binaries(s, All(s)) \X BOOLEAN \X Lits :
                c \in ClausesOf(s, redundant) /\ l \in c}}

(* mark_duplicated_binary_clauses_as_garbage: of two copies the            *)
(* irredundant one stays; two clauses that differ in one sign give a unit. *)
Duplicates(s) == Binaries(s, s.irr) \cap Binaries(s, s.red)
HyperUnits(s) ==
  {l \in FreeLits(s) : \E c \in Binaries(s, All(s)) :
                         \E k \in c \ {l} : l \in c /\ {l, -k} \in All(s)}
Deduplicate(s) ==
  {NewUnits([s EXCEPT !.red = @ \ Duplicates(s)], {l}) : l \in HyperUnits(s)}
    \cup IF Duplicates(s) = {} THEN {} ELSE {[s EXCEPT !.red = @ \ Duplicates(s)]}

(* failed_literal: -l for a literal l that runs into a conflict, or the    *)
(* negation of another literal all of the conflict depends on.             *)
FailedLiterals(s) ==
  {l \in FreeLits(s) : Conflicting(All(s), Propagated(All(s), s.unit \cup {l}))}
Probe(s) == {NewUnits(s, {-l}) : l \in FailedLiterals(s)}

-----------------------------------------------------------------------------
(* ternary_lit: two clauses of three literals are resolved.  A resolvent of *)
(* three is redundant; one of two is only if both antecedents are, and as   *)
(* it subsumes them it takes their place.                                   *)
ResolventRedundant(size, cred, dred) == size = 3 \/ (cred /\ dred)
HyperTernaryResolve(s, c, p, d) == (c \ {p}) \cup (d \ {-p})
TernaryFound(s, r) == \E d \in All(s) : Untouched(s, d) /\ Cardinality(d) > 1 /\ d \subseteq r
TernaryClauses(s, redundant, p) == {c \in ClausesOf(s, redundant) : p \in c /\ Cardinality(c) = 3}
Added(s, r, redundant) ==
  IF redundant THEN [s EXCEPT !.red = @ \cup {r}] ELSE [s EXCEPT !.irr = @ \cup {r}]
TernaryLit(s, p, cred, dred) ==
  {LET r == HyperTernaryResolve(s, t[1], p, t[2])
       rest == IF Cardinality(r) = 2 THEN Removed(Removed(s, t[1], cred), t[2], dred) ELSE s
   IN  Added(rest, r, ResolventRedundant(Cardinality(r), cred, dred)) :
     t \in {t \in TernaryClauses(s, cred, p) \X TernaryClauses(s, dred, -p) :
              LET r == HyperTernaryResolve(s, t[1], p, t[2])
              IN  Cardinality(r) <= 3 /\ ~Tautology(r) /\ ~TernaryFound(s, r)}}
Ternary(s) ==
  UNION {TernaryLit(s, t[1], t[2], t[3]) : t \in FreeLits(s) \X BOOLEAN \X BOOLEAN}

(* hyper_binary_resolve: while a probe is propagated, a long clause that    *)
(* forces l becomes a binary clause of l and the negated literal all of its *)
(* other literals depend on, in the tree of implications.  A literal can be *)
(* the closest one for some order of propagation if no other literal is on  *)
(* all paths from it.                                                       *)
ImpliesAvoiding(s, l, k) == Propagated({c \in Binaries(s, All(s)) : -k \notin c}, {l})
ProbeDominators(s, c, l) ==
  {d \in FreeLits(s) :
     LET implied == Implies(s, All(s), d)
         others  == Negated(c \ {l})
     IN  /\ others \subseteq implied /\ ~Tautology(implied)
         /\ l \notin implied /\ -l \notin implied
         /\ \A k \in implied \ {d} : \E x \in others : x # k /\ x \in ImpliesAvoiding(s, d, k)}
(* The resolvent takes the place of the clause if it subsumes it, and is    *)
(* redundant otherwise.                                                     *)
HyperBinaryResolve(s, c, redundant, l, d) ==
  IF -d \in c THEN Shrunken(s, c, {-d, l}, redundant) ELSE Added(s, {-d, l}, TRUE)
HyperBinaries(s) ==
  UNION {{HyperBinaryResolve(s, t[1], t[2], t[3], d) : d \in ProbeDominators(s, t[1], t[3])} :
           t \in {t \in All(s) \X BOOLEAN \X Lits :
                    /\ t[1] \in ClausesOf(s, t[2]) /\ Cardinality(t[1]) > 2 /\ t[3] \in t[1]}}

-----------------------------------------------------------------------------
(* vivify_clause: the negations of the literals of c are assumed one after  *)
(* the other, in any order, and propagated over the other clauses; in the   *)
(* irredundant round only over irredundant ones.  It ends with a conflict   *)
(* or a literal found true; a literal found false is not needed.            *)
Vivification == [decisions |-> {}, false |-> {}, true |-> {}, conflict |-> FALSE]
VivifyPropagate(cs, u, decisions) == Propagated(cs, u \cup decisions)
VivifyLiteral(cs, u, a, l) ==
  LET p == VivifyPropagate(cs, u, a.decisions)
  IN  CASE a.conflict \/ a.true # {} -> a
        [] ~a.conflict /\ a.true = {} /\ l \in p  -> [a EXCEPT !.true = {l}]
        [] ~a.conflict /\ a.true = {} /\ -l \in p -> [a EXCEPT !.false = @ \cup {l}]
        [] OTHER -> [a EXCEPT !.decisions = @ \cup {-l},
                              !.conflict = Conflicting(cs, VivifyPropagate(cs, p, {-l}))]
Subsumed(a) == a.conflict \/ a.true # {}

(* vivifyinst: the last literal is not needed either if it runs into a      *)
(* conflict while the others are false.                                     *)
Instantiated(cs, u, a, last) ==
  LET p == VivifyPropagate(cs, u, (a.decisions \ {-last}) \cup {last})
  IN  IF last \notin a.false /\ Conflicting(cs, p) THEN {last} ELSE {}

(* vivify_strengthen *)
VivifyStrengthen(s, c, d, redundant) ==
  IF Cardinality(d) = 1 THEN NewUnits(Removed(s, c, redundant), d) ELSE Shrunken(s, c, d, redundant)

(* vivify_analyze_redundant: the decisions that the reasons lead back to;   *)
(* which reasons there are is abstracted.  A redundant clause is removed if *)
(* they are all binary, and otherwise loses the literals that played no     *)
(* part.                                                                    *)
Suffices(cs, u, a, ds) ==
  LET p == VivifyPropagate(cs, u, ds)
  IN  IF a.conflict THEN Conflicting(cs, p) ELSE a.true \subseteq p
VivifyAnalyzeRedundant(s, c, cs, a) ==
  LET seen == {ds \in SUBSET a.decisions : Suffices(cs, s.unit, a, ds)}
      kept(ds) == a.true \cup Negated(ds)
  IN  {VivifyStrengthen(s, c, kept(ds), TRUE) : ds \in {ds \in seen : kept(ds) # c}}
        \cup IF Suffices(Binaries(s, cs), s.unit, a, a.decisions) THEN {Removed(s, c, TRUE)} ELSE {}

VivifyClause(s, c, redundant, order) ==
  LET cs == PathClauses(s, c, redundant)
      a  == FoldLeft(LAMBDA b, l : VivifyLiteral(cs, s.unit, b, l), Vivification, order)
      dropped == a.false \cup Instantiated(cs, s.unit, a, Last(order))
  IN  CASE Subsumed(a) /\ ~redundant -> {Removed(s, c, FALSE)}
        [] Subsumed(a) /\ redundant -> VivifyAnalyzeRedundant(s, c, cs, a)
        [] OTHER -> IF dropped = {} THEN {} ELSE {VivifyStrengthen(s, c, c \ dropped, redundant)}
Vivify(s) ==
  UNION {UNION {VivifyClause(s, t[1], t[2], order) : order \in SetToSeqs(t[1])} :
           t \in {t \in All(s) \X BOOLEAN : t[1] \in ClausesOf(s, t[2]) /\ Cardinality(t[1]) > 2}}

-----------------------------------------------------------------------------
(* decompose_round: the literals of a strongly connected component are     *)
(* replaced by the one with the least index; frozen ones stay.  The        *)
(* equivalences go on the extension stack.                                 *)
Component(s, l) ==
  {k \in Implies(s, All(s), l) : Free(s, k) /\ l \in Implies(s, All(s), k)}
Repr(s, frozen, l) ==
  IF Idx(l) \in frozen \/ ~Free(s, l) THEN l
  ELSE CHOOSE k \in Component(s, l) : \A j \in Component(s, l) : Idx(k) <= Idx(j)

Replaced(s, repr) == {v \in Var : repr[v] # v}
PushEquivalences_Forgotten(s, repr) == s
PushEquivalences(s, repr) ==
  FoldLeft(LAMBDA t, v : Push(Push(t, -v, {repr[v], -v}), v, {v, -repr[v]}),
           s, SetToSortSeq(Replaced(s, repr), <))
Substitute(s, repr) ==
  LET image(c)  == {repr[l] : l \in Live(c, s.unit)}
      images(cs) == {image(c) : c \in {c \in cs : ~SatisfiedBy(c, s.unit) /\ ~Tautology(image(c))}}
      units     == UNION {c \in images(All(s)) : Cardinality(c) = 1}
      long(cs)  == {c \in images(cs) : Cardinality(c) > 1}
      t == [s EXCEPT !.irr = long(@), !.red = long(@)]
  IN  IF {} \in images(All(s)) THEN [t EXCEPT !.unsat = TRUE] ELSE NewUnits(t, units)
MarkSubstituted(s, repr) ==
  [s EXCEPT !.status = [v \in Var |->
     IF repr[v] # v /\ @[v] = "ACTIVE" /\ @[Idx(repr[v])] # "FIXED" THEN "SUBSTITUTED" ELSE @[v]]]
Decompose(s, frozen) ==
  LET repr == [l \in Lits |-> Repr(s, frozen, l)]
  IN  IF \E l \in FreeLits(s) : -l \in Component(s, l) THEN {[s EXCEPT !.unsat = TRUE]}
      ELSE IF Replaced(s, repr) = {} THEN {}
      ELSE {MarkSubstituted(Substitute(PushEquivalences(s, repr), repr), repr)}

=============================================================================
