----------------------------- MODULE Elimination -----------------------------
(***************************************************************************)
(* Bounded variable elimination of CaDiCaL: one variable of an elimination *)
(* round (elim.cpp), the gates that let it get by with fewer resolvents    *)
(* (gates.cpp) and the backward subsumption that follows it                *)
(* (backward.cpp).  There are no watches in this phase: units are          *)
(* propagated over the occurrence lists, and only from the literal that    *)
(* was just assigned.                                                      *)
(*                                                                         *)
(* A clause is seen without its false literals.  The order of equal sized  *)
(* clauses in an occurrence list is theirs in memory: any order is taken.  *)
(***************************************************************************)
EXTENDS Reconstruction

CONSTANT ElimBound           \* lim.elimbound, additional clauses allowed
ASSUME ElimBoundAssumption == ElimBound \in Nat

Occs(s, l)  == {c \in s.irr : l \in c}
Assigned(s, l)   == l \in s.unit \/ -l \in s.unit
Without(s, cs) == [s EXCEPT !.irr = @ \ cs]

(* elim_propagate: from root, over clauses with a literal that just became *)
(* false; the clauses the new literals satisfy are garbage.                *)
Reached(s, root) ==
  LET reach[i \in 0..Cardinality(Var)] ==
        IF i = 0 THEN {root}
        ELSE LET r == reach[i - 1]
                 touched == {c \in s.irr : c \cap Negated(r) # {}}
             IN  r \cup (Forced(touched, s.unit \cup r) \ s.unit)
  IN  reach[Cardinality(Var)]
ElimPropagate(s, root) ==
  LET new == Reached(s, root)
      u   == s.unit \cup new
  IN  IF \/ Tautology(u)
         \/ \E c \in s.irr : c \cap Negated(new) # {} /\ Falsified(c, u)
      THEN [s EXCEPT !.unsat = TRUE]
      ELSE Without(MarkFixed(s, new),
                  {c \in s.irr : \/ c \cap new # {}
                                 \/ c \cap Negated(new) # {} /\ SatisfiedBy(c, u)})

-----------------------------------------------------------------------------
(* resolve_clauses for c with pivot and d with its negation: the outcomes. *)
(* An outcome's r is the resolvent if there is one to be counted or added; *)
(* otherwise a satisfied antecedent, a tautology, the empty clause, a unit *)
(* or a self-subsuming resolution were dealt with in s.  The literals of   *)
(* the second antecedent are read until one is true or clashes, whichever  *)
(* comes first.                                                            *)
Unit(s, l, eagerly) ==
  IF eagerly THEN ElimPropagate(s, l) ELSE AssignUnits(s, {l})
ResolveClauses(s, c, pivot, d, eagerly) ==
  LET first == IF Cardinality(c) > Cardinality(d) THEN d ELSE c
      sat   == {e \in {c, d} : SatisfiedBy(e, s.unit)}
      lc    == Live(c, s.unit) \ {pivot}
      ld    == Live(d, s.unit) \ {-pivot}
      r     == lc \cup ld
      shorter == {e \in {c, d} : (IF e = c THEN lc ELSE ld) = r}
      none(t) == [s |-> t, r |-> {}]
  IN  CASE ~({c, d} \subseteq s.irr) -> {none(s)}
        [] {c, d} \subseteq s.irr /\ first \in sat -> {none(Without(s, {first}))}
        [] {c, d} \subseteq s.irr /\ first \notin sat /\ sat # {} ->
             {none(Without(s, sat))} \cup (IF Tautology(r) THEN {none(s)} ELSE {})
        [] OTHER ->
             CASE Tautology(r) -> {none(s)}
               [] r = {} -> {none([s EXCEPT !.unsat = TRUE])}
               [] Cardinality(r) = 1 -> {none(Unit(s, CHOOSE l \in r : TRUE, eagerly))}
               [] OTHER ->
                    IF shorter # {}
                    THEN {none([s EXCEPT !.irr = (@ \ shorter) \cup {r}])}
                    ELSE {[s |-> s, r |-> r]}

(* The occurrence lists, shorter clauses first, and all their pairs. *)
Orders(cs) ==
  LET q == SetToSeq(cs)
  IN  {[i \in DOMAIN q |-> p[q[i]]] : p \in Permutations(cs)}
BySize(cs) ==
  FoldLeft(LAMBDA qs, k : {q \o r : q \in qs, r \in Orders({c \in cs : Cardinality(c) = k})},
           {<<>>}, [k \in 1..Cardinality(Var) |-> k])
Pairs(ps, ns) ==
  [k \in 1..(Len(ps) * Len(ns)) |->
     <<ps[((k - 1) \div Len(ns)) + 1], ns[((k - 1) % Len(ns)) + 1]>>]
ToResolve(gates, pair) == gates = {} \/ (pair[1] \in gates) # (pair[2] \in gates)

(* elim_resolvents_are_bounded: counts, with all that resolving does on the *)
(* way; it stops at the first reason not to eliminate the pivot.            *)
CountResolvents(s, pivot, gates, ps, ns) ==
  LET counted(a, res) ==
        LET n == a.n + (IF res.r = {} THEN 0 ELSE 1)
        IN  [s |-> res.s, n |-> n,
             go |-> /\ n <= Len(ps) + Len(ns) + ElimBound
                    /\ ~res.s.unsat
                    /\ ~Assigned(res.s, pivot)]
      count(a, pair) ==
        IF ~a.go \/ ~ToResolve(gates, pair) THEN {a}
        ELSE {counted(a, res) : res \in ResolveClauses(a.s, pair[1], pivot, pair[2], TRUE)}
  IN  FoldLeft(LAMBDA as, pair : UNION {count(a, pair) : a \in as},
               {[s |-> s, n |-> 0, go |-> TRUE]}, Pairs(ps, ns))

(* elim_add_resolvents: the same pairs again, now the resolvents are added. *)
AddResolvents(s, pivot, gates, ps, ns) ==
  LET added(a, res) ==
        IF res.r = {} THEN [a EXCEPT !.s = res.s]
        ELSE [s |-> [res.s EXCEPT !.irr = @ \cup {res.r}],
              added |-> IF Contains(a.added, res.r) THEN a.added ELSE Append(a.added, res.r)]
      add(a, pair) ==
        IF a.s.unsat \/ ~ToResolve(gates, pair) THEN {a}
        ELSE {added(a, res) : res \in ResolveClauses(a.s, pair[1], pivot, pair[2], FALSE)}
  IN  FoldLeft(LAMBDA as, pair : UNION {add(a, pair) : a \in as},
               {[s |-> s, added |-> <<>>]}, Pairs(ps, ns))

(* mark_eliminated_clauses_as_garbage and mark_eliminated. *)
Kept(s, l, gates) == IF gates = {} THEN Occs(s, l) ELSE Occs(s, l) \cap gates
(* What Niklas Soerensson's trick would push: one side, and the other value. *)
PushBothSides_OneSide(s, pivot, gates) ==
  Push(PushAll(s, pivot, Kept(s, pivot, gates)), -pivot, {-pivot})
PushBothSides(s, pivot, gates) ==
  PushAll(PushAll(s, pivot, Kept(s, pivot, gates)), -pivot, Kept(s, -pivot, gates))
WeakenClauses(s, pivot, gates) ==
  Without(PushBothSides(s, pivot, gates), Occs(s, pivot) \cup Occs(s, -pivot))
MarkEliminated(s, pivot) ==
  IF Active(s, pivot) THEN [s EXCEPT !.status[Idx(pivot)] = "ELIMINATED"] ELSE s

-----------------------------------------------------------------------------
(* The gates that define the pivot.  Of a satisfied clause the literals are *)
(* read in the order in which the true one comes last.                      *)
Unassigned(c, u) == {l \in c : l \notin u /\ -l \notin u}
Others(s, c, l)  == Unassigned(c, s.unit) \ {l}
Second(s, c, l)  ==          \* second_literal_in_binary_clause
  IF SatisfiedBy(c, s.unit) \/ Cardinality(Others(s, c, l)) # 1 THEN {} ELSE Others(s, c, l)
SeenSatisfied(s, c, l) == SatisfiedBy(c, s.unit) /\ Cardinality(Others(s, c, l)) < 2

(* mark_binary_literals over the clauses os with l: a pair of complementary *)
(* second literals makes l a unit, a second copy of a clause is garbage.    *)
MarkBinaryLiterals(s, l, os) ==
  FoldLeft(LAMBDA a, c :
     LET k == Second(a.s, c, l)
     IN  CASE Assigned(a.s, l) \/ a.s.unsat \/ c \notin a.s.irr -> a
           [] OTHER ->
                CASE SeenSatisfied(a.s, c, l) \/ (k # {} /\ k \subseteq a.marks) ->
                       [a EXCEPT !.s = Without(@, {c})]
                  [] k # {} /\ Negated(k) \subseteq a.marks ->
                       [a EXCEPT !.s = ElimPropagate(@, l)]
                  [] OTHER -> [a EXCEPT !.marks = @ \cup k],
     [s |-> s, marks |-> {}], os)

(* find_equivalence: {-p, k} and {p, -k} define p; {p, k} and {-p, k} make *)
(* k a unit, and the search goes on.                                       *)
FindEquivalence(s, p, ps, ns) ==
  LET m == MarkBinaryLiterals(s, p, ps)
  IN  FoldLeft(LAMBDA a, c :
        LET k == Second(a.s, c, -p)
        IN  CASE Assigned(a.s, p) \/ a.s.unsat \/ a.gates # {} \/ c \notin a.s.irr -> a
              [] OTHER ->
                   CASE SeenSatisfied(a.s, c, -p) -> [a EXCEPT !.s = Without(@, {c})]
                     [] k # {} /\ k \subseteq m.marks ->
                          [a EXCEPT !.s = ElimPropagate(@, CHOOSE l \in k : TRUE)]
                     [] k # {} /\ Negated(k) \subseteq m.marks ->
                          [a EXCEPT !.gates =
                             {c, SelectSeq(ps, LAMBDA d : d \in a.s.irr
                                                         /\ Second(a.s, d, p) = Negated(k))[1]}]
                     [] OTHER -> a,
        [s |-> m.s, gates |-> {}], ns)

(* find_and_gate for p with the clauses os, and those with -p, ns: a clause *)
(* of ns whose other literals are all negations of marked ones.             *)
FindAndGate(f, p, os, ns) ==
  IF f.gates # {} \/ f.s.unsat \/ Assigned(f.s, p) THEN f
  ELSE LET m == MarkBinaryLiterals(f.s, p, os)
           base == SelectSeq(ns, LAMBDA c :
                     /\ c \in m.s.irr /\ Cardinality(c) >= 3
                     /\ Negated(Others(m.s, c, -p)) \subseteq m.marks)
           sat  == {c \in ToSet(base) : SatisfiedBy(c, m.s.unit)}
           open == SelectSeq(base, LAMBDA c : c \notin sat)
       IN  IF m.s.unsat \/ Assigned(m.s, p) \/ open = <<>> THEN [f EXCEPT !.s = Without(m.s, sat)]
           ELSE [s |-> Without(m.s, sat),
                 gates |-> {open[1]} \cup
                   {d \in ToSet(os) \cap m.s.irr :
                      /\ Second(m.s, d, p) # {}
                      /\ Negated(Second(m.s, d, p)) \subseteq open[1]}]

(* get_ternary_clause, find_ternary_clause and is_clause skip the literals *)
(* that have a value, whichever it is.                                     *)
CoreOf(c, u) == Unassigned(c, u)
WithCore(s, ls) == {c \in s.irr : CoreOf(c, s.unit) = ls}
IfThenElses(s, p) ==
  LET ternary == {d \in Occs(s, p) : Cardinality(CoreOf(d, s.unit)) = 3}
      rest(d, b) == CHOOSE l \in CoreOf(d, s.unit) : l \notin {p, b}
  IN  UNION {{{t[1], t[2], d1, d2} :
                d1 \in WithCore(s, {-p, t[3], -rest(t[1], t[3])}),
                d2 \in WithCore(s, {-p, -t[3], -rest(t[2], -t[3])})} :
             t \in {<<di, dj, b>> \in ternary \X ternary \X Lits :
                      /\ b \in CoreOf(di, s.unit) \ {p} /\ -b \in CoreOf(dj, s.unit)
                      /\ Idx(rest(di, b)) # Idx(rest(dj, -b))}}
XorGates(s, p) ==
  LET flips(d) == {T \in SUBSET CoreOf(d, s.unit) : T # {} /\ Cardinality(T) % 2 = 0}
      flipped(d, T) == (CoreOf(d, s.unit) \ T) \cup Negated(T)
  IN  {{d} \cup {CHOOSE e \in WithCore(s, flipped(d, T)) : TRUE : T \in flips(d)} :
         d \in {d \in Occs(s, p) :
                  /\ Cardinality(CoreOf(d, s.unit)) \in 3..6
                  /\ \A T \in flips(d) : WithCore(s, flipped(d, T)) # {}}}

(* find_gate_clauses: the first kind that is found; hyper unary resolution *)
(* of binary clauses may give units on the way.                            *)
FindGates(s, p, ps, ns) ==
  IF ps = <<>> THEN {[s |-> s, gates |-> {}]}
  ELSE
  LET f == FindAndGate(FindAndGate(FindEquivalence(s, p, ps, ns), p, ps, ns), -p, ns, ps)
      t == f.s
  IN  IF f.gates # {} \/ t.unsat \/ Assigned(t, p) THEN {f}
      ELSE IF IfThenElses(t, p) # {} THEN {[s |-> t, gates |-> g] : g \in IfThenElses(t, p)}
      ELSE {[s |-> t, gates |-> g] : g \in IF XorGates(t, p) = {} THEN {{}} ELSE XorGates(t, p)}

(* try_to_eliminate_variable: the outcomes, with the clauses enqueued for *)
(* backward subsumption.                                                  *)
Pivot(s, x) == IF Cardinality(Occs(s, x)) > Cardinality(Occs(s, -x)) THEN -x ELSE x
Substituted(s, p, gates, ps, ns) ==
  UNION {IF ~count.go THEN {[s |-> count.s, queue |-> <<>>]}
         ELSE {[s |-> IF add.s.unsat THEN add.s ELSE MarkEliminated(WeakenClauses(add.s, p, gates), p),
                queue |-> add.added] : add \in AddResolvents(count.s, p, gates, ps, ns)} :
           count \in CountResolvents(s, p, gates, ps, ns)}
TryEliminate(s, x) ==
  LET p == Pivot(s, x)
  IN  UNION {UNION {IF f.s.unsat \/ Assigned(f.s, p) THEN {[s |-> f.s, queue |-> <<>>]}
                    ELSE Substituted(f.s, p, f.gates, ps, ns) :
                      f \in FindGates(s, p, ps, ns)} :
             <<ps, ns>> \in BySize(Occs(s, p)) \X BySize(Occs(s, -p))}

(* elim_round's first pass: satisfied clauses are garbage. *)
BeginElimRound(s) == Without(s, {c \in s.irr : SatisfiedBy(c, s.unit)})

(* The end of the round: mark_redundant_clauses_with_eliminated_variables_ *)
(* as_garbage; then elim connects the watches and propagates.              *)
Eliminated_Nothing(s, c) == FALSE
Eliminated(s, c) == \E l \in c : s.status[Idx(l)] \in {"ELIMINATED", "PURE"}
EndElimRound(s) ==
  Propagate([s EXCEPT !.red = {c \in @ : ~Eliminated(s, c)}])

-----------------------------------------------------------------------------
(* elim_backward_clause for the clause c, whose literals were marked, and  *)
(* the clauses todo that share its literal with the fewest occurrences:    *)
(* one of them, d, is garbage because it is satisfied or subsumed, loses a *)
(* literal, or gives a unit, which ends the work on c.  The flag satisfied *)
(* belongs to c and is not reset from one d to the next.                   *)
Idle == [c |-> {}, size |-> 0, todo |-> {}, satisfied |-> FALSE]
BeginBackward(s, c) ==
  {[c |-> c, size |-> Cardinality(Live(c, s.unit)), todo |-> Occs(s, best) \ {c},
    satisfied |-> FALSE] : best \in Live(c, s.unit)}

Clashing(s, c, d) == {l \in Unassigned(d, s.unit) : -l \in c}
Found(s, c, d) == Clashing(s, c, d) \cup (Unassigned(d, s.unit) \cap c)
ReplaceInQueue(queue, d, e) ==
  IF Contains(queue, d) THEN [i \in DOMAIN queue |-> IF queue[i] = d THEN e ELSE queue[i]]
  ELSE Append(queue, e)
(* The literals of d are scanned until one is true, a second one clashes,   *)
(* or all of c are found; their order decides which comes first when d is  *)
(* satisfied.  Then the flag decides, whoever set it.                      *)
Dropped(s, queue, b, d) == [s |-> Without(s, {d}), queue |-> queue, b |-> b]
Strengthened(s, queue, b, d) ==
  LET e == d \ Clashing(s, b.c, d)
  IN  [s |-> [s EXCEPT !.irr = (@ \ {d}) \cup {e}], queue |-> ReplaceInQueue(queue, d, e), b |-> b]
Resolved(s, queue, b, d) ==
  LET rest == Unassigned(d, s.unit) \ Clashing(s, b.c, d)
      sat  == SatisfiedBy(d, s.unit)
  IN  (IF sat THEN {Dropped(s, queue, [b EXCEPT !.satisfied = TRUE], d)} ELSE {})
        \cup (IF Cardinality(rest) > 1 THEN {Strengthened(s, queue, b, d)} ELSE {})
        \cup (IF sat \/ Cardinality(rest) # 1 THEN {}
              ELSE {[s |-> ElimPropagate(s, CHOOSE l \in rest : TRUE), queue |-> queue, b |-> Idle]})
BackwardSteps(s, queue, b, d) ==
  LET clash == Clashing(s, b.c, d)
      all   == Cardinality(Found(s, b.c, d)) = b.size
      sat   == SatisfiedBy(d, s.unit)
      next  == [b EXCEPT !.todo = @ \ {d}]
      kept  == [s |-> s, queue |-> queue, b |-> next]
  IN  IF d \notin s.irr \/ Cardinality(d) < b.size THEN {kept}
      ELSE (IF sat THEN {Dropped(s, queue, [next EXCEPT !.satisfied = TRUE], d)} ELSE {})
             \cup (IF Cardinality(clash) < 2 THEN {}
                   ELSE IF b.satisfied THEN {Dropped(s, queue, Idle, d)} ELSE {[kept EXCEPT !.b = Idle]})
             \cup (IF Cardinality(clash) > 1 \/ (sat /\ ~all) THEN {}
                   ELSE IF b.satisfied \/ (all /\ clash = {}) THEN {Dropped(s, queue, next, d)}
                   ELSE IF all THEN Resolved(s, queue, next, d) ELSE {kept})

=============================================================================
