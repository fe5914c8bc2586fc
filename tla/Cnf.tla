-------------------------------- MODULE Cnf --------------------------------
(***************************************************************************)
(* Literals, clauses and root level propagation of the SAT solver the      *)
(* program is linked with, CaDiCaL (src/lib/cadical-2.1.0/src).            *)
(*                                                                         *)
(* A literal is a non-zero integer and -l its negation, as in the code; a  *)
(* clause is the set of its literals.  A set of literals u without a       *)
(* complementary pair stands for the values at the root: val (l) > 0 is    *)
(* l \in u, val (l) < 0 is -l \in u.  An assignment is such a set with one *)
(* literal of every variable.                                              *)
(*                                                                         *)
(* External and internal numbers of a variable are the same here: the      *)
(* tables e2i and i2e, and compact, which renumbers, are left out.         *)
(***************************************************************************)
EXTENDS Integers, FiniteSets, FiniteSetsExt, SequencesExt

CONSTANT Var
ASSUME VarAssumption == Var \subseteq Nat \ {0} /\ IsFiniteSet(Var)

Lits         == Var \cup {-v : v \in Var}
Idx(l)       == IF l > 0 THEN l ELSE -l
Negated(c)   == {-l : l \in c}
Tautology(c) == \E l \in c : -l \in c

Assignments == {{IF v \in T THEN v ELSE -v : v \in Var} : T \in SUBSET Var}
SetTrue(m, l)    == (m \ {-l}) \cup {l}
SatisfiesAll(m, cs) == \A c \in cs : c \cap m # {}
ModelsOf(cs, u) == {m \in Assignments : u \subseteq m /\ SatisfiesAll(m, cs)}
Implied(cs, u, c) == \A m \in ModelsOf(cs, u) : c \cap m # {}

(* What is left of a clause when its false literals are dropped. *)
Live(c, u)      == {l \in c : -l \notin u}
SatisfiedBy(c, u) == c \cap u # {}
Falsified(c, u) == Live(c, u) = {}

(* propagate at the root: the literals that clauses with all others false *)
(* force, from the literals u on, until nothing is forced any more.       *)
Forced(cs, u) == {l \in Lits : \E c \in cs : l \in c /\ \A k \in c \ {l} : -k \in u}
Propagated(cs, u) ==
  LET round[i \in 0..Cardinality(Var)] ==
        IF i = 0 THEN u ELSE LET r == round[i - 1] IN r \cup Forced(cs, r)
  IN  round[Cardinality(Var)]
Conflicting(cs, u) == Tautology(u) \/ \E c \in cs : Falsified(c, u)

=============================================================================
