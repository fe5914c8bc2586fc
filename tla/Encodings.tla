----------------------------- MODULE Encodings ------------------------------
(***************************************************************************)
(* The SAT encodings of src/tasks/task_general.cpp, as the set of models   *)
(* of their clauses: one conjunct per clause (or per loop of clauses), for *)
(* every argument.  R is the attack relation, G the grounded labelling     *)
(* [in, out] whose labels the encodings build in.                          *)
(***************************************************************************)
EXTENDS AF

Assignments == [in : SUBSET Arg, out : SUBSET Arg]

(* fullcovered / the result of the add_*TestClauses functions: the grounded *)
(* labelling leaves no argument undecided.                                  *)
AllGrounded(G) == \A a \in Arg : a \in G.in \/ a \in G.out

InOutExclusive(m, a) == ~(a \in m.in /\ a \in m.out)

(* An argument the grounded labelling decides gets a unit clause only; for *)
(* any other, in makes all parents out, and out makes some parent in.      *)
AdmClauses(R, G, m, a) ==
  /\ InOutExclusive(m, a)
  /\ a \in G.in => a \in m.in
  /\ a \in G.out \ G.in => a \in m.out
  /\ a \notin G.in \cup G.out =>
       /\ a \in m.in => Attackers(R, a) \subseteq m.out
       /\ a \in m.out => \E b \in Attackers(R, a) : b \in m.in

AdmModels(R, G) == {m \in Assignments : \A a \in Arg : AdmClauses(R, G, m, a)}

(* Conflict-freeness: a parent that is in makes the argument out, and out   *)
(* makes some parent in.  The grounded labels are not built in.             *)
CfClauses(R, m, a) ==
  /\ InOutExclusive(m, a)
  /\ \A b \in Attackers(R, a) : b \in m.in => a \in m.out
  /\ a \in m.out => \E b \in Attackers(R, a) : b \in m.in

CfModels(R) == {m \in Assignments : \A a \in Arg : CfClauses(R, m, a)}

(* Two admissible sets, one attacking the other: in and out belong to the   *)
(* attacking set, in_attacked and out_attacked to the attacked one.         *)
PairOf(m, n) ==
  [in |-> m.in, out |-> m.out, in_attacked |-> n.in, out_attacked |-> n.out]

(* Some attack variable is true: the attacker is in, the attacked           *)
(* in_attacked.  (The attack variables themselves are determined by these.) *)
AttackClause(R, p) == \E e \in R : e[1] \in p.in /\ e[2] \in p.in_attacked

AttAdmModels(R, G) ==
  {p \in {PairOf(m, n) : m \in AdmModels(R, G), n \in AdmModels(R, G)} :
     AttackClause(R, p)}

(* Completeness: both directions for in and for out. *)
ComClauses(R, G, m, a) ==
  /\ InOutExclusive(m, a)
  /\ a \in G.in => a \in m.in
  /\ a \in G.out \ G.in => a \in m.out
  /\ a \notin G.in \cup G.out =>
       /\ a \in m.in => Attackers(R, a) \subseteq m.out
       /\ \A b \in Attackers(R, a) : b \in m.in => a \in m.out
       /\ a \in m.out => \E b \in Attackers(R, a) : b \in m.in
       /\ Attackers(R, a) \subseteq m.out => a \in m.in

ComModels(R, G) == {m \in Assignments : \A a \in Arg : ComClauses(R, G, m, a)}

(* Stability uses the in variables only; the clause that asks for the       *)
(* argument or one of its parents is added only if it has parents.          *)
StbClauses(R, G, m, a) ==
  /\ a \in G.in => a \in m.in
  /\ a \in G.out \ G.in => a \notin m.in
  /\ a \in m.in => \A b \in Attackers(R, a) : b \notin m.in
  /\ Attackers(R, a) # {} => a \in m.in \/ \E b \in Attackers(R, a) : b \in m.in

StbModels(R, G) ==
  {m \in [in : SUBSET Arg, out : {{}}] : \A a \in Arg : StbClauses(R, G, m, a)}

=============================================================================
