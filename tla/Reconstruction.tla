--------------------------- MODULE Reconstruction ---------------------------
(***************************************************************************)
(* The solver keeps less than it was given.  Inprocessing removes clauses  *)
(* that are redundant only as long as a witness literal may be flipped;    *)
(* they are pushed on the extension stack with that witness.  A model of   *)
(* what is left is turned into a model of what was given by walking the    *)
(* stack backward (extend.cpp), and clauses whose witness is touched again *)
(* by a new clause or an assumption are put back before the next search    *)
(* (external.cpp, restore.cpp).                                            *)
(*                                                                         *)
(* The solver is a record s:                                               *)
(*   irr, red   the irredundant and the redundant (learned) clauses,       *)
(*   unit       the literals assigned at the root,                         *)
(*   unsat      the empty clause was derived,                              *)
(*   status     the status flag of every variable (flags.cpp),             *)
(*   stack      the extension stack, entries [witness, clause],            *)
(*   witness, tainted   the marks of external.cpp, sets of literals.       *)
(* The clause identifiers, the proof and the statistics are left out.      *)
(***************************************************************************)
EXTENDS Cnf

Active(s, l) == s.status[Idx(l)] = "ACTIVE"

(* mark_fixed for the variables of new root literals. *)
MarkFixed(s, ls) ==
  [s EXCEPT !.status = [v \in Var |-> IF v \in ls \/ -v \in ls THEN "FIXED" ELSE @[v]],
            !.unit = @ \cup ls]

(* propagate () and learn_empty_clause () at the root. *)
Propagate(s) ==
  LET u == Propagated(s.irr \cup s.red, s.unit)
  IN  CASE s.unsat -> s
        [] ~s.unsat /\ Conflicting(s.irr \cup s.red, u) -> [s EXCEPT !.unsat = TRUE]
        [] OTHER -> MarkFixed(s, u)

(* assign_unit; the literals are propagated by the caller. *)
AssignUnits(s, ls) ==
  IF Tautology(s.unit \cup ls) THEN [s EXCEPT !.unsat = TRUE] ELSE MarkFixed(s, ls)

(* External::internalize for one literal: mark_active, reactivate, taint. *)
Tainting_Same(s, l) == l \in s.witness
Tainting(s, l) == -l \in s.witness
Internalize(s, l) ==
  [s EXCEPT !.status[Idx(l)] = IF @ \in {"ACTIVE", "FIXED"} THEN @ ELSE "ACTIVE",
            !.tainted = IF Tainting(s, l) THEN @ \cup {l} ELSE @]
InternalizeAll(s, c) ==
  FoldSet(LAMBDA l, t : Internalize(t, l), s, c)

(* add_new_original_clause, at the root. *)
AddOriginal(s, c) ==
  LET d == Live(c, s.unit)
  IN  CASE s.unsat \/ Tautology(c) \/ SatisfiedBy(c, s.unit) -> s
        [] OTHER ->
             CASE d = {} -> [s EXCEPT !.unsat = TRUE]
               [] Cardinality(d) = 1 -> Propagate(AssignUnits(s, d))
               [] OTHER -> [s EXCEPT !.irr = @ \cup {d}]

(* External::add for the literals of a clause and the final 0; a restored *)
(* clause goes the same way.                                              *)
AddClause(s, c) == AddOriginal(InternalizeAll(s, c), c)

-----------------------------------------------------------------------------
(* push_clause_on_extension_stack and its variants. *)
Push(s, l, c) ==
  [s EXCEPT !.stack = Append(@, [witness |-> l, clause |-> c]),
            !.witness = @ \cup {l}]
PushAll(s, l, cs) == FoldSet(LAMBDA c, t : Push(t, l, c), s, cs)

(* External::restore_clauses: forward over the stack; a restored clause may *)
(* taint literals itself.  Then the taints are cleared and the witness bits *)
(* are set anew for what is still on the stack.                             *)
Restored(s, e) == -e.witness \in s.tainted
RestoreFrom_Untainting(s) ==
  FoldLeft(LAMBDA acc, e :
             IF Restored(s, e)
             THEN [s |-> AddClause(acc.s, e.clause), kept |-> acc.kept]
             ELSE [acc EXCEPT !.kept = Append(@, e)],
           [s |-> s, kept |-> <<>>], s.stack)
RestoreFrom(s) ==
  FoldLeft(LAMBDA acc, e :
             IF Restored(acc.s, e)
             THEN [s |-> AddClause(acc.s, e.clause), kept |-> acc.kept]
             ELSE [acc EXCEPT !.kept = Append(@, e)],
           [s |-> s, kept |-> <<>>], s.stack)
Restore(s) ==
  LET r == RestoreFrom(s)
  IN  Propagate([r.s EXCEPT !.stack = r.kept, !.tainted = {},
                            !.witness = {e.witness : e \in ToSet(r.kept)}])

(* External::extend: backward over the stack, the witness of a falsified *)
(* clause is made true.                                                  *)
Extended_Forward(stack, m) ==
  FoldLeft(LAMBDA n, e : IF e.clause \cap n = {} THEN SetTrue(n, e.witness) ELSE n,
           m, stack)
Extended(stack, m) ==
  FoldRight(LAMBDA e, n : IF e.clause \cap n = {} THEN SetTrue(n, e.witness) ELSE n,
            stack, m)

=============================================================================
