------------------------------- MODULE Ipasir -------------------------------
(***************************************************************************)
(* The incremental SAT solver as its clients see it: the wrapper functions *)
(* of src/sat/ipasir_solver.cpp with the contract of src/ipasir.h.  The    *)
(* search itself is the library's; here it picks any model.                *)
(*                                                                         *)
(* A solver is a value, so that a module can hold several:                 *)
(*   db   the assignments that satisfy every clause added so far,          *)
(*   asm  the literals assumed for the next call of ipasir_solve,          *)
(*   st   the state of the contract, "INPUT", "SAT" or "UNSAT",            *)
(*   val  the model found last; readable only while st = "SAT".            *)
(*                                                                         *)
(* The integer variables in_vars[a] and out_vars[a] of the clients are     *)
(* kept as the pairs they stand for: an assignment is a record of sets of  *)
(* arguments, m.in holding the a with in_vars[a] true and m.out those with *)
(* out_vars[a] true.  A literal is <<field, argument, sign>>.              *)
(***************************************************************************)

Holds(m, l)     == (l[2] \in m[l[1]]) = l[3]
Satisfies(m, c) == \E l \in c : Holds(m, l)

(* The literals in_vars[a] (or out_vars[a]) for the members a of S, *)
(* positive and negated.                                            *)
Pos(field, S) == {<<field, a, TRUE>> : a \in S}
Neg(field, S) == {<<field, a, FALSE>> : a \in S}

-----------------------------------------------------------------------------
(* sat__init and the first clauses: an encoding given by its models. *)
NewSolver(models, any) == [db |-> models, asm |-> {}, st |-> "INPUT", val |-> any]

(* sat__addClause* and the sequences of sat__add that end in 0: one clause, *)
(* and the solver goes back to INPUT.                                       *)
AddClause(s, c) ==
  [s EXCEPT !.db = {m \in @ : Satisfies(m, c)}, !.st = "INPUT"]

(* Several clauses in a row. *)
AddClauses(s, cs) ==
  IF cs = {} THEN s
  ELSE [s EXCEPT !.db = {m \in @ : \A c \in cs : Satisfies(m, c)}, !.st = "INPUT"]

(* A unit clause for each literal of ls. *)
Units(ls) == {{l} : l \in ls}

(* sat__assume for every literal of ls. *)
Assume(s, ls) ==
  IF ls = {} THEN s ELSE [s EXCEPT !.asm = @ \cup ls, !.st = "INPUT"]

(* sat__solve: 10 with some model of the clauses and the assumptions, 20 if *)
(* there is none.  The assumptions are gone afterwards.  A name with a      *)
(* suffix is the same operator with a slip in it; no specification uses it, *)
(* the properties are tried against it.                                     *)
Models(s)  == {m \in s.db : \A l \in s.asm : Holds(m, l)}
Results_KeepAssumptions(s) ==
  IF Models(s) = {} THEN {[s EXCEPT !.st = "UNSAT"]}
  ELSE {[s EXCEPT !.st = "SAT", !.val = m] : m \in Models(s)}
Results(s) ==
  IF Models(s) = {} THEN {[s EXCEPT !.asm = {}, !.st = "UNSAT"]}
  ELSE {[s EXCEPT !.asm = {}, !.st = "SAT", !.val = m] : m \in Models(s)}

(* sat__get is defined only in state SAT; it is the client's duty. *)
Readable(s) == s.st = "SAT"

=============================================================================
