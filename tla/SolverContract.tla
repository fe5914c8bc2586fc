--------------------------- MODULE SolverContract ---------------------------
(***************************************************************************)
(* What an incremental SAT solver promises (ipasir.h, cadical.hpp): the    *)
(* answer is that of all clauses added so far under the assumptions made   *)
(* for this call, and a model that is read is one of these clauses and     *)
(* assumptions.                                                            *)
(***************************************************************************)
EXTENDS Cnf

CONSTANTS Clauses            \* the clauses that may be added
VARIABLES clauses,           \* all that were added
          assumed,           \* the assumptions of the next, or the last, call
          answer,            \* of the last call; "none" after anything else
          model              \* read so far: nothing, or a full assignment

vars == <<clauses, assumed, answer, model>>

Models == {m \in ModelsOf(clauses, {}) : assumed \subseteq m}

(* The assumptions of a call are gone with the next operation. *)
Pending == IF answer = "none" THEN assumed ELSE {}

Init == clauses \subseteq Clauses /\ assumed = {} /\ answer = "none" /\ model = {}

Add ==
  \E c \in Clauses :
    /\ clauses' = clauses \cup {c} /\ assumed' = Pending
    /\ answer' = "none" /\ model' = {}

Assume ==
  \E l \in Lits :
    /\ assumed' = Pending \cup {l}
    /\ answer' = "none" /\ model' = {} /\ UNCHANGED clauses

(* A call begins, possibly without assumptions ... *)
Ask ==
  /\ assumed' = Pending /\ answer' = "none" /\ model' = {} /\ UNCHANGED clauses

(* ... and is answered. *)
Answer ==
  /\ answer = "none"
  /\ answer' = IF Models = {} THEN "UNSATISFIED" ELSE "SATISFIED"
  /\ UNCHANGED <<clauses, assumed, model>>

Read ==
  /\ answer = "SATISFIED"
  /\ model' \in Models
  /\ UNCHANGED <<clauses, assumed, answer>>

Next == Add \/ Assume \/ Ask \/ Answer \/ Read
Spec == Init /\ [][Next]_vars

=============================================================================
