----------------------------- MODULE MCIncSolver -----------------------------
(* Instances of IncSolver for TLC. *)
EXTENDS IncSolver

(* An equivalence and an AND gate, an if-then-else, an equivalence that     *)
(* hyper unary resolution finds, an XOR gate.                               *)
SmallFormulas == {
  {{1, -2}, {-1, 2}, {1, 3}, {-2, -3, 4}},
  {{-1, 2}, {-1, 3}, {1, -2, -3}, {1, 4}},
  {{1, 2, 3}, {1, -2, 4}, {-1, 2, -3}, {-1, -2, -4}},
  {{1, 2}, {-1, 3}, {-2, 3}, {1, 2, -4}},
  {{1, 2, 3}, {1, -2, -3}, {-1, 2, -3}, {-1, -2, 3}, {3, 4}} }
SmallPool == {{-3}, {-1, -4}}
SmallAssumptions == {1, -4}
AllTechniques == {"learn", "reduce", "subsume", "transred", "deduplicate", "probe", "ternary",
                  "vivify", "decompose", "elim"}

(* Hyper unary resolution on 1 gives -2 after its literals were marked, so  *)
(* that 3 is found only when resolvents are counted, and 6 only when they   *)
(* are added; 6 is then true but not propagated.  In the first formula it   *)
(* satisfies a clause of what looks like 7 = (8 ? -10 : -9), in the second  *)
(* a clause with 7, which is in the resolvent {7, 8}.                       *)
LateUnit == {{1, -2}, {-1, -2}, {1, 4, 6}, {-1, 5, 6}, {1, 2, 3}, {-1, 2, 3}, {-3, -4}, {-3, -5}}
GateFormula ==
  LateUnit \cup {{7, 8, 9, 6}, {7, -8, 10}, {-7, 8, -9}, {-7, -8, -10}, {7, 8, 5}, {-7, 8, 11}}
BackwardFormula ==
  LateUnit \cup {{1, 7}, {-1, 8}, {7, 6, -8}, {7, 9}, {8, -2, 9}, {8, -4, 9}, {8, -5, 9}}
GateFormulas == {GateFormula}
BackwardFormulas == {BackwardFormula}
None == {}
Elim == {"elim"}
=============================================================================
