------------------------------- MODULE MCDsPr -------------------------------
(* Instances of DsPr for TLC. *)
EXTENDS DsPr

(* Every framework over the arguments 0, 1 and 2; 3 is unattacked. *)
Small == {0, 1, 2}
SmallFrameworks == SUBSET (Small \X Small)

(* The loop of solve_dspr is entered only if the argument needs a defender  *)
(* that can be attacked without attacking the argument: here 0 is attacked  *)
(* by the self-attacker 2, and 1 and 3, which attack each other, may defend *)
(* it.                                                                      *)
Core     == {<<2, 0>>, <<2, 2>>, <<1, 3>>, <<3, 1>>}
Optional == {<<1, 2>>, <<3, 2>>, <<0, 2>>, <<0, 1>>, <<1, 0>>, <<3, 0>>, <<2, 3>>, <<1, 1>>}
DefendedFrameworks == {Core \cup D : D \in SUBSET Optional}

AllOfThese == SmallFrameworks \cup DefendedFrameworks
=============================================================================
