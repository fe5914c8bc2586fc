---------------------------- MODULE MCCoreTasks -----------------------------
(* An instance of EaPr for TLC. *)
EXTENDS EaPr

(* With all their lines, 0 and 5 are in the preferred super-core but not in *)
(* the ideal extension: 0 has no defender against the self-attacker 1 but 2,*)
(* which 3 attacks back, and 5 has 0 as its only defender against the self- *)
(* attacker 4.  If 5 comes before 0 in the array, the second pass takes it  *)
(* out.  Dropping lines gives frameworks that are decided by the grounded   *)
(* labelling, or that have a larger ideal extension.                        *)
Chain ==
  { <<1, 0>>, <<2, 1>>, <<2, 3>>, <<3, 2>>, <<2, 4>>, <<0, 4>>, <<4, 5>> }
ChainFrameworks == {{<<1, 1>>, <<4, 4>>} \cup D : D \in SUBSET Chain}

(* Everything is attacked by an admissible set: the super-core is empty. *)
Conflicts == {<<0, 1>>, <<1, 0>>, <<2, 3>>, <<3, 2>>, <<4, 5>>, <<5, 4>>}

IdealFrameworks == ChainFrameworks \cup {Conflicts}

(* 2 attacks itself, 0 and 4, and 1 and 3 attack each other.  Depending on  *)
(* the other lines, 0 and 4 are accepted, one after the other, because      *)
(* either of 1 and 3 defends them, or only one of the two is, or 0 itself   *)
(* takes part in a conflict.                                                *)
Core     == {<<2, 0>>, <<2, 4>>, <<2, 2>>, <<1, 3>>, <<3, 1>>}
Optional == {<<1, 2>>, <<3, 2>>, <<3, 0>>, <<0, 1>>}
DefendedFrameworks == {Core \cup D : D \in SUBSET Optional}

(* Of 1, 3 and 4, which exclude each other, any may defend 0, or all but 4: *)
(* then {3} and {1} attack a set with 0 but can be extended by it, while {4}*)
(* refutes that 0 is in every preferred extension.                          *)
Threesome   == {<<a, b>> : a, b \in {1, 3, 4}} \ {<<a, a>> : a \in Arg}
Refutations == {{<<2, 0>>, <<2, 2>>, <<1, 2>>, <<3, 2>>} \cup Threesome \cup D :
                  D \in SUBSET {<<4, 2>>}}

(* All accepted, no conflict about the core, and an empty super-core. *)
Pairs == {<<0, 1>>, <<1, 0>>, <<2, 3>>, <<3, 2>>, <<3, 4>>, <<4, 3>>}
EarlyFrameworks == {{}, {<<0, 1>>, <<1, 0>>}, Pairs}

EaFrameworks == DefendedFrameworks \cup Refutations \cup EarlyFrameworks

(* The frameworks for solve_eapr use five arguments; the sixth is undecided *)
(* by itself.                                                               *)
AllOfThese ==
  [t \in {"ID", "EA"} |->
     IF t = "ID" THEN IdealFrameworks ELSE {D \cup {<<5, 5>>} : D \in EaFrameworks}]
=============================================================================
