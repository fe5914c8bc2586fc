---------------------------- MODULE MCRangeTasks ----------------------------
(* Instances of RangeQuery for TLC. *)
EXTENDS RangeQuery

(* A round of the outer loop that ends with a blocking clause, while an     *)
(* extension that settles the query is still to be found, takes five        *)
(* arguments for semi-stable and four for stage semantics.  In the first    *)
(* core, with self-attacks of 2 and 4, {0} is the most that can be decided  *)
(* without 3 but less than {0, 3}; {1}, semi-stable too, refutes that 3 is  *)
(* in every semi-stable extension.                                          *)
SstCore == {<<0, 1>>, <<1, 0>>, <<0, 4>>, <<1, 2>>, <<4, 3>>}
StgCore == {<<0, 1>>, <<1, 1>>, <<0, 3>>, <<2, 0>>}
BlockFrameworks ==
  {SstCore \cup D : D \in SUBSET {<<2, 2>>, <<4, 4>>, <<2, 3>>}}
    \cup {StgCore \cup D : D \in SUBSET {<<4, 4>>, <<4, 3>>}}

(* Every framework over three arguments, up to their names: of those that   *)
(* differ only in names, the one whose lines have the least sum.  The other *)
(* two arguments are undecided by themselves.                               *)
Three == {0, 1, 2}
AllThree == SUBSET (Three \X Three)
Renamings == {f \in [Three -> Three] : \A a, b \in Three : f[a] = f[b] => a = b}
Renamed(D, f) == {<<f[e[1]], f[e[2]]>> : e \in D}
Weight(D) == LET w[a \in 0 .. 3, b \in 0 .. 2] ==
                   IF a = 3 THEN 0
                   ELSE (IF <<a, b>> \in D THEN 2 ^ (3 * a + b) ELSE 0)
                        + IF b = 2 THEN w[a + 1, 0] ELSE w[a, b + 1]
             IN  w[0, 0]
Representatives ==
  {D \in AllThree : \A f \in Renamings : Weight(D) <= Weight(Renamed(D, f))}
ThreeFrameworks == {D \cup {<<3, 3>>, <<4, 4>>} : D \in Representatives}

(* The grounded labelling decides everything. *)
DecidedFrameworks == {{}, {<<0, 1>>, <<1, 2>>, <<2, 3>>, <<3, 4>>}}

AllOfThese == BlockFrameworks \cup ThreeFrameworks \cup DecidedFrameworks
=============================================================================
