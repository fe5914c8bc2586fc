------------------------------ MODULE MCSearch ------------------------------
(* Instances of Search for TLC. *)
EXTENDS Search

(* The two literals that a level has in the clause learned shrink to one;   *)
(* those of the formula below cannot be shrunk and are minimized instead.   *)
Shrinks   == << <<-1,2>>, <<-2,3>>, <<-2,4>>, <<-5,-3,6>>, <<-5,-4,-6>> >>
Minimizes == << <<-2,4>>, <<-2,-1,5>>, <<-3,-2,-4,6>>, <<-3,-5,-6>> >>

(* A learned clause is subsumed by one learned later. *)
Subsumes  == << <<-2,-3>>, <<4,5>>, <<2,5>>, <<1,2,6>>, <<1,2,3,4>>, <<-5,-6>>, <<-5,-4>> >>

(* A learned clause is strengthened, subsumes a clause of the input and     *)
(* takes its place.                                                         *)
TakesOne  == << <<-4,1>>, <<-4,-2,3>>, <<3,4,-2>>, <<-4,-2,-1>>, <<2,4,-1>>, <<-2,-3>>,
                <<-3,-4,2,1>>, <<4,1,-3>>, <<2,-1,-4,-3>> >>

(* Units assigned out of order, conflicts on a level below the current one. *)
Units     == << <<4,-5,3>>, <<-1,-5,-2>>, <<1,3>>, <<-1,4>>, <<-3,-2,5>>, <<-3,1>>,
                <<2,-3>>, <<-1,3,-2>> >>
Forces    == << <<-5,1,-4>>, <<2,1>>, <<-5,-3>>, <<-3,-5,1>>, <<5,-1>>, <<-1,-3,5>>,
                <<4,-2,1>>, <<1,-4>>, <<4,5,-3>>, <<3,1,2>>, <<-5,3>> >>

(* A false literal is removed from a clause that stays. *)
Flushes   == << <<1,-2,-4>>, <<-1,-4>>, <<-4,-2,-1,-3>>, <<4,2>>, <<2,1,-3,-4>>, <<3,-1,4>>,
                <<-2,-1,3>>, <<-4,1,2>> >>

(* Solved by the last lucky strategy, and by none. *)
Horn      == << <<-2,-1,-3>>, <<-2,1>>, <<2,1>>, <<-2,3,-1>>, <<3,-1,2>> >>
NoLuck    == << <<3,2>>, <<-2,4>>, <<2,-3>>, <<-4,-2,-1>>, <<-2,-3,-4>> >>

Samples == {<<Shrinks, <<1,5>>>>, <<Minimizes, <<1,2,3>>>>, <<Subsumes, <<-1>>>>,
            <<TakesOne, <<-2>>>>, <<Units, <<6>>>>, <<Units, <<4,-5>>>>, <<Forces, <<6>>>>,
            <<Flushes, <<3>>>>, <<Horn, <<>>>>,
            <<NoLuck, <<>>>>}
=============================================================================
