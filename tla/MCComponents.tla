---------------------------- MODULE MCComponents ----------------------------
(***************************************************************************)
(* An instance of Grounded, Counting and RaSet for TLC.  They share no     *)
(* state.  One of them has all its inputs, while the other two have the    *)
(* simplest; they take their steps one after the other.                    *)
(***************************************************************************)
EXTENDS Grounded, Counting, RaSet

(* Grounded: every framework over the arguments 0, 1 and 2, no line        *)
(* repeated; 3 is an argument without attacks.                             *)
Small == {0, 1, 2}
SmallFrameworks == SUBSET (Small \X Small \X {1})

(* Longer ones on four arguments: defence along a chain, an argument       *)
(* reinstated twice over, two accepted arguments with a common child, a    *)
(* self-attack, an even cycle that is decided and one that is not.  Any of *)
(* their lines may be given twice.                                         *)
Shapes ==
  { {<<0, 1>>, <<1, 2>>, <<2, 3>>, <<0, 3>>},
    {<<0, 1>>, <<0, 2>>, <<1, 3>>, <<2, 3>>, <<3, 3>>},
    {<<0, 2>>, <<1, 2>>, <<2, 3>>, <<3, 2>>},
    {<<0, 1>>, <<1, 2>>, <<2, 3>>, <<3, 2>>, <<1, 0>>},
    {<<0, 1>>, <<1, 1>>, <<1, 2>>, <<2, 3>>, <<3, 1>>} }

Repeated ==
  UNION {{{<<e[1], e[2], 1>> : e \in R} \cup {<<e[1], e[2], 2>> : e \in D} :
             D \in SUBSET R} : R \in Shapes}

Files == SmallFrameworks \cup Repeated

(* Counting: the same relations; 3 is in every extension, or attacks itself*)
(* and is in none, so that there may be no set but the empty one.          *)
Relations == {R \cup D : R \in SUBSET (Small \X Small), D \in {{}, {<<3, 3>>}}}

-----------------------------------------------------------------------------
SimpleFile  == attacks = {<<a, a, 1>> : a \in Small}
SimpleCount == relation = {} /\ track = "CE-ST"
SimpleArrays ==
  /\ elements_arr = [e \in Element |-> e]
  /\ elements_arr_inverted = [e \in Element |-> e]

ComponentsInit ==
  \/ SimpleCount /\ SimpleArrays /\ Init /\ CountingInit /\ RaSetInit
  \/ SimpleFile /\ SimpleArrays /\ Init /\ CountingInit /\ RaSetInit
  \/ SimpleFile /\ SimpleCount /\ Init /\ CountingInit /\ RaSetInit

CountingStep == CountingNext /\ UNCHANGED <<vars, raSetVars>>
GroundedStep == phase = "print" /\ Next /\ UNCHANGED <<countingVars, raSetVars>>
RaSetStep    == /\ SimpleFile /\ SimpleCount /\ phase = "print" /\ pc = "done"
                /\ RaSetNext /\ UNCHANGED <<vars, countingVars>>

ComponentsSpec ==
  /\ ComponentsInit
  /\ [][CountingStep \/ GroundedStep \/ RaSetStep]_<<vars, countingVars, raSetVars>>
  /\ WF_countingVars(CountingStep) /\ WF_vars(GroundedStep)

=============================================================================
