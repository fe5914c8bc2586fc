----------------------------- MODULE SingleShot -----------------------------
(***************************************************************************)
(* The tasks that need one or two calls of the solver and no refinement:   *)
(* solve_dcco (for DC-CO and DC-PR), solve_sest, solve_dcst and solve_dsst *)
(* (src/tasks/task_dc-co.cpp, task_se-st.cpp, task_dc-st.cpp,              *)
(* task_ds-st.cpp), on the framework the reader loaded.                    *)
(***************************************************************************)
EXTENDS Loader, Encodings, Ipasir

VARIABLES
  grounded,                     \* the grounded labelling
  solver,
  printed                       \* the lines on standard output

shot == <<grounded, solver, printed>>

Nothing == [in |-> {}, out |-> {}]

(* The attacks the encodings walk over. *)
Relation ==
  {e \in Arg \X Arg : \E k \in DOMAIN aaf.parents[e[2]] : aaf.parents[e[2]][k] = e[1]}

SingleShotTasks == {"DC-CO", "DC-PR", "SE-ST", "DC-ST", "DS-ST"}

(* The line "w" with the names of a set (raset__print_i23,                  *)
(* taas__lab_print_i23), and the one with the numbers of its members, which *)
(* three tasks print.                                                      *)
Names(S)       == {aaf.ids2arguments[i] : i \in S}
NamesLine(S)   == <<"w", Names(S)>>
NumbersLine(S) == <<"w", {Number(i) : i \in S}>>
Say(ls)        == printed' = printed \o ls

(* What the first call assumes, and what the second one of DS-ST does. *)
FirstQuery == IF task.track \in {"SE-ST", "DS-ST"} THEN {} ELSE Pos("in", {arg})

SecondQuery == Neg("in", {arg})

-----------------------------------------------------------------------------
Encode ==
  /\ pc = "solve" /\ task.track \in SingleShotTasks
  /\ solver' = NewSolver(IF task.track \in {"DC-CO", "DC-PR"} THEN ComModels(Relation, grounded)
                         ELSE StbModels(Relation, grounded), Nothing)
  /\ pc' = "first call"
  /\ UNCHANGED <<cmd, load, grounded, printed>>

(* A complete or stable extension (with the argument).  Without any stable  *)
(* extension, every argument is skeptically accepted.                       *)
Solve ==
  /\ pc = "first call"
  /\ \E s \in Results(Assume(solver, FirstQuery)) :
       /\ solver' = s
       /\ IF s.st = "UNSAT"
            THEN Say(IF task.track = "DS-ST" THEN <<<<"YES">>>> ELSE <<<<"NO">>>>) /\ pc' = "done"
          ELSE IF task.track = "DS-ST"
            THEN printed' = printed /\ pc' = "check"
          ELSE /\ Say(IF task.track = "SE-ST" THEN <<NamesLine(s.val.in)>>
                      ELSE <<<<"YES">>, NumbersLine(s.val.in)>>)
               /\ pc' = "done"
  /\ UNCHANGED <<cmd, load, grounded>>

(* DS-ST: an argument the grounded labelling decides needs no second call,  *)
(* and the extension found already refutes one that is out.                 *)
CheckGrounded ==
  /\ pc = "check"
  /\ IF arg \in grounded.in
       THEN Say(<<<<"YES">>>>) /\ pc' = "done"
     ELSE IF arg \in grounded.out
       THEN Say(<<<<"NO">>, NumbersLine(solver.val.in)>>) /\ pc' = "done"
       ELSE printed' = printed /\ pc' = "second call"
  /\ UNCHANGED <<cmd, load, grounded, solver>>

(* DS-ST: a stable extension without the argument refutes the query. *)
SolveAgain ==
  /\ pc = "second call"
  /\ \E s \in Results(Assume(solver, SecondQuery)) :
       /\ solver' = s
       /\ Say(IF s.st = "UNSAT" THEN <<<<"YES">>>>
              ELSE <<<<"NO">>, NumbersLine(s.val.in)>>)
  /\ pc' = "done"
  /\ UNCHANGED <<cmd, load, grounded>>

SingleShotNext ==
  \/ Encode
  \/ Solve
  \/ CheckGrounded
  \/ SolveAgain

=============================================================================
