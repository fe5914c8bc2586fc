------------------------------- MODULE Driver -------------------------------
(***************************************************************************)
(* taas__solve (src/taas/taas_basics.c) and solve_switch                   *)
(* (src/taas-fudge.cpp): the grounded labelling, the queries it settles,   *)
(* and the call of the function for the task.  The grounded labelling and  *)
(* the tasks that have a module of their own are one step here, with the   *)
(* result that module shows for them.                                      *)
(***************************************************************************)
EXTENDS SingleShot, FiniteSets

state == <<cmd, load, shot>>

(* The queries the grounded labelling may settle: all whose extensions      *)
(* contain the grounded one.  A name with a suffix is the same definition   *)
(* with a slip in it; no specification uses it, the properties are tried    *)
(* against it.                                                             *)
CredulousIn == {"DC-CO", "DC-PR", "DC-SST", "DC-ID"}
CredulousOut == CredulousIn \cup {"DC-ST"}
SkepticalIn_WithStage == {"DS-PR", "DS-ST", "DS-SST", "DS-ID", "DS-STG"}
SkepticalIn == {"DS-PR", "DS-ST", "DS-SST", "DS-ID"}
SkepticalOut == {"DS-PR", "DS-SST", "DS-ID"}

(* The task that computes any extension for the witness. *)
Search == [t \in {"DC-PR", "DS-PR", "DC-SST", "DS-SST", "DC-ID", "DS-ID"} |->
             CASE t \in {"DC-PR", "DS-PR"}   -> "SE-PR"
               [] t \in {"DC-SST", "DS-SST"} -> "SE-SST"
               [] OTHER                      -> "SE-ID"]

Finish(ls) == Say(ls) /\ pc' = "done" /\ UNCHANGED <<cmd, load, grounded, solver>>

(* Print the answer, and call the switch again for the witness. *)
SearchWitness(ls) ==
  /\ Say(ls)
  /\ task' = [task EXCEPT !.track = Search[@]]
  /\ pc' = "solve"
  /\ UNCHANGED <<argv, at, param, load, grounded, solver>>

YesNo(b) == IF b THEN <<"YES">> ELSE <<"NO">>

-----------------------------------------------------------------------------
DriverInit ==
  /\ grounded = Nothing
  /\ solver = NewSolver({}, Nothing)
  /\ printed = << >>

(* A file of the other format may have any number of arguments.  The model *)
(* has those of Arg, and stops at a framework of another size.             *)
OtherSize ==
  /\ pc = "ground" /\ aaf.number_of_arguments # Cardinality(Arg)
  /\ pc' = "other size"
  /\ UNCHANGED state

(* taas__compute_grounded; of the attackers, those not out stay counted. *)
ComputeGrounded ==
  /\ pc = "ground" /\ aaf.number_of_arguments = Cardinality(Arg)
  /\ \E G \in Assignments :
       /\ GroundedLabels(Relation, G.in, G.out)
       /\ grounded' = G
       /\ aaf' = [aaf EXCEPT !.number_of_attackers =
                    [a \in Arg |-> Cardinality({k \in DOMAIN aaf.parents[a] : aaf.parents[a][k] \notin G.out})]]
  /\ pc' = "shortcut"
  /\ UNCHANGED <<cmd, disk, row, arg, solver, printed>>

PrintGrounded ==
  /\ pc = "shortcut" /\ task.track \in {"SE-GR", "SE-CO"}
  /\ Finish(<<NamesLine(grounded.in)>>)

AnswerFromGrounded ==
  /\ pc = "shortcut" /\ task.track \in {"DC-GR", "DS-GR", "DS-CO"}
  /\ Finish(<<YesNo(arg \in grounded.in), NamesLine(grounded.in)>>)

(* The argument is in the grounded extension. *)
YesCredulous ==
  /\ pc = "shortcut" /\ task.track \in CredulousIn /\ arg \in grounded.in
  /\ IF task.track = "DC-CO" THEN Finish(<<<<"YES">>, NamesLine(grounded.in)>>)
     ELSE SearchWitness(<<<<"YES">>>>)

(* The grounded extension attacks the argument. *)
NoCredulous ==
  /\ pc = "shortcut" /\ task.track \in CredulousOut /\ arg \in grounded.out
  /\ Finish(<<<<"NO">>>>)

YesSkeptical ==
  /\ pc = "shortcut" /\ task.track \in SkepticalIn /\ arg \in grounded.in
  /\ Finish(<<<<"YES">>>>)

NoSkeptical ==
  /\ pc = "shortcut" /\ task.track \in SkepticalOut /\ arg \in grounded.out
  /\ SearchWitness(<<<<"NO">>>>)

Settled ==
  \/ task.track \in {"SE-GR", "SE-CO", "DC-GR", "DS-GR", "DS-CO"}
  \/ task.track \in CredulousIn \cup SkepticalIn /\ arg \in grounded.in
  \/ task.track \in CredulousOut \cup SkepticalOut /\ arg \in grounded.out

DoSolve ==
  /\ pc = "shortcut" /\ ~Settled
  /\ pc' = "solve"
  /\ UNCHANGED state

-----------------------------------------------------------------------------
(* The tasks with a function, by the encoding it starts from.              *)
AdmTasks == {"SE-PR", "DS-PR", "EA-PR", "CE-PR", "SE-ID", "DC-ID", "DS-ID", "SE-SST", "DC-SST", "DS-SST"}
ComTasks == {"DC-CO", "DC-PR", "CE-CO"}
StbTasks == {"SE-ST", "DC-ST", "DS-ST", "CE-ST"}
CfTasks  == {"SE-STG", "DC-STG", "DS-STG"}

(* solve_switch returns from any other track without a word. *)
UnknownTask ==
  /\ pc = "solve" /\ task.track \notin AdmTasks \cup ComTasks \cup StbTasks \cup CfTasks
  /\ Finish(<< >>)

(* The encodings gather the attackers of an argument, as often as they are  *)
(* listed, in a buffer with a place for every argument; those for complete  *)
(* and admissible sets only do so for undecided arguments.  Writing past    *)
(* its end may do no harm (the actions below), or any.                      *)
Overrun ==
  /\ pc = "solve"
  /\ \E a \in Arg :
       /\ Len(aaf.parents[a]) > aaf.number_of_arguments
       /\ \/ task.track \in StbTasks \cup CfTasks
          \/ task.track \in AdmTasks \cup ComTasks /\ a \notin grounded.in \cup grounded.out
  /\ pc' = "undefined"
  /\ UNCHANGED state

(* The tasks of the other modules: PreferredSearch, RangeMax, SuperCore,   *)
(* EaPr, Counting, DsPr and RangeQuery.                                    *)

SolveSearch ==
  /\ pc = "solve" /\ task.track \in {"SE-PR", "SE-SST", "SE-STG", "SE-ID"}
  /\ \E S \in SUBSET Arg :
       /\ CASE task.track = "SE-PR"  -> Preferred(Relation, S)
            [] task.track = "SE-SST" -> SemiStable(Relation, S)
            [] task.track = "SE-STG" -> Stage(Relation, S)
            [] OTHER                 -> IsIdeal(Relation, S)
       /\ Finish(<<NamesLine(S)>>)

SolveIdealQuery ==
  /\ pc = "solve" /\ task.track \in {"DC-ID", "DS-ID"}
  /\ \E S \in SUBSET Arg : IsIdeal(Relation, S) /\ Finish(<<YesNo(arg \in S), NamesLine(S)>>)

SolveEnumeration ==
  /\ pc = "solve" /\ task.track = "EA-PR"
  /\ Finish(<<<<"[", Names(SkepticallyPreferred(Relation))>>>>)

SolveCounting ==
  /\ pc = "solve" /\ task.track \in {"CE-ST", "CE-CO", "CE-PR"}
  /\ LET counted == {S \in SUBSET Arg :
                       CASE task.track = "CE-ST" -> Stable(Relation, S)
                         [] task.track = "CE-CO" -> Complete(Relation, S)
                         [] OTHER                -> Preferred(Relation, S)}
     IN  Finish(<<<<"count", Cardinality(counted)>>>>)

(* solve_dspr: NO comes with a preferred extension that lacks the argument. *)
SolveDsPr ==
  /\ pc = "solve" /\ task.track = "DS-PR"
  /\ \/ /\ \A S \in SUBSET Arg : Preferred(Relation, S) => arg \in S
        /\ Finish(<<<<"YES">>>>)
     \/ \E S \in SUBSET Arg :
          Preferred(Relation, S) /\ arg \notin S /\ Finish(<<<<"NO">>, NamesLine(S)>>)

(* solve_dcsst, solve_dssst, solve_dcstg, solve_dsstg: with nothing         *)
(* undecided the grounded extension is the only one; only DS-SST prints no  *)
(* set with YES then.                                                      *)
RangeExtension(S) ==
  IF task.track \in {"DC-SST", "DS-SST"} THEN SemiStable(Relation, S) ELSE Stage(Relation, S)

SolveRangeGrounded ==
  /\ pc = "solve" /\ task.track \in {"DC-SST", "DS-SST", "DC-STG", "DS-STG"}
  /\ AllGrounded(grounded)
  /\ Finish(<<YesNo(arg \in grounded.in)>>
              \o IF task.track = "DS-SST" /\ arg \in grounded.in THEN << >>
                 ELSE <<NamesLine(grounded.in)>>)

(* A set that settles the query is printed; without one the other answer    *)
(* is.                                                                     *)
SolveRangeQuery ==
  /\ pc = "solve" /\ task.track \in {"DC-SST", "DS-SST", "DC-STG", "DS-STG"}
  /\ ~AllGrounded(grounded)
  /\ LET dc == task.track \in Credulous
         Settles(S) == RangeExtension(S) /\ ((arg \in S) = dc)
     IN  \/ \E S \in SUBSET Arg : Settles(S) /\ Finish(<<YesNo(dc), NamesLine(S)>>)
         \/ (\A S \in SUBSET Arg : ~Settles(S)) /\ Finish(<<YesNo(~dc)>>)

(* The loops for the stage queries read the inner solver after changing it, *)
(* which the library may answer by ending the program (RangeQuery).        *)
StageAbort ==
  /\ pc = "solve" /\ task.track \in {"DC-STG", "DS-STG"} /\ ~AllGrounded(grounded)
  /\ pc' = "aborted"
  /\ UNCHANGED state

DriverNext ==
  \/ OtherSize
  \/ ComputeGrounded
  \/ PrintGrounded
  \/ AnswerFromGrounded
  \/ YesCredulous
  \/ NoCredulous
  \/ YesSkeptical
  \/ NoSkeptical
  \/ DoSolve
  \/ UnknownTask
  \/ Overrun
  \/ SolveSearch
  \/ SolveIdealQuery
  \/ SolveEnumeration
  \/ SolveCounting
  \/ SolveDsPr
  \/ SolveRangeGrounded
  \/ SolveRangeQuery
  \/ StageAbort

=============================================================================
