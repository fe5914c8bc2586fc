-------------------------------- MODULE EaPr --------------------------------
(***************************************************************************)
(* solve_eapr (src/tasks/task_ea-pr.cpp): all arguments that are in every  *)
(* preferred extension.  After the loops of SuperCore, acc holds the ideal *)
(* extension.  A third loop collects in spsc the other members of psc that *)
(* are in some admissible set, and a fourth tests them one by one, the way *)
(* DsPr does, but with acc, which grows by every argument accepted, fixed  *)
(* into both solvers of the later tests.                                   *)
(***************************************************************************)
EXTENDS SuperCore

VARIABLES
  spsc,                 \* the arguments to test
  todo,                 \* those not tested yet
  arg,                  \* the one being tested
  admTest, attAdmTest   \* the solvers of its test

test == <<arg, admTest, attAdmTest>>
tests == <<spsc, todo, test>>

(* A name with a suffix is the same definition with a slip in it; no        *)
(* specification uses it, the properties are tried against it.              *)
Candidates_WithAcc == psc \ spsc
Candidates == (psc \ Members) \ spsc

Missing_OfPsc(m) == psc \ m.in
Missing(m) == Arg \ m.in

Fixed(s) == AddClauses(s, Units(Pos("in", Members) \cup Pos("in_attacked", Members)))

FreedPair == NewSolver({}, PairOf(Nothing, Nothing))

-----------------------------------------------------------------------------
EaInit ==
  /\ spsc = {} /\ todo = {}
  /\ arg = CHOOSE a \in Arg : TRUE
  /\ admTest = Freed /\ attAdmTest = FreedPair

(* The first loop took nothing out. *)
PrintGrounded ==
  /\ track = "EA" /\ pc = "core" /\ onerunonly
  /\ result' = grounded.in
  /\ pc' = "done"
  /\ UNCHANGED <<input, core, walk, spsc, todo, test>>

(* The grounded extension goes (back) into psc. *)
KeepDefensible ==
  /\ track = "EA" /\ pc = "core" /\ ~onerunonly
  /\ psc' = psc \cup grounded.in
  /\ IF psc' = {}
       THEN result' = psc' /\ pc' = "done" /\ UNCHANGED walk
       ELSE StartWalk(psc') /\ UNCHANGED result
  /\ UNCHANGED <<input, solver, onerunonly, spsc, todo, test>>

(* acc is the ideal extension; a new solver for the third loop. *)
WalkDone ==
  /\ track = "EA" /\ pc = "walk" /\ i > Len(accepted) /\ ~changed
  /\ solver' = NewSolver(AdmModels(relation, grounded), Nothing)
  /\ pc' = "ask more"
  /\ UNCHANGED <<input, psc, onerunonly, walk, spsc, todo, test, result>>

(* An admissible set with one of the candidates not seen yet. *)
AskMore ==
  /\ pc = "ask more"
  /\ IF Candidates = {}
       THEN pc' = "next" /\ todo' = spsc /\ solver' = Freed
       ELSE pc' = "solve more" /\ todo' = todo
            /\ solver' = AddClause(solver, Pos("in", Candidates))
  /\ UNCHANGED <<input, psc, onerunonly, walk, spsc, test, result>>

SolveMore ==
  /\ pc = "solve more"
  /\ \E s \in Results(solver) :
       /\ IF s.st = "UNSAT"
            THEN pc' = "next" /\ todo' = spsc /\ spsc' = spsc /\ solver' = Freed
            ELSE /\ pc' = "ask more" /\ todo' = todo /\ solver' = s
                 /\ spsc' = spsc \cup {a \in s.val.in \ (grounded.in \cup grounded.out) :
                                         a \in psc /\ a \notin Members}
  /\ UNCHANGED <<input, psc, onerunonly, walk, test, result>>

(* The next argument to test, with two new solvers. *)
StartTest ==
  /\ pc = "next"
  /\ \E a \in todo :
       /\ arg' = a
       /\ todo' = todo \ {a}
       /\ admTest' =
            AddClauses(NewSolver(AdmModels(relation, grounded), Nothing),
                       Units(Pos("in", Members)))
       /\ attAdmTest' =
            Fixed(NewSolver(AttAdmModels(relation, grounded), PairOf(Nothing, Nothing)))
  /\ pc' = "attack"
  /\ UNCHANGED <<input, core, walk, spsc, result>>

(* An admissible set attacking one with the argument; if there is none, the *)
(* argument is accepted.                                                    *)
SolveAttack ==
  /\ pc = "attack"
  /\ \E s \in Results(Assume(attAdmTest, Pos("in_attacked", {arg}))) :
       IF s.st = "UNSAT"
         THEN /\ accepted' = Append(accepted, arg) /\ pc' = "next"
              /\ admTest' = Freed /\ attAdmTest' = FreedPair
         ELSE /\ accepted' = accepted /\ pc' = "extend"
              /\ admTest' = admTest /\ attAdmTest' = s
  /\ UNCHANGED <<input, core, i, changed, spsc, todo, arg, result>>

(* Can it be extended by the argument?  If not, the argument is rejected. *)
SolveExtension ==
  /\ pc = "extend"
  /\ \E s \in Results(Assume(admTest, Pos("in", {arg} \cup attAdmTest.val.in))) :
       IF s.st = "UNSAT"
         THEN pc' = "next" /\ admTest' = Freed /\ attAdmTest' = FreedPair
         ELSE pc' = "refine" /\ admTest' = s /\ attAdmTest' = attAdmTest
  /\ UNCHANGED <<input, core, walk, spsc, todo, arg, result>>

(* If so, the next attacking set must not be a subset of the extension. *)
ExcludeExtension ==
  /\ pc = "refine"
  /\ attAdmTest' = AddClause(attAdmTest, Pos("in", Missing(admTest.val)))
  /\ pc' = "attack"
  /\ UNCHANGED <<input, core, walk, spsc, todo, arg, admTest, result>>

PrintAcc ==
  /\ pc = "next" /\ todo = {}
  /\ result' = Members
  /\ pc' = "done"
  /\ UNCHANGED <<input, core, walk, spsc, todo, test>>

EaNext ==
  \/ PrintGrounded
  \/ KeepDefensible
  \/ WalkDone
  \/ AskMore
  \/ SolveMore
  \/ StartTest
  \/ SolveAttack
  \/ SolveExtension
  \/ ExcludeExtension
  \/ PrintAcc

-----------------------------------------------------------------------------
(* The tasks that start from the preferred super-core, in one               *)
(* specification: the loops of SuperCore, then the end of compute_ideal or  *)
(* the other loops of solve_eapr.                                           *)
vars == <<input, core, walk, result, pc, tests>>

Init == CoreInit /\ EaInit

Next ==
  \/ SharedNext /\ UNCHANGED tests
  \/ IdealNext /\ UNCHANGED tests
  \/ EaNext

(* Sequential code over solvers that always answer. *)
Spec == Init /\ [][Next]_vars /\ WF_vars(Next)

-----------------------------------------------------------------------------
EaTypeOK ==
  /\ spsc \in SUBSET Arg /\ todo \in SUBSET spsc
  /\ arg \in Arg
  /\ admTest.asm = {} /\ attAdmTest.asm = {}

Testing == pc \in {"next", "attack", "extend", "refine"}

(* acc only ever holds arguments of every preferred extension, none twice,  *)
(* and none is lost: it is in acc, waits for its test, or is being tested.  *)
(* The tests build acc into their solvers, so a wrong member would corrupt  *)
(* all the later answers.                                                   *)
AcceptedExact ==
  Testing =>
    /\ Members \subseteq SkepticallyPreferred(relation)
    /\ Members \cap todo = {}
    /\ SkepticallyPreferred(relation) \subseteq
         Members \cup todo \cup (IF pc = "next" THEN {} ELSE {arg})

TypeOK ==
  /\ SharedTypeOK
  /\ EaTypeOK
  /\ pc \in {"ask", "solve", "read", "core", "walk", "ask more", "solve more",
             "next", "attack", "extend", "refine", "done"}

(* compute_ideal returns the ideal extension, and solve_eapr prints the set *)
(* of all arguments that are in every preferred extension.                  *)
ResultCorrect ==
  pc = "done" =>
    IF track = "ID" THEN IsIdeal(relation, result)
                    ELSE result = SkepticallyPreferred(relation)

(* The function returns. *)
Termination == <>(pc = "done")

=============================================================================
